SPECIFICATION Spec
CONSTANTS
  Pictures <- MCPictures
  Times <- MCTimes
  FileLengths <- MCFileLengths
  FileStarts <- MCFileStarts
  Garbage <- MCGarbage
  Stray <- MCStray
  MaxMessages = 2
  MaxTurns = 3
INVARIANTS
  ReverseOfGeneration
  PictureDescribed
  ReadersAgree
  MisuseIsRejection
  KeptByReceiver
  KeptBySender
  FrameAllocated
  FrameInBuffer
  IInv
PROPERTIES
  ImplementsTransfer
