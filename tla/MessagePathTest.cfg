SPECIFICATION Spec
CONSTANTS
  Pictures <- MCPictures
  Times <- MCTimes
  FileLengths <- MCFileLengths
  FileStarts <- MCFileStarts
  Garbage <- MCGarbage
  Stray = {}
  MaxMessages = 1
  MaxTurns = 1
PROPERTY TestImagesAccepted
