CONSTANTS
  HeaderLength = 2
  SendSpace = 4
  ReplySpace = 2
  FrameSizes = {3}
  MaxImages = 1
  WildSizes = {1}
  StateResidue = {"initialized"}
SPECIFICATION FairSpec
PROPERTY ReceiverEnds
