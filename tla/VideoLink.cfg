CONSTANTS
  HeaderLength = 2
  SendSpace = 4
  ReplySpace = 1
  FrameSizes = {0, 3}
  MaxImages = 2
  WildSizes = {0, 1, 2}
  StateResidue = {"initialized", "invalid"}
SPECIFICATION FairSpec
INVARIANTS
  LagBounded
  StrongInv
  FramingHolds
  ShownHasArrived
  OverrunBound
  RepliesMatchShown
  StuckOnlyAfterReplySpace
  NothingLeftOut
  DisplayBound
PROPERTIES
  ClientEndsOrStuck
  ReceiverEndsOrSpins
  ArrivedIsShown
  OverrunNeedsPipelining
  ImplementsDelivery
