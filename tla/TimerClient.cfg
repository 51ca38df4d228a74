CONSTANTS
  Images = 5
  LastCount = 5
  Files = {2, 4, 5}
  MaxCount = 7
SPECIFICATION FairSpec
INVARIANTS
  TypeOK
  SendsAnswerTicks
  ImagesInTurn
PROPERTIES
  ImplementsTicks
  IdleTickServed
  Terminates
