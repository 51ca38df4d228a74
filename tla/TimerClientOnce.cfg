CONSTANTS
  Images = 5
  LastCount = 5
  Files = {1, 2, 3, 4, 5}
  MaxCount = 7
SPECIFICATION Spec
INVARIANT NoImageTwice
