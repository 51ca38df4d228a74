SPECIFICATION Spec
CONSTANTS
  Parent = Parent
  Listen = Listen
  NoClient = NoClient
  Clients = {c1, c2, c3}
  Backlog = 1
  MaxProcesses = 2
SYMMETRY Symmetry
INVARIANTS IInv ConnectionsSeparate NoStrayListener ReadyMeansConnected KilledOnlyByLoss ClosedWithChild
PROPERTIES ImplementsService CleanStart
