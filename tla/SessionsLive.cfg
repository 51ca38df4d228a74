SPECIFICATION FairSpec
CONSTANTS
  Parent = Parent
  Listen = Listen
  NoClient = NoClient
  Clients = {c1, c2}
  Backlog = 1
  MaxProcesses = 1
PROPERTIES QueuedIsSettled EndedIsClosed
