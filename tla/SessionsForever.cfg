SPECIFICATION Spec
CONSTANTS
  Parent = Parent
  Listen = Listen
  NoClient = NoClient
  Clients = {c1, c2, c3}
  Backlog = 1
  MaxProcesses = 2
INVARIANT RunsForever
