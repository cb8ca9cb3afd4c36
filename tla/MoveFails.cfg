CONSTANTS
  Devices = {d1, d2}
  Callers = {j1}
  Limit = 2
  Groups = {a, b}
  Names = {n1}
  MaxJobs = 1
  MaxFaults = 1
  Mixes <- JustMoves
  None = None
SPECIFICATION Spec
INVARIANTS FirstFailureChangesNothing
