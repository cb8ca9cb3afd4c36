CONSTANTS
  Devices = {d1, d2}
  Callers = {j1, j2}
  Limit = 2
  Groups = {a, b}
  Names = {n1}
  MaxJobs = 3
  MaxFaults = 2
  Mixes <- AllMixes
  None = None
SYMMETRY Permuted
SPECIFICATION Spec
INVARIANTS TypeOK ListedOnce MoveDoesWhatItSays OneFaultNeverStrands NamesAgree
