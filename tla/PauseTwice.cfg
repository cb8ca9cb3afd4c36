CONSTANTS
  ProfileIds = {p1}
  Everyone = everyone
  RuleIds = {f1, f2}
  GwIds = {u1, u2, u3}
  Devices = {d1}
  AllClients = all
  Bodies = {b1}
  Timed = {}
  Handlers = {h1, h2}
  Kinds = {"Pause"}
  Loaded <- OneEach
  MaxFaults = 0
  None = None
  Foreign = Foreign
SYMMETRY Permuted
SPECIFICATION Spec
INVARIANTS OnePause
