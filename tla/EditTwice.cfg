CONSTANTS
  ProfileIds = {p1}
  Everyone = everyone
  RuleIds = {f1}
  GwIds = {u1}
  Devices = {d1, d2}
  AllClients = all
  Bodies = {b1}
  Timed = {}
  Handlers = {h1, h2}
  Kinds = {"RuleCreate", "ProfileUpdate"}
  Loaded <- OneEach
  MaxFaults = 0
  None = None
  Foreign = Foreign
SYMMETRY Permuted
SPECIFICATION Spec
INVARIANTS InSync
