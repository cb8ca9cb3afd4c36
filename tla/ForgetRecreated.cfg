CONSTANTS
  ProfileIds = {p1}
  Everyone = everyone
  RuleIds = {f1}
  GwIds = {u1, u2}
  Devices = {d1}
  AllClients = all
  Bodies = {b1}
  Timed = {}
  Handlers = {h1}
  Kinds = {"RuleCreate", "RuleUpdate", "Janitor", "AppDelete"}
  Loaded <- OneEach
  MaxFaults = 0
  None = None
  Foreign = Foreign
SYMMETRY Permuted
SPECIFICATION Spec
INVARIANTS ForgetsOnlyVanished
