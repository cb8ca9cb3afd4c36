CONSTANTS
  ProfileIds = {p1}
  Everyone = everyone
  RuleIds = {f1}
  GwIds = {u1, u2, u3}
  Devices = {d1}
  AllClients = all
  Bodies = {b1}
  Timed = {}
  Handlers = {h1, h2}
  Kinds = {"RuleCreate", "RuleDelete", "ProfileUpdate", "Janitor", "AppDelete", "AppCreate"}
  Loaded <- OneEach
  MaxFaults = 1
  None = None
  Foreign = Foreign
SYMMETRY Permuted
SPECIFICATION Spec
INVARIANTS TypeOK OrphanOnly
PROPERTIES ForeignUntouched
