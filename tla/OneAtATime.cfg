CONSTANTS
  ProfileIds = {p1, p2}
  Everyone = everyone
  RuleIds = {f1, f2}
  GwIds = {u1, u2}
  Devices = {d1, d2}
  AllClients = all
  Bodies = {b1, t1}
  Timed = {t1}
  Handlers = {h1}
  Kinds = {"RuleCreate", "RuleUpdate", "RuleDelete", "ProfileCreate", "ProfileUpdate", "ProfileDelete", "Enroll", "Pause", "Unpause", "Grant", "Janitor", "AppDelete", "Crash"}
  Loaded <- Growing
  MaxFaults = 1
  None = None
  Foreign = Foreign
SYMMETRY Permuted
SPECIFICATION Spec
CONSTRAINT Passes
INVARIANTS OnePause OneProfilePerDevice RulesHaveProfile RulesHaveDevices NothingLeftBehind InSync
