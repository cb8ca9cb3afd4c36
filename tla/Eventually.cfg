CONSTANTS
  ProfileIds = {p1}
  Everyone = everyone
  RuleIds = {f1}
  GwIds = {u1, u2}
  Devices = {d1}
  AllClients = all
  Bodies = {b1, t1}
  Timed = {t1}
  Handlers = {h1}
  Kinds = {"RuleCreate", "RuleUpdate", "Janitor", "AppDelete", "Elapse", "Crash"}
  Loaded <- OneEach
  MaxFaults = 2
  None = None
  Foreign = Foreign
SPECIFICATION FairSpec
PROPERTIES OrphansGo VanishedGo SpentGo
