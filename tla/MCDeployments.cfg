CONSTANTS
  b1 = b1
  b2 = b2
  c1 = c1
  c2 = c2
  x = x
  y = y
  p1 = p1
  p2 = p2
  m1 = m1
  m2 = m2
  o1 = o1
  o2 = o2
  Binding = {b1, b2}
  MaxCommit = 1
  Slots = 1
  Run = {r1, r2}
  Manifest <- MCManifest
  Databases <- MCDatabases
  MaxCopies = 2
  Clone = {c1, c2}
  BrName = {x, y}
  BrService = {s1}
  Rounds = 2
  Growing <- MCGrowing
  Excluding = {TRUE, FALSE}
  SvBranch = {p1, p2}
  SvName = {m1, m2}
  SvOp = {o1, o2}
  MaxId = 2
  MaxFaults = 1
  LaneService = {s1, s2}
  MaxPort = 3
  Attempts = 3
  MaxForeign = 1
  MaxQueue = 1
  Desks = {"git", "templates", "lanes"}
SPECIFICATION FairWorkSpec
INVARIANTS RowIsTrue 
PROPERTIES SettlesAnswer SecretsKept DeploymentEnds LanesSettle
CHECK_DEADLOCK FALSE
