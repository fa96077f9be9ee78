SPECIFICATION FairSpec
CONSTANTS
  Ids = {"i"}
  Modes = {"stateful", "stateless"}
  MaxAuth = 2
  MaxControl = 1
  MaxTools = 2
  MaxSessions = 1
  Turns = {"t1", "t2"}
  Convs = {"c1", "c2"}
  NoConv = NoConv
  Keys = {"k1", "k2"}
  Calls = {"x", "y"}
  NoKey = "none"
  Projects = {"p1", "p2"}
  Agents = {"a"}
  Off = Off
  StreamEvents = 3
  Items = {1, 2, 3}
  Folders = {1}
  Whole = 9
  Shelves = {"c1"}
  NoShelf = "none"
  Home = "c1"
  Names = {1, 2}
  FirstName = 1
  Limit = 1
  MaxClock = 1
  MaxCalls = 2
  MaxRules = 1
  Early = {1, 2}
  Browsers = {"b1", "b2"}
  Sessions = {"s1", "s2"}
  MaxPassword = 2
  Nobody = "nobody"
  Pages = {"p1", "p2"}
  Roots = {"a", "b", "c"}
  FirstRoot = "a"
  Torn = "c"
  NoRoot = "none"
  Providers = {"none", "anthropic"}
  MaxValue = 1
  MaxSaves = 2
  Edits = 1
  Mixed = FALSE
  Models = {"m1", "m2"}
  NoModel = "none"
  FirstModel = "m1"
  MaxGens = 4
  Indexed = {"d"}
  MaxVersion = 2
  Workers = {"w1", "w2"}
  NoWorker = "nobody"
  Lost = "lost"
  Disturbances = 2
  Uploaded = {"d1", "d2"}
  MaxStarts = 3
  Colls = {"c1", "c2"}
  NoColl = "none"
  MaxMigs = 2
  MaxFilter = 1
  Purged = {"d"}
  None = "none"
  Parts = {"gateway", "semantic", "relocation"}
  Slots = {"s1", "s2"}
  Reqs = {"r1", "r2"}
  Relocations = 1
INVARIANTS SessionCapacity NoSessionAfterShutdown
PROPERTIES AlwaysAnswered DesiredServed MigrationEnds
CHECK_DEADLOCK FALSE
