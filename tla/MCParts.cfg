SPECIFICATION PartsSpec
CONSTANTS
  p1 = p1
  p2 = p2
  f1 = f1
  PRs <- MCPRs
  Forks <- MCForks
  Main = main
  MaxEvents = 4
  Runs = {"b1", "b2"}
  Commits = {"x", "y"}
  Posters = {"w1", "w2"}
  Overlap = FALSE
  MaxPosts = 4
  Keys = {"site", "b1", "b2"}
  Site = "site"
  NameOf <- MCZrokNameOf
  Quota = 2
  MaxShares = 3
  MaxRestarts = 1
  PubKeys = {"a1", "a2", "b"}
  PreviewOf <- MCPreviewOf
  PubName <- MCPubName
  MaxEntries = 2
  MaxSweeps = 1
  MaxStops = 1
  Secrets = {"s", "t"}
  MasterKeys = {"k1", "k2"}
  Requests = {"r1", "r2"}
  MaxOpens = 2
  MaxOps = 4
  MaxKilled = 1
  Domains = {"d1", "d2"}
  OutDirs = {"a", "b"}
  Roles = {"reader"}
  MaxProvisions = 3
  MaxIdentities = 4
  Heads = {"x", "y"}
  MaxCalls = 3
  MaxTroubles = 2
  MaxPages = 3
  Panels = {"q"}
  Cli = "cli"
  EnvIds = {"e1", "e2"}
  OldEnvs = {}
  Forms <- MCForms
  MaxSteps = 3
  MaxFaults = 1
SYMMETRY MCSym
INVARIANT PartsTypeOK
 
 
INVARIANT SiteIsOfItsCommit
INVARIANT NothingLeftRunning
 
 
 
INVARIANT HeldIsServed
INVARIANT SecretsAreReadable
INVARIANT DoneIsUsable
INVARIANT NothingTwice
 
PROPERTY BranchNameStays
PROPERTY AccountKept
CHECK_DEADLOCK FALSE
