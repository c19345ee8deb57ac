SPECIFICATION MCSpec
CONSTANTS
  Parts = {"fleet", "traffic", "sockets", "studio", "samples", "mapping", "list", "pages", "schema", "templates", "settings", "entries", "oids", "policy", "restart", "enrolment", "updates", "vault", "keys", "desk", "services", "router", "agents", "update", "store", "files", "assets", "logs", "shell", "overview", "tail"}
  Secrets = {1, 2}
  Stored = {1}
  MaxTasks = 2
  MaxStarted = 2
  MaxVersions = 3
  MaxVersion = 2
  Certificates = {"c"}
  Releases = {"r"}
  Backups = {"b"}
  KeyAdmins = {"x"}
  Officers = {"x", "y"}
  MaxPending = 1
  Users <- People
  PageSize = 1
  MaxStamp = 1
  MaxDialogs = 1
  MaxRuns = 2
  Services = {"s"}
  Permissions = {"p"}
  MaxTokens = 1
  MaxCsrs = 2
  MaxCerts = 2
  MaxOpen = 2
  Commands = {"c"}
  Profiles = {}
  RouterServices = {}
  MaxJobs = 1
  MaxClaims = 1
  Agents <- Machines
  EnrolledAgents = {"a"}
  Policies = {}
  Others = {"block", "reactivate"}
  MaxEnrolments = 0
  MaxIssued = 2
  MaxQueued = 1
  Binaries = {"a", "b", "c"}
  FirstBinary = "a"
  MaxUpdates = 2
  MaxFaults = 1
  MaxCrashes = 1
  MaxEntries = 3
  Roots <- RootPaths
  Below <- Paths
  DirNames = {"d"}
  OnDisk <- PathsAtFirst
  MaxHandlers = 2
  MaxCommands = 4
  FleetAssets = {"a", "b"}
  Observed = {"b"}
  RouterUids = {"a"}
  Ranges = {"1h"}
  Tabs = {"router"}
  Healths <- HealthNames
  HealthOf <- HealthOfEach
  MaxLoads = 1
  MaxSaves = 1
  Views = {"hunt", "agent", "traffic", "asset"}
  Choices = {"c", "d"}
  Texts = {"s", "t"}
  MaxOffset = 1
  MaxAsks = 2
  Alerts = {"x"}
  Accounts <- RoleOf
  MaxFleetLoads = 1
  MaxAlertUpdates = 1
  Reporting = {"a"}
  RegisteredHosts = {"b"}
  Windows = {"r", "s"}
  Queries = {"all", "onlyb", "no"}
  Matches <- MatchesOf
  MaxReads = 2
  MaxDetails = 2
  Sockets = {1, 2}
  Workers = {"w"}
  KeptEvents = 1
  MaxEvents = 1
  MaxPolls = 1
  MaxWire = 1
INVARIANTS ScreensTrue ResultsTrue ServersTrue
CHECK_DEADLOCK FALSE
