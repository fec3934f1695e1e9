SPECIFICATION Spec
CONSTANTS
  Clients = {"client"}
  RacingWorkers = {1, 2}
  RacingEntries = 4
  SerialEntries = 9
  MaxKeys = 1
  Tenants = {"t1", "t2"}
  Named = {"t1"}
  Tokens = {"a", "b"}
  FallbackToken = "a"
  NoToken = "none"
  GlobalBot = "global"
  Editors = {"editor"}
  MaxEdits = 2
  MaxFailures = 1
  BotUpdates <- MCAsked
  BotStarts = 3
  ChatUpdates <- MCTalked
  ChatStarts = 2
  Ids = {1, 2}
  OVPN = {2}
  Testers = {"tester"}
  MaxFiles = 2
  Places = {1, 2, 3}
  QwenPlaces = {1, 2}
  SeedModels <- MCSeedModels
  SeedAgents <- MCSeedAgents
  Ensured <- MCEnsured
  MaxModels = 3
  MaxAgents = 3
  Budgets <- MCBudgets
  DAY = 2
  SummaryHour = 1
  ReportingDays = 5
  Soon = 3
  Horizon = 4
  StuckWarning = 2
  StuckCritical = 3
  MaxDays = 6
  AllKeys = {"key"}
  Requests = {1, 2}
  TTL = 2
  MaxLookup = 1
  KeyTime = 4
  Addresses = {"a", "b"}
  Rps = 2
  RateTime = 3
  PortalClients = {1, 2}
  Emails = {"one", "other"}
  EmailOf <- MCEmailOf
  LinkLife = 1
  SessionLife = 1
  Links = {1, 2}
  PortalSessions = {1, 2}
  PortalTime = 2
  Browsers = {1, 2}
  Life = 1
  PanelSessions = {1, 2}
  PanelTime = 2
  MaxRestarts = 1
  FormClients = {1, 2, 3}
  NameOf <- MCNameOf
  Clean <- MCClean
  Templates <- MCTemplates
  Broken = {"r.html.tpl"}
  Orders = {1, 2}
  MaxChanges = 1
INVARIANTS TypeOK StageRecorded DeadlinesAreAnnounced RateIsBounded UsableIsUsed ServedByInvitation
PROPERTIES BotsFollowTenants EveryUpdateReplied DecisionsAreRecent
CHECK_DEADLOCK FALSE
