SPECIFICATION ServicesSpec
VIEW MovingPart
CONSTANTS
  Part = {"batcher", "schedules", "policies", "enrolment", "access", "form",
          "registries", "order", "rows", "picker", "browser", "health"}
  r1 = r1
  r2 = r2
  d1 = d1
  d2 = d2
  m1 = m1
  x1 = x1
  x2 = x2
  k1 = k1
  k2 = k2
  f1 = f1
  v1 = v1
  v2 = v2
  i1 = i1
  t1 = t1
  Reporter = {r1, r2}
  Container = {d1, d2}
  OwnerOf <- OwnerOfContainers
  UpdateOutcome = {good, bad}
  FailedOutcome = {bad}
  Channel = {c1}
  MaxLogFaults = 1
  NoBatch = NoBatch
  ScheduledAgent = {g1}
  Cron = {k1, k2}
  DefaultCron = k1
  NoCron = NoCron
  Put = {p1, p2}
  NoPut = NoPut
  MaxTasks = 1
  MaxDelayed = 1
  PolicyAgent = {b1}
  PolicyField = {f1, f2}
  PolicyValue = {v1, v2}
  DefaultPolicy <- DefaultPolicyFields
  NoPolicy = NoPolicy
  Edit = {e1, e2}
  NoEdit = NoEdit
  Machine = {m1}
  NameOf <- NameOfMachines
  Socket = {x1, x2}
  MachineOf <- MachineOfSockets
  RowId = {o0, o1}
  LocalRow = o0
  LocalMachine = m1
  Token = {t1, t2}
  FirstToken <- FirstTokens
  MaxRecovery = 1
  NoRow = NoRow
  Nothing = Nothing
  Secret = {s1}
  Use = {u1}
  NoSecret = NoSecret
  NoticeChannel = {h1}
  ConfigValue = {y1}
  Mangled = Mangled
  Blank = Blank
  NoChannel = NoChannel
  Credential = {z1}
  RegistryLogin = {l1}
  Password = {q1}
  BlankField = BlankField
  NoCredential = NoCredential
  Puller = {a1}
  Task = {w1, w2}
  NoRequest = NoRequest
  Target = {n1, n2, n3}
  Dependency = {n1, n2}
  Priority = {1, 100}
  DefaultPriority = 100
  LabelDependsOn <- NoLabel
  NoSelf = NoSelf
  Service = {j1}
  Stateful = {}
  DockerId = {i1, i2}
  FirstId <- FirstIds
  Level = {Unset, "patch"}
  LabelSettings <- LabelAuto
  UiSettings <- JustManual
  Candidate <- Version200
  CurrentVersion <- Version100
  Unparsed = Unparsed
  Unset = Unset
  NoId = NoId
  MaxInbox = 1
  Image = {j2, j3}
  Tag = {j4}
  NoImage = NoImage
  NoTag = NoTag
  Action = {"restart", "check"}
  Check = "check"
  NoAction = "none"
  MaxVersion = 1
  MaxEvents = 1
  MaxCtr = 4
  MaxAsked = 2
  Handler = {h2, h3}
  Detector = Detector
INVARIANTS
  JudgedOnce
  RevokedStaysOut
  ServicesTypeOK
  TimersBelongToBatches
  AnnouncedOnce
  TasksFollowRows
  SecretsAreShownOnce
  UpdatesInOrder
  StaleViewHasTrigger
  FinishedShowsNoProgress
  AdmittedByOwnToken
  CredentialsReachAgents
PROPERTIES
  EditsKeepOtherFields
  EditsAndSwitchesCommute
  AutoUpdateHonoursSettings
  RollbackReachesShownImage
