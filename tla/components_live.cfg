SPECIFICATION ComponentsFairSpec
CONSTANTS
  Parts = {"offers", "session", "registry", "identity", "training"}
  j1 = j1
  NoWork = NoWork
  SelfTest = SelfTest
  AgentJobs = {j1}
  AgentTokens = 2
  AgentRestarts = 1
  AgentTests = 1
  m1 = m1
  Machines = {m1}
  NoEntry = NoEntry
  RegistryEvents = 3
  f1 = f1
  f2 = f2
  Flows = {f1, f2}
  MaxRetries = 2
  NodeIds = 2
  Challenges = 2
  Overlap = 2
  k1 = k1
  k2 = k2
  Keys = {k1, k2}
  NoKey = NoKey
  a1 = a1
  Accounts = {a1}
  NoAccount = NoAccount
  s1 = s1
  s2 = s2
  Senders = {s1, s2}
  u1 = u1
  u2 = u2
  Uploaders = {u1, u2}
  MaxJobs = 3
  ActiveJobs = 1
  JobsPerHour = 1
  BytesPerDay = 3
  MaxSize = 2
  Cards = 2
  Speeds = {0, 1, 2}
  Batches = {2, 3}
  Unlimited = 3
  Steps = 3
  CheckEvery = 2
  MaxLabel = 2
  MaxRows = 2
  MaxRuns = 2
  HoldoutCap = 2
PROPERTIES
  OfferIsWithdrawn
  RefusedTokenGoes
  SwitchSticks
  SilentIsDisconnected
  AliveIsConnected
  ConnectEnds
  TrainingEnds
CHECK_DEADLOCK FALSE
