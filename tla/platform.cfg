SPECIFICATION ConsoleSpec
CONSTANTS
  Limit = 2
  MaxHistory = 3
  MaxEvents = 2
  MaxHandMishaps = 1
  MaxHandCrashes = 1
  Agents = {ann, bob}
  MaxConcurrent = 1
  Desks = {d1, d2}
  MaxDeskFaults = 1
  Editors = {e1, e2}
  RouteChannels = {x1}
  MaxRev = 3
  MaxSettingsFaults = 1
  Channels = {x1, x2, w1}
  Unserved = {w1}
  MaxChanges = 4
  MaxWiringFaults = 1
  RetryMax = 2
  MaxIssued = 4
  MaxTokenFaults = 2
  SwitchKeys = {triage, scene}
  MaxWrites = 3
  MaxSwitchFaults = 2
  MaxRestarts = 1
  Publishers = {p1, p2}
  MaxVersion = 3
  MaxStoreFaults = 1
  Callers = {c1, c2}
  MaxEdits = 3
  MaxAppFaults = 1
  Repairers = {r1, r2}
  MaxTechniques = 2
  MaxRetrievalFaults = 1
  Writers = {r1, r2}
  MaxRevisions = 3
  MaxPromptWrites = 2
  MaxPromptFaults = 1
  Lines = {l1, l2}
  Admins = {a1, a2}
  MaxModelWrites = 2
  MaxModelFaults = 1
  MaxMade = 6
  MaxJobs = 4
  MaxProvFaults = 2
  e1 = e1
  e2 = e2
  x1 = x1
  x2 = x2
  w1 = w1
  p1 = p1
  p2 = p2
  c1 = c1
  c2 = c2
  r1 = r1
  r2 = r2
  l1 = l1
  l2 = l2
  a1 = a1
  a2 = a2
  triage = triage
  scene = scene
  ann = ann
  bob = bob
  d1 = d1
  d2 = d2
  MaxSends = 2
  MaxPartitions = 2
  Requests = {q1, q2, q3}
  MaxRequests = 1
  RateWindow = 3
  BurstWindow = 2
  BurstThreshold = 1
  CooldownTicks = 1
  Lag = 1
  MaxTicks = 4
  MaxLimitFaults = 1
  Handlers = {h1, h2}
  AccessTtl = 1
  RefreshTtl = 3
  HandlerLag = 1
  MaxSessionTicks = 4
  MaxPairs = 2
  MaxAccessFaults = 1
  WriteRequests = {q1, q2, q3}
  BufferSize = 1
  MaxAuditFaults = 1
  MaxFacts = 2
  q1 = q1
  q2 = q2
  q3 = q3
  h1 = h1
  h2 = h2
INVARIANTS
  AllowedWithinLimit CarriedFaithfully InactiveFadesOut TrailTrue FactsDecide
  AckedMeansHandedOver HistoryHandedOver OneChatwootConversation
  SettingsKept ReportedInvalidationHolds ServingFollowsRows TokenIsNewest SwitchesNeverGoBack
  LastPublishIsActive ConfirmedPartsHold RepairedStaysSound
  AlarmMeansEdited AnswersWithItsTier NoSilentOrphan
CHECK_DEADLOCK FALSE
