SPECIFICATION FairSpec
CHECK_DEADLOCK FALSE
CONSTANTS
  Focuses = {"heal", "backup", "debate"}
  MaxTime = 2
  Failures = {1, 2, 3}
  Components = {"timescale"}
  Policies <- MCPolicies
  MaxRestarts = 1
  HealFaults = {"crash", "log", "other"}
  Never = Never
  Torn = Torn
  Spoilt = Spoilt
  e1 = e1
  e2 = e2
  d1 = d1
  pr1 = pr1
  Jobs = {e1, e2, d1}
  KindOf <- MCKindOf
  Retain <- MCRetain
  Promotions = {pr1}
  BackupFaults = {"tool", "meta", "crash"}
  NoSnapshot = NoSnapshot
  MaxCalls = 3
  Period = 2
  Agents = {"bull", "bear", "beh", "pol"}
  ModelFaults = {"model"}
  None = None
INVARIANTS TypeOK RecoveriesSpaced SilenceIsCovered ReturnedIsLogged NamedIsImportable WindowRespected DissentPreserved
PROPERTIES FailuresEnd DebateEnds
