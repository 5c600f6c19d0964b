CONSTANTS
  A1 = A1 A2 = A2 C1 = C1 C2 = C2
  Caller = {A1, A2}
  Commitment = {C1, C2}
  MaxBlocks = 3
  MaxExecutions = 1
  MaxLag = 1
  MaxTorn = 1
  LastUser = 2
  Stranger = Stranger
  MaxAmount = 1
  HashZero = HashZero
  Junk = Junk
  MaxEvents = 3
  MaxRuns = 3
  MaxBuild = 2
  MaxRebuilds = 1
  MaxResets = 1
  Command = {c1, c2}
  Password = {right, misspelt}
  MaxWrites = 3
  MaxPackages = 2
SPECIFICATION OffChainSpec
INVARIANTS CacheTypeOK CacheExact AuditTypeOK FalseAlarmsExplained AnomaliesReported ReportOldestFirst ListedOnce AllowanceHonest TypeOK FileTruthful FactoryWorks StoreTypeOK EntryOpens
PROPERTIES CallsSeeTheirPast EveryCallReturns AuditEnds HashersArrive ScriptEnds FactoryPinned
CHECK_DEADLOCK FALSE
