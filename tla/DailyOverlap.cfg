SPECIFICATION FairSpec
CHECK_DEADLOCK FALSE
CONSTANTS
  r1 = r1
  r2 = r2
  Runs = {r1, r2}
  Flows = {"daily"}
  Dates = {1}
  Keys = {1}
  Sources = {"interest_rate", "exchange_rate"}
  Domains = {"macro"}
  Tables = {"ts_interest_rate", "ts_real_trade"}
  Mappings = {"complex_price_per_sqm"}
  Known = {"c1"}
  MayAge = {}
  MaxActive = 2
  Faults = {"collect", "gate", "clean", "connect", "transform", "load", "query", "push", "sync", "signals", "crash"}
  Inputs <- MCInputs
  Files <- MCFiles
  SourceNames <- MCSourceNames
  CleanKey <- MCCleanKey
  RawFile <- MCRawFile
  DirDate <- MCDirDate
  Window <- MCWindow
  DomainNames <- MCDomainNames
  DomainInputs <- MCDomainInputs
  Primary <- MCPrimary
  DomainTables <- MCDomainTables
  Carrier <- MCCarrier
  MappingSeq <- MCMappingSeq
  AggSource <- MCAggSource
  Entities <- MCEntities
  Lists <- MCLists
  Averages <- MCAverages
  NoFile = NoFile
INVARIANTS TypeOK CountedOnce ReportComplete SuccessMeansSynced
PROPERTIES ContractKept RunsEnd
