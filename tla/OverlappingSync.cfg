SPECIFICATION Spec
CHECK_DEADLOCK FALSE
CONSTANTS
  r1 = r1
  r2 = r2
  Runs = {r1, r2}
  Flows = {"daily"}
  Dates = {3}
  Keys = {1, 2}
  Sources = {"real_trade"}
  Domains = {"price"}
  Tables = {"ts_real_trade"}
  Mappings = {"complex_district_avg_price"}
  Known = {"c1"}
  MayAge = {}
  MaxActive = 2
  Faults = {}
  Inputs <- MCInputs
  Files <- MCFiles
  SourceNames <- MCSourceNames
  CleanKey <- MCCleanKey
  RawFile <- MCRawFile
  DirDate <- MCDirDate
  Window <- MCWindow
  DomainNames <- MCDomainNames
  DomainInputs <- MCDomainInputs
  Primary <- MCPrimary
  DomainTables <- MCDomainTables
  Carrier <- MCCarrier
  MappingSeq <- MCMappingSeq
  AggSource <- MCAggSource
  Entities <- MCEntities
  Lists <- MCLists
  Averages <- MCAverages
  NoFile = NoFile
INVARIANT AggregatesCurrent
