SPECIFICATION Spec
CHECK_DEADLOCK FALSE
CONSTANTS
  r1 = r1
  r2 = r2
  Runs = {r1, r2}
  Flows = {"weekly", "monthly"}
  Dates = {1, 2}
  Keys = {1}
  Sources = {"price_index", "liquidity"}
  Domains = {"macro", "cycle"}
  Tables = {"ts_price_index", "ts_interest_rate", "ts_real_trade"}
  Mappings = {"complex_price_per_sqm"}
  Known = {"c1"}
  MayAge = {}
  MaxActive = 1
  Faults = {"gate"}
  Inputs <- MCInputs
  Files <- MCFiles
  SourceNames <- MCSourceNames
  CleanKey <- MCCleanKey
  RawFile <- MCRawFile
  DirDate <- MCDirDate
  Window <- MCWindow
  DomainNames <- MCDomainNames
  DomainInputs <- MCDomainInputs
  Primary <- MCPrimary
  DomainTables <- MCDomainTables
  Carrier <- MCCarrier
  MappingSeq <- MCMappingSeq
  AggSource <- MCAggSource
  Entities <- MCEntities
  Lists <- MCLists
  Averages <- MCAverages
  NoFile = NoFile
INVARIANT OnlyGoodRows
