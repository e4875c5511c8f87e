SPECIFICATION Spec
CHECK_DEADLOCK FALSE
CONSTANTS
  r1 = r1
  r2 = r2
  Runs = {r1, r2}
  Flows = {"daily", "monthly"}
  Dates = {1, 3}
  Keys = {1, 2}
  Sources = {"real_trade", "population", "supply"}
  Domains = {"price", "supply_demand"}
  Tables = {"ts_real_trade", "ts_supply", "ts_population"}
  Mappings = {"complex_price_per_sqm", "complex_district_avg_price"}
  Known = {"c1", "c2"}
  MayAge = {1}
  MaxActive = 1
  Faults = {"collect", "gate", "clean", "load", "push"}
  Inputs <- MCInputs
  Files <- MCFiles
  SourceNames <- MCSourceNames
  CleanKey <- MCCleanKey
  RawFile <- MCRawFile
  DirDate <- MCDirDate
  Window <- MCWindow
  DomainNames <- MCDomainNames
  DomainInputs <- MCDomainInputs
  Primary <- MCPrimary
  DomainTables <- MCDomainTables
  Carrier <- MCCarrier
  MappingSeq <- MCMappingSeq
  AggSource <- MCAggSource
  Entities <- MCEntities
  Lists <- MCLists
  Averages <- MCAverages
  NoFile = NoFile
SYMMETRY Symmetry
INVARIANTS GateRespected LoadedRowsExact BadRowsAreStale AggregatesCurrent
