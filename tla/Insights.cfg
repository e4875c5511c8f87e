SPECIFICATION Spec
CHECK_DEADLOCK FALSE
CONSTANTS
  Focuses = {"verdict", "scan", "alerts", "backtest", "advice", "prices"}
  Missing = Missing
  Raised = Raised
  Datasets <- MCDatasets
  NewRows <- MCNewRows
  SigmaRows <- MCSigmaRows
  UserContexts <- MCContexts
  BiasRows <- MCBiasRows
  MaxLoads = 1
  Metrics <- MCMetrics
  Values <- MCValues
  MaxPoints <- MCMaxPoints
  Lookback = 4
  Threshold = 3
  Window = 3
  NumStd = 2
  DriftSigma = 1
  MeanParts = 4
  Noisy = {"bollinger", "isolation_forest"}
  Districts = {"d1", "d2"}
  AnomalySets <- MCAnomalySets
  Channels = {"slack"}
  MaxAlerts = 3
  MaxClock = 3
  MonthLength <- MCMonthLength
  Horizons = {1, 2}
  Judged = 1
  ROLLING_WINDOW_MONTHS = 3
  VALIDATION_MONTHS = 1
  Prices = {100}
  Predictions = {"buy"}
  ScenarioSets = {{}}
  HOLD_BAND_PCT = 3
  FirstMonth = 4
  LastMonth = 7
  MaxVerdicts = 2
  MaxTrades = 1
  Absent = Absent
  Man = 1
  Unknown = Unknown
  TaxCases <- MCTaxCases
  Sales <- MCSales
  Assessed <- MCAssessed
  PolicyCases <- MCPolicyCases
  Moves <- MCMoves
  Places = {"p1", "p2"}
  Months = {1, 2, 3}
  DaysOfMonth = {1, 2}
  Quotes <- MCQuotes
  MaxSold = 4
  MA_WINDOWS = {2}
  YearRows = 2
  NaN = NaN
INVARIANTS TypeOK ScenariosBracket BuyNamesADrag JumpsReported DedupConserves SamplesMeet AnswersRise DistrictsIsolated
