------------------------------ MODULE Registry ------------------------------
(***************************************************************************)
(* The static tables of the pipeline: which sources and domains each flow  *)
(* has, which clean key and raw file a source has, what a domain needs and *)
(* which hypertables it fills.                                             *)
(***************************************************************************)
EXTENDS Naturals, Sequences

\* SOURCE_NAMES of daily_flow.py, weekly_flow.py and monthly_flow.py.
SOURCE_NAMES ==
  [daily   |-> <<"real_trade", "interest_rate", "exchange_rate">>,
   weekly  |-> <<"price_index", "loan_rate", "sentiment", "complex_info">>,
   monthly |-> <<"liquidity", "population", "migration", "supply", "unsold",
                 "macro_index">>]

\* The keys and the values of DOMAINS in the same files.
DOMAIN_NAMES ==
  [daily   |-> <<"price", "macro">>,
   weekly  |-> <<"cycle", "sentiment">>,
   monthly |-> <<"macro", "supply_demand", "cycle">>]

DOMAIN_INPUTS ==
  [price         |-> {"molit_trade"},
   macro         |-> {"bok_ecos"},
   cycle         |-> {"reb_index", "bok_ecos"},
   sentiment     |-> {"sentiment"},
   supply_demand |-> {"molit_supply", "population", "migration"}]

\* SOURCES: the clean key of each source.
CLEAN_KEY ==
  [real_trade    |-> "molit_trade",    interest_rate |-> "bok_ecos",
   exchange_rate |-> "bok_ecos",       price_index   |-> "reb_index",
   loan_rate     |-> "loan_rates",     sentiment     |-> "sentiment",
   complex_info  |-> "molit_building", liquidity     |-> "bok_ecos",
   macro_index   |-> "kosis",          population    |-> "kosis",
   migration     |-> "kosis",          supply        |-> "molit_supply",
   unsold        |-> "molit_supply"]

\* The raw file a source's collector writes: one per clean key, except that the
\* KOSIS series have a file per statistic ({stat_id}.parquet).
RAW_FILE ==
  [s \in DOMAIN CLEAN_KEY |->
    IF CLEAN_KEY[s] = "kosis" THEN "kosis_" \o s ELSE CLEAN_KEY[s]]

\* Collectors that date their directory with the last day of the month asked
\* for, not with the end date of the run.
MONTH_DATED == {"molit_trade", "molit_supply"}

\* The input whose absence makes transform_domain raise (required=True).
PRIMARY ==
  [price |-> "molit_trade", macro |-> "bok_ecos", cycle |-> "reb_index",
   sentiment |-> "sentiment", supply_demand |-> "molit_supply"]

DOMAIN_TABLES ==
  [price         |-> <<"ts_real_trade">>,
   macro         |-> <<"ts_interest_rate", "ts_exchange_rate", "ts_liquidity",
                       "ts_macro_index">>,
   cycle         |-> <<"ts_price_index">>,
   supply_demand |-> <<"ts_supply", "ts_population", "ts_migration", "ts_income",
                       "ts_unsold">>,
   sentiment     |-> <<"ts_sentiment">>]

\* The input whose columns each table takes (COLUMN_RENAMES and the columns of
\* _spec); no collector that reaches the macro domain has the columns of the
\* last three.
CARRIER ==
  [ts_real_trade    |-> "molit_trade",  ts_interest_rate |-> "bok_ecos",
   ts_price_index   |-> "reb_index",    ts_sentiment     |-> "sentiment",
   ts_supply        |-> "molit_supply", ts_unsold        |-> "molit_supply",
   ts_population    |-> "population",   ts_income        |-> "population",
   ts_migration     |-> "migration",
   ts_exchange_rate |-> "none", ts_liquidity |-> "none", ts_macro_index |-> "none"]

\* MAPPINGS of timescale_to_typedb.py, in order, and the table they aggregate.
MAPPINGS == <<"complex_price_per_sqm", "complex_district_avg_price">>
AGG_SOURCE ==
  [complex_price_per_sqm |-> "ts_real_trade",
   complex_district_avg_price |-> "ts_real_trade"]
=============================================================================
