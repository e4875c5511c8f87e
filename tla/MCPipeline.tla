----------------------------- MODULE MCPipeline -----------------------------
(***************************************************************************)
(* Pipeline over the real registry, restricted to the flows, sources,      *)
(* domains and tables a configuration names.  Dates 1 and 2 lie in the     *)
(* same month, date 3 in the next one.                                     *)
(***************************************************************************)
EXTENDS PipelineContract, Registry, TLC

MCSourceNames == [f \in Flows |-> SelectSeq(SOURCE_NAMES[f], LAMBDA s : s \in Sources)]
MCDomainNames == [f \in Flows |-> SelectSeq(DOMAIN_NAMES[f], LAMBDA d : d \in Domains)]
MCDomainInputs == [f \in Flows |-> [d \in Domains |-> DOMAIN_INPUTS[d]]]
MCCleanKey == [s \in Sources |-> CLEAN_KEY[s]]
MCRawFile == [s \in Sources |-> RAW_FILE[s]]
MCFiles == {RAW_FILE[s] : s \in Sources}
MCInputs == {CLEAN_KEY[s] : s \in Sources} \cup UNION {DOMAIN_INPUTS[d] : d \in Domains}
MCPrimary == [d \in Domains |-> PRIMARY[d]]
MCDomainTables ==
  [d \in Domains |-> SelectSeq(DOMAIN_TABLES[d], LAMBDA t : t \in Tables)]
MCCarrier == [t \in Tables |-> CARRIER[t]]
MCMappingSeq == SelectSeq(MAPPINGS, LAMBDA m : m \in Mappings)
MCAggSource == [m \in Mappings |-> AGG_SOURCE[m]]

\* Row 1 is a sale in complex c1, any other row one in c2, of the same district:
\* the average per square metre of a complex is of its own sales, that of its
\* district of both.
MCEntities == {"c1", "c2"}
SalesOf(e) == {k \in Keys : (e = "c1") = (k = 1)}
MCLists == [m \in Mappings |-> [e \in MCEntities |-> SalesOf(e)]]
MCAverages ==
  [m \in Mappings |-> [e \in MCEntities |->
    IF m = "complex_price_per_sqm" THEN SalesOf(e) ELSE Keys]]

Month(d) == IF d <= 2 THEN 1 ELSE 2
MCDirDate ==
  [f \in Files |-> [d \in Dates |->
    IF f \in MONTH_DATED
    THEN CHOOSE x \in Latest({y \in Dates : Month(y) = Month(d)}) : TRUE ELSE d]]
\* Rows are keyed by month: a one-day window touches two months on the first
\* day of a month only, a 31-day window always does.
MCWindow ==
  [f \in Flows |-> [d \in Dates |->
    Keys \cap IF f = "monthly" THEN {Month(d) - 1, Month(d)}
              ELSE {Month(IF d > 1 THEN d - 1 ELSE 1), Month(d)}]]

Symmetry == Permutations(Runs)
=============================================================================
