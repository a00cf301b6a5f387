---------------------------- MODULE Comparison ----------------------------
(***************************************************************************)
(* What the page of a run shows: the table of Results, built of the run of *)
(* Suites while its configurations are measured one after the other.       *)
(***************************************************************************)
EXTENDS Suites, Results

ASSUME OutcomeAssumption == \A k \in Kind : \A result \in Outcome[k] : Numeric(result)

(* runPageData: a configuration that was not measured yet has no values.   *)
Shown == [i \in 1 .. Len(run.columns) |->
            IF i <= Len(run.results) THEN run.results[i] ELSE Unmeasured]

Table == BuildTable(Shown)

(* Every value that some configuration reports is in the table, in its own *)
(* column; the cells of a row that are highlighted are the first of those  *)
(* that no other beats, if the row is rated and there are two to compare   *)
(* (results.go:97-99, :255-263).                                           *)
TableIsRight ==
  LET column == 1 .. Len(Shown)
      table == Table
      v == [row \in Rows(Shown) |-> [i \in column |-> Value(row, Shown[i])]]
      reporting(row) == {i \in column : v[row][i] # NotReported}
      unbeaten(row) == {i \in reporting(row) :
                          \A j \in reporting(row) : ~Beats(row, v[row][j], v[row][i])}
  IN  /\ DOMAIN table = {row \in Rows(Shown) : reporting(row) # {}}
      /\ \A row \in DOMAIN table :
           /\ \A i \in column : table[row][i].value = v[row][i]
           /\ {i \in column : table[row][i].best} =
                IF NotRated(row) \/ Cardinality(reporting(row)) < 2 THEN {}
                ELSE {i \in unbeaten(row) : \A j \in unbeaten(row) : i <= j}

(* README.md:126 says "best value per row highlighted".  A configuration   *)
(* that did not answer one request of a series has no value to be best in  *)
(* the rows of that series.                                                *)
BestWasMeasured ==
  \A row \in DOMAIN Table, i \in 1 .. Len(Shown) :
    Table[row][i].best =>
      /\ row[1] = "single" => Shown[i].metrics.single.requests > 0
      /\ row[1] = "levels" => Shown[i].metrics.levels[row[2]].requests > 0
=============================================================================
