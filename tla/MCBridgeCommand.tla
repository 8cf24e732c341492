--------------------------- MODULE MCBridgeCommand ---------------------------
(***************************************************************************)
(* Two requests in every family and one disturbance: a request sent again, *)
(* a time-out, a related record that changes, or midnight.  Two            *)
(* disturbances, and so any two of them in a row, in some families of each *)
(* kind: single and repeated reads, with and without the lock.             *)
(***************************************************************************)
EXTENDS BridgeCommand, TLC

Interchangeable == Permutations(Requests) \cup Permutations(Keys) \cup
  Permutations(Bodies)

EveryFamily == AllFamilies

Deep ==
  {"split", "loan", "preference", "admin_dict", "report_template",
   "dynamic_cost", "project", "warning", "subscription", "receivable",
   "task_report"}

TroublesOf == [f \in Families |-> IF f \in Deep THEN 2 ELSE 1]

=============================================================================
