--------------------------- MODULE BridgeRegister ---------------------------
(***************************************************************************)
(* What a command of the Python bridge promises, without its steps: under  *)
(* an Idempotency-Key at most one revision ever appears, whole, together   *)
(* with the receipt of the request that made it; it is what the command    *)
(* makes of some earlier revision of its record that admits the command,   *)
(* and in the serial families of the revision just before it.              *)
(***************************************************************************)
EXTENDS BridgeFamilies, Naturals, FiniteSetsExt

CONSTANTS Keys, Records, Bodies, None

VARIABLES family, rows, receipts

vars == <<family, rows, receipts>>

\* The families whose transaction does not look at the state a second time.
Unguarded == {"milestone", "supplier", "dynamic_cost", "subscription"}

\* The families that insert at the number found before the transaction, or
\* work under the advisory lock.
Serial ==
  {"split", "invoice", "plan_task", "preference", "admin_dict",
   "report_template", "project", "warning", "subscription", "message"}
    \cup SalesFamilies \cup MarketingFamilies \cup DeliveryFamilies
    \cup FundFamilies

Highest(record) ==
  Max({0} \cup {v.number : v \in {v \in rows : v.record = record}})

StateAt(record, n) ==
  IF n = 0 THEN Absent
  ELSE (CHOOSE v \in rows : v.record = record /\ v.number = n).state

Permits(type, state) ==
  /\ Rechecks(family, type, state)
  /\ family \notin Unguarded => Admits(family, type, Shown(family, state), TRUE)

\* The revision and the receipt appear together.
Accept(key, record, type) ==
  \E wants \in Wants(family, type), basis \in 0..Highest(record),
     body \in Bodies :
    /\ Permits(type, StateAt(record, basis))
    /\ family \in Serial => basis = Highest(record)
    /\ rows' = rows \cup
         {[record |-> record, number |-> Highest(record) + 1, key |-> key,
           state |-> Leaves(family, type, StateAt(record, basis), wants),
           basis |-> basis, body |-> body]}
    /\ receipts' = [receipts EXCEPT ![key] = [record |-> record, type |-> type]]
    /\ UNCHANGED family

\* Records may have one revision of before.
Init ==
  /\ family \in AllFamilies
  /\ receipts = [k \in Keys |-> None]
  /\ \A v \in rows : v.record \in Records /\ v.number = 1

\* Some key gets its receipt.
Next ==
  \E key \in Keys :
    /\ receipts[key] = None
    /\ receipts'[key] # None
    /\ Accept(key, receipts'[key].record, receipts'[key].type)

Spec == Init /\ [][Next]_vars

=============================================================================
