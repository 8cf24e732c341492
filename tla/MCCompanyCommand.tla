--------------------------- MODULE MCCompanyCommand ---------------------------
(***************************************************************************)
(* Instances of CompanyCommand for TLC.  One key is one client operation;  *)
(* the workloads pick the commands that compete for the same revision.     *)
(***************************************************************************)
EXTENDS CompanyCommand, TLC

CONSTANTS
  claim, deal, old, apply, bill, sale, vendor, legacy,
  ad, fund, move,
  k1, k2, k3, k4, k5, k6, k7, ann, bob, v1, v2

Do(k, a, type, who, v) ==
  [key |-> k, agg |-> a, type |-> type, actor |-> who, owner |-> ann, data |-> v]

\* The same, for a record of another owner.
DoFor(k, a, type, who, whose, v) == [Do(k, a, type, who, v) EXCEPT !.owner = whose]

-----------------------------------------------------------------------------
(***************************************************************************)
(* One record at a time, from each family with a lifecycle of its own, and *)
(* an imported supplier, `legacy'; a key per command, each command open to *)
(* retries.                                                                *)
(***************************************************************************)
RecordFamilyOf ==
  claim :> "expense" @@ bill :> "invoice" @@ sale :> "revenue" @@
  vendor :> "supplier" @@ legacy :> "supplier" @@
  ad :> "marketing" @@ fund :> "plan" @@ move :> "dispatch" @@
  deal :> "contract" @@ apply :> "payment" @@ old :> "contract"

\* The payment application draws on an imported contract.
RecordContractOf == apply :> old
RecordAmount == v1 :> 1 @@ v2 :> 2
RecordSourceAmount == [a \in Aggregates |-> IF a = old THEN 1 ELSE 0]
RecordSourceApplied == [a \in Aggregates |-> 0]

\* An update, a submission and the applicant's void compete for the first
\* revision of a claim, approval and rejection for the submitted one; two
\* creations of a revenue, its confirmation, change and deletion; reviews of
\* both outcomes, a blacklisting and a void of a supplier; deletions of an
\* invoice, and changes of a marketing resource, under its own and another
\* principal; two creations of a fund plan and changes by its creator and
\* another actor; two approvals of a dispatch; changes, submissions and voids
\* of a contract and of a payment application.
RecordWorkload ==
  {Do(k1, claim, "create", ann, v1), Do(k2, claim, "update", ann, v2),
   Do(k3, claim, "submit", bob, v1), Do(k4, claim, "void", ann, v1),
   Do(k5, claim, "approve", bob, v2), Do(k6, claim, "reject", bob, v1),
   Do(k1, sale, "create", ann, v1), Do(k2, sale, "create", ann, v2),
   Do(k3, sale, "update", bob, v2), Do(k4, sale, "confirm_received", ann, v1),
   DoFor(k5, sale, "delete", bob, bob, v1),
   Do(k1, vendor, "create", ann, v1), Do(k2, vendor, "update", bob, v2),
   Do(k3, vendor, "submit_review", ann, v1), Do(k4, vendor, "review", bob, v1),
   Do(k5, vendor, "review", bob, v2), Do(k6, vendor, "blacklist", bob, v1),
   Do(k7, vendor, "void", ann, v1),
   Do(k1, bill, "create", ann, v1), Do(k2, bill, "delete", bob, v1),
   DoFor(k3, bill, "delete", bob, bob, v1),
   Do(k1, legacy, "create", ann, v1), Do(k2, legacy, "update", ann, v2),
   Do(k1, ad, "create", ann, v1), Do(k2, ad, "update", ann, v2),
   Do(k3, ad, "effect", bob, v1), DoFor(k4, ad, "delete", bob, bob, v1),
   Do(k5, ad, "delete", ann, v1),
   Do(k1, fund, "create", ann, v1), Do(k2, fund, "create", bob, v2),
   Do(k3, fund, "update", ann, v2), Do(k4, fund, "delete", bob, v1),
   Do(k1, move, "create", ann, v1), Do(k2, move, "approve", ann, v1),
   Do(k3, move, "approve", bob, v1),
   Do(k1, deal, "create", ann, v1), Do(k2, deal, "update", bob, v2),
   Do(k3, deal, "submit", ann, v1), Do(k4, deal, "void", ann, v1),
   Do(k1, apply, "create", ann, v1), Do(k2, apply, "submit", ann, v1),
   Do(k3, apply, "update", bob, v2), Do(k4, apply, "void", ann, v1),
   Do(k5, apply, "create", ann, v2)}

\* The commands on the claim alone.
ClaimWorkload == {c \in RecordWorkload : c.agg = claim}

\* Requests on different records touch no common row when every command has its
\* own key, so it is enough to follow the requests on one record.
OneRecord ==
  \A t, u \in Requests :
    phase[t] # "idle" /\ phase[u] # "idle" => cmd[t].agg = cmd[u].agg

Symmetry == Permutations(Requests)

-----------------------------------------------------------------------------
(***************************************************************************)
(* Two contracts and a payment application share two keys, which clients   *)
(* reuse at will; the application is quoted while its contract is being    *)
(* changed and voided.  `old' is an imported contract.                     *)
(***************************************************************************)
SharedFamilyOf == deal :> "contract" @@ old :> "contract" @@ apply :> "payment"
SharedContractOf == apply :> deal
SharedAmount == v1 :> 1 @@ v2 :> 2
SharedSourceAmount == deal :> 0 @@ old :> 2 @@ apply :> 0
SharedSourceApplied == deal :> 1 @@ old :> 0 @@ apply :> 0

SharedWorkload ==
  {Do(k1, deal, "create", bob, v2), Do(k2, deal, "update", ann, v1),
   Do(k2, deal, "void", ann, v1), Do(k1, old, "create", ann, v1),
   Do(k1, apply, "create", ann, v1), Do(k2, apply, "create", ann, v2),
   Do(k2, apply, "submit", ann, v1)}

=============================================================================
