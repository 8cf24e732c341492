----------------------------- MODULE MCDurableStore -----------------------------
(***************************************************************************)
(* Instances of DurableStore for TLC: five records, one of them a replay   *)
(* of another's source and one of a later schema than its batch.           *)
(***************************************************************************)
EXTENDS DurableStore, TLC

MCRecords == {"r1", "r2", "r3", "r4", "r5"}
\* r3 has r1's source under an identity of its own; r4 needs schema 2.
MCIdOf == [r \in MCRecords |-> r]
MCSourceOf == "r3" :> "r1" @@ [r \in MCRecords |-> r]
MCSchemaOf == "r4" :> 2 @@ [r \in MCRecords |-> 1]
MCBatches == {{}, {"r1", "r2"}, {"r3"}, {"r4", "r5"}}

\* A batch is all or nothing where batches share no record.
ASSUME StoreBatches == Separate

=============================================================================
