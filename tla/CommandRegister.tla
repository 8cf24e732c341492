--------------------------- MODULE CommandRegister ---------------------------
(***************************************************************************)
(* What the company service promises about a business record: every        *)
(* aggregate is a register of immutable revisions, and a command advances  *)
(* it by reading the latest revision, checking it and adding the next one, *)
(* all in one indivisible step.  CompanyCommand spreads that step over     *)
(* several statements of concurrent requests and is shown to implement it. *)
(***************************************************************************)
EXTENDS CommandRows

\* The transition c is legal on revision r.
Legal(c, r) ==
  /\ c.type \in Transitions
  /\ Guard(FamilyOf[c.agg], c.type, r.state)
  /\ Owns(c, r)

\* No revision of the aggregate stems from this event already.
Fresh(c) == \A r \in rows : r.agg = c.agg => r.event # EventOf(c)

-----------------------------------------------------------------------------
Create(c) ==
  /\ c.type = "create"
  /\ ~ Exists(c.agg)
  /\ ProtectsImported(FamilyOf[c.agg]) => c.agg \notin Imported
  /\ rows' = rows \cup {FirstRow(c)}

Transition(c) ==
  /\ Fresh(c)
  /\ \E r \in rows :
       /\ IsLatest(r, c.agg)
       /\ Legal(c, r)
       /\ rows' = rows \cup {SuccessorRow(c, r)}

Init == rows = {}

Next == \E c \in Commands : Create(c) \/ Transition(c)

Spec == Init /\ [][Next]_rows

=============================================================================
