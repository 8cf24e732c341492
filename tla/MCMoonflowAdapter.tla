--------------------------- MODULE MCMoonflowAdapter ---------------------------
(***************************************************************************)
(* Instances of MoonflowAdapter for TLC.  Version 2 of the plan request    *)
(* names the same evidence as version 1; version 3 names newer evidence.   *)
(***************************************************************************)
EXTENDS MoonflowAdapter, TLC

CONSTANTS p1, p2, p3

In(r, e) == [request |-> r, evidence |-> e]
Fl(k, a, n, d, res) ==
  [key |-> k, attempt |-> a, run |-> n, digest |-> d, result |-> res]

MCRuns == {p1, p2, p3}
MCSymmetry == Permutations(MCRuns)
MCInputs == {In(1, 1), In(2, 1), In(2, 2)}
MCEvidenceOf == <<1, 1>>

\* A request, its key reused for another attempt and result path, and its
\* attempt reused under another key.
MCFlows ==
  {Fl("k1", "a1", "n1", In(1, 1), "x"),
   Fl("k1", "a2", "n1", In(2, 1), "y"),
   Fl("k2", "a1", "n2", In(2, 1), "x")}

\* Somebody delivers where there is a run and flows can be executed.
ASSUME SomeRunnable == Runs # {} /\ NamesItsEvidence

=============================================================================
