----------------------------- MODULE MCMigration -----------------------------
(***************************************************************************)
(* Small worlds for the migration tools: pairs of files of one or of two   *)
(* runs that overlap, differ or number one aggregate together; a command   *)
(* beside them; and rehearsals whose passes get different files.           *)
(***************************************************************************)
EXTENDS MigrationRehearsal, TLC

Raw(rows) == [kind |-> "raw", cohort |-> "s1", rows |-> rows]

Domain(cohort, rows) == [kind |-> "domain", cohort |-> cohort, rows |-> rows]

Links(rows) == [kind |-> "accounting", cohort |-> "m1", rows |-> rows]

\* A promotion of two rows to revisions of one aggregate; the same with one row
\* more, and with a row changed; one under another mapping.
Two(c) == {ProjectionRow(c, "r1", "t1", "x", 2), ProjectionRow(c, "r2", "t1", "x", 1)}

First == Domain("m1", Two("m1"))

More == Domain("m1", Two("m1") \cup {ProjectionRow("m1", "r3", "t1", "x", 3)})

Changed == Domain("m1", {ProjectionRow("m1", "r1", "t1", "y", 2)})

Other == Domain("m2", {ProjectionRow("m2", "r1", "t1", "x", 1)})

Offset == Domain("m3", {ProjectionRow("m3", "r2", "t3", "x", 1)})

Staged == Raw({RawRow("r1", "q1", "x"), RawRow("r2", "q2", "x")})

Restaged ==
  [kind |-> "raw", cohort |-> "s2", rows |-> {RawRow("r1", "q1", "y"), RawRow("r2", "q2", "x")}]

Linked == Links({LinkRow("e1", "r1", "j1", "v")})

Relinked == Links({LinkRow("e2", "r2", "j1", "v"), LinkRow("e3", "r3", "j3", "v")})

Local ==
  [request |-> RawRow("k1", "k1", "x"), change |-> ProjectionRow("", "k1", "t2", "x", 0)]

Revising ==
  [request |-> RawRow("k2", "k2", "x"), change |-> ProjectionRow("", "k2", "t1", "x", 0)]

MCWorlds ==
  {[files |-> {First, More}, locals |-> {}, plans |-> {}],
   [files |-> {First, Other}, locals |-> {Revising}, plans |-> {}],
   [files |-> {First, Changed}, locals |-> {}, plans |-> {}],
   [files |-> {Staged, Restaged}, locals |-> {}, plans |-> {}],
   [files |-> {Staged}, locals |-> {Local}, plans |-> {}],
   [files |-> {Linked, Relinked}, locals |-> {}, plans |-> {}],
   [files |-> {First}, locals |-> {}, plans |-> {{First}}],
   [files |-> {}, locals |-> {},
    plans |-> {{Staged, First, Linked, Other, Offset}, {Staged, More, Linked, Other, Offset},
               {Staged, First, Linked, Other}, {Staged, First, Relinked}}]}

\* The script is written for two rows of the base mapping, and one of each other.
MCMapping ==
  Run(Staged) :> "export" @@ Run(Restaged) :> "export" @@ Run(First) :> "base"
    @@ Run(Other) :> "typed" @@ Run(Offset) :> "advance" @@ Run(Linked) :> "accounting"

MCUsual ==
  "export" :> 2 @@ "base" :> 2 @@ "typed" :> 1 @@ "advance" :> 1 @@ "accounting" :> 1

=============================================================================
