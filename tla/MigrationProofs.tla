---------------------------- MODULE MigrationProofs ----------------------------
(***************************************************************************)
(* Proofs about the migration tools, for any files, operators, crashes,    *)
(* commands beside them and passes of the rehearsal.  What a tool reports  *)
(* is what it did: the tables are as if the tools and the service had      *)
(* taken turns, receipts attest what is stored, and a ready rehearsal      *)
(* holds the files of its pass and nothing else, as the other store does.  *)
(*                                                                         *)
(* The argument: the lock keeps what a tool has checked true until it      *)
(* inserts (Locking), so that what is stored is what a file or a command   *)
(* says (Origin), numbered without a gap (Numbers), and stays; the SQLite  *)
(* store is a union of whole files with their receipts (LiteInv), and a    *)
(* pass of the script knows which it has been through (PassInv).           *)
(***************************************************************************)
EXTENDS MigrationRehearsal, FiniteSetTheorems, FunctionTheorems, TLAPS

-----------------------------------------------------------------------------
(***************************************************************************)
(* The invariant of the PostgreSQL tools.                                  *)
(***************************************************************************)

\* A row as it is stored, with its revision.
Revised(r, n) == [r EXCEPT !.rev = n]

Steps == Resting \cup {"begin", "check", "insert", "hash", "receipt", "file", "verify"}

Applied == {"hash", "receipt", "file", "verify", "done"}

\* A row of a promotion or of a command, with a revision.
Sourced(x) ==
  \E r : \E n \in Nat :
    /\ IsRow(r)
    /\ x = Revised(r, n)
    /\ \/ \E f \in world.files : f.kind = "domain" /\ r \in f.rows
       \/ \E c \in world.locals : r = c.change /\ c.request \in table.raw

\* What the tools and the service store they store as they were given it.
Origin ==
  /\ table = [k \in Kinds |-> table[k]]
  /\ \A k \in {"raw", "accounting"} : \A x \in table[k] : IsRow(x)
  /\ \A x \in table.domain : Sourced(x)

KeysOnce(t) == \A x, y \in t : x.keys \cap y.keys # {} => x = y

\* The revisions of an aggregate are one to some number.
Numbers ==
  /\ \A x, y \in table.domain : x.target = y.target /\ x.rev = y.rev => x = y
  /\ \A x \in table.domain : \E n \in Nat : Revisions(x.target) = 1..n

\* Who holds a lock is in its transaction, and there is nothing against what it
\* is about to insert.
Locked(o) ==
  /\ \A k \in Kinds :
       lock[k] = o <=> /\ job[o].step \in {"check", "insert"}
                       /\ File(o).kind = k
                       /\ Locks(File(o))
  /\ At(o, "insert") /\ Locks(File(o)) => ~Conflict(File(o))

Locking ==
  /\ lock = [k \in Kinds |-> lock[k]]
  /\ \A o \in Operators : Locked(o)

\* Rows attest a file if each row of the file is among them.
Attests(rows, f) == \A r \in f.rows : \E x \in rows : Plain(x) = r

\* A tool has what it was given and, once past its transaction, has done it.
Does(o) ==
  /\ job[o].step \in Steps
  /\ IF job[o].step = "idle" THEN File(o) = NoFile ELSE File(o) \in world.files
  /\ job[o].step \in Applied /\ Locks(File(o)) => Holds(File(o))
  /\ job[o].step \in Applied \ {"hash"} =>
       /\ job[o].applied \subseteq table[File(o).kind]
       /\ Locks(File(o)) => Attests(job[o].applied, File(o))

Shaped ==
  job = [o \in Operators |-> [file |-> File(o), step |-> job[o].step,
                              applied |-> job[o].applied]]

Filed == ReceiptsAttest /\ \A r \in receipts : r.run[1] \in Kinds

TargetInv ==
  /\ world \in Worlds
  /\ Origin
  /\ \A k \in Kinds : KeysOnce(table[k])
  /\ Numbers
  /\ Locking
  /\ Shaped
  /\ \A o \in Operators : Does(o)
  /\ Filed

-----------------------------------------------------------------------------
(***************************************************************************)
(* The invariant of the rehearsal.                                         *)
(***************************************************************************)
Planned == UNION world.plans

\* A file is in the SQLite store, with its receipt.
InLite(f) == f.rows \subseteq lite.rows[f.kind] /\ LiteReceipt(f) # {}

\* A receipt of the SQLite store is of a file that is there as a whole, and a
\* row that is there is of such a file.
LiteInv ==
  /\ lite = [rows |-> [k \in Kinds |-> lite.rows[k]], receipts |-> lite.receipts]
  /\ \A k \in Kinds : IsFiniteSet(lite.rows[k])
  /\ \A r \in lite.receipts :
       /\ r = [run |-> r.run, applied |-> r.applied]
       /\ r.run[1] # "raw" =>
            \E f \in Planned : /\ Run(f) = r.run /\ r.applied = f.rows
                               /\ f.rows \subseteq lite.rows[f.kind]
  /\ \A k \in {"domain", "accounting"} : \A x \in lite.rows[k] :
       \E f \in Planned : /\ f.kind = k /\ x \in f.rows
                          /\ [run |-> Run(f), applied |-> f.rows] \in lite.receipts

AtWork == {"apply", "parity", "replay", "reconcile"}

Judged == Stage("judged") /\ verdict = "ready" /\ "empty" \notin Said("replay")

\* What a pass has taken from its plan and is not about to apply is in the
\* store; the copy is of the store that is judged.
PassInv ==
  /\ pass = [plan |-> pass.plan, todo |-> pass.todo, file |-> pass.file,
             stage |-> pass.stage]
  /\ pass.stage \in AtWork \cup {"off", "next", "gate", "judged"}
  /\ pass.todo \subseteq pass.plan /\ pass.plan \subseteq Planned
  /\ pass.stage \in AtWork => pass.file \in pass.plan \ pass.todo
  /\ ~Stage("off") => \A f \in pass.plan :
       f \in pass.todo \/ InLite(f) \/ (Stage("apply") /\ f = pass.file)
  /\ pass.stage \in {"gate", "judged"} => pass.todo = {} /\ backup = lite.rows
  /\ Judged => Counted

RehearsalInv == LiteInv /\ PassInv

-----------------------------------------------------------------------------
(***************************************************************************)
(* Rows and revisions.                                                     *)
(***************************************************************************)

\* To revise a row changes its revision alone, and what it was is seen.
LEMMA RowRevised ==
  ASSUME NEW r, IsRow(r), NEW n \in Nat
  PROVE  /\ Revised(r, n).cohort = r.cohort
         /\ Revised(r, n).keys = r.keys
         /\ Revised(r, n).target = r.target
         /\ Revised(r, n).order = r.order
         /\ Revised(r, n).rev = n
         /\ r.rev = 0
         /\ Plain(Revised(r, n)) = r
         /\ Plain(r) = r
<1>1. PICK a, b, c, d, e : r = [cohort |-> a, keys |-> b, target |-> c, content |-> d,
                                order |-> e, rev |-> 0]
  BY DEF IsRow, FileRow
<1> DEFINE q == Revised(r, n)
<1>2. q = [cohort |-> a, keys |-> b, target |-> c, content |-> d, order |-> e, rev |-> n]
  BY <1>1 DEF Revised
<1>3. Plain(q) = r /\ Plain(r) = r
  BY <1>1, <1>2 DEF Plain
<1> HIDE DEF q
<1>4. /\ q.cohort = r.cohort /\ q.keys = r.keys /\ q.target = r.target
      /\ q.order = r.order /\ q.rev = n /\ r.rev = 0
  BY <1>1, <1>2
<1> QED BY <1>3, <1>4 DEF q

\* What is stored is a row of a file, or of a command, with a revision.
LEMMA StoredRow ==
  ASSUME Origin, NEW k \in Kinds, NEW x \in table[k]
  PROVE  IsRow(Plain(x)) /\ Plain(x).keys = x.keys /\ Plain(x).cohort = x.cohort
<1>1. CASE k = "domain"
  <2>1. PICK r : \E n \in Nat : IsRow(r) /\ x = Revised(r, n)
    BY <1>1 DEF Origin, Sourced
  <2> QED BY <2>1, RowRevised
<1>2. CASE k # "domain"
  <2>1. IsRow(x)
    BY <1>2 DEF Origin, Kinds
  <2> QED BY <2>1, RowRevised
<1> QED BY <1>1, <1>2

\* The last of one to a number is the number.
LEMMA TopIsLast ==
  ASSUME NEW t, NEW n \in Nat, Revisions(t) = 1..n
  PROVE  Top(t) = n
<1>1. CASE n = 0
  <2>1. Revisions(t) = {}
    BY <1>1
  <2> QED BY <1>1, <2>1 DEF Top
<1>2. CASE n # 0
  <2>1. n \in 1..n /\ \A y \in 1..n : n >= y
    BY <1>2
  <2>2. \A x \in 1..n : (\A y \in 1..n : x >= y) => x = n
    BY <2>1
  <2>3. Max(1..n) = n
    BY <2>1, <2>2 DEF Max
  <2>4. Revisions(t) # {}
    BY <2>1
  <2> QED BY <2>3, <2>4 DEF Top
<1> QED BY <1>1, <1>2

\* Rows of a target whose places in an order are distinct are counted through:
\* they have the places from one to their number, each one of them.
LEMMA PlacesCount ==
  ASSUME NEW S, IsFiniteSet(S), NEW t,
         \A r \in S : r.order \in Nat,
         \A r, s \in S : r.target = s.target /\ r.order = s.order => r = s
  PROVE  \E n \in Nat :
           /\ \A r \in S : r.target = t => Place(r, S) \in 1..n
           /\ \A m \in 1..n : \E r \in S : r.target = t /\ Place(r, S) = m
           /\ \A r, s \in S : r.target = t /\ s.target = t /\ Place(r, S) = Place(s, S) => r = s
<1> DEFINE T == {q \in S : q.target = t}
           Down(r) == {q \in S : q.target = r.target /\ q.order <= r.order}
           n == Cardinality(T)
<1>1. IsFiniteSet(T) /\ n \in Nat
  BY FS_Subset, FS_CardinalityType
<1>2. ASSUME NEW r \in T
      PROVE  /\ Place(r, S) = Cardinality(Down(r))
             /\ Down(r) \in SUBSET T /\ r \in Down(r) /\ IsFiniteSet(Down(r))
             /\ Place(r, S) \in 1..n /\ Place(r, S) \in Nat
  <2>1. Place(r, S) = Cardinality(Down(r))
    BY DEF Place
  <2>2. Down(r) \in SUBSET T /\ r \in Down(r)
    OBVIOUS
  <2>3. IsFiniteSet(Down(r)) /\ Cardinality(Down(r)) <= n
    BY <1>1, <2>2, FS_Subset
  <2>4. Cardinality(Down(r)) \in Nat /\ Cardinality(Down(r)) # 0
    BY <2>2, <2>3, FS_CardinalityType, FS_EmptySet
  <2>5. PICK d : d = Cardinality(Down(r))
    OBVIOUS
  <2>6. d \in 1..n
    BY <1>1, <2>3, <2>4, <2>5
  <2> HIDE DEF Down, n
  <2> QED BY <2>1, <2>2, <2>3, <2>4, <2>5, <2>6
<1>3. ASSUME NEW r \in T, NEW s \in T, r.order < s.order
      PROVE  Place(r, S) < Place(s, S)
  <2>1. Down(r) \in SUBSET Down(s) /\ s \notin Down(r)
    BY <1>3
  <2>2. Cardinality(Down(r)) <= Cardinality(Down(s)) /\ Cardinality(Down(s)) # Cardinality(Down(r))
    BY <1>2, <2>1, FS_Subset
  <2>3. /\ Place(r, S) \in Nat /\ Place(s, S) \in Nat
        /\ Place(r, S) = Cardinality(Down(r)) /\ Place(s, S) = Cardinality(Down(s))
    BY <1>2
  <2> HIDE DEF Down
  <2> QED BY <2>2, <2>3
<1>4. ASSUME NEW r \in T, NEW s \in T, Place(r, S) = Place(s, S)
      PROVE  r = s
  <2>0. Place(r, S) \in Nat
    BY <1>2
  <2>1. Place(r, S) \in Nat /\ r.order \in Nat /\ s.order \in Nat
    BY <2>0
  <2>2. ~(r.order < s.order) /\ ~(s.order < r.order)
    BY <1>3, <1>4, <2>1
  <2>3. r.order = s.order
    BY <2>1, <2>2
  <2> QED BY <2>3
<1> DEFINE place == [r \in T |-> Place(r, S)]
<1>5. place \in Injection(T, 1..n)
  <2>1. place \in [T -> 1..n]
    BY <1>2
  <2>2. \A r, s \in T : place[r] = place[s] => r = s
    BY <1>4
  <2> QED BY <2>1, <2>2, Fun_IsInj
<1>6. IsFiniteSet(1..n) /\ Cardinality(1..n) = n
  BY <1>1, FS_Interval
<1>7. place \in Surjection(T, 1..n)
  BY <1>5, <1>6, FS_Injection
<1>8. \A m \in 1..n : \E r \in T : place[r] = m
  BY <1>7 DEF Surjection
<1>9. \A m \in 1..n : \E r \in T : Place(r, S) = m
  BY <1>8
<1> HIDE DEF place, Down, n
<1> QED BY <1>1, <1>2, <1>4, <1>9

-----------------------------------------------------------------------------
(***************************************************************************)
(* What is stored.                                                         *)
(***************************************************************************)

\* Rows that go on counting the revisions of every aggregate, and count each
\* number once.
Continues(fresh) ==
  /\ \A x, y \in fresh : x.target = y.target /\ x.rev = y.rev => x = y
  /\ \A t : \E n \in Nat :
       /\ \A x \in fresh : x.target = t => x.rev \in Nat /\ x.rev > Top(t) /\ x.rev <= Top(t) + n
       /\ \A m \in 1..n : \E x \in fresh : x.target = t /\ x.rev = Top(t) + m

LEMMA Counting ==
  ASSUME Numbers, NEW t
  PROVE  Top(t) \in Nat /\ Revisions(t) = 1..Top(t)
<1>1. CASE Revisions(t) = {}
  BY <1>1 DEF Top
<1>2. CASE Revisions(t) # {}
  <2>1. PICK x \in table.domain : x.target = t
    BY <1>2 DEF Revisions
  <2>2. PICK n \in Nat : Revisions(t) = 1..n
    BY <2>1 DEF Numbers
  <2> QED BY <2>2, TopIsLast
<1> QED BY <1>1, <1>2

LEMMA NumbersContinue ==
  ASSUME Numbers, NEW fresh, Continues(fresh), table'.domain = table.domain \cup fresh
  PROVE  Numbers'
<1>1. ASSUME NEW x \in table.domain
      PROVE  x.rev \in Nat /\ x.rev <= Top(x.target) /\ Top(x.target) \in Nat
  <2>1. x.rev \in Revisions(x.target)
    BY DEF Revisions
  <2>2. Top(x.target) \in Nat /\ Revisions(x.target) = 1..Top(x.target)
    BY Counting
  <2> QED BY <2>1, <2>2
<1>2. ASSUME NEW x \in table.domain, NEW y \in fresh, x.target = y.target
      PROVE  x.rev # y.rev
  <2>1. x.rev \in Nat /\ x.rev <= Top(y.target) /\ Top(y.target) \in Nat
    BY <1>1, <1>2
  <2>2. y.rev \in Nat /\ y.rev > Top(y.target)
    BY DEF Continues
  <2> QED BY <2>1, <2>2
<1>3. ASSUME NEW x \in table'.domain, NEW y \in table'.domain, x.target = y.target, x.rev = y.rev
      PROVE  x = y
  BY <1>2, <1>3 DEF Numbers, Continues
<1>4. ASSUME NEW t
      PROVE  \E n \in Nat : Revisions(t)' = 1..n
  <2>1. PICK m : m = Top(t)
    OBVIOUS
  <2>2. m \in Nat /\ Revisions(t) = 1..m
    BY <2>1, Counting
  <2>3. PICK n \in Nat :
          /\ \A x \in fresh : x.target = t => x.rev \in Nat /\ x.rev > m /\ x.rev <= m + n
          /\ \A j \in 1..n : \E x \in fresh : x.target = t /\ x.rev = m + j
    BY <2>1 DEF Continues
  <2>4. ASSUME NEW j \in 1..(m + n) PROVE j \in Revisions(t)'
    <3>1. CASE j <= m
      <4>1. j \in Revisions(t)
        BY <2>2, <3>1
      <4> QED BY <4>1 DEF Revisions
    <3>2. CASE ~(j <= m)
      <4>1. (j - m) \in 1..n /\ m + (j - m) = j
        BY <2>2, <3>2
      <4>2. PICK x \in fresh : x.target = t /\ x.rev = m + (j - m)
        BY <2>3, <4>1
      <4> QED BY <4>1, <4>2 DEF Revisions
    <3> QED BY <3>1, <3>2
  <2>5. ASSUME NEW j \in Revisions(t)' PROVE j \in 1..(m + n)
    <3>1. PICK x \in table'.domain : x.target = t /\ x.rev = j
      BY DEF Revisions
    <3>2. CASE x \in table.domain
      <4>1. j \in Revisions(t)
        BY <3>1, <3>2 DEF Revisions
      <4> QED BY <2>2, <4>1
    <3>3. CASE x \in fresh
      BY <2>2, <2>3, <3>1, <3>3
    <3> QED BY <3>2, <3>3
  <2>6. PICK numbers, last : numbers = Revisions(t)' /\ last = m + n
    OBVIOUS
  <2>7. \A j : j \in numbers <=> j \in 1..last
    BY <2>4, <2>5, <2>6
  <2>8. numbers = 1..last
    BY <2>7
  <2>9. last \in Nat
    BY <2>2, <2>6
  <2> QED BY <2>6, <2>8, <2>9
<1> QED BY <1>3, <1>4 DEF Numbers

\* What is new of a promotion goes on counting.
LEMMA NewContinues ==
  ASSUME Numbers, NEW f, IsFile(f), f.kind = "domain"
  PROVE  Continues(Numbered(f)) /\ Inserted(f) = Numbered(f)
<1> DEFINE S == New(f)
           Number(r) == Top(r.target) + Place(r, S)
<1>1. /\ IsFiniteSet(S)
      /\ \A r \in S : r.order \in Nat /\ IsRow(r)
      /\ \A r, s \in S : r.target = s.target /\ r.order = s.order => r = s
  BY FS_Subset DEF IsFile, New
<1>2. Numbered(f) = {Revised(r, Number(r)) : r \in S}
  BY DEF Numbered, Revised
<1> HIDE DEF S
<1>3. ASSUME NEW t
      PROVE  \E n \in Nat :
           /\ \A r \in S : r.target = t => Place(r, S) \in 1..n
           /\ \A m \in 1..n : \E r \in S : r.target = t /\ Place(r, S) = m
           /\ \A r, s \in S : r.target = t /\ s.target = t /\ Place(r, S) = Place(s, S) => r = s
  BY <1>1, PlacesCount
<1>4. ASSUME NEW r \in S
      PROVE  /\ Place(r, S) \in Nat /\ Place(r, S) > 0 /\ Number(r) \in Nat
             /\ Revised(r, Number(r)).target = r.target
             /\ Revised(r, Number(r)).rev = Number(r)
  <2>1. Place(r, S) \in Nat /\ Place(r, S) > 0
    <3>1. PICK n \in Nat : Place(r, S) \in 1..n
      BY <1>3
    <3> QED BY <3>1
  <2>2. Top(r.target) \in Nat
    BY Counting
  <2>3. Number(r) \in Nat
    BY <2>1, <2>2
  <2> QED BY <1>1, <2>1, <2>3, RowRevised
<1>5. ASSUME NEW r \in S, NEW s \in S, r.target = s.target, Number(r) = Number(s)
      PROVE  r = s
  <2>1. Top(r.target) \in Nat /\ Place(r, S) \in Nat /\ Place(s, S) \in Nat
    BY <1>4, Counting
  <2>2. Place(r, S) = Place(s, S)
    BY <1>5, <2>1
  <2> QED BY <1>3, <1>5, <2>2
<1>6. ASSUME NEW x \in Numbered(f)
      PROVE  \E r \in S : x = Revised(r, Number(r)) /\ x.target = r.target /\ x.rev = Number(r)
  BY <1>2, <1>4
<1>7. ASSUME NEW x \in Numbered(f), NEW y \in Numbered(f), x.target = y.target, x.rev = y.rev
      PROVE  x = y
  <2>1. PICK r \in S : x = Revised(r, Number(r)) /\ x.target = r.target /\ x.rev = Number(r)
    BY <1>6
  <2>2. PICK s \in S : y = Revised(s, Number(s)) /\ y.target = s.target /\ y.rev = Number(s)
    BY <1>6
  <2> HIDE DEF Number
  <2>3. r = s
    BY <1>5, <1>7, <2>1, <2>2
  <2> QED BY <2>1, <2>2, <2>3
<1>8. ASSUME NEW t
      PROVE  \E n \in Nat :
       /\ \A x \in Numbered(f) : x.target = t =>
            x.rev \in Nat /\ x.rev > Top(t) /\ x.rev <= Top(t) + n
       /\ \A m \in 1..n : \E x \in Numbered(f) : x.target = t /\ x.rev = Top(t) + m
  <2>1. PICK n \in Nat :
           /\ \A r \in S : r.target = t => Place(r, S) \in 1..n
           /\ \A m \in 1..n : \E r \in S : r.target = t /\ Place(r, S) = m
    BY <1>3
  <2>2. ASSUME NEW x \in Numbered(f), x.target = t
        PROVE  x.rev \in Nat /\ x.rev > Top(t) /\ x.rev <= Top(t) + n
    <3>1. PICK r \in S : x.target = r.target /\ x.rev = Number(r)
      BY <1>6
    <3>2. Place(r, S) \in 1..n /\ x.rev = Top(t) + Place(r, S)
      BY <2>1, <2>2, <3>1
    <3>3. Top(t) \in Nat
      BY Counting
    <3> QED BY <3>2, <3>3
  <2>3. ASSUME NEW m \in 1..n
        PROVE  \E x \in Numbered(f) : x.target = t /\ x.rev = Top(t) + m
    <3>1. PICK r \in S : r.target = t /\ Place(r, S) = m
      BY <2>1
    <3>2. Revised(r, Number(r)) \in Numbered(f)
      BY <1>2
    <3>3. Revised(r, Number(r)).target = t /\ Revised(r, Number(r)).rev = Top(t) + m
      BY <1>4, <3>1
    <3> QED BY <3>2, <3>3
  <2> QED BY <2>2, <2>3
<1>9. Continues(Numbered(f))
  BY <1>7, <1>8 DEF Continues
<1>10. ASSUME NEW x \in Numbered(f), NEW y \in table.domain, y.target = x.target, y.rev = x.rev
       PROVE  FALSE
  <2>1. y.rev \in Revisions(x.target)
    BY <1>10 DEF Revisions
  <2>2. Top(x.target) \in Nat /\ y.rev \in 1..Top(x.target)
    BY <2>1, Counting
  <2>3. x.rev \in Nat /\ x.rev > Top(x.target)
    BY <1>9 DEF Continues
  <2> QED BY <1>10, <2>2, <2>3
<1>11. Inserted(f) = Numbered(f)
  BY <1>10 DEF Inserted, Taken
<1> QED BY <1>9, <1>11

\* A new row of a file as it is stored: with a revision, if it is promoted.
AsStored(r, f) ==
  IF f.kind = "domain" THEN Revised(r, Top(r.target) + Place(r, New(f))) ELSE r

IsStored(r, f) ==
  /\ IsRow(r) /\ r \in f.rows
  /\ AsStored(r, f).keys = r.keys
  /\ Plain(AsStored(r, f)) = r
  /\ \E n \in Nat : AsStored(r, f) = Revised(r, n)
  /\ f.kind # "domain" => AsStored(r, f) = r

\* Every new row is stored, and nothing else; it is the row that it was.
LEMMA InsertedRows ==
  ASSUME Numbers, NEW f, IsFile(f)
  PROVE  /\ Inserted(f) = {AsStored(r, f) : r \in New(f)}
         /\ \A r \in New(f) : IsStored(r, f)
<1>1. Inserted(f) = {AsStored(r, f) : r \in New(f)}
  <2>1. CASE f.kind = "domain"
    BY <2>1, NewContinues DEF Numbered, AsStored, Revised
  <2>2. CASE f.kind # "domain"
    BY <2>2 DEF Inserted, Numbered, AsStored
  <2> QED BY <2>1, <2>2
<1>2. ASSUME NEW r \in New(f)
      PROVE  IsStored(r, f)
  <2>1. IsRow(r) /\ r \in f.rows
    BY DEF New, IsFile
  <2>2. \E n \in Nat : AsStored(r, f) = Revised(r, n)
    <3>1. CASE f.kind = "domain"
      <4>1. IsFiniteSet({q \in New(f) : q.target = r.target /\ q.order <= r.order})
        BY FS_Subset DEF New, IsFile
      <4>2. Place(r, New(f)) \in Nat
        BY <4>1, FS_CardinalityType DEF Place
      <4>3. Top(r.target) + Place(r, New(f)) \in Nat
        BY <4>2, Counting
      <4> QED BY <3>1, <4>3 DEF AsStored
    <3>2. CASE f.kind # "domain"
      <4>1. r = Revised(r, 0)
        BY <2>1, RowRevised DEF Revised, Plain
      <4> QED BY <3>2, <4>1 DEF AsStored
    <3> QED BY <3>1, <3>2
  <2>3. PICK n \in Nat : AsStored(r, f) = Revised(r, n)
    BY <2>2
  <2>4. AsStored(r, f).keys = r.keys /\ Plain(AsStored(r, f)) = r
    BY <2>1, <2>3, RowRevised
  <2>5. f.kind # "domain" => AsStored(r, f) = r
    BY DEF AsStored
  <2> QED BY <2>1, <2>2, <2>4, <2>5 DEF IsStored
<1> QED BY <1>1, <1>2

\* A transaction that found nothing against its file leaves the tables sound,
\* takes nothing from them, and has stored the file.
Grows ==
  /\ Origin'
  /\ \A k \in Kinds : KeysOnce(table'[k])
  /\ Numbers'
  /\ \A k \in Kinds : table[k] \subseteq table'[k]

LEMMA InsertGrows ==
  ASSUME world \in Worlds, Origin, \A k \in Kinds : KeysOnce(table[k]), Numbers,
         NEW f \in world.files,
         table' = [table EXCEPT ![f.kind] = @ \cup Inserted(f)], world' = world
  PROVE  /\ Grows
         /\ \A k \in Kinds \ {f.kind} : table'[k] = table[k]
         /\ ~Conflict(f) => Holds(f)'
<1>1. IsFile(f) /\ f.kind \in Kinds
  BY WorldsAssumption DEF IsFile
<1>9. Inserted(f) = {AsStored(r, f) : r \in New(f)}
  BY <1>1, InsertedRows
<1>10. ASSUME NEW r \in New(f)
       PROVE  /\ IsRow(r) /\ r \in f.rows
              /\ AsStored(r, f).keys = r.keys
              /\ Plain(AsStored(r, f)) = r
              /\ \E n \in Nat : AsStored(r, f) = Revised(r, n)
              /\ f.kind # "domain" => AsStored(r, f) = r
  <2>1. IsStored(r, f)
    BY <1>1, InsertedRows
  <2> QED BY <2>1 DEF IsStored
<1>2. /\ table'[f.kind] = table[f.kind] \cup Inserted(f)
      /\ \A k \in Kinds \ {f.kind} : table'[k] = table[k]
      /\ table' = [k \in Kinds |-> table'[k]]
  BY <1>1 DEF Origin
<1>3. \A k \in Kinds : table[k] \subseteq table'[k]
  BY <1>2
<1>4. Origin'
  <2>1. ASSUME NEW k \in {"raw", "accounting"}, NEW x \in table'[k]
        PROVE  IsRow(x)
    <3>1. CASE x \in table[k]
      BY <3>1 DEF Origin
    <3>2. CASE x \notin table[k]
      <4>1. k = f.kind /\ x \in Inserted(f)
        BY <1>2, <2>1, <3>2 DEF Kinds
      <4>2. PICK r \in New(f) : x = AsStored(r, f)
        BY <1>9, <4>1
      <4>3. f.kind # "domain"
        BY <4>1
      <4> QED BY <1>10, <4>2, <4>3
    <3> QED BY <3>1, <3>2
  <2>2. ASSUME NEW x \in table'.domain
        PROVE  Sourced(x)'
    <3>1. CASE x \in table.domain
      <4>1. Sourced(x)
        BY <3>1 DEF Origin
      <4> QED BY <1>3, <4>1 DEF Sourced, Kinds
    <3>2. CASE x \notin table.domain
      <4>1. f.kind = "domain" /\ x \in Inserted(f)
        BY <1>2, <3>2 DEF Kinds
      <4>2. PICK r \in New(f) : x = AsStored(r, f)
        BY <1>9, <4>1
      <4>3. r \in f.rows /\ IsRow(r)
        BY <1>10
      <4>4. PICK n \in Nat : AsStored(r, f) = Revised(r, n)
        BY <1>10
      <4>5. x = Revised(r, n)
        BY <4>2, <4>4
      <4> QED BY <4>1, <4>3, <4>5 DEF Sourced
    <3> QED BY <3>1, <3>2
  <2> QED BY <1>2, <2>1, <2>2 DEF Origin
<1>5. ASSUME NEW k \in Kinds PROVE KeysOnce(table'[k])
  <2>1. CASE k # f.kind
    BY <1>2, <2>1
  <2>2. CASE k = f.kind
    <3>1. ASSUME NEW x \in table[k], NEW y \in Inserted(f) PROVE x.keys \cap y.keys = {}
      <4>1. PICK r \in New(f) : y.keys = r.keys
        BY <1>9, <1>10
      <4> QED BY <2>2, <4>1 DEF New
    <3>2. ASSUME NEW x \in Inserted(f), NEW y \in Inserted(f), x.keys \cap y.keys # {}
          PROVE  x = y
      <4>1. PICK r \in New(f) : x = AsStored(r, f)
        BY <1>9
      <4>2. PICK s \in New(f) : y = AsStored(s, f)
        BY <1>9
      <4>3. r \in f.rows /\ s \in f.rows /\ r.keys \cap s.keys # {}
        BY <1>10, <3>2, <4>1, <4>2
      <4>4. r = s
        BY <1>1, <4>3 DEF IsFile
      <4> QED BY <4>1, <4>2, <4>4
    <3> QED BY <1>2, <2>2, <3>1, <3>2 DEF KeysOnce
  <2> QED BY <2>1, <2>2
<1>6. Numbers'
  <2>1. CASE f.kind = "domain"
    BY <1>1, <1>2, <2>1, NewContinues, NumbersContinue
  <2>2. CASE f.kind # "domain"
    <3>1. table'.domain = table.domain
      BY <1>2, <2>2 DEF Kinds
    <3> QED BY <3>1 DEF Numbers, Revisions
  <2> QED BY <2>1, <2>2
<1>7. ASSUME ~Conflict(f) PROVE Holds(f)'
  <2>1. ASSUME NEW r \in f.rows PROVE \E x \in table'[f.kind] : Plain(x) = r
    <3>1. CASE r \in New(f)
      BY <1>2, <1>9, <1>10, <3>1
    <3>2. CASE r \notin New(f)
      BY <1>2, <1>7, <3>2 DEF New, Conflict, Clash
    <3> QED BY <3>1, <3>2
  <2> QED BY <2>1 DEF Holds
<1> QED BY <1>2, <1>3, <1>4, <1>5, <1>6, <1>7 DEF Grows

\* A command of the service leaves the tables sound as well.
LEMMA CommandGrows ==
  ASSUME world \in Worlds, Origin, \A k \in Kinds : KeysOnce(table[k]), Numbers,
         NEW c \in world.locals, Command(c)
  PROVE  Grows /\ table'["accounting"] = table["accounting"]
<1>0. PICK x : x = Revised(c.change, Top(c.change.target) + 1)
  OBVIOUS
<1>1. IsLocal(c, world) /\ IsRow(c.request) /\ IsRow(c.change)
  BY WorldsAssumption DEF IsLocal
<1>2. /\ table' = [k \in Kinds |-> table'[k]]
      /\ table'["raw"] = table["raw"] \cup {c.request}
      /\ table'["domain"] = table["domain"] \cup {x}
      /\ table'["accounting"] = table["accounting"]
      /\ world' = world
  <2>1. table' = [table EXCEPT !.raw = @ \cup {c.request}, !.domain = @ \cup {x}]
    BY <1>0 DEF Command, Revised
  <2> QED BY <2>1 DEF Origin, Kinds, Command
<1>3. Top(c.change.target) \in Nat /\ Top(c.change.target) + 1 \in Nat
  BY Counting
<1>4. /\ x.keys = c.change.keys /\ x.target = c.change.target
      /\ x.rev = Top(c.change.target) + 1
  BY <1>0, <1>1, <1>3, RowRevised
<1>5. Sourced(x)'
  <2>1. IsRow(c.change) /\ c.change = c.change /\ c.request \in table'["raw"]
    BY <1>1, <1>2
  <2>2. PICK n \in Nat : x = Revised(c.change, n)
    BY <1>0, <1>3
  <2> QED BY <1>2, <2>1, <2>2 DEF Sourced
<1>6. \A k \in Kinds : table[k] \subseteq table'[k]
  BY <1>2 DEF Kinds
<1>7. Origin'
  <2>1. ASSUME NEW k \in {"raw", "accounting"}, NEW y \in table'[k] PROVE IsRow(y)
    BY <1>1, <1>2 DEF Origin
  <2>2. ASSUME NEW y \in table'["domain"] PROVE Sourced(y)'
    <3>1. CASE y \in table["domain"]
      <4>1. Sourced(y)
        BY <3>1 DEF Origin
      <4> QED BY <1>2, <4>1 DEF Sourced
    <3> QED BY <1>2, <1>5, <3>1
  <2> QED BY <1>2, <2>1, <2>2 DEF Origin
<1>8. ASSUME NEW k \in Kinds PROVE KeysOnce(table'[k])
  <2>1. CASE k = "accounting"
    BY <1>2, <2>1
  <2>2. CASE k = "raw"
    BY <1>2, <2>2 DEF KeysOnce, Command
  <2>3. CASE k = "domain"
    <3>1. ASSUME NEW y \in table["domain"] PROVE y.keys \cap c.change.keys = {}
      <4>1. PICK r : \E n \in Nat :
              /\ IsRow(r)
              /\ y = Revised(r, n)
              /\ \/ \E f \in world.files : f.kind = "domain" /\ r \in f.rows
                 \/ \E d \in world.locals : r = d.change /\ d.request \in table["raw"]
        BY DEF Origin, Sourced
      <4>2. y.keys = r.keys
        BY <4>1, RowRevised
      <4>3. CASE \E f \in world.files : f.kind = "domain" /\ r \in f.rows
        BY <1>1, <4>2, <4>3 DEF IsLocal
      <4>4. ASSUME NEW d \in world.locals, r = d.change, d.request \in table["raw"]
            PROVE  y.keys \cap c.change.keys = {}
        <5>1. d.request.keys \cap c.request.keys = {}
          BY <4>4 DEF Command
        <5> QED BY <1>1, <4>2, <4>4, <5>1 DEF IsLocal
      <4> QED BY <4>1, <4>3, <4>4
    <3> QED BY <1>2, <1>4, <2>3, <3>1 DEF KeysOnce
  <2> QED BY <2>1, <2>2, <2>3 DEF Kinds
<1>9. Continues({x})
  <2>1. ASSUME NEW t
        PROVE  \E n \in Nat :
         /\ \A y \in {x} : y.target = t => y.rev \in Nat /\ y.rev > Top(t) /\ y.rev <= Top(t) + n
         /\ \A m \in 1..n : \E y \in {x} : y.target = t /\ y.rev = Top(t) + m
    <3>1. CASE t = c.change.target
      <4>1. \A m \in 1..1 : m = 1
        OBVIOUS
      <4> QED BY <1>3, <1>4, <3>1, <4>1
    <3>2. CASE t # c.change.target
      <4>1. 1..0 = {} /\ x.target # t
        BY <1>4, <3>2
      <4> QED BY <4>1
    <3> QED BY <3>1, <3>2
  <2> QED BY <2>1 DEF Continues
<1>10. Numbers'
  BY <1>2, <1>9, NumbersContinue
<1> QED BY <1>2, <1>6, <1>7, <1>8, <1>10 DEF Grows

-----------------------------------------------------------------------------
(***************************************************************************)
(* What the tools have done.                                               *)
(***************************************************************************)

\* One tool moves, and the others stay.
Moves(o, file, step, applied) ==
  /\ Shaped'
  /\ job'[o] = [file |-> file, step |-> step, applied |-> applied]
  /\ \A p \in Operators \ {o} : job'[p] = job[p]

LEMMA GoMoves ==
  ASSUME Shaped, NEW o \in Operators, NEW step, Go(o, step)
  PROVE  Moves(o, File(o), step, job[o].applied)
<1>1. PICK a, b, c : job[o] = [file |-> a, step |-> b, applied |-> c]
  BY DEF Shaped
<1>2. job'[o] = [file |-> a, step |-> step, applied |-> c]
  BY <1>1 DEF Go, Shaped
<1>3. \A p \in Operators \ {o} : job'[p] = job[p]
  BY DEF Go, Shaped
<1>4. job' = [p \in Operators |-> job'[p]]
  BY DEF Go, Shaped
<1>5. \A p \in Operators :
        job'[p] = [file |-> job'[p].file, step |-> job'[p].step, applied |-> job'[p].applied]
  <2>1. \A p \in Operators :
          job[p] = [file |-> job[p].file, step |-> job[p].step, applied |-> job[p].applied]
    BY DEF Shaped, File
  <2> QED BY <1>2, <1>3, <2>1
<1> QED BY <1>1, <1>2, <1>3, <1>4, <1>5 DEF Moves, Shaped, File

\* A tool starts, hashes or is killed.
LEMMA SetMoves ==
  ASSUME Shaped, NEW o \in Operators, NEW file, NEW step, NEW applied,
         job' = [job EXCEPT ![o] = [file |-> file, step |-> step, applied |-> applied]]
  PROVE  Moves(o, file, step, applied)
<1>1. job'[o] = [file |-> file, step |-> step, applied |-> applied]
  BY DEF Shaped
<1>2. \A p \in Operators \ {o} : job'[p] = job[p]
  BY DEF Shaped
<1>3. job' = [p \in Operators |-> job'[p]]
  BY DEF Shaped
<1>4. \A p \in Operators :
        job'[p] = [file |-> job'[p].file, step |-> job'[p].step, applied |-> job'[p].applied]
  <2>1. \A p \in Operators :
          job[p] = [file |-> job[p].file, step |-> job[p].step, applied |-> job[p].applied]
    BY DEF Shaped, File
  <2> QED BY <1>1, <1>2, <2>1
<1> QED BY <1>1, <1>2, <1>3, <1>4 DEF Moves, Shaped, File

\* The other tools hold what they held.
Beside(o) ==
  /\ lock' = [k \in Kinds |-> lock'[k]]
  /\ \A p \in Operators \ {o}, k \in Kinds :
       /\ lock'[k] = p <=> lock[k] = p
       /\ lock[k] = p => table'[k] = table[k]

LEMMA ReleaseBeside ==
  ASSUME Locking, NEW o \in Operators, Release(o),
         \A k \in Kinds : table'[k] # table[k] => k = "raw" \/ lock[k] = o,
         \A p \in Operators : lock["raw"] # p
  PROVE  Beside(o) /\ \A k \in Kinds : lock'[k] # o
BY NobodyAssumption DEF Release, Beside, Locking

LEMMA NoRawLock ==
  ASSUME Locking PROVE \A p \in Operators : lock["raw"] # p
BY DEF Locking, Locked, Locks, Kinds

\* What the tables hold is unchanged or grows, a receipt still attests it.
LEMMA FiledStays ==
  ASSUME Filed, world' = world, receipts' = receipts,
         \A k \in Kinds : table[k] \subseteq table'[k]
  PROVE  Filed'
BY DEF Filed, ReceiptsAttest

\* A step of one tool that leaves the tables and its own part sound.
LEMMA Preserved ==
  ASSUME TargetInv, NEW o \in Operators, NEW file, NEW step, NEW applied,
         Moves(o, file, step, applied), world' = world, Grows, Filed', Beside(o),
         Does(o)', Locked(o)'
  PROVE  TargetInv'
<1>1. ASSUME NEW p \in Operators, p # o
      PROVE  Does(p)' /\ Locked(p)'
  <2>1. job'[p] = job[p] /\ Does(p) /\ Locked(p)
    BY <1>1 DEF Moves, TargetInv, Locking
  <2>2. File(p) \in world.files => File(p).kind \in Kinds
    BY WorldsAssumption DEF TargetInv, IsFile
  <2>3. Does(p)'
    <3>1. CASE job[p].step \in Applied
      <4>1. File(p).kind \in Kinds
        BY <2>1, <2>2, <3>1 DEF Does, Applied
      <4>2. table[File(p).kind] \subseteq table'[File(p).kind]
        BY <4>1 DEF Grows
      <4> QED BY <2>1, <4>2 DEF Does, File, Holds, Attests
    <3>2. CASE job[p].step \notin Applied
      BY <2>1, <3>2 DEF Does, File, Applied
    <3> QED BY <3>1, <3>2
  <2>4. Locked(p)'
    <3>1. \A k \in Kinds : lock'[k] = p <=> lock[k] = p
      BY <1>1 DEF Beside
    <3>2. ASSUME At(p, "insert"), Locks(File(p)) PROVE ~Conflict(File(p))'
      <4>1. lock[File(p).kind] = p /\ File(p).kind \in Kinds
        BY <2>1, <2>2, <3>2 DEF Locked, Does, At
      <4>2. table'[File(p).kind] = table[File(p).kind]
        BY <1>1, <4>1 DEF Beside
      <4> QED BY <2>1, <3>2, <4>2 DEF Locked, Conflict, File
    <3> QED BY <2>1, <3>1, <3>2 DEF Locked, At, File, Locks
  <2> QED BY <2>3, <2>4
<1> QED BY <1>1 DEF TargetInv, Locking, Grows, Moves, Beside

-----------------------------------------------------------------------------
(***************************************************************************)
(* Every step of the tools.                                                *)
(***************************************************************************)
LEMMA InitTarget == Init => TargetInv
<1> SUFFICES ASSUME Init PROVE TargetInv
  OBVIOUS
<1>1. \A k \in Kinds : table[k] = {} /\ lock[k] = Nobody
  BY DEF Init
<1>2. table.domain = {} /\ \A k \in {"raw", "accounting"} : table[k] = {}
  BY <1>1 DEF Kinds
<1>3. Origin /\ (\A k \in Kinds : KeysOnce(table[k])) /\ Numbers
  BY <1>1, <1>2 DEF Origin, KeysOnce, Numbers, Init
<1>4. ASSUME NEW o \in Operators PROVE Does(o) /\ Locked(o) /\ job[o] = NoJob
  <2>1. job[o] = [file |-> NoFile, step |-> "idle", applied |-> {}]
    BY DEF Init, NoJob
  <2>2. job[o].step = "idle" /\ job[o].file = NoFile
    BY <2>1
  <2>3. Does(o)
    BY <2>2 DEF Does, Steps, Resting, Applied, File
  <2>4. Locked(o)
    BY <1>1, <2>2, NobodyAssumption DEF Locked, At
  <2> QED BY <2>1, <2>3, <2>4 DEF NoJob
<1>5. Shaped
  BY DEF Init, Shaped, NoJob, File
<1>6. Filed
  BY DEF Filed, ReceiptsAttest, Init
<1>7. lock = [k \in Kinds |-> lock[k]]
  BY DEF Init
<1> QED BY <1>3, <1>4, <1>5, <1>6, <1>7 DEF TargetInv, Locking, Init

\* Nothing is stored.
LEMMA SameGrows ==
  ASSUME TargetInv, table' = table, world' = world
  PROVE  Grows
<1>1. \A x : Sourced(x) => Sourced(x)'
  BY DEF Sourced
<1>2. Origin'
  BY <1>1 DEF TargetInv, Origin
<1>3. Numbers'
  BY DEF TargetInv, Numbers, Revisions
<1> QED BY <1>2, <1>3 DEF TargetInv, Grows

LEMMA SameFiled ==
  ASSUME TargetInv, table' = table, world' = world, receipts' = receipts
  PROVE  Filed'
BY DEF TargetInv, Filed, ReceiptsAttest

LEMMA SameBeside ==
  ASSUME TargetInv, NEW o, lock' = lock, table' = table
  PROVE  Beside(o)
BY DEF TargetInv, Locking, Beside

LEMMA FileOfTool ==
  ASSUME TargetInv, NEW o \in Operators, job[o].step # "idle"
  PROVE  File(o) \in world.files /\ IsFile(File(o)) /\ File(o).kind \in Kinds
BY WorldsAssumption DEF TargetInv, Does, IsFile

LEMMA StartStep ==
  ASSUME TargetInv, NEW o \in Operators, NEW f \in world.files, Start(o, f)
  PROVE  TargetInv'
<1>1. Moves(o, f, "begin", {})
  BY SetMoves DEF Start, TargetInv
<1>2. Grows /\ Filed' /\ Beside(o) /\ world' = world
  BY SameGrows, SameFiled, SameBeside DEF Start
<1>3. job'[o].file = f /\ job'[o].step = "begin"
  BY <1>1 DEF Moves
<1>4. Does(o)'
  BY <1>2, <1>3 DEF Does, File, Steps, Applied
<1>5. \A k \in Kinds : lock'[k] # o
  BY DEF Start, TargetInv, Locking, Locked, Resting
<1>6. Locked(o)'
  BY <1>3, <1>5 DEF Locked, At
<1> QED BY <1>1, <1>2, <1>4, <1>6, Preserved

LEMMA BeginStep ==
  ASSUME TargetInv, NEW o \in Operators, Begin(o)
  PROVE  TargetInv'
<1>0. At(o, "begin") /\ Go(o, "check") /\ Shaped
  BY DEF Begin, TargetInv
<1>1. Moves(o, File(o), "check", job[o].applied)
  BY <1>0, GoMoves
<1>2. Grows /\ Filed' /\ world' = world /\ table' = table
  BY SameGrows, SameFiled DEF Begin
<1>3. job'[o].file = File(o) /\ job'[o].step = "check"
  BY <1>1 DEF Moves
<1>4. File(o) \in world.files /\ File(o).kind \in Kinds
  BY <1>0, FileOfTool DEF At
<1>5. Does(o)'
  BY <1>2, <1>3, <1>4 DEF Does, File, Steps, Applied
<1>6. \A k \in Kinds : lock[k] # o
  BY <1>0 DEF TargetInv, Locking, Locked, At
<1>7. /\ lock' = [k \in Kinds |-> lock'[k]]
      /\ \A k \in Kinds : lock'[k] = IF Locks(File(o)) /\ k = File(o).kind THEN o ELSE lock[k]
      /\ Locks(File(o)) => lock[File(o).kind] = Nobody
  BY <1>4 DEF Begin, TargetInv, Locking
<1>8. Locked(o)'
  BY <1>3, <1>6, <1>7 DEF Locked, At, File, Locks
<1>9. Beside(o)
  BY <1>2, <1>7, NobodyAssumption DEF Beside
<1> QED BY <1>1, <1>2, <1>5, <1>8, <1>9, Preserved

\* Who gives up gives its lock back.
LEMMA RefusedStep ==
  ASSUME TargetInv, NEW o \in Operators, job[o].step # "idle",
         Go(o, "refused"), Release(o), UNCHANGED <<world, table, receipts>>
  PROVE  TargetInv'
<1>1. Moves(o, File(o), "refused", job[o].applied)
  BY GoMoves DEF TargetInv
<1>2. Grows /\ Filed'
  BY SameGrows, SameFiled
<1>3. Beside(o) /\ \A k \in Kinds : lock'[k] # o
  BY ReleaseBeside, NoRawLock DEF TargetInv
<1>4. job'[o].file = File(o) /\ job'[o].step = "refused"
  BY <1>1 DEF Moves
<1>5. Does(o)'
  BY <1>4, FileOfTool DEF Does, File, Steps, Resting, Applied
<1>6. Locked(o)'
  BY <1>3, <1>4 DEF Locked, At
<1> QED BY <1>1, <1>2, <1>3, <1>5, <1>6, Preserved

LEMMA CheckStep ==
  ASSUME TargetInv, NEW o \in Operators, Check(o)
  PROVE  TargetInv'
<1>1. At(o, "check") /\ UNCHANGED <<world, table, receipts>>
  BY DEF Check
<1>2. CASE Conflict(File(o))
  BY <1>1, <1>2, RefusedStep DEF Check, At
<1>3. CASE ~Conflict(File(o))
  <2>1. Moves(o, File(o), "insert", job[o].applied)
    BY <1>3, GoMoves DEF Check, TargetInv
  <2>2. Grows /\ Filed' /\ Beside(o) /\ lock' = lock
    BY <1>1, <1>3, SameGrows, SameFiled, SameBeside DEF Check
  <2>3. job'[o].file = File(o) /\ job'[o].step = "insert"
    BY <2>1 DEF Moves
  <2>4. Does(o)'
    BY <1>1, <2>3, FileOfTool DEF Does, File, Steps, Applied, At
  <2>5. Locked(o)
    BY DEF TargetInv, Locking
  <2>6. Locked(o)'
    BY <1>1, <1>3, <2>2, <2>3, <2>5 DEF Locked, At, File, Locks, Conflict
  <2> QED BY <1>1, <2>1, <2>2, <2>4, <2>6, Preserved
<1> QED BY <1>2, <1>3

LEMMA InsertStep ==
  ASSUME TargetInv, NEW o \in Operators, Insert(o)
  PROVE  TargetInv'
<1>1. /\ At(o, "insert") /\ world' = world /\ receipts' = receipts
      /\ table' = [table EXCEPT ![File(o).kind] = @ \cup Inserted(File(o))]
      /\ Release(o)
  BY DEF Insert
<1>2. Moves(o, File(o), "hash", job[o].applied)
  BY GoMoves DEF Insert, TargetInv
<1>3. File(o) \in world.files /\ File(o).kind \in Kinds
  BY <1>1, FileOfTool DEF At
<1>4. /\ Grows
      /\ \A k \in Kinds \ {File(o).kind} : table'[k] = table[k]
      /\ ~Conflict(File(o)) => Holds(File(o))'
  <2>1. PICK f \in world.files : f = File(o)
    BY <1>3
  <2>2. /\ Grows
        /\ \A k \in Kinds \ {f.kind} : table'[k] = table[k]
        /\ ~Conflict(f) => Holds(f)'
    BY <1>1, <2>1, InsertGrows DEF TargetInv
  <2>3. Holds(f)' <=> \A r \in f.rows : \E x \in table'[f.kind] : Plain(x) = r
    BY DEF Holds
  <2>4. job'[o].file = f
    BY <1>2, <2>1 DEF Moves
  <2> QED BY <2>1, <2>2, <2>4 DEF File, Holds
<1>5. Filed'
  BY <1>1, <1>4, FiledStays DEF TargetInv, Grows
<1>6. Locked(o)
  BY DEF TargetInv, Locking
<1>7. Beside(o) /\ \A k \in Kinds : lock'[k] # o
  <2>1. \A k \in Kinds : table'[k] # table[k] => k = "raw" \/ lock[k] = o
    BY <1>1, <1>3, <1>4, <1>6 DEF Locked, At, Locks
  <2> QED BY <1>1, <2>1, ReleaseBeside, NoRawLock DEF TargetInv
<1>8. job'[o].file = File(o) /\ job'[o].step = "hash"
  BY <1>2 DEF Moves
<1>9. Locks(File(o)) => Holds(File(o))'
  BY <1>1, <1>4, <1>6 DEF Locked, At
<1>10. Does(o)'
  BY <1>1, <1>3, <1>8, <1>9 DEF Does, File, Steps, Applied, Holds
<1>11. Locked(o)'
  BY <1>7, <1>8 DEF Locked, At
<1> QED BY <1>1, <1>2, <1>4, <1>5, <1>7, <1>10, <1>11, Preserved

\* The hash of a file covers what its rows are stored as.
LEMMA CoveredAttests ==
  ASSUME Origin, NEW f, IsFile(f), Locks(f), Holds(f)
  PROVE  Attests(Covered(f, table[f.kind]), f)
<1> SUFFICES ASSUME NEW r \in f.rows
             PROVE  \E x \in Covered(f, table[f.kind]) : Plain(x) = r
  BY DEF Attests
<1>1. PICK x \in table[f.kind] : Plain(x) = r
  BY DEF Holds
<1>2. x.keys = r.keys /\ x.cohort = r.cohort
  <2>1. f.kind \in Kinds
    BY DEF IsFile
  <2>2. Plain(x).keys = x.keys /\ Plain(x).cohort = x.cohort
    BY <2>1, StoredRow
  <2> QED BY <1>1, <2>2
<1>3. CASE f.kind = "domain"
  <2>1. x.cohort = f.cohort
    BY <1>2, <1>3 DEF IsFile
  <2>2. x \in Covered(f, table[f.kind])
    BY <1>3, <2>1 DEF Covered
  <2> QED BY <1>1, <2>2
<1>4. CASE f.kind = "accounting"
  <2>1. PICK k \in r.keys : k[1] = "event"
    BY <1>4 DEF IsFile
  <2>2. k \in Events(f)
    BY <2>1 DEF Events
  <2>3. x.keys \cap Events(f) # {}
    BY <1>2, <2>1, <2>2
  <2>4. x \in Covered(f, table[f.kind])
    BY <1>4, <2>3 DEF Covered
  <2> QED BY <1>1, <2>4
<1> QED BY <1>3, <1>4 DEF IsFile, Kinds, Locks

LEMMA HashStep ==
  ASSUME TargetInv, NEW o \in Operators, HashRows(o)
  PROVE  TargetInv'
<1>1. At(o, "hash") /\ UNCHANGED <<world, table, receipts, lock>>
  BY DEF HashRows
<1>2. PICK rows : rows = Covered(File(o), table[File(o).kind])
  OBVIOUS
<1>3. Moves(o, File(o), "receipt", rows)
  <2>1. job[o] = [file |-> File(o), step |-> job[o].step, applied |-> job[o].applied]
    BY DEF TargetInv, Shaped
  <2>2. job' = [job EXCEPT ![o] = [file |-> File(o), step |-> "receipt", applied |-> rows]]
    <3>1. PICK a, b, c : job[o] = [file |-> a, step |-> b, applied |-> c] /\ a = File(o)
      BY <2>1
    <3>2. job' = [job EXCEPT ![o] = [[job[o] EXCEPT !.step = "receipt"]
                                       EXCEPT !.applied = rows]]
      BY <1>2 DEF HashRows, TargetInv, Shaped
    <3>3. [[job[o] EXCEPT !.step = "receipt"] EXCEPT !.applied = rows]
             = [file |-> a, step |-> "receipt", applied |-> rows]
      <4>1. PICK mid : mid = [job[o] EXCEPT !.step = "receipt"]
        OBVIOUS
      <4>2. mid = [file |-> a, step |-> "receipt", applied |-> c]
        BY <3>1, <4>1
      <4>3. [mid EXCEPT !.applied = rows] = [file |-> a, step |-> "receipt", applied |-> rows]
        BY <4>2
      <4> QED BY <4>1, <4>3
    <3> QED BY <3>1, <3>2, <3>3
  <2> QED BY <2>2, SetMoves DEF TargetInv
<1>4. Grows /\ Filed' /\ Beside(o)
  BY <1>1, SameGrows, SameFiled, SameBeside
<1>5. job'[o].file = File(o) /\ job'[o].step = "receipt" /\ job'[o].applied = rows
  BY <1>3 DEF Moves
<1>6. File(o) \in world.files /\ IsFile(File(o))
  BY <1>1, FileOfTool DEF At
<1>7. Locks(File(o)) => Holds(File(o))
  BY <1>1 DEF TargetInv, Does, At, Applied
<1>8. rows \subseteq table[File(o).kind] /\ (Locks(File(o)) => Attests(rows, File(o)))
  BY <1>2, <1>6, <1>7, CoveredAttests DEF Covered, TargetInv
<1>9. Does(o)'
  BY <1>1, <1>5, <1>6, <1>7, <1>8 DEF Does, File, Steps, Applied, Holds, Attests
<1>10. Locked(o)'
  BY <1>1, <1>5 DEF TargetInv, Locking, Locked, At
<1> QED BY <1>1, <1>3, <1>4, <1>9, <1>10, Preserved

\* A step with nothing in hand but what was hashed.
LEMMA LateStep ==
  ASSUME TargetInv, NEW o \in Operators, job[o].step \in {"receipt", "file", "verify"},
         NEW step \in {"refused", "file", "verify", "done"},
         Go(o, step), UNCHANGED <<world, table, lock>>, Filed'
  PROVE  TargetInv'
<1>1. Moves(o, File(o), step, job[o].applied)
  BY GoMoves DEF TargetInv
<1>2. Grows /\ Beside(o)
  BY SameGrows, SameBeside
<1>3. job'[o].file = File(o) /\ job'[o].step = step /\ job'[o].applied = job[o].applied
  BY <1>1 DEF Moves
<1>4. Does(o) /\ job[o].step # "idle"
  BY DEF TargetInv
<1>5. Does(o)'
  BY <1>3, <1>4 DEF Does, File, Steps, Resting, Applied, Holds, Attests
<1>6. Locked(o)'
  BY <1>3 DEF TargetInv, Locking, Locked, At
<1> QED BY <1>1, <1>2, <1>5, <1>6, Preserved

LEMMA FindReceiptStep ==
  ASSUME TargetInv, NEW o \in Operators, FindReceipt(o)
  PROVE  TargetInv'
<1>1. Filed'
  BY SameFiled DEF FindReceipt
<1>2. PICK step \in {"refused", "file"} : Go(o, step)
  BY DEF FindReceipt
<1> QED BY <1>1, <1>2, LateStep DEF FindReceipt, At

LEMMA VerifyStep ==
  ASSUME TargetInv, NEW o \in Operators, Verify(o)
  PROVE  TargetInv'
<1>1. Filed'
  BY SameFiled DEF Verify
<1>2. PICK step \in {"refused", "done"} : Go(o, step)
  BY DEF Verify
<1> QED BY <1>1, <1>2, LateStep DEF Verify, At

\* A receipt is filed if there is none of its run, and of what was hashed.
LEMMA FileReceiptStep ==
  ASSUME TargetInv, NEW o \in Operators, FileReceipt(o)
  PROVE  TargetInv'
<1>1. At(o, "file") /\ Go(o, "verify") /\ UNCHANGED <<world, table, lock>>
  BY DEF FileReceipt
<1>2. CASE Receipt(File(o)) # {}
  <2>1. Filed'
    BY <1>1, <1>2, SameFiled DEF FileReceipt
  <2> QED BY <1>1, <2>1, LateStep DEF At
<1>3. CASE Receipt(File(o)) = {}
  <2>1. PICK f, rows : f = File(o) /\ rows = job[o].applied
    OBVIOUS
  <2>2. /\ f \in world.files /\ f.kind \in Kinds
        /\ rows \subseteq table[f.kind]
        /\ Locks(f) => Attests(rows, f)
    BY <1>1, <2>1, FileOfTool DEF At, TargetInv, Does, Applied
  <2>3. PICK new : new = [run |-> Run(f), applied |-> rows]
    OBVIOUS
  <2>4. new.run = Run(f) /\ new.run[1] = f.kind /\ new.applied = rows
    BY <2>3 DEF Run
  <2>5. receipts' = receipts \cup {new}
    BY <1>3, <2>1, <2>3 DEF FileReceipt
  <2>6. \A r \in receipts : r.run # new.run
    BY <1>3, <2>1, <2>4 DEF Receipt
  <2>7. new.run[1] # "raw" =>
          \E g \in world.files :
            Run(g) = new.run /\ \A row \in g.rows : \E x \in new.applied : Plain(x) = row
    BY <2>2, <2>4 DEF Locks, Attests
  <2>8. ASSUME NEW r \in receipts'
        PROVE  /\ r.run[1] \in Kinds /\ r.applied \subseteq table[r.run[1]]
               /\ r.run[1] # "raw" =>
                    \E g \in world.files :
                      Run(g) = r.run /\ \A row \in g.rows : \E x \in r.applied : Plain(x) = row
    <3>1. CASE r = new
      BY <2>2, <2>4, <2>7, <3>1
    <3>2. CASE r \in receipts
      BY <3>2 DEF TargetInv, Filed, ReceiptsAttest
    <3> QED BY <2>5, <3>1, <3>2
  <2>9. \A r, s \in receipts' : r.run = s.run => r = s
    BY <2>5, <2>6 DEF TargetInv, Filed, ReceiptsAttest
  <2>10. Filed'
    BY <1>1, <2>8, <2>9 DEF Filed, ReceiptsAttest
  <2> QED BY <1>1, <2>10, LateStep DEF At
<1> QED BY <1>2, <1>3

LEMMA CrashStep ==
  ASSUME TargetInv, NEW o \in Operators, Crash(o)
  PROVE  TargetInv'
<1>1. UNCHANGED <<world, table, receipts>> /\ Release(o)
  BY DEF Crash
<1>2. Moves(o, NoFile, "idle", {})
  BY SetMoves DEF Crash, NoJob, TargetInv
<1>3. Grows /\ Filed'
  BY <1>1, SameGrows, SameFiled
<1>4. Beside(o) /\ \A k \in Kinds : lock'[k] # o
  BY <1>1, ReleaseBeside, NoRawLock DEF TargetInv
<1>5. job'[o].file = NoFile /\ job'[o].step = "idle"
  BY <1>2 DEF Moves
<1>6. Does(o)'
  BY <1>5 DEF Does, File, Steps, Resting, Applied
<1>7. Locked(o)'
  BY <1>4, <1>5 DEF Locked, At
<1> QED BY <1>1, <1>2, <1>3, <1>4, <1>6, <1>7, Preserved

\* The service waits for the lock, and so does not disturb what a tool with it
\* has checked.
LEMMA CommandStep ==
  ASSUME TargetInv, NEW c \in world.locals, Command(c)
  PROVE  TargetInv'
<1>1. Grows /\ table'["accounting"] = table["accounting"] /\ UNCHANGED <<world, receipts, lock, job>>
  BY CommandGrows DEF TargetInv, Command
<1>2. Filed'
  BY <1>1, FiledStays DEF TargetInv, Grows
<1>3. ASSUME NEW o \in Operators PROVE Does(o)' /\ Locked(o)'
  <2>1. Does(o) /\ Locked(o)
    BY DEF TargetInv, Locking
  <2>2. job[o].step # "idle" => File(o).kind \in Kinds
    BY FileOfTool
  <2>3. Does(o)'
    <3>1. CASE job[o].step \in Applied
      <4>1. table[File(o).kind] \subseteq table'[File(o).kind]
        BY <1>1, <2>2, <3>1 DEF Applied, Grows
      <4> QED BY <1>1, <2>1, <4>1 DEF Does, File, Holds, Attests
    <3>2. CASE job[o].step \notin Applied
      BY <1>1, <2>1, <3>2 DEF Does, File, Applied
    <3> QED BY <3>1, <3>2
  <2>4. ASSUME At(o, "insert"), Locks(File(o)) PROVE ~Conflict(File(o))'
    <3>1. lock[File(o).kind] = o /\ File(o).kind \in Kinds
      BY <2>1, <2>2, <2>4 DEF Locked, At
    <3>2. lock["domain"] = Nobody
      BY DEF Command
    <3>3. File(o).kind = "accounting"
      BY <2>4, <3>1, <3>2, NobodyAssumption DEF Kinds, Locks
    <3> QED BY <1>1, <2>1, <2>4, <3>3 DEF Locked, Conflict, File
  <2>5. Locked(o)'
    BY <1>1, <2>1, <2>4 DEF Locked, At, File, Locks
  <2> QED BY <2>3, <2>5
<1> QED BY <1>1, <1>2, <1>3 DEF TargetInv, Locking, Grows, Shaped, File

\* Every step of the tools and of the service.
LEMMA TargetStep == TargetInv /\ [Next]_targetVars => TargetInv'
<1> SUFFICES ASSUME TargetInv, [Next]_targetVars PROVE TargetInv'
  OBVIOUS
<1>1. ASSUME NEW o \in Operators, NEW f \in world.files, Start(o, f) PROVE TargetInv'
  BY <1>1, StartStep
<1>2. ASSUME NEW o \in Operators, Step(o) PROVE TargetInv'
  BY <1>2, BeginStep, CheckStep, InsertStep, HashStep, FindReceiptStep, FileReceiptStep,
     VerifyStep DEF Step
<1>3. ASSUME NEW o \in Operators, Crash(o) PROVE TargetInv'
  BY <1>3, CrashStep
<1>4. ASSUME NEW c \in world.locals, Command(c) PROVE TargetInv'
  BY <1>4, CommandStep
<1>5. CASE UNCHANGED targetVars
  <2>1. Grows /\ Filed'
    BY <1>5, SameGrows, SameFiled DEF targetVars
  <2>2. ASSUME NEW o \in Operators PROVE Does(o)' /\ Locked(o)'
    <3>1. Does(o) /\ Locked(o)
      BY DEF TargetInv, Locking
    <3> QED BY <1>5, <3>1
          DEF targetVars, Does, File, Holds, Attests, Locked, At, Locks, Conflict
  <2> QED BY <1>5, <2>1, <2>2 DEF TargetInv, Locking, Grows, Shaped, File, targetVars
<1> QED BY <1>1, <1>2, <1>3, <1>4, <1>5 DEF Next

LEMMA TargetSound == TargetInv => TablesSound
<1> SUFFICES ASSUME TargetInv PROVE TablesSound
  OBVIOUS
<1>1. TypeOK
  <2>1. ASSUME NEW o \in Operators
        PROVE  /\ job[o].step \in Resting \cup {"begin", "check", "insert", "hash",
                                                "receipt", "file", "verify"}
               /\ job[o].file # NoFile =>
                    /\ job[o].file \in world.files
                    /\ lock[File(o).kind] = o <=>
                         Locks(File(o)) /\ job[o].step \in {"check", "insert"}
    <3>1. Does(o) /\ Locked(o)
      BY DEF TargetInv, Locking
    <3>2. job[o].file # NoFile => job[o].step # "idle"
      BY <3>1 DEF Does, File
    <3>3. job[o].file # NoFile => File(o).kind \in Kinds
      BY <3>2, FileOfTool
    <3> QED BY <3>1, <3>2, <3>3 DEF Does, Locked, Steps, File
  <2> QED BY <2>1 DEF TypeOK, TargetInv, KeysOnce, Numbers
<1>2. RevisionsDense
  <2> SUFFICES ASSUME NEW x \in table.domain, NEW n \in 1..x.rev
               PROVE  \E y \in table.domain : y.target = x.target /\ y.rev = n
    BY DEF RevisionsDense
  <2>1. PICK last \in Nat : Revisions(x.target) = 1..last
    BY DEF TargetInv, Numbers
  <2>2. x.rev \in Revisions(x.target)
    BY DEF Revisions
  <2>3. n \in Revisions(x.target)
    BY <2>1, <2>2
  <2> QED BY <2>3 DEF Revisions
<1>3. AppliedIsThere
  BY DEF AppliedIsThere, TargetInv, Does, Applied, Locks
<1> QED BY <1>1, <1>2, <1>3 DEF TablesSound

\* A step of the script leaves PostgreSQL alone, and the other way round.
LEMMA EveryStep == [RehearsalNext]_vars => [Next]_targetVars
BY DEF RehearsalNext, vars

\* The tables of PostgreSQL are as if tools and service had taken turns, for
\* any files, operators, crashes and commands: keys are unique, the revisions
\* of an aggregate are one to their number, and what a tool that has a lock
\* reports as applied is there (apply_rows).
THEOREM TablesSoundHolds == RehearsalSpec => []TablesSound
<1>1. RehearsalInit => TargetInv
  BY InitTarget DEF RehearsalInit
<1>2. TargetInv /\ [RehearsalNext]_vars => TargetInv'
  BY TargetStep, EveryStep
<1> QED BY <1>1, <1>2, TargetSound, PTL DEF RehearsalSpec

\* One receipt of a run is filed, of rows that are stored and stay, and of every
\* row of a file of that run (finalize_receipt).
THEOREM ReceiptsAttestHolds == RehearsalSpec => []ReceiptsAttest
<1>1. RehearsalInit => TargetInv
  BY InitTarget DEF RehearsalInit
<1>2. TargetInv /\ [RehearsalNext]_vars => TargetInv'
  BY TargetStep, EveryStep
<1>3. TargetInv => ReceiptsAttest
  BY DEF TargetInv, Filed
<1> QED BY <1>1, <1>2, <1>3, PTL DEF RehearsalSpec

-----------------------------------------------------------------------------
(***************************************************************************)
(* The SQLite store.                                                       *)
(***************************************************************************)
LiteGrows ==
  /\ \A k \in Kinds : lite.rows[k] \subseteq lite'.rows[k]
  /\ lite.receipts \subseteq lite'.receipts

\* What a transaction that goes through leaves.
LEMMA LiteAfter ==
  ASSUME LiteInv, NEW f, f.kind \in Kinds, ~LiteRefuses(f), lite' = Transacted(f)
  PROVE  /\ lite' = [rows |-> [k \in Kinds |-> lite'.rows[k]], receipts |-> lite'.receipts]
         /\ lite'.rows[f.kind] = lite.rows[f.kind] \cup f.rows
         /\ \A k \in Kinds \ {f.kind} : lite'.rows[k] = lite.rows[k]
         /\ lite'.receipts = lite.receipts \cup {[run |-> Run(f), applied |-> LiteHash(f)]}
<1>1. PICK a, b : lite = [rows |-> a, receipts |-> b] /\ a = [k \in Kinds |-> a[k]]
  BY DEF LiteInv
<1>2. PICK c : c = [a EXCEPT ![f.kind] = a[f.kind] \cup f.rows]
  OBVIOUS
<1>3. PICK d : d = b \cup {[run |-> Run(f), applied |-> LiteHash(f)]}
  OBVIOUS
<1>4. lite.rows = a /\ lite.receipts = b
  BY <1>1
<1>5. lite' = [rows |-> c, receipts |-> d]
  BY <1>2, <1>3, <1>4 DEF Transacted, LiteRows
<1>6. lite'.rows = c /\ lite'.receipts = d
  BY <1>5
<1>7. /\ c = [k \in Kinds |-> c[k]] /\ c[f.kind] = a[f.kind] \cup f.rows
      /\ \A k \in Kinds \ {f.kind} : c[k] = a[k]
  BY <1>1, <1>2
<1> QED BY <1>3, <1>4, <1>5, <1>6, <1>7

\* The hash of a file that goes through is of a receipt that is there, or of
\* the rows of the file.
LEMMA LiteHashes ==
  ASSUME LiteInv, world \in Worlds, NEW f \in Planned, ~LiteRefuses(f), f.kind # "raw"
  PROVE  \/ LiteHash(f) = f.rows
         \/ [run |-> Run(f), applied |-> LiteHash(f)] \in lite.receipts
<1>1. IsFile(f)
  BY WorldsAssumption DEF Planned
<1>2. CASE f.kind = "domain"
  <2>1. CASE LiteReceipt(f) = {}
    <3>1. ASSUME NEW x \in lite.rows["domain"] PROVE x.cohort # f.cohort
      <4>1. PICK g \in Planned : /\ g.kind = "domain" /\ x \in g.rows
                                 /\ [run |-> Run(g), applied |-> g.rows] \in lite.receipts
        BY DEF LiteInv
      <4>2. x.cohort = g.cohort
        BY <4>1, WorldsAssumption DEF Planned, IsFile
      <4>3. Run(g) # Run(f)
        BY <2>1, <4>1 DEF LiteReceipt
      <4> QED BY <1>2, <4>1, <4>2, <4>3 DEF Run
    <3>2. \A r \in f.rows : r.cohort = f.cohort
      BY <1>1, <1>2 DEF IsFile
    <3>3. LiteHash(f) = f.rows
      BY <1>2, <3>1, <3>2 DEF LiteHash, LiteRows, Covered
    <3> QED BY <3>3
  <2>2. CASE LiteReceipt(f) # {}
    <3>1. PICK r \in lite.receipts : r.run = Run(f)
      BY <2>2 DEF LiteReceipt
    <3>2. r.applied = LiteHash(f)
      BY <3>1 DEF LiteRefuses, LiteReceipt
    <3>3. [run |-> Run(f), applied |-> LiteHash(f)] \in lite.receipts
      BY <3>1, <3>2 DEF LiteInv
    <3> QED BY <3>3
  <2> QED BY <2>1, <2>2
<1>3. CASE f.kind = "accounting"
  <2>1. ASSUME NEW x \in lite.rows["accounting"], x.keys \cap Events(f) # {}
        PROVE  x \in f.rows
    <3>1. PICK g \in Planned : g.kind = "accounting" /\ x \in g.rows
      BY DEF LiteInv
    <3>2. IsRow(x)
      BY <3>1, WorldsAssumption DEF Planned, IsFile
    <3>3. Plain(x) = x
      BY <3>2, RowRevised
    <3>4. PICK r \in f.rows : x.keys \cap r.keys # {}
      BY <2>1 DEF Events
    <3>5. ~Clash(x, r)
      BY <1>3, <2>1, <3>4 DEF LiteRefuses
    <3> QED BY <3>3, <3>4, <3>5 DEF Clash
  <2>2. ASSUME NEW r \in f.rows PROVE r.keys \cap Events(f) # {}
    <3>1. PICK k \in r.keys : k[1] = "event"
      BY <1>1, <1>3 DEF IsFile
    <3> QED BY <3>1 DEF Events
  <2>3. LiteHash(f) = f.rows
    BY <1>3, <2>1, <2>2 DEF LiteHash, LiteRows, Covered
  <2> QED BY <2>3
<1> QED BY <1>1, <1>2, <1>3 DEF IsFile, Kinds

LEMMA RowsHashed ==
  ASSUME NEW f, IsFile(f)
  PROVE  f.rows \subseteq LiteHash(f)
<1> SUFFICES ASSUME NEW r \in f.rows PROVE r \in LiteHash(f)
  OBVIOUS
<1>1. r \in LiteRows(f)
  BY DEF LiteRows
<1>2. CASE f.kind = "raw"
  BY <1>1, <1>2 DEF LiteHash, Covered
<1>3. CASE f.kind = "domain"
  <2>1. r.cohort = f.cohort
    BY <1>3 DEF IsFile
  <2> QED BY <1>1, <1>3, <2>1 DEF LiteHash, Covered
<1>4. CASE f.kind = "accounting"
  <2>1. PICK k \in r.keys : k[1] = "event"
    BY <1>4 DEF IsFile
  <2>2. r.keys \cap Events(f) # {}
    BY <2>1 DEF Events
  <2> QED BY <1>1, <1>4, <2>2 DEF LiteHash, Covered
<1> QED BY <1>2, <1>3, <1>4 DEF IsFile, Kinds

\* A transaction of the SQLite tools adds a whole file with its receipt, or
\* nothing.
LEMMA TransactedSound ==
  ASSUME LiteInv, world \in Worlds, world' = world, NEW f \in Planned, lite' = Transacted(f)
  PROVE  /\ LiteInv' /\ LiteGrows
         /\ ~LiteRefuses(f) => InLite(f)'
<1>1. IsFile(f) /\ f.kind \in Kinds /\ Planned' = Planned
  BY WorldsAssumption DEF Planned, IsFile
<1>2. CASE LiteRefuses(f)
  <2>1. lite' = lite
    BY <1>2 DEF Transacted
  <2>2. LiteInv'
    BY <1>1, <2>1 DEF LiteInv
  <2> QED BY <1>2, <2>1, <2>2 DEF LiteGrows
<1>3. CASE ~LiteRefuses(f)
  <2>1. PICK hash, new : hash = LiteHash(f) /\ new = [run |-> Run(f), applied |-> hash]
    OBVIOUS
  <2>2. new.run = Run(f) /\ new.applied = hash /\ new = [run |-> new.run, applied |-> new.applied]
    BY <2>1
  <2>3. /\ lite' = [rows |-> [k \in Kinds |-> lite'.rows[k]], receipts |-> lite'.receipts]
        /\ lite'.rows[f.kind] = lite.rows[f.kind] \cup f.rows
        /\ \A k \in Kinds \ {f.kind} : lite'.rows[k] = lite.rows[k]
        /\ lite'.receipts = lite.receipts \cup {new}
    BY <1>1, <1>3, <2>1, LiteAfter
  <2>4. \/ f.kind = "raw"
        \/ hash = f.rows
        \/ new \in lite.receipts
    BY <1>3, <2>1, LiteHashes
  <2>5. f.rows \subseteq hash
    BY <1>1, <2>1, RowsHashed
  <2>6. LiteGrows
    BY <1>1, <2>3 DEF LiteGrows
  <2>7. \A k \in Kinds : IsFiniteSet(lite'.rows[k])
    <3>1. IsFiniteSet(lite.rows[f.kind]) /\ IsFiniteSet(f.rows)
      BY <1>1 DEF LiteInv, IsFile
    <3>2. IsFiniteSet(lite.rows[f.kind] \cup f.rows)
      BY <3>1, FS_Union
    <3> QED BY <2>3, <3>2 DEF LiteInv
  <2>8. ASSUME NEW r \in lite.receipts
        PROVE  /\ r = [run |-> r.run, applied |-> r.applied]
               /\ r.run[1] # "raw" =>
                    \E g \in Planned : /\ Run(g) = r.run /\ r.applied = g.rows
                                       /\ g.rows \subseteq lite'.rows[g.kind]
    <3>1. ASSUME r.run[1] # "raw"
          PROVE  \E g \in Planned : /\ Run(g) = r.run /\ r.applied = g.rows
                                    /\ g.rows \subseteq lite'.rows[g.kind]
      <4>1. PICK g \in Planned : /\ Run(g) = r.run /\ r.applied = g.rows
                                 /\ g.rows \subseteq lite.rows[g.kind]
        BY <3>1 DEF LiteInv
      <4>2. g.kind \in Kinds
        BY WorldsAssumption DEF Planned, IsFile
      <4> QED BY <2>6, <4>1, <4>2 DEF LiteGrows
    <3> QED BY <3>1 DEF LiteInv
  <2>9. ASSUME hash = f.rows, new.run[1] # "raw"
        PROVE  \E g \in Planned : /\ Run(g) = new.run /\ new.applied = g.rows
                                  /\ g.rows \subseteq lite'.rows[g.kind]
    BY <2>2, <2>3, <2>9
  <2>10. new.run[1] = f.kind
    BY <2>2 DEF Run
  <2>11. ASSUME NEW r \in lite'.receipts
         PROVE  /\ r = [run |-> r.run, applied |-> r.applied]
                /\ r.run[1] # "raw" =>
                     \E g \in Planned : /\ Run(g) = r.run /\ r.applied = g.rows
                                        /\ g.rows \subseteq lite'.rows[g.kind]
    <3>1. CASE r \in lite.receipts
      BY <2>8, <3>1
    <3>2. CASE r = new
      BY <2>2, <2>4, <2>8, <2>9, <2>10, <3>2
    <3> QED BY <2>3, <3>1, <3>2
  <2>12. ASSUME NEW k \in {"domain", "accounting"}, NEW x \in lite'.rows[k]
         PROVE  \E g \in Planned : /\ g.kind = k /\ x \in g.rows
                                   /\ [run |-> Run(g), applied |-> g.rows] \in lite'.receipts
    <3>1. CASE x \in lite.rows[k]
      BY <2>3, <3>1 DEF LiteInv
    <3>2. CASE x \notin lite.rows[k]
      <4>1. k = f.kind /\ x \in f.rows
        BY <2>3, <3>2 DEF Kinds
      <4>2. CASE hash = f.rows
        BY <2>1, <2>3, <4>1, <4>2
      <4>3. CASE new \in lite.receipts
        <5>1. PICK g \in Planned : Run(g) = Run(f) /\ hash = g.rows
          BY <2>2, <2>10, <4>1, <4>3 DEF LiteInv
        <5>2. g.kind = f.kind /\ [run |-> Run(g), applied |-> g.rows] = new
          BY <2>1, <5>1 DEF Run
        <5> QED BY <2>3, <2>5, <4>1, <5>1, <5>2
      <4> QED BY <2>4, <4>1, <4>2, <4>3
    <3> QED BY <3>1, <3>2
  <2>13. LiteInv'
    BY <1>1, <2>3, <2>7, <2>11, <2>12 DEF LiteInv
  <2>14. InLite(f)'
    BY <2>2, <2>3 DEF InLite, LiteReceipt
  <2> QED BY <1>3, <2>6, <2>13, <2>14
<1> QED BY <1>2, <1>3

-----------------------------------------------------------------------------
(***************************************************************************)
(* A pass of the script.                                                   *)
(***************************************************************************)
LEMMA InLiteStays ==
  ASSUME LiteGrows, NEW f, f.kind \in Kinds, InLite(f)
  PROVE  InLite(f)'
BY DEF LiteGrows, InLite, LiteReceipt

LEMMA PlannedKinds ==
  ASSUME world \in Worlds, NEW f \in Planned
  PROVE  IsFile(f) /\ f.kind \in Kinds
BY WorldsAssumption DEF Planned, IsFile

LEMMA ToMoves ==
  ASSUME PassInv, NEW stage, To(stage)
  PROVE  /\ pass' = [plan |-> pass'.plan, todo |-> pass'.todo, file |-> pass'.file,
                     stage |-> pass'.stage]
         /\ pass'.plan = pass.plan /\ pass'.todo = pass.todo /\ pass'.file = pass.file
         /\ pass'.stage = stage
<1>1. PICK a, b, c, d : pass = [plan |-> a, todo |-> b, file |-> c, stage |-> d]
  BY DEF PassInv
<1>2. pass' = [plan |-> a, todo |-> b, file |-> c, stage |-> stage]
  BY <1>1 DEF To
<1> QED BY <1>1, <1>2

\* A pass that ends, or is killed, has nothing to answer for.
LEMMA StopKeeps ==
  ASSUME Stop, Planned' = Planned
  PROVE  PassInv'
<1>1. pass' = [plan |-> {}, todo |-> {}, file |-> NoFile, stage |-> "off"]
  BY DEF Stop, NoPass
<1>2. /\ pass'.plan = {} /\ pass'.todo = {} /\ pass'.file = NoFile /\ pass'.stage = "off"
  BY <1>1
<1> QED BY <1>1, <1>2 DEF PassInv, Stage, Judged, AtWork

\* A pass goes on to a stage of its work when the file in hand is applied.
LEMMA WorkKeeps ==
  ASSUME PassInv, world \in Worlds, Planned' = Planned, LiteGrows,
         pass.stage \in AtWork, NEW stage \in {"next", "parity", "replay", "reconcile"},
         To(stage), NEW f \in Planned, f = pass.file, InLite(f)'
  PROVE  PassInv'
<1>1. /\ pass' = [plan |-> pass'.plan, todo |-> pass'.todo, file |-> pass'.file,
                  stage |-> pass'.stage]
      /\ pass'.plan = pass.plan /\ pass'.todo = pass.todo /\ pass'.file = pass.file
      /\ pass'.stage = stage
  BY ToMoves
<1>2. ASSUME NEW g \in pass'.plan PROVE g \in pass'.todo \/ InLite(g)'
  <2>1. g \in pass.todo \/ InLite(g) \/ g = f
    BY <1>1 DEF PassInv, Stage, AtWork
  <2>2. g.kind \in Kinds
    BY <1>1, PlannedKinds DEF PassInv
  <2> QED BY <1>1, <2>1, <2>2, InLiteStays
<1> QED BY <1>1, <1>2 DEF PassInv, Stage, Judged, AtWork

\* A file in hand that is past its first application is in the store.
LEMMA HandInLite ==
  ASSUME PassInv, pass.stage \in AtWork
  PROVE  pass.file \in Planned
BY DEF PassInv

LEMMA LiteStays ==
  ASSUME LiteInv, world' = world, lite' = lite
  PROVE  LiteInv' /\ LiteGrows
BY DEF LiteInv, LiteGrows, Planned

LEMMA StartPassStep ==
  ASSUME RehearsalInv, world \in Worlds, world' = world,
         NEW plan \in world.plans, StartPass(plan)
  PROVE  RehearsalInv'
<1>1. LiteInv'
  BY LiteStays DEF RehearsalInv, StartPass
<1>2. pass' = [plan |-> plan, todo |-> plan, file |-> NoFile, stage |-> "next"]
  BY DEF StartPass
<1>3. pass'.plan = plan /\ pass'.todo = plan /\ pass'.file = NoFile /\ pass'.stage = "next"
  BY <1>2
<1>4. plan \subseteq Planned /\ Planned' = Planned
  BY DEF Planned
<1>5. PassInv'
  BY <1>2, <1>3, <1>4 DEF PassInv, Stage, Judged, AtWork
<1> QED BY <1>1, <1>5 DEF RehearsalInv

LEMMA TakeStep ==
  ASSUME RehearsalInv, world \in Worlds, world' = world, NEW f \in pass.todo, Take(f)
  PROVE  RehearsalInv'
<1>1. LiteInv' /\ lite' = lite
  BY LiteStays DEF RehearsalInv, Take
<1>2. PICK a, b, c, d : pass = [plan |-> a, todo |-> b, file |-> c, stage |-> d]
  BY DEF RehearsalInv, PassInv
<1>3. pass' = [plan |-> a, todo |-> b \ {f}, file |-> f, stage |-> "apply"]
  <2>1. PICK one : one = [pass EXCEPT !.file = f]
    OBVIOUS
  <2>2. one = [plan |-> a, todo |-> b, file |-> f, stage |-> d]
    BY <1>2, <2>1
  <2>3. PICK two : two = [one EXCEPT !.todo = b \ {f}]
    OBVIOUS
  <2>4. two = [plan |-> a, todo |-> b \ {f}, file |-> f, stage |-> d]
    BY <2>2, <2>3
  <2>5. [two EXCEPT !.stage = "apply"] = [plan |-> a, todo |-> b \ {f}, file |-> f, stage |-> "apply"]
    BY <2>4
  <2>6. pass' = [two EXCEPT !.stage = "apply"]
    BY <1>2, <2>1, <2>3 DEF Take
  <2> QED BY <2>5, <2>6
<1>4. pass'.plan = pass.plan /\ pass'.todo = pass.todo \ {f} /\ pass'.file = f /\ pass'.stage = "apply"
  BY <1>2, <1>3
<1>5. Stage("next")
  BY DEF Take
<1>6. pass.todo \subseteq pass.plan
  BY DEF RehearsalInv, PassInv
<1>7. ASSUME NEW g \in pass.plan PROVE g \in pass'.todo \/ InLite(g)' \/ g = f
  <2>1. g \in pass.todo \/ InLite(g)
    BY <1>5 DEF RehearsalInv, PassInv, Stage
  <2> QED BY <1>1, <1>4, <2>1 DEF InLite, LiteReceipt
<1>8. PassInv'
  BY <1>2, <1>3, <1>4, <1>6, <1>7 DEF RehearsalInv, PassInv, Stage, Judged, AtWork, Planned
<1> QED BY <1>1, <1>8 DEF RehearsalInv

LEMMA ApplyStep ==
  ASSUME RehearsalInv, world \in Worlds, world' = world, Apply
  PROVE  RehearsalInv'
<1>1. PICK f : f = pass.file
  OBVIOUS
<1>2. pass.stage = "apply" /\ f \in Planned /\ Planned' = Planned
  BY <1>1, HandInLite DEF RehearsalInv, Apply, Stage, AtWork, Planned
<1>3. lite' = Transacted(f)
  BY <1>1 DEF Apply
<1>4. LiteInv' /\ LiteGrows /\ (~LiteRefuses(f) => InLite(f)')
  BY <1>2, <1>3, TransactedSound DEF RehearsalInv
<1>5. PassInv'
  <2>1. CASE Stop
    BY <1>2, <2>1, StopKeeps
  <2>2. CASE ~Stop
    <3>1. ~LiteRefuses(f)
      BY <1>1, <2>2 DEF Apply
    <3>2. f.kind \in Kinds
      BY <1>2, PlannedKinds
    <3>3. PICK stage \in {"next", "parity", "replay"} : To(stage)
      BY <1>1, <2>2, <3>2 DEF Apply, Kinds
    <3> QED BY <1>1, <1>2, <1>4, <3>1, <3>3, WorkKeeps DEF RehearsalInv, AtWork
  <2> QED BY <2>1, <2>2
<1> QED BY <1>4, <1>5 DEF RehearsalInv

\* A stage after the first application that leaves the store alone.
LEMMA ReadStep ==
  ASSUME RehearsalInv, world \in Worlds, world' = world, lite' = lite,
         pass.stage \in {"parity", "reconcile"},
         NEW stage \in {"next", "replay"}, Stop \/ To(stage)
  PROVE  RehearsalInv'
<1>1. LiteInv' /\ LiteGrows
  BY LiteStays DEF RehearsalInv
<1>2. PICK f : f = pass.file
  OBVIOUS
<1>3. f \in Planned /\ pass.stage \in AtWork /\ Planned' = Planned
  BY <1>2, HandInLite DEF RehearsalInv, AtWork, Planned
<1>4. CASE Stop
  BY <1>1, <1>3, <1>4, StopKeeps DEF RehearsalInv
<1>5. CASE To(stage)
  <2>1. InLite(f)
    BY <1>2, <1>3 DEF RehearsalInv, PassInv, Stage, AtWork
  <2>2. InLite(f)'
    BY <2>1 DEF InLite, LiteReceipt
  <2>3. PassInv'
    BY <1>1, <1>2, <1>3, <1>5, <2>2, WorkKeeps DEF RehearsalInv
  <2> QED BY <1>1, <2>3 DEF RehearsalInv
<1> QED BY <1>4, <1>5

LEMMA ReplayStep ==
  ASSUME RehearsalInv, world \in Worlds, world' = world, Replay
  PROVE  RehearsalInv'
<1>1. PICK f : f = pass.file
  OBVIOUS
<1>2. pass.stage = "replay" /\ f \in Planned /\ Planned' = Planned
  BY <1>1, HandInLite DEF RehearsalInv, Replay, Stage, AtWork, Planned
<1>3. lite' = Transacted(f)
  BY <1>1 DEF Replay
<1>4. LiteInv' /\ LiteGrows /\ (~LiteRefuses(f) => InLite(f)')
  BY <1>2, <1>3, TransactedSound DEF RehearsalInv
<1>5. PassInv'
  <2>1. CASE Stop
    BY <1>2, <2>1, StopKeeps
  <2>2. CASE ~Stop
    <3>1. ~LiteRefuses(f)
      BY <1>1, <2>2 DEF Replay
    <3>2. PICK stage \in {"reconcile", "next"} : To(stage)
      BY <1>1, <2>2 DEF Replay
    <3> QED BY <1>1, <1>2, <1>4, <3>1, <3>2, WorkKeeps DEF RehearsalInv, AtWork
  <2> QED BY <2>1, <2>2
<1> QED BY <1>4, <1>5 DEF RehearsalInv

LEMMA BackUpStep ==
  ASSUME RehearsalInv, world \in Worlds, world' = world, BackUp
  PROVE  RehearsalInv'
<1>1. LiteInv' /\ lite' = lite /\ Planned' = Planned
  BY LiteStays DEF RehearsalInv, BackUp, Planned
<1>2. CASE Stop
  BY <1>1, <1>2, StopKeeps DEF RehearsalInv
<1>3. CASE To("gate")
  <2>1. /\ pass' = [plan |-> pass'.plan, todo |-> pass'.todo, file |-> pass'.file,
                    stage |-> pass'.stage]
        /\ pass'.plan = pass.plan /\ pass'.todo = pass.todo /\ pass'.stage = "gate"
    BY <1>3, ToMoves DEF RehearsalInv
  <2>2. pass.stage = "next" /\ pass.todo = {} /\ backup' = lite.rows
    BY DEF BackUp, Stage
  <2>3. \A f \in pass.plan : InLite(f)
    BY <2>2 DEF RehearsalInv, PassInv, Stage
  <2>4. \A f \in pass'.plan : InLite(f)'
    BY <1>1, <2>1, <2>3 DEF InLite, LiteReceipt
  <2>5. PassInv'
    BY <1>1, <2>1, <2>2, <2>4 DEF RehearsalInv, PassInv, Stage, Judged, AtWork
  <2> QED BY <1>1, <2>5 DEF RehearsalInv
<1> QED BY <1>2, <1>3 DEF BackUp

LEMMA GateStep ==
  ASSUME RehearsalInv, world \in Worlds, world' = world, Gate
  PROVE  RehearsalInv'
<1>1. LiteInv' /\ lite' = lite /\ reports' = reports /\ backup' = backup
  BY LiteStays DEF RehearsalInv, Gate
<1>2. /\ pass' = [plan |-> pass'.plan, todo |-> pass'.todo, file |-> pass'.file,
                  stage |-> pass'.stage]
      /\ pass'.plan = pass.plan /\ pass'.todo = pass.todo /\ pass'.stage = "judged"
  BY ToMoves DEF RehearsalInv, Gate
<1>3. pass.stage = "gate" /\ pass.todo = {} /\ backup = lite.rows
  BY DEF Gate, Stage, RehearsalInv, PassInv
<1>4. \A f \in pass.plan : InLite(f)
  BY <1>3 DEF RehearsalInv, PassInv, Stage
<1>5. \A f \in pass'.plan : InLite(f)'
  BY <1>1, <1>2, <1>4 DEF InLite, LiteReceipt
<1>6. ASSUME Judged' PROVE Counted'
  <2>1. "empty" \notin Said("replay")
    BY <1>1, <1>6 DEF Judged, Said
  <2>2. verdict' = "ready"
    BY <1>6 DEF Judged
  <2>3. Counted
    BY <2>1, <2>2 DEF Gate
  <2> QED BY <1>1, <1>2, <2>3 DEF Counted, Compared, Expected, Given
<1>7. PassInv'
  BY <1>1, <1>2, <1>3, <1>5, <1>6 DEF RehearsalInv, PassInv, Stage, AtWork, Planned
<1> QED BY <1>1, <1>7 DEF RehearsalInv

LEMMA KillStep ==
  ASSUME RehearsalInv, world \in Worlds, world' = world, Kill
  PROVE  RehearsalInv'
<1>1. Planned' = Planned /\ Stop
  BY DEF Planned, Kill
<1>2. LiteInv'
  <2>1. CASE lite' = lite
    BY <2>1, LiteStays DEF RehearsalInv
  <2>2. CASE lite' # lite
    <3>1. PICK f : f = pass.file
      OBVIOUS
    <3>2. lite' = Transacted(f) /\ f \in Planned
      BY <2>2, <3>1, HandInLite DEF Kill, RehearsalInv, AtWork
    <3> QED BY <3>2, TransactedSound DEF RehearsalInv
  <2> QED BY <2>1, <2>2
<1> QED BY <1>1, <1>2, StopKeeps DEF RehearsalInv

LEMMA InitRehearsal == RehearsalInit => RehearsalInv
<1> SUFFICES ASSUME RehearsalInit PROVE RehearsalInv
  OBVIOUS
<1>1. PICK none : none = [k \in Kinds |-> {}]
  OBVIOUS
<1>2. lite = [rows |-> none, receipts |-> {}]
  BY <1>1 DEF RehearsalInit
<1>3. lite.rows = none /\ lite.receipts = {}
  BY <1>2
<1>4. \A k \in Kinds : none[k] = {}
  BY <1>1
<1>5. LiteInv
  BY <1>1, <1>2, <1>3, <1>4, FS_EmptySet DEF LiteInv, Kinds
<1>6. pass = [plan |-> {}, todo |-> {}, file |-> NoFile, stage |-> "off"]
  BY DEF RehearsalInit, NoPass
<1>7. pass.plan = {} /\ pass.todo = {} /\ pass.file = NoFile /\ pass.stage = "off"
  BY <1>6
<1>8. PassInv
  BY <1>6, <1>7 DEF PassInv, AtWork, Stage, Judged
<1> QED BY <1>5, <1>8 DEF RehearsalInv

\* The world is what it is.
LEMMA WorldStays == [RehearsalNext]_vars => world' = world
<1> SUFFICES ASSUME [Next]_targetVars PROVE world' = world
  BY EveryStep
<1> QED BY DEF Next, targetVars, Start, Step, Begin, Check, Insert, HashRows, FindReceipt,
             FileReceipt, Verify, Crash, Command

LEMMA RehearsalStep ==
  world \in Worlds /\ RehearsalInv /\ [RehearsalNext]_vars => RehearsalInv'
<1> SUFFICES ASSUME world \in Worlds, RehearsalInv, [RehearsalNext]_vars
             PROVE  RehearsalInv'
  OBVIOUS
<1>1. world' = world
  BY WorldStays
<1>2. CASE UNCHANGED rehearsalVars
  <2>1. LiteInv'
    BY <1>1, <1>2, LiteStays DEF rehearsalVars, RehearsalInv
  <2>2. PassInv'
    BY <1>1, <1>2 DEF rehearsalVars, RehearsalInv, PassInv, Stage, Judged, Said, Planned,
                      InLite, LiteReceipt, Counted, Compared, Expected, Given
  <2> QED BY <2>1, <2>2 DEF RehearsalInv
<1>3. CASE Rehearse
  <2>1. CASE CompareRows
    <3>1. Stop \/ To("replay")
      BY <2>1 DEF CompareRows
    <3>2. pass.stage = "parity" /\ lite' = lite
      BY <2>1 DEF CompareRows, Stage
    <3> QED BY <1>1, <3>1, <3>2, ReadStep
  <2>2. CASE Reconcile
    <3>1. Stop \/ To("next")
      BY <2>2 DEF Reconcile
    <3>2. pass.stage = "reconcile" /\ lite' = lite
      BY <2>2 DEF Reconcile, Stage
    <3> QED BY <1>1, <3>1, <3>2, ReadStep
  <2>3. CASE EndPass
    <3>1. LiteInv' /\ Stop /\ Planned' = Planned
      BY <1>1, <2>3, LiteStays DEF EndPass, RehearsalInv, Planned
    <3> QED BY <3>1, StopKeeps DEF RehearsalInv
  <2> QED BY <1>1, <1>3, <2>1, <2>2, <2>3, StartPassStep, TakeStep, ApplyStep, ReplayStep,
             BackUpStep, GateStep, KillStep DEF Rehearse
<1> QED BY <1>2, <1>3 DEF RehearsalNext, vars

LEMMA WholeFiles == RehearsalInv /\ world \in Worlds => LiteWhole
<1> SUFFICES ASSUME RehearsalInv, world \in Worlds,
                    NEW k \in {"domain", "accounting"}, NEW x \in lite.rows[k]
             PROVE  \E r \in lite.receipts :
                      /\ x \in r.applied
                      /\ r.applied \subseteq lite.rows[k]
                      /\ \E f \in UNION world.plans : Run(f) = r.run /\ r.applied = f.rows
  BY DEF LiteWhole
<1>1. PICK f \in Planned : /\ f.kind = k /\ x \in f.rows
                           /\ [run |-> Run(f), applied |-> f.rows] \in lite.receipts
  BY DEF RehearsalInv, LiteInv
<1>2. PICK r \in lite.receipts : r = [run |-> Run(f), applied |-> f.rows]
  BY <1>1
<1>3. r.run = Run(f) /\ r.applied = f.rows /\ r.run[1] = k
  BY <1>1, <1>2 DEF Run
<1>4. PICK g \in Planned : /\ Run(g) = r.run /\ r.applied = g.rows
                           /\ g.rows \subseteq lite.rows[g.kind]
  BY <1>3 DEF RehearsalInv, LiteInv
<1>5. g.kind = k
  BY <1>3, <1>4 DEF Run
<1> QED BY <1>1, <1>3, <1>4, <1>5 DEF Planned

LEMMA ReadyBacked == RehearsalInv /\ world \in Worlds => ReadyIsBacked
<1> SUFFICES ASSUME RehearsalInv, world \in Worlds, Judged
             PROVE  /\ backup = lite.rows
                    /\ \A f \in pass.plan : f.rows \subseteq lite.rows[f.kind] /\ LiteReceipt(f) # {}
                    /\ \A k \in Compared :
                         Cardinality(Files(k)) = Expected(k) => lite.rows[k] = Files(k)
  BY DEF ReadyIsBacked, Judged
<1>1. pass.todo = {} /\ backup = lite.rows /\ Counted
  BY DEF RehearsalInv, PassInv, Judged, Stage
<1>2. \A f \in pass.plan : InLite(f)
  BY <1>1 DEF RehearsalInv, PassInv, Judged, Stage
<1>3. ASSUME NEW k \in Compared, Cardinality(Files(k)) = Expected(k)
      PROVE  lite.rows[k] = Files(k)
  <2>1. Files(k) \in SUBSET lite.rows[k]
    BY <1>2 DEF Files, InLite
  <2>2. k \in Kinds
    BY DEF Compared, Kinds
  <2>3. IsFiniteSet(lite.rows[k]) /\ Cardinality(lite.rows[k]) = Cardinality(Files(k))
    BY <1>1, <1>3, <2>2 DEF RehearsalInv, LiteInv, Counted
  <2> QED BY <2>1, <2>3, FS_Subset
<1> QED BY <1>1, <1>2, <1>3 DEF InLite

LEMMA StoresAlike == TargetInv /\ RehearsalInv => StoresAgree
<1> SUFFICES ASSUME TargetInv, RehearsalInv,
                    NEW f \in world.files \cap UNION world.plans,
                    f.kind = "domain",
                    \A g \in world.files \cup UNION world.plans : Run(g) = Run(f) => g = f,
                    Receipt(f) # {},
                    LiteReceipt(f) # {}
             PROVE  CrossParity(f)
  BY DEF StoresAgree
<1>1. world \in Worlds /\ IsFile(f) /\ Origin
  BY WorldsAssumption DEF TargetInv
<1>2. Covered(f, lite.rows.domain) = f.rows
  <2>1. ASSUME NEW x \in lite.rows.domain, x.cohort = f.cohort PROVE x \in f.rows
    <3>1. PICK g \in Planned : g.kind = "domain" /\ x \in g.rows
      BY DEF RehearsalInv, LiteInv
    <3>2. x.cohort = g.cohort
      BY <1>1, <3>1, PlannedKinds DEF IsFile
    <3>3. Run(g) = Run(f)
      BY <2>1, <3>1, <3>2 DEF Run
    <3> QED BY <3>1, <3>3 DEF Planned
  <2>2. ASSUME NEW x \in f.rows PROVE x \in lite.rows.domain /\ x.cohort = f.cohort
    <3>1. PICK r \in lite.receipts : r.run = Run(f)
      BY DEF LiteReceipt
    <3>2. r.run[1] # "raw"
      BY <3>1 DEF Run
    <3>3. PICK g \in Planned : Run(g) = r.run /\ g.rows \subseteq lite.rows[g.kind]
      BY <3>2 DEF RehearsalInv, LiteInv
    <3>4. g = f
      BY <3>1, <3>3 DEF Planned
    <3> QED BY <1>1, <3>3, <3>4 DEF IsFile
  <2> QED BY <2>1, <2>2 DEF Covered
<1>3. {Plain(x) : x \in Covered(f, table.domain)} = f.rows
  <2>1. ASSUME NEW x \in table.domain, x.cohort = f.cohort PROVE Plain(x) \in f.rows
    <3>1. PICK r : \E n \in Nat :
            /\ IsRow(r)
            /\ x = Revised(r, n)
            /\ \/ \E g \in world.files : g.kind = "domain" /\ r \in g.rows
               \/ \E c \in world.locals : r = c.change /\ c.request \in table.raw
      BY <1>1 DEF Origin, Sourced
    <3>2. Plain(x) = r /\ r.cohort = f.cohort
      BY <2>1, <3>1, RowRevised
    <3>3. ASSUME NEW c \in world.locals, r = c.change PROVE FALSE
      <4>1. IsLocal(c, world)
        BY <1>1, WorldsAssumption
      <4> QED BY <3>2, <3>3, <4>1 DEF IsLocal
    <3>4. PICK g \in world.files : g.kind = "domain" /\ r \in g.rows
      BY <3>1, <3>3
    <3>5. r.cohort = g.cohort
      BY <1>1, <3>4, WorldsAssumption DEF IsFile
    <3>6. Run(g) = Run(f)
      BY <3>2, <3>4, <3>5 DEF Run
    <3> QED BY <3>2, <3>4, <3>6
  <2>2. ASSUME NEW row \in f.rows
        PROVE  \E x \in table.domain : x.cohort = f.cohort /\ Plain(x) = row
    <3>1. PICK r \in receipts : r.run = Run(f)
      BY DEF Receipt
    <3>2. r.run[1] = "domain"
      BY <3>1 DEF Run
    <3>3. r.applied \subseteq table["domain"]
      BY <3>2 DEF TargetInv, Filed, ReceiptsAttest
    <3>4. PICK g \in world.files :
            Run(g) = r.run /\ \A q \in g.rows : \E x \in r.applied : Plain(x) = q
      BY <3>2 DEF TargetInv, Filed, ReceiptsAttest
    <3>5. g = f
      BY <3>1, <3>4
    <3>6. PICK x \in r.applied : Plain(x) = row
      BY <3>4, <3>5
    <3>7. x \in table["domain"] /\ Plain(x).cohort = x.cohort
      BY <1>1, <3>3, <3>6, StoredRow DEF Kinds
    <3>8. row.cohort = f.cohort
      BY <1>1 DEF IsFile
    <3> QED BY <3>6, <3>7, <3>8
  <2> QED BY <2>1, <2>2 DEF Covered
<1> QED BY <1>2, <1>3 DEF CrossParity, Parity

\* A row is in the SQLite store only with its whole file and its receipt; a
\* store that is called ready holds the files of that pass, and nothing else in
\* a table whose count the gate was told and the files meet; and the stores
\* agree on what both attest: for any files, mappings, passes and kills
\* (ensure_projection_receipt, company_migration_cutover_gate,
\* company_cross_domain_projection_parity).
THEOREM RehearsalToldHolds == RehearsalSpec => []RehearsalTold
<1>1. RehearsalInit => TargetInv /\ RehearsalInv
  BY InitTarget, InitRehearsal DEF RehearsalInit
<1>2. TargetInv /\ RehearsalInv /\ [RehearsalNext]_vars => TargetInv' /\ RehearsalInv'
  BY TargetStep, EveryStep, RehearsalStep DEF TargetInv
<1>3. TargetInv /\ RehearsalInv => RehearsalTold
  BY WholeFiles, ReadyBacked, StoresAlike DEF RehearsalTold, TargetInv
<1> QED BY <1>1, <1>2, <1>3, PTL DEF RehearsalSpec

=============================================================================
