--------------------------- MODULE MigrationTarget ---------------------------
(***************************************************************************)
(* The command-line tools that bring the source ERP into PostgreSQL        *)
(* (company_postgres_target_apply, _projection_apply and                   *)
(* _accounting_link_apply), while operators run them at once, kill them    *)
(* and run them again, and the company service takes commands.             *)
(*                                                                         *)
(* A tool is given one file: raw rows of a snapshot, promoted aggregates   *)
(* or accounting links of a snapshot and mapping.  It opens a transaction  *)
(* that checks the file against what is stored and inserts what is not;    *)
(* another that hashes; another that files the receipt.  It may die        *)
(* between any two of them.  A hash is the set of rows that it covers.     *)
(***************************************************************************)
EXTENDS Naturals, FiniteSets, FiniteSetsExt

CONSTANTS
  Operators,  \* who runs the tools
  Worlds,     \* [files, locals, plans]: the files that the tools are run on,
              \* what the service is commanded, the files of a rehearsal
  Crashes,    \* how many tools are killed
  Nobody,     \* holds a lock that is free
  NoFile

VARIABLES
  world,     \* the world of this behaviour
  table,     \* kind of file -> the rows stored of it
  receipts,  \* the migration receipts: a run and the hash of what it applied
  lock,      \* kind of file -> who has locked its table
  job,       \* operator -> the tool it runs: its file, its step, its hash
  crashes

Kinds == {"raw", "domain", "accounting"}

targetVars == <<world, table, receipts, lock, job, crashes>>

-----------------------------------------------------------------------------
(***************************************************************************)
(* Rows and files                                                          *)
(***************************************************************************)
\* A row of a file: what must be unique of it, the aggregate it is a revision
\* of (of a promotion), the rest of it, its place in the order of event ids.
FileRow(cohort, keys, target, content, order) ==
  [cohort |-> cohort, keys |-> keys, target |-> target, content |-> content,
   order |-> order, rev |-> 0]

RawRow(id, source, content) ==
  FileRow("", {<<"identity", id>>, <<"source", source>>}, "", content, 0)

\* The event of a projection is the hash of all but its content.
ProjectionRow(cohort, source, target, content, order) ==
  FileRow(cohort, {<<"event", cohort, source, target>>}, target, content, order)

LinkRow(event, source, journal, principal) ==
  FileRow("", {<<"event", event>>, <<"source", source>>, <<"journal", journal>>},
          "", principal, 0)

IsRow(r) == r = FileRow(r.cohort, r.keys, r.target, r.content, r.order)

\* A file has distinct rows: the loaders refuse a source or an event that is
\* there twice, and a plan makes one row of a source.  Promoted rows carry the
\* snapshot and mapping of their file, and a link its event.
IsFile(f) ==
  /\ f.kind \in Kinds
  /\ IsFiniteSet(f.rows)
  /\ \A r \in f.rows :
       /\ IsRow(r)
       /\ r.order \in Nat
       /\ f.kind = "domain" => r.cohort = f.cohort
       /\ f.kind = "accounting" => \E k \in r.keys : k[1] = "event"
  /\ \A r, s \in f.rows :
       \/ r.keys \cap s.keys # {}
       \/ f.kind = "domain" /\ r.target = s.target /\ r.order = s.order
       => r = s

\* What a command stores is no row of a promotion, and the revision of one
\* command is that of another only if so is the request.
IsLocal(c, w) ==
  /\ IsRow(c.request)
  /\ c.request.keys # {}
  /\ IsRow(c.change)
  /\ \A f \in w.files : f.kind = "domain" =>
       /\ f.cohort # c.change.cohort
       /\ \A r \in f.rows : r.keys \cap c.change.keys = {}
  /\ \A d \in w.locals :
       c.change.keys \cap d.change.keys # {} => c.request.keys \cap d.request.keys # {}

ASSUME WorldsAssumption ==
  \A w \in Worlds :
    /\ NoFile \notin w.files
    /\ \A f \in w.files \cup UNION w.plans : IsFile(f)
    /\ \A c \in w.locals : IsLocal(c, w)

ASSUME NobodyAssumption == Nobody \notin Operators

\* The raw rows of a file are of one snapshot, the others of a snapshot and a
\* mapping; two files of a cohort share a run.
Run(f) == <<f.kind, f.cohort>>

Plain(x) == [x EXCEPT !.rev = 0]

Clash(x, r) == x.keys \cap r.keys # {} /\ Plain(x) # r

Conflict(f) == \E x \in table[f.kind], r \in f.rows : Clash(x, r)

Holds(f) == \A r \in f.rows : \E x \in table[f.kind] : Plain(x) = r

\* What the hash of a file covers: every raw row there is, the projections of
\* its cohort, the links of its events.
Events(f) == {k \in UNION {r.keys : r \in f.rows} : k[1] = "event"}

Covered(f, rows) ==
  {x \in rows :
     CASE f.kind = "raw" -> TRUE
       [] f.kind = "domain" -> x.cohort = f.cohort
       [] f.kind = "accounting" -> x.keys \cap Events(f) # {}}

\* The rows not stored yet, each revision above the last of its aggregate.
New(f) == {r \in f.rows : \A x \in table[f.kind] : x.keys \cap r.keys = {}}

Revisions(t) == {x.rev : x \in {y \in table.domain : y.target = t}}

Top(t) == IF Revisions(t) = {} THEN 0 ELSE Max(Revisions(t))

Place(r, rows) ==
  Cardinality({q \in rows : q.target = r.target /\ q.order <= r.order})

\* Fault: every new revision is the one after the last.
Numbered_Same(f) ==
  IF f.kind = "domain"
  THEN {[r EXCEPT !.rev = Top(r.target) + 1] : r \in New(f)}
  ELSE New(f)

Numbered(f) ==
  IF f.kind = "domain"
  THEN {[r EXCEPT !.rev = Top(r.target) + Place(r, New(f))] : r \in New(f)}
  ELSE New(f)

\* ON CONFLICT DO NOTHING also skips a revision that is taken.
Taken(n) == \E x \in table.domain : x.target = n.target /\ x.rev = n.rev

Inserted(f) == {n \in Numbered(f) : f.kind = "domain" => ~Taken(n)}

-----------------------------------------------------------------------------
(***************************************************************************)
(* A tool                                                                  *)
(***************************************************************************)
NoJob == [file |-> NoFile, step |-> "idle", applied |-> {}]

Resting == {"idle", "done", "refused"}

At(o, step) == job[o].step = step

Go(o, step) == job' = [job EXCEPT ![o].step = step]

File(o) == job[o].file

Init ==
  /\ world \in Worlds
  /\ table = [k \in Kinds |-> {}]
  /\ receipts = {}
  /\ lock = [k \in Kinds |-> Nobody]
  /\ job = [o \in Operators |-> NoJob]
  /\ crashes = 0

\* An operator starts a tool on a file; the catalog it applies is there.
Start(o, f) ==
  /\ job[o].step \in Resting
  /\ job' = [job EXCEPT ![o] = [file |-> f, step |-> "begin", applied |-> {}]]
  /\ UNCHANGED <<world, table, receipts, lock, crashes>>

\* The raw tool takes no lock on its table.
Locks(f) == f.kind # "raw"

Release(o) == lock' = [k \in Kinds |-> IF lock[k] = o THEN Nobody ELSE lock[k]]

\* The transaction begins.
Begin(o) ==
  /\ At(o, "begin")
  /\ IF Locks(File(o))
     THEN /\ lock[File(o).kind] = Nobody
          /\ lock' = [lock EXCEPT ![File(o).kind] = o]
     ELSE UNCHANGED lock
  /\ Go(o, "check")
  /\ UNCHANGED <<world, table, receipts, crashes>>

\* A row that shares an identity with a stored one but differs from it refuses
\* the whole file.
\* Fault: so does one that shares it and does not differ.
Check_Strict(o) ==
  /\ At(o, "check")
  /\ IF New(File(o)) # File(o).rows
     THEN Go(o, "refused") /\ Release(o)
     ELSE Go(o, "insert") /\ UNCHANGED lock
  /\ UNCHANGED <<world, table, receipts, crashes>>

Check(o) ==
  /\ At(o, "check")
  /\ IF Conflict(File(o))
     THEN Go(o, "refused") /\ Release(o)
     ELSE Go(o, "insert") /\ UNCHANGED lock
  /\ UNCHANGED <<world, table, receipts, crashes>>

\* The transaction inserts and commits.
Insert(o) ==
  /\ At(o, "insert")
  /\ table' = [table EXCEPT ![File(o).kind] = @ \cup Inserted(File(o))]
  /\ Release(o)
  /\ Go(o, "hash")
  /\ UNCHANGED <<world, receipts, crashes>>

HashRows(o) ==
  /\ At(o, "hash")
  /\ job' = [job EXCEPT ![o].step = "receipt",
                        ![o].applied = Covered(File(o), table[File(o).kind])]
  /\ UNCHANGED <<world, table, receipts, lock, crashes>>

Receipt(f) == {r \in receipts : r.run = Run(f)}

\* The receipt there is must be of the same hash.
FindReceipt(o) ==
  /\ At(o, "receipt")
  /\ Go(o, IF \E r \in Receipt(File(o)) : r.applied # job[o].applied
           THEN "refused" ELSE "file")
  /\ UNCHANGED <<world, table, receipts, lock, crashes>>

\* Fault: a receipt that was filed in the meantime is not looked for again.
FileReceipt_Twice(o) ==
  /\ At(o, "file")
  /\ receipts' = receipts \cup {[run |-> Run(File(o)), applied |-> job[o].applied]}
  /\ Go(o, "verify")
  /\ UNCHANGED <<world, table, lock, crashes>>

FileReceipt(o) ==
  /\ At(o, "file")
  /\ receipts' = IF Receipt(File(o)) # {} THEN receipts
                 ELSE receipts \cup {[run |-> Run(File(o)),
                                      applied |-> job[o].applied]}
  /\ Go(o, "verify")
  /\ UNCHANGED <<world, table, lock, crashes>>

\* The raw tool ends by counting the table against its file.
Verify(o) ==
  /\ At(o, "verify")
  /\ Go(o, IF /\ File(o).kind = "raw"
              /\ Cardinality(table.raw) # Cardinality(File(o).rows)
           THEN "refused" ELSE "done")
  /\ UNCHANGED <<world, table, receipts, lock, crashes>>

\* A tool is killed, and what it had not committed is rolled back.
Crash(o) ==
  /\ job[o].step \notin Resting
  /\ crashes < Crashes
  /\ crashes' = crashes + 1
  /\ job' = [job EXCEPT ![o] = NoJob]
  /\ Release(o)
  /\ UNCHANGED <<world, table, receipts>>

\* A command of the service stores its request and one more revision of an
\* aggregate that was not imported.
Command(c) ==
  /\ lock.domain = Nobody
  /\ \A x \in table.raw : x.keys \cap c.request.keys = {}
  /\ \A x \in table.domain : x.target = c.change.target => x.cohort = c.change.cohort
  /\ table' = [table EXCEPT
       !.raw = @ \cup {c.request},
       !.domain = @ \cup {[c.change EXCEPT !.rev = Top(c.change.target) + 1]}]
  /\ UNCHANGED <<world, receipts, lock, job, crashes>>

Step(o) ==
  \/ Begin(o)
  \/ Check(o)
  \/ Insert(o)
  \/ HashRows(o)
  \/ FindReceipt(o)
  \/ FileReceipt(o)
  \/ Verify(o)

Next ==
  \/ \E o \in Operators :
       \/ \E f \in world.files : Start(o, f)
       \/ Step(o)
       \/ Crash(o)
  \/ \E c \in world.locals : Command(c)

Spec == Init /\ [][Next]_targetVars

-----------------------------------------------------------------------------
\* Type invariant: a table holds a unique key once and a revision of an
\* aggregate once, and only the tools with a lock have one.
TypeOK ==
  /\ world \in Worlds
  /\ \A k \in Kinds : \A x, y \in table[k] : x.keys \cap y.keys # {} => x = y
  /\ \A x, y \in table.domain : x.target = y.target /\ x.rev = y.rev => x = y
  /\ \A o \in Operators :
       /\ job[o].step \in Resting \cup {"begin", "check", "insert", "hash",
                                        "receipt", "file", "verify"}
       /\ job[o].file # NoFile =>
            /\ job[o].file \in world.files
            /\ lock[File(o).kind] = o <=> Locks(File(o)) /\ job[o].step \in {"check", "insert"}

\* Once a tool with a lock is past its transaction, every row of its file is
\* stored as the file has it, whoever else promoted, linked or commanded
\* meanwhile (apply_rows): what it reports as applied is there.
AppliedIsThere ==
  \A o \in Operators :
    /\ job[o].step \in {"hash", "receipt", "file", "verify", "done"}
    /\ File(o).kind # "raw"
    => Holds(File(o))

\* There is one receipt of a run, and what it attests is stored; it attests
\* every row of the file that it was filed for, which is a file of that run
\* (finalize_receipt).
ReceiptsAttest ==
  /\ \A r, s \in receipts : r.run = s.run => r = s
  /\ \A r \in receipts :
       /\ r.applied \subseteq table[r.run[1]]
       /\ r.run[1] # "raw" =>
            \E f \in world.files :
              Run(f) = r.run /\ \A row \in f.rows : \E x \in r.applied : Plain(x) = row

\* The revisions of an aggregate count up from one without a gap.
RevisionsDense ==
  \A x \in table.domain : \A n \in 1..x.rev :
    \E y \in table.domain : y.target = x.target /\ y.rev = n

\* The tables are as if the tools and the service had taken turns: keys are
\* unique and revisions without a gap, and what a tool reports as applied is
\* there, whoever promoted, linked or commanded meanwhile (apply_rows).
TablesSound == TypeOK /\ RevisionsDense /\ AppliedIsThere

\* Every tool is run again and again, and ends unless it is killed; a lock that
\* is freed again and again is had at last.
AllFiles == UNION {w.files : w \in Worlds}

Fairness ==
  /\ \A o \in Operators : SF_targetVars(Step(o))
  /\ \A f \in AllFiles :
       SF_targetVars(\E o \in Operators : f \in world.files /\ Start(o, f))

FairSpec == Spec /\ Fairness

\* At last every file whose rows were stored has its receipt, however often its
\* tool was killed in between: a retry is not refused for what the run before
\* it left (the module's comment in company_postgres_target_apply).
ReceiptRepaired ==
  <>[](\A f \in world.files : Holds(f) => Receipt(f) # {})

=============================================================================
