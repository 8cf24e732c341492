---------------------------- MODULE BridgeLedger ----------------------------
(***************************************************************************)
(* What the reads of the Python bridge are computed from, and how it       *)
(* changes under them:                                                     *)
(*   raw       the rows of the source ERP as the import staged them; a row *)
(*             once staged is never changed or removed                     *)
(*   promoted  the imported rows that were also projected as aggregates    *)
(*   local     the latest revision of the aggregates that commands wrote   *)
(*   commands  the commands under way                                      *)
(* A staging or a promotion may land at any moment.  A command is one of   *)
(* BridgeFamilies': it looks at the record before its transaction, looks   *)
(* at it again inside, and stores a revision after the last one there is   *)
(* by then, which may be another (BridgeCommand has its other steps).      *)
(*                                                                         *)
(* The read modules that extend this one give each read as the set of rows *)
(* it answers with.  A figure is given as the set of rows it is summed     *)
(* over, a field that no rule looks at is left out, and so is the cap on   *)
(* the number of rows (500 and more).                                      *)
(***************************************************************************)
EXTENDS BridgeFamilies, Naturals, FiniteSets, SequencesExt

\* The worlds to look at.  One gives the tables that are staged in it with the
\* rows that the source may hold (imports), and the families that rows
\* are promoted and commands given in, with the records that clients may create
\* (drafts); and it bounds the commands that are under way at once (underway).
\* Days are numbers, and the reads of a behaviour are of one day.
CONSTANTS Scopes, Today

VARIABLES
  scope,     \* the world of this behaviour
  raw,       \* table -> the staged rows
  promoted,  \* family -> the identities promoted from its table
  local,     \* family -> the records, each its latest revision
  commands   \* the commands under way

Tables == UNION {DOMAIN s.imports : s \in Scopes}

Families == UNION {DOMAIN s.drafts : s \in Scopes}

ledgerVars == <<scope, raw, promoted, local, commands>>

\* The source table whose rows a family's aggregates are promoted from, the
\* table that a command looks into for imported rows, or none.
TableOf ==
  [contract |-> "contract", payment |-> "apply", milestone |-> "plan",
   supplier |-> "supplier", tender |-> "tender", split |-> "split",
   invoice |-> "invoice", revenues |-> "revenue", plan_task |-> "task",
   project |-> "project", subscription |-> "subscription",
   dynamic_cost |-> "cost", campaign |-> "campaign", placement |-> "placement",
   channel |-> "channel", material |-> "material", fund_plan |-> "fund_plan",
   fund_dispatch |-> "fund_dispatch", loan |-> "loan"]

\* The families whose imported aggregates have a type of their own; in the
\* others a promotion is one more revision of the same aggregate.
Separate == {"contract", "payment", "milestone"}

Merged == {"supplier", "tender", "split"}

\* The families whose commands look for the identity among the staged rows: a
\* creation, and whatever finds no local record.
Staged ==
  {"invoice", "revenues", "plan_task", "subscription", "dynamic_cost"}
    \cup MarketingFamilies \cup FundFamilies

\* A row is a record with an identity; whether it is imported or local is what
\* the reads say of it.
IsRow(r) ==
  /\ r = [x \in DOMAIN r |-> r[x]]
  /\ "id" \in DOMAIN r /\ "kind" \notin DOMAIN r

\* Drafts have a state to be given, and what a promotion looks at is staged.
ASSUME LedgerAssumption ==
  /\ \A s \in Scopes :
       /\ s.underway \in Nat
       /\ \A t \in DOMAIN s.imports : \A r \in s.imports[t] : IsRow(r)
       /\ \A f \in DOMAIN s.drafts :
            \A d \in s.drafts[f] : IsRow(d) /\ "state" \in DOMAIN d
  /\ \A f \in (Separate \cup Merged) \cap Families : TableOf[f] \in Tables
  /\ {"payment", "milestone"} \cap Families # {} => "contract" \in Tables

Row(t, id) == CHOOSE r \in raw[t] : r.id = id

In(t, id) == \E r \in raw[t] : r.id = id

Live(t) == {r \in raw[t] : ~r.gone}

Stored(f, id) == {l \in local[f] : l.id = id}

StateOf(f, id) ==
  IF Stored(f, id) = {} THEN Absent
  ELSE (CHOOSE l \in Stored(f, id) : TRUE).state

\* Imported rows are read-only: does one stand in the way of a command?
Protected(f, type, id) ==
  \/ /\ f \in Separate \cup Merged
     /\ id \in promoted[f]
     /\ Shown(f, StateOf(f, id)) = Absent
  \/ /\ f \in Staged
     /\ In(TableOf[f], id)
     /\ type = "create" \/ Stored(f, id) = {}

\* What the warning rules find, of what was staged and is not deleted (a rule
\* each): a project or a user without a unit, a contract without a project, an
\* application without a contract, a contract with more approved than agreed, a
\* project under way without an end cost, an expense its details do not add up
\* to, a loan that does not balance, a task that ends before it begins, and two
\* suppliers of one name.
Findings ==
  LET Found(rule, rows) == {<<rule, r.id>> : r \in rows}
  IN Found("W001", {p \in Live("project") : p.unit = ""})
       \cup Found("W002", {c \in Live("contract") : c.proj = ""})
       \cup Found("W003", {a \in Live("apply") : a.contract = ""})
       \cup Found("W004", {c \in Live("contract") :
              Cardinality({a \in Live("apply") :
                a.contract = c.id /\ a.apply = "approved"}) > c.amount})
       \cup Found("W005", {p \in Live("project") :
              p.busy /\ ~\E k \in Live("cost") : k.proj = p.id /\ k.end})
       \cup Found("W006", {e \in Live("expense") :
              Cardinality({d \in Live("share") : d.expense = e.id}) # e.amount})
       \cup Found("W008", {l \in Live("loan") : ~l.balanced})
       \cup Found("W009", {t \in Live("task") : t.end < t.begin})
       \cup {<<"W010", s.name>> : s \in {r \in Live("supplier") :
              \E q \in Live("supplier") : q.id # r.id /\ q.name = r.name}}
       \cup Found("W012", {u \in Live("user") : u.unit = ""})

LedgerInit ==
  /\ scope \in Scopes
  /\ raw = [t \in Tables |-> {}]
  /\ promoted = [f \in (Separate \cup Merged) \cap Families |-> {}]
  /\ local = [f \in Families |-> {}]
  /\ commands = {}

\* Staging does nothing with a row that is there and fails on a changed one; a
\* batch is its rows one after another.
Import(t, row) ==
  /\ ~In(t, row.id)
  /\ raw' = [raw EXCEPT ![t] = @ \cup {row}]
  /\ UNCHANGED <<scope, promoted, local, commands>>

\* A payment plan or application is promoted only where its contract is known.
Promotable(f, row) == f \in {"payment", "milestone"} => In("contract", row.contract)

Promote(f, id) ==
  /\ id \notin promoted[f]
  /\ Promotable(f, Row(TableOf[f], id))
  /\ promoted' = [promoted EXCEPT ![f] = @ \cup {id}]
  /\ local' = IF f \in Merged THEN [local EXCEPT ![f] = @ \ Stored(f, id)]
              ELSE local
  /\ UNCHANGED <<scope, raw, commands>>

-----------------------------------------------------------------------------
(***************************************************************************)
(* Commands.  What one has found of its record is the latest revision it   *)
(* has read (basis), or none.                                              *)
(***************************************************************************)
\* Reading all messages lists those of the user before it asks for what the
\* user has marked before.
Prepared(type, draft) ==
  IF type = "read_all"
  THEN [draft EXCEPT !.messages = {m.id : m \in {r \in raw.message : r.user = draft.by}}]
  ELSE draft

\* Before its transaction a command looks at its record and what is imported.
Undertake(f, type, draft, wants) ==
  /\ Cardinality(commands) < scope.underway
  /\ Admits(f, type, Shown(f, StateOf(f, draft.id)), TRUE)
  /\ ~Protected(f, type, draft.id)
  /\ f = "warning" => draft.id \in Findings
  /\ commands' = commands \cup
       {[family |-> f, type |-> type, wants |-> wants, draft |-> Prepared(type, draft),
         basis |-> Stored(f, draft.id), read |-> FALSE]}
  /\ UNCHANGED <<scope, raw, promoted, local>>

\* The statement order of its transaction.
Takes(c, step) == Contains(Txn(c.family, c.type), step)

\* It inserts at the number that came after what it found.
Fixed(c) == c.family # "message" /\ ~Takes(c, "number")

\* It finds and numbers under the advisory lock of the record; the messages it
\* marks were found before.
Locked(c) == c.family # "message" /\ Takes(c, "lock")

\* The latest revision of the aggregate is the imported one.
Overtaken(f, id) == f \in Merged /\ id \in promoted[f] /\ Stored(f, id) = {}

\* Nobody has stored a revision since it looked.
Unmoved(c) ==
  /\ c.basis = Stored(c.family, c.draft.id)
  /\ c.type = "create" => ~Overtaken(c.family, c.draft.id)

\* A command that finds an imported revision is not stopped: that has no state
\* where the transaction looks for one.
LookUp(c) ==
  /\ ~c.read
  /\ Fixed(c) => Unmoved(c)
  /\ \/ Overtaken(c.family, c.draft.id)
     \/ Rechecks(c.family, c.type, StateOf(c.family, c.draft.id))
  /\ commands' = (commands \ {c}) \cup
       {[c EXCEPT !.basis = Stored(c.family, c.draft.id), !.read = TRUE]}
  /\ UNCHANGED <<scope, raw, promoted, local>>

\* The state it found.
Found(c) == IF c.basis = {} THEN Absent ELSE (CHOOSE l \in c.basis : TRUE).state

\* A creation has the content of its draft, the others keep what they found;
\* reading all messages adds those it has listed.
Contents(c) ==
  IF c.type = "create" \/ c.basis = {} THEN {c.draft}
  ELSE IF c.type = "read_all"
  THEN {[l EXCEPT !.messages = @ \cup c.draft.messages] : l \in c.basis}
  ELSE c.basis

\* A revision made of an imported one is still shown as imported, or not at all
\* once it is deleted.
Result(c) ==
  IF c.family \in Merged /\ c.type \notin {"create", "delete"} /\ c.basis = {}
  THEN {}
  ELSE {[l EXCEPT !.state = Leaves(c.family, c.type, Found(c), c.wants)] : l \in Contents(c)}

\* The new revision comes after whatever has been stored since it looked; in the
\* families that hold the lock, or insert at a number found before, nothing has.
Store(c) ==
  /\ c.read
  /\ Fixed(c) \/ Locked(c) => Unmoved(c)
  /\ local' = [local EXCEPT ![c.family] =
       (@ \ Stored(c.family, c.draft.id)) \cup Result(c)]
  /\ commands' = commands \ {c}
  /\ UNCHANGED <<scope, raw, promoted>>

\* It is refused inside, or fails.
GiveUp(c) ==
  /\ commands' = commands \ {c}
  /\ UNCHANGED <<scope, raw, promoted, local>>

\* The two message commands write records of different types.
Given(f, draft) == IF f = "message" THEN {draft.type} ELSE Types(f)

LedgerNext ==
  \/ \E t \in DOMAIN scope.imports : \E row \in scope.imports[t] : Import(t, row)
  \/ \E f \in DOMAIN promoted \cap DOMAIN scope.drafts :
       \E row \in raw[TableOf[f]] : Promote(f, row.id)
  \/ \E f \in DOMAIN scope.drafts :
       \E draft \in scope.drafts[f] : \E type \in Given(f, draft) :
         \E wants \in Wants(f, type) : Undertake(f, type, draft, wants)
  \/ \E c \in commands : LookUp(c) \/ Store(c) \/ GiveUp(c)

LedgerSpec == LedgerInit /\ [][LedgerNext]_ledgerVars

-----------------------------------------------------------------------------
(***************************************************************************)
(* Reading                                                                 *)
(***************************************************************************)
\* No unit, no user, no filter; what a page answers for what it does not find.
NoFilter == ""

NotFound == "not found"

Fits(filter, value) == filter \in {NoFilter, value}

\* A row with the kind it is shown as.
Kinded(r, kind) == [x \in DOMAIN r \cup {"kind"} |-> IF x = "kind" THEN kind ELSE r[x]]

Named(kind, rows) == {Kinded(r, kind) : r \in rows}

Imported(rows) == Named("imported", rows)

Commanded(rows) == Named("command", rows)

Ids(rows) == {r.id : r \in rows}

\* The identities that a table or a family can have in this world.
Known(t) == IF t \in DOMAIN scope.imports THEN Ids(scope.imports[t]) ELSE {}

Drafted(f) == IF f \in DOMAIN scope.drafts THEN Ids(scope.drafts[f]) ELSE {}

\* The local rows, and the imported ones they do not replace.
Overlay(base, top) == top \cup {r \in base : r.id \notin Ids(top)}

\* The latest revisions of a family that the read does not drop.
Kept(f, dropped) == {l \in local[f] : l.state \notin dropped}

\* The rows of a table that were promoted.
Projected(f) == {r \in raw[TableOf[f]] : r.id \in promoted[f]}

OnceEach(rows) == \A r, q \in rows : r.id = q.id => r = q

\* Type invariant: every row is one that was imported, every promotion has its
\* row, a family holds one latest revision per identity, and a command under way
\* has found at most one revision, of its record.
LedgerTypeOK ==
  /\ scope \in Scopes
  /\ \A t \in Tables :
       raw[t] # {} => raw[t] \subseteq scope.imports[t] /\ OnceEach(raw[t])
  /\ \A f \in DOMAIN promoted : promoted[f] \subseteq Ids(raw[TableOf[f]])
  /\ \A f \in Families : local[f] # {} =>
       Ids(local[f]) \subseteq Ids(scope.drafts[f]) /\ OnceEach(local[f])
  /\ \A c \in commands :
       /\ c.family \in DOMAIN scope.drafts
       /\ c.draft.id \in Ids(scope.drafts[c.family])
       /\ OnceEach(c.basis) /\ Ids(c.basis) \subseteq {c.draft.id}

=============================================================================
