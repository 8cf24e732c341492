---------------------------- MODULE BridgeCommand ----------------------------
(***************************************************************************)
(* How the Python bridge executes a command against PostgreSQL, for every  *)
(* command family: the steps before the transaction, each a query of its   *)
(* own; one transaction on a psql session, statement by statement under    *)
(* READ COMMITTED; one retry on a new session when the first attempt       *)
(* fails; and a time-out, after which the session that was killed may keep *)
(* its locks for a while and, if its COMMIT was under way, still commit.   *)
(*                                                                         *)
(* The requests are of one family and, where they name a record, of the    *)
(* same record.  A client may send its request again, whatever it heard.   *)
(***************************************************************************)
EXTENDS BridgeFamilies, Naturals, FiniteSets, FiniteSetsExt, SequencesExt

CONSTANTS
  Requests,     \* the requests clients make
  Keys,         \* the Idempotency-Keys they may carry
  Families,     \* the command families to run
  None,
  Bodies,       \* what they may say
  Troubles      \* bound: family -> how often a request is sent again, a
                \*   transaction times out, a related record or the day changes

ASSUME BridgeAssumption ==
  /\ Families \subseteq AllFamilies
  /\ Troubles \in [Families -> Nat]

\* Nothing stands for itself.
ASSUME NoneAssumption ==
  /\ None \notin Keys
  /\ None \notin
       [type : UNION {Types(f) : f \in Families},
        record : (Keys \X {0, 1}) \cup (Requests \X Nat) \cup {<<"given", 0>>},
        body : Bodies,
        wants : UNION {UNION {Wants(f, t) : t \in Types(f)} : f \in Families},
        on : {0, 1}]
  /\ None \notin
       [record : (Keys \X {0, 1}) \cup (Requests \X Nat) \cup {<<"given", 0>>},
        type : UNION {Types(f) : f \in Families}]

\* Identities that clients give, that keys yield and that are generated differ.
ASSUME IdentityAssumption == "given" \notin Keys /\ Keys \cap Requests = {}

VARIABLES
  family,    \* the family of the requests
  rows,      \* the revisions in company_aggregate_projection
  receipts,  \* key -> the stored request in company_record, or None
  fit,       \* the record the requests depend on is there and suits them
  day,       \* today
  req,       \* request -> how far it has come
  orphans,   \* the sessions that were killed and have not ended
  timeouts   \* how many there were

vars == <<family, rows, receipts, fit, day, req, orphans, timeouts>>

Given == <<"given", 0>>

Sends == 1..(1 + Max({Troubles[f] : f \in Families}))

\* Identities derived from keys, the next ones, and generated ones.
Records ==
  {Given} \cup (Keys \X {0, 1}) \cup (Requests \X Sends)

RowsOf(record) == {v \in rows : v.record = record}

Highest(record) == Max({0} \cup {v.number : v \in RowsOf(record)})

StateOf(record, n) ==
  IF n = 0 THEN Absent
  ELSE (CHOOSE v \in RowsOf(record) : v.number = n).state

-----------------------------------------------------------------------------
(***************************************************************************)
(* Requests.  An order is what the client sends: by tells where a creation *)
(* takes its identity from, dated whether a date is left to the clock,     *)
(* mine whether the client owns the record.  A request is what the bridge  *)
(* makes of the order and compares with the stored one.                    *)
(***************************************************************************)
Orders ==
  UNION {[type : {t}, key : Keys, body : Bodies,
          by : IF t = "create" THEN Identities(family) ELSE {"given"},
          dated : IF Stamped(family, t) THEN BOOLEAN ELSE {FALSE},
          mine : IF Owned(family, t) THEN BOOLEAN ELSE {TRUE},
          wants : Wants(family, t)] : t \in Types(family)}

RecordFor(order, q, sends) ==
  CASE order.by = "given" -> Given
    [] order.by = "fresh" -> <<q, sends>>
    [] OTHER -> <<order.key, 0>>

Built(order, record) ==
  [type |-> order.type, record |-> record, body |-> order.body,
   wants |-> order.wants, on |-> IF order.dated THEN day ELSE 0]

\* The request as it starts on its way.
Started(order, q, sends, first) ==
  [phase |-> "pre", order |-> order, sends |-> sends, first |-> first,
   request |-> Built(order, RecordFor(order, q, sends)),
   steps |-> Pre(family, order.type), got |-> None, seen |-> 0,
   basis |-> 0, number |-> 0, siblings |-> {}, tries |-> 1, reply |-> ""]

Idle == [phase |-> "idle", sends |-> 0, reply |-> ""]

Send(q) ==
  /\ req[q].phase = "idle"
  /\ \E order \in Orders : req' = [req EXCEPT ![q] = Started(order, q, 1, "")]
  /\ UNCHANGED <<family, rows, receipts, fit, day, orphans, timeouts>>

Resends ==
  FoldSet(LAMBDA q, n : n + req[q].sends - 1, 0,
          {q \in Requests : req[q].phase # "idle"})

\* There may be more trouble.
Untroubled ==
  Resends + timeouts + day + (IF fit THEN 0 ELSE 1) < Troubles[family]

\* Nobody sends again what was refused.
Resend(q) ==
  /\ req[q].phase = "done"
  /\ req[q].reply # "refused"
  /\ Untroubled
  /\ req' = [req EXCEPT ![q] =
       Started(@.order, q, @.sends + 1, IF @.first = "ok" THEN "ok" ELSE @.reply)]
  /\ UNCHANGED <<family, rows, receipts, fit, day, orphans, timeouts>>

Finished(r, reply) ==
  [phase |-> "done", order |-> r.order, request |-> r.request,
   sends |-> r.sends, first |-> r.first, reply |-> reply]

-----------------------------------------------------------------------------
(***************************************************************************)
(* Before the transaction                                                  *)
(***************************************************************************)
\* A record of the family that is not deleted has the code the request names.
CodeTaken(body) ==
  \E v \in rows :
    /\ v.number = Highest(v.record)
    /\ v.body = body
    /\ Shown(family, v.state) \notin {Absent, "deleted"}

\* The order, or the request made of it, is for several milestones.
Batch(order) ==
  family = "milestone" /\ order.type = "create" /\ order.wants # ""

\* The keys of the batches that are committed: each left a revision of the
\* milestone that all the batches name.
Siblings == {k \in Keys : receipts[k] # None /\ Batch(receipts[k])}

\* The statements of the transaction.
Program(order) ==
  IF Batch(order) THEN MilestoneBatch(order.wants) ELSE Txn(family, order.type)

\* What the step finds lets the request go on.
Passes(r, step) ==
  LET record == r.request.record
      state == Shown(family, StateOf(record, Highest(record)))
  IN CASE step = "current" ->
            /\ Admits(family, r.order.type, state, r.order.mine)
            /\ Batch(r.order) => Siblings = {}
       [] step = "exists" -> SalesExists(family, r.order.type, state)
       [] step = "related" -> fit
       [] step = "unique" -> ~CodeTaken(r.order.body)
       [] step = "receipt" -> receipts[r.order.key] = None
       [] step = "compare" -> r.got = None
       [] OTHER -> TRUE

Advanced(r, step) ==
  LET on == [r EXCEPT !.steps = Tail(@)]
      key == r.order.key
  IN CASE step = "fetch" -> [on EXCEPT !.got = receipts[key]]
       [] step \in {"current", "exists"} ->
            [on EXCEPT !.seen = Highest(r.request.record)]
       [] step = "allocate" ->
            [on EXCEPT !.request.record =
               IF r.got # None \/ Highest(<<key, 0>>) = 0 THEN <<key, 0>>
               ELSE <<key, 1>>]
       [] OTHER -> on

\* The transaction is handed to a session.  Its text holds the number for
\* those that do not look for one.
AtBegin(r) ==
  [r EXCEPT !.phase = "txn", !.steps = Append(Program(r.order), "commit"),
            !.basis = 0, !.siblings = {},
            !.number = IF r.order.type = "create" THEN 1 ELSE r.seen + 1]

\* After the last step the transaction begins.
PreStep(q) ==
  LET r == req[q]
      on == Advanced(r, Head(r.steps))
  IN
  /\ r.phase = "pre"
  /\ Passes(r, Head(r.steps))
  /\ req' = [req EXCEPT ![q] = IF on.steps = <<>> THEN AtBegin(on) ELSE on]
  /\ UNCHANGED <<family, rows, receipts, fit, day, orphans, timeouts>>

\* A stored receipt answers, or shows that the key was used for something
\* else; any other step refuses.
PreReply(q) ==
  LET r == req[q]
      step == Head(r.steps)
      stored == IF step = "receipt" THEN receipts[r.order.key] ELSE r.got
  IN
  /\ r.phase = "pre"
  /\ ~Passes(r, step)
  /\ req' = [req EXCEPT ![q] = Finished(r,
       IF step \in {"receipt", "compare"} /\ Answers(family, stored, r.request)
       THEN "ok" ELSE "refused")]
  /\ UNCHANGED <<family, rows, receipts, fit, day, orphans, timeouts>>

-----------------------------------------------------------------------------
(***************************************************************************)
(* The transaction                                                         *)
(***************************************************************************)
\* The sessions besides that of q, the killed ones included.
OtherSessions(q) ==
  {req[p] : p \in {p \in Requests \ {q} : req[p].phase = "txn"}} \cup orphans

\* The session has taken that step, and keeps what it locked until it ends.
Holds(s, step) ==
  Contains(Program(s.order), step) /\ ~Contains(s.steps, step)

LockFree(q) ==
  \A s \in OtherSessions(q) :
    ~(Holds(s, "lock") /\ s.request.record = req[q].request.record)

KeyFree(q) ==
  \A s \in OtherSessions(q) :
    ~(Holds(s, "key") /\ s.order.key = req[q].order.key)

\* Nobody else has inserted the same revision without committing yet.
RowFree(q) ==
  \A s \in OtherSessions(q) :
    ~(/\ Holds(s, "write")
      /\ s.request.record = req[q].request.record
      /\ s.number = req[q].number)

SiblingFree(q) ==
  \A s \in OtherSessions(q) :
    ~(Holds(s, "beside") /\ s.siblings = req[q].siblings)

\* Fault: a failure is reported as a refusal.
AfterFailure_Refused(r) == Finished(r, "refused")

\* The transaction fails: once more on a new session, or give up.
AfterFailure(r) ==
  IF r.tries = 1 /\ family \notin Single THEN [AtBegin(r) EXCEPT !.tries = 2]
  ELSE Finished(r, "unknown")

InTxn(q, step) ==
  /\ req[q].phase = "txn"
  /\ Head(req[q].steps) = step
  /\ UNCHANGED <<family, fit, day, timeouts, orphans>>

Lock(q) ==
  /\ InTxn(q, "lock")
  /\ LockFree(q)
  /\ req' = [req EXCEPT ![q].steps = Tail(@)]
  /\ UNCHANGED <<rows, receipts>>

\* The insert of the receipt waits for an uncommitted one under the same key.
InsertKey(q) ==
  LET r == req[q] IN
  /\ InTxn(q, "key")
  /\ KeyFree(q)
  /\ req' = [req EXCEPT ![q] =
       IF receipts[r.order.key] = None THEN [r EXCEPT !.steps = Tail(r.steps)]
       ELSE Finished(r, IF family \in Single \/ receipts[r.order.key] = r.request
                        THEN "ok" ELSE "refused")]
  /\ UNCHANGED <<rows, receipts>>

Read(q) ==
  /\ InTxn(q, "read")
  /\ LET r == req[q]
         found == Highest(r.request.record)
     IN req' = [req EXCEPT ![q] =
          IF Rechecks(family, r.order.type, StateOf(r.request.record, found))
          THEN [r EXCEPT !.steps = Tail(r.steps), !.basis = found]
          ELSE AfterFailure(r)]
  /\ UNCHANGED <<rows, receipts>>

Number(q) ==
  /\ InTxn(q, "number")
  /\ req' = [req EXCEPT ![q].steps = Tail(@),
                        ![q].number = Highest(req[q].request.record) + 1]
  /\ UNCHANGED <<rows, receipts>>

\* A revision of that number may be there already.
Write(q) ==
  LET r == req[q] IN
  /\ InTxn(q, "write")
  /\ RowFree(q)
  /\ req' = [req EXCEPT ![q] =
       IF \E v \in RowsOf(r.request.record) : v.number = r.number
       THEN AfterFailure(r)
       ELSE [r EXCEPT !.steps = Tail(r.steps)]]
  /\ UNCHANGED <<rows, receipts>>

\* The other milestone of a batch gets the number after those committed now.
Sibling(q) ==
  /\ InTxn(q, "sibling")
  /\ req' = [req EXCEPT ![q].steps = Tail(@), ![q].siblings = Siblings]
  /\ UNCHANGED <<rows, receipts>>

\* Another batch may have committed that number since.
Beside(q) ==
  LET r == req[q] IN
  /\ InTxn(q, "beside")
  /\ SiblingFree(q)
  /\ req' = [req EXCEPT ![q] =
       IF r.siblings = Siblings THEN [r EXCEPT !.steps = Tail(r.steps)]
       ELSE AfterFailure(r)]
  /\ UNCHANGED <<rows, receipts>>

\* Each of the two batches has inserted what the other is about to insert.
Crossed(r, s) ==
  /\ Head(r.steps) = "beside" /\ Holds(s, "beside") /\ s.siblings = r.siblings
  /\ Head(s.steps) = "write" /\ Holds(r, "write")
  /\ r.request.record = s.request.record /\ r.number = s.number

\* PostgreSQL ends one of the two.
Deadlock(q) ==
  /\ req[q].phase = "txn"
  /\ \E s \in OtherSessions(q) : Crossed(req[q], s) \/ Crossed(s, req[q])
  /\ req' = [req EXCEPT ![q] = AfterFailure(@)]
  /\ UNCHANGED <<family, rows, receipts, fit, day, orphans, timeouts>>

\* What a session that has written everything makes durable.
CommitOf(s) ==
  LET record == s.request.record IN
  /\ rows' = rows \cup
       {[record |-> record, number |-> s.number, key |-> s.order.key,
         state |-> Leaves(family, s.order.type, StateOf(record, s.basis),
                          s.order.wants),
         basis |-> s.basis, body |-> s.order.body]}
  /\ receipts' = [receipts EXCEPT ![s.order.key] = s.request]

Commit(q) ==
  /\ InTxn(q, "commit")
  /\ CommitOf(req[q])
  /\ req' = [req EXCEPT ![q] = Finished(@, "ok")]

-----------------------------------------------------------------------------
(***************************************************************************)
(* Time-outs                                                               *)
(***************************************************************************)
\* The wait for the session ends and the session is killed.
Timeout(q) ==
  /\ req[q].phase = "txn"
  /\ Untroubled
  /\ timeouts' = timeouts + 1
  /\ orphans' = orphans \cup {req[q]}
  /\ req' = [req EXCEPT ![q] = AfterFailure(@)]
  /\ UNCHANGED <<family, rows, receipts, fit, day>>

\* PostgreSQL notices and rolls back.
OrphanRollsBack ==
  /\ \E s \in orphans : orphans' = orphans \ {s}
  /\ UNCHANGED <<family, rows, receipts, fit, day, req, timeouts>>

\* It was committing already.
OrphanCommits ==
  /\ \E s \in orphans :
       /\ s.steps = <<"commit">>
       /\ CommitOf(s)
       /\ orphans' = orphans \ {s}
  /\ UNCHANGED <<family, fit, day, req, timeouts>>

-----------------------------------------------------------------------------
(***************************************************************************)
(* The rest of the world                                                   *)
(***************************************************************************)

\* Some command of the family takes the step.
Uses(step) == \E t \in Types(family) : Contains(Pre(family, t), step)

RelatedChanges ==
  /\ Uses("related")
  /\ fit
  /\ Untroubled
  /\ fit' = FALSE
  /\ UNCHANGED <<family, rows, receipts, day, req, orphans, timeouts>>

Midnight ==
  /\ \E t \in Types(family) : Stamped(family, t)
  /\ day = 0
  /\ Untroubled
  /\ day' = 1
  /\ UNCHANGED <<family, rows, receipts, fit, req, orphans, timeouts>>

\* Everything has been said.
Rest ==
  /\ \A q \in Requests : req[q].phase = "done"
  /\ UNCHANGED vars

Init ==
  /\ family \in Families
  /\ \E s \in Reachable[family], b \in IF Uses("unique") THEN Bodies ELSE {None} :
       rows = IF s = Absent THEN {}
              ELSE {[record |-> Given, number |-> 1, key |-> None, state |-> s,
                     basis |-> 0, body |-> b]}
  /\ receipts = [k \in Keys |-> None]
  /\ fit = TRUE
  /\ day = 0
  /\ req = [q \in Requests |-> Idle]
  /\ orphans = {}
  /\ timeouts = 0

Step(q) ==
  \/ PreStep(q) \/ PreReply(q)
  \/ Lock(q) \/ InsertKey(q) \/ Read(q) \/ Number(q) \/ Write(q) \/ Commit(q)
  \/ Sibling(q) \/ Beside(q) \/ Deadlock(q)

Next ==
  \/ \E q \in Requests : Send(q) \/ Resend(q) \/ Step(q) \/ Timeout(q)
  \/ OrphanRollsBack \/ OrphanCommits
  \/ RelatedChanges \/ Midnight \/ Rest

Spec == Init /\ [][Next]_vars

-----------------------------------------------------------------------------
(***************************************************************************)
(* What the commands promise                                               *)
(***************************************************************************)
\* What the bridge does implements the register of BridgeRegister: a step of
\* it appends one whole revision with its receipt, or changes nothing there.
Register == INSTANCE BridgeRegister WITH
  receipts <- [k \in Keys |->
    IF receipts[k] = None THEN None
    ELSE [record |-> receipts[k].record, type |-> receipts[k].type]]

Promise == Register!Spec

RevisionsOf(key) == {v \in rows : v.key = key}

\* Whatever is sent again, retried, killed or commits late: under one key one
\* revision appears, if there is a receipt, and none otherwise, and a record
\* has one revision of a number.
OncePerKey ==
  /\ \A v, w \in rows :
       v.key = w.key \/ (v.record = w.record /\ v.number = w.number) => v = w
  /\ \A k \in Keys : receipts[k] = None <=> RevisionsOf(k) = {}

\* An accepted reply means that the command of the request, and no other that
\* used its key, is in the record, in all families that compare requests.
AcceptedIsMine ==
  \A q \in Requests :
    req[q].reply = "ok" /\ family \notin Uncompared \cup Single \cup {"message"} =>
      /\ receipts[req[q].order.key] = req[q].request
      /\ RevisionsOf(req[q].order.key) # {}

\* The commands that ask something of the record, or of a related one, before
\* they look at the receipt.
AskedFirst(type) ==
  \/ family \in {"milestone", "receivable", "task_report", "plan_task"}
                \cup FundFamilies
  \/ family \in {"revenues", "subscription"} /\ type # "create"
  \/ family \in {"payment", "dynamic_cost"} /\ type = "create"

\* A client that leaves nothing to chance or to the clock and sends an accepted
\* command again is never refused, whatever became of the record since.
RetryIsReplayed ==
  \A q \in Requests :
    /\ req[q].phase = "done"
    /\ req[q].sends > 1
    /\ req[q].first = "ok"
    /\ req[q].order.by # "fresh"
    /\ ~req[q].order.dated
    /\ ~AskedFirst(req[q].order.type)
    /\ family \in Single => receipts[req[q].order.key] = req[q].request
    => req[q].reply # "refused"

\* A client refused the first time may use the key for something else: the
\* command did not and will not take effect.
RefusalIsFinal ==
  \A q \in Requests :
    /\ req[q].reply = "refused"
    /\ req[q].sends = 1
    /\ \A p \in Requests \ {q} :
         req[p].phase = "idle" \/ req[p].order.key # req[q].order.key
    => /\ receipts[req[q].order.key] = None
       /\ \A s \in orphans : s.order.key # req[q].order.key

\* The statement that comes next has nobody to wait for.
Unhindered(q) ==
  /\ Head(req[q].steps) = "lock" => LockFree(q)
  /\ Head(req[q].steps) = "key" => KeyFree(q)
  /\ Head(req[q].steps) = "write" => RowFree(q)
  /\ Head(req[q].steps) = "beside" => SiblingFree(q)

\* Transactions take the advisory lock before the key and the key before the
\* revisions, on whatever record and under whatever key, so once the killed
\* sessions have ended some transaction goes on; but two batches of milestones
\* that name the same ones in opposite orders may each wait for the other.
\* Nothing else waits in a circle, and there PostgreSQL ends one of the two.
SomeoneProceeds ==
  LET running == {q \in Requests : req[q].phase = "txn"}
  IN orphans = {} /\ running # {} =>
       \/ \E q \in running : Unhindered(q)
       \/ \E p, q \in running : p # q /\ Crossed(req[p], req[q])

=============================================================================
