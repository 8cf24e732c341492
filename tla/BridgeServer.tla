----------------------------- MODULE BridgeServer -----------------------------
(***************************************************************************)
(* The Python bridge's HTTP server: what it does with a request, from the  *)
(* head to the reply, by a thread per request over the pool of sessions.   *)
(* A read runs some queries; a command some, then its transaction, then,   *)
(* for some aliases, some more for the reply.  What a transaction does to  *)
(* the records is in BridgeCommand.                                        *)
(***************************************************************************)
EXTENDS BridgeRoutes, BridgePool

CONSTANTS
  Queries,    \* bound: how many queries are run in a row before or after
  Names       \* the words tried as identifiers

ASSUME ServerAssumption == Queries \in Nat

VARIABLE req   \* thread -> the request it serves

vars == <<poolVars, req>>

-----------------------------------------------------------------------------
(***************************************************************************)
(* The head of a request                                                   *)
(***************************************************************************)
\* A request may lack one of these: an allowed origin, TLS at the proxy, the
\* bearer token, a JSON object as its body (an alias takes no body for an empty
\* one), a key, a signed actor.
Gate == {"origin", "tls", "token"}

Lacks == Gate \cup {"body", "key", "actor", None}

\* What is asked of a request before its queries.  An unknown path is found
\* out after the key in a POST, after the gate in others, at once in a PATCH;
\* the budget preview is a POST without a key.
Needs(method, path) ==
  CASE method = "GET" -> Gate
    [] path = <<"budget-check">> /\ method = "POST" -> Gate \cup {"body"}
    [] Serving(method, path) = {} ->
         CASE method = "POST" -> Gate \cup {"body", "key"}
           [] method = "PATCH" -> {}
           [] OTHER -> Gate
    [] OTHER -> Gate \cup {"body", "key", "actor"}

-----------------------------------------------------------------------------
(***************************************************************************)
(* What is done with it: reply says how it ends before any query, "" that  *)
(* it does not; ends how it may end when all queries succeeded.            *)
(***************************************************************************)
Ended(reply) ==
  [reply |-> reply, txn |-> FALSE, single |-> FALSE, again |-> FALSE, ends |-> {}]

ReadTreatment(route) ==
  {[Ended("") EXCEPT !.ends = {"ok"} \cup (IF "found" \in route.asks THEN {"missing"} ELSE {})]}
    \cup (IF "param" \in route.asks THEN {Ended("refused")} ELSE {})
    \cup (IF "number" \in route.asks THEN {Ended("unavailable")} ELSE {})

\* A type the family does not have is refused, and so is any other command
\* that is not put well.
CommandTreatment(route) ==
  {Ended("refused")} \cup
    IF route.type \in Types(route.family)
    THEN {[reply |-> "", txn |-> TRUE, single |-> route.family \in Single,
           again |-> route.again,
           ends |-> {"ok", "refused"}]}
    ELSE {}

Treatments(method, path, lack) ==
  IF lack \in Needs(method, path) THEN {Ended("refused")}
  ELSE IF Serving(method, path) = {} THEN {Ended("missing")}
  ELSE UNION {IF "family" \in DOMAIN route THEN CommandTreatment(route)
              ELSE ReadTreatment(route) : route \in Serving(method, path)}

\* The paths of the routes, with the names for identifiers and one number.
Paths ==
  UNION {{[i \in DOMAIN r.path |->
             IF r.path[i] = Name THEN n ELSE IF r.path[i] = Digits THEN "7" ELSE r.path[i]] :
           n \in Names, r \in Routes(m)} : m \in Methods}

AllTreatments ==
  (UNION {Treatments(m, p, None) : m \in Methods, p \in Paths})
    \cup (UNION {Treatments(m, <<"expenses">>, lack) : m \in Methods, lack \in Lacks})

-----------------------------------------------------------------------------
Idle == [phase |-> "idle", calls |-> <<>>, single |-> FALSE, ends |-> {},
         txns |-> 0, reply |-> ""]

Replied(reply) == [Idle EXCEPT !.phase = "done", !.reply = reply]

Times(n) == [i \in 1..n |-> "read"]

Arrive(q) ==
  /\ req[q].phase = "idle"
  /\ ~closed
  /\ \E t \in AllTreatments, before \in 0..Queries :
       req' = [req EXCEPT ![q] =
         IF t.reply # "" THEN Replied(t.reply)
         ELSE [@ EXCEPT !.phase = "calls", !.single = t.single, !.ends = t.ends,
                        !.calls = Times(before)
                                    \o (IF t.txn THEN <<"txn">> ELSE <<>>)
                                    \o (IF t.again THEN Times(Queries) ELSE <<>>)]]
  /\ UNCHANGED poolVars

NextCall(q) ==
  /\ req[q].phase = "calls"
  /\ req[q].calls # <<>>
  /\ call[q].phase = "none"
  /\ call' = Call(q, req[q].single /\ Head(req[q].calls) = "txn")
  /\ UNCHANGED <<closed, idle, running, silent, pipe, deaths, req>>

\* What was read before the transaction may refuse the command, or show that
\* its key is taken.
Settle(q) ==
  /\ req[q].phase = "calls"
  /\ req[q].calls # <<>>
  /\ Head(req[q].calls) = "txn"
  /\ call[q].phase = "none"
  /\ \E reply \in {"refused", "ok"} : req' = [req EXCEPT ![q] = Replied(reply)]
  /\ UNCHANGED poolVars

\* The query is back.  A failed one ends the request, and an error that nobody
\* catches ends the connection without a reply.
Returned(q) ==
  LET r == req[q] IN
  /\ call[q].phase = "done"
  /\ call' = [call EXCEPT ![q] = NoCall]
  /\ req' = [req EXCEPT ![q] =
       IF call[q].result = "rows" THEN [r EXCEPT !.calls = Tail(r.calls), !.txns = 0]
       ELSE Replied(IF call[q].result = "dropped" THEN "dropped" ELSE "unavailable")]
  /\ UNCHANGED <<closed, idle, running, silent, pipe, deaths>>

\* The receipt that a transaction returns may be that of another request.
Reply(q) ==
  /\ req[q].phase = "calls"
  /\ req[q].calls = <<>>
  /\ \E reply \in req[q].ends : req' = [req EXCEPT ![q] = Replied(reply)]
  /\ UNCHANGED poolVars

\* A step of the pool on behalf of a request; txns counts how often the
\* transaction of a command is handed to a session.
Query(q) ==
  /\ PoolStep(q)
  /\ req' = IF /\ call[q].phase = "start" /\ call'[q].phase # "look"
               /\ Head(req[q].calls) = "txn"
            THEN [req EXCEPT ![q].txns = @ + 1] ELSE req

Serve(q) == NextCall(q) \/ Settle(q) \/ Returned(q) \/ Reply(q) \/ Query(q)

\* The server has nothing left to do, but to wait for processes that do not end.
Rest ==
  /\ \A q \in Threads :
       \/ req[q].phase \in {"done"} \cup (IF closed THEN {"idle"} ELSE {})
       \/ call[q].phase = "blocked"
  /\ UNCHANGED vars

Init == PoolInit /\ req = [q \in Threads |-> Idle]

Next ==
  \/ \E q \in Threads : Arrive(q) \/ Serve(q)
  \/ (Close /\ UNCHANGED req)
  \/ (Die /\ UNCHANGED req)
  \/ Rest

\* The scheduler runs every thread.  A thread that waits for a session or for
\* the next line goes on at its deadline; one that is blocked in a write, or
\* within a line, has none, and nothing is assumed of it.
Fairness == \A q \in Threads : WF_vars(Serve(q))

Spec == Init /\ [][Next]_vars /\ Fairness

-----------------------------------------------------------------------------
(***************************************************************************)
(* What the server promises                                                *)
(***************************************************************************)
\* The values the variables take.
TypeOK ==
  /\ PoolTypeOK
  /\ \A q \in Threads :
       /\ req[q].phase \in {"idle", "calls", "done"}
       /\ req[q].txns \in 0..2
       /\ req[q].phase = "done" =>
            /\ req[q].reply \in {"ok", "refused", "missing", "unavailable", "dropped"}
            /\ call[q] = NoCall

\* Whatever of the pool fails, times out, dies or is closed, a request that was
\* let in comes to an end, unless its thread is blocked for good on a process
\* that neither goes on nor ends (PsqlSession.execute).
Answered ==
  \A q \in Threads :
    <>[](call[q].phase = "blocked") \/ (req[q].phase = "calls" ~> req[q].phase = "done")

NoRouteHidden ==
  \A m \in Methods : \A p \in Paths :
    LET serving == Serving(m, p)
    IN \A r \in Routes(m) :
         Matches(p, r) =>
           /\ Cardinality(serving) = 1
           /\ \A s \in serving : s # r => s.path = p

AllCommandsRouted ==
  \A f \in AllFamilies : \A t \in Types(f) :
    \E r \in CommandRoutes : r.family = f /\ r.type = t

Serves == \E q \in Threads : req[q].phase # "idle"

\* Of two routes that match a path, the one that spells the path out serves
\* it, and no two serve one path: no endpoint hides behind another, and every
\* type of command that a family has can be asked for.
EveryRouteServes == Serves => NoRouteHidden /\ AllCommandsRouted

\* Whatever failed, timed out or died, the pool neither shrinks nor shares its
\* sessions, no transaction is handed to more than two of them, and a request
\* that was answered holds none (PsqlPool, query_lines).
SessionsAccounted == TypeOK /\ SessionsKept

=============================================================================
