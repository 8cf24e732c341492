------------------------------ MODULE BridgePool ------------------------------
(***************************************************************************)
(* The pool of psql sessions of the Python bridge.  A query takes a        *)
(* session from the queue, or gives up after a while; starts its process   *)
(* unless it runs; writes the SQL and reads rows up to its marker, or gives*)
(* up after a while; and puts the session back, a fresh one if the query   *)
(* failed.  A failed query is run once more.  The deadline is that of the  *)
(* wait for a line: a thread that writes to a process which does not read, *)
(* or reads a line that is never finished, waits until the process ends.   *)
(*                                                                         *)
(* The session object of a thread is as good as a slot: a replacement      *)
(* takes the slot of the session it replaces.                              *)
(***************************************************************************)
EXTENDS Naturals, Sequences, SequencesExt, FiniteSets

CONSTANTS
  Threads,   \* the request threads of the server
  Size,      \* how many sessions there are
  Deaths,    \* bound: how often a psql process dies or falls silent
  None

ASSUME PoolAssumption ==
  Size \in Nat \ {0} /\ Deaths \in Nat /\ None \notin 1..Size

VARIABLES
  closed,    \* the pool was closed
  idle,      \* the queue of sessions nobody uses
  running,   \* the sessions that have a psql process
  silent,    \* those whose process does not answer
  pipe,      \* session -> whose rows the process has written, or will
  deaths,    \* how many processes died or fell silent
  call       \* thread -> how far its query has come

poolVars == <<closed, idle, running, silent, pipe, deaths, call>>

Sessions == 1..Size

NoCall == [phase |-> "none", session |-> None, tries |-> 0,
           result |-> None, rows |-> {}, single |-> FALSE]

\* The sessions threads have taken out of the queue.
Held == {call[q].session : q \in Threads} \ {None}

PoolInit ==
  /\ closed = FALSE
  /\ idle = [s \in Sessions |-> s]
  /\ running = {}
  /\ silent = {}
  /\ pipe = [s \in Sessions |-> {}]
  /\ deaths = 0
  /\ call = [q \in Threads |-> NoCall]

\* Fault: a query that failed is run again and again.
Tried_Endless(c, result) ==
  IF ~c.single THEN [NoCall EXCEPT !.phase = "check", !.tries = 2]
  ELSE [NoCall EXCEPT !.phase = "done", !.result = result]

\* The query has failed: once more, or give up.
Tried(c, result) ==
  IF c.tries = 1 /\ ~c.single THEN [NoCall EXCEPT !.phase = "check", !.tries = 2]
  ELSE [NoCall EXCEPT !.phase = "done", !.result = result]

\* A thread hands a query over, to be run once only if it says so.
Call(q, single) ==
  [call EXCEPT ![q] = [NoCall EXCEPT !.phase = "check", !.tries = 1, !.single = single]]

\* Under the pool's lock; a closed pool runs nothing.
Check(q) ==
  /\ call[q].phase = "check"
  /\ call' = [call EXCEPT ![q] =
       IF closed THEN Tried(@, "closed") ELSE [@ EXCEPT !.phase = "wait"]]
  /\ UNCHANGED <<closed, idle, running, silent, pipe, deaths>>

Acquire(q) ==
  /\ call[q].phase = "wait"
  /\ idle # <<>>
  /\ call' = [call EXCEPT ![q].phase = "start", ![q].session = Head(idle)]
  /\ idle' = Tail(idle)
  /\ UNCHANGED <<closed, running, silent, pipe, deaths>>

\* No session came back before the deadline.
Exhaust(q) ==
  /\ call[q].phase = "wait"
  /\ idle = <<>>
  /\ call' = [call EXCEPT ![q] = Tried(@, "exhausted")]
  /\ UNCHANGED <<closed, idle, running, silent, pipe, deaths>>

\* A process is started unless one runs, and gets the query; from one that is
\* silent the write does not come back if the query is longer than the pipe.
Submit(q) ==
  LET s == call[q].session IN
  /\ call[q].phase = "start"
  /\ running' = running \cup {s}
  /\ pipe' = [pipe EXCEPT ![s] = (IF s \in running THEN @ ELSE {}) \cup {q}]
  /\ \E phase \in {"read"} \cup (IF s \in silent THEN {"blocked"} ELSE {}) :
       call' = [call EXCEPT ![q].phase = phase]
  /\ UNCHANGED <<closed, idle, silent, deaths>>

\* A process fell silent within a line.
Stall(q) ==
  /\ call[q].phase = "read"
  /\ call[q].session \in silent
  /\ call' = [call EXCEPT ![q].phase = "blocked"]
  /\ UNCHANGED <<closed, idle, running, silent, pipe, deaths>>

\* There is no starting a process; that is not taken for a failed query.
NoProcess(q) ==
  LET s == call[q].session IN
  /\ call[q].phase = "start"
  /\ s \notin running
  /\ call' = [call EXCEPT ![q].phase = "look", ![q].result = "broken"]
  /\ UNCHANGED <<closed, idle, running, silent, pipe, deaths>>

\* What is in the pipe up to the marker is taken for the rows.
Receive(q) ==
  LET s == call[q].session IN
  /\ call[q].phase = "read"
  /\ s \in running \ silent
  /\ call' = [call EXCEPT ![q].phase = "look", ![q].result = "rows",
                          ![q].rows = pipe[s]]
  /\ pipe' = [pipe EXCEPT ![s] = {}]
  /\ UNCHANGED <<closed, idle, running, silent, deaths>>

\* Fault: the session that timed out goes on running.
Discarded_Kept(s) == UNCHANGED <<running, silent, pipe>>

\* The process is ended, whatever it was about to write.
Discarded(s) ==
  /\ running' = running \ {s}
  /\ silent' = silent \ {s}
  /\ pipe' = [pipe EXCEPT ![s] = {}]

\* What a process that outlives its kill makes of a result: an error that is
\* none of the service's, which nobody catches.
Ending(s, result) == {result} \cup (IF s \in running THEN {"dropped"} ELSE {})

\* The deadline passes, the SQL fails or the process is gone; without a
\* deadline, only the last.
Fail(q) ==
  LET s == call[q].session IN
  /\ call[q].phase = "read" \/ (call[q].phase = "blocked" /\ s \notin running)
  /\ Discarded(s)
  /\ \E result \in Ending(s, "failed") :
       call' = [call EXCEPT ![q].phase = "look", ![q].result = result]
  /\ UNCHANGED <<closed, idle, deaths>>

\* Back from the query, a thread looks whether the pool was closed ...
Look(q) ==
  /\ call[q].phase = "look"
  /\ call' = [call EXCEPT ![q].phase = IF closed THEN "end" ELSE "put"]
  /\ UNCHANGED <<closed, idle, running, silent, pipe, deaths>>

Outcome(c) ==
  IF c.result = "failed" THEN Tried(c, "failed")
  ELSE [c EXCEPT !.phase = "done", !.session = None]

\* Fault: only a session that served goes back.
Put_Forgetful(q) ==
  /\ call[q].phase = "put"
  /\ idle' = IF call[q].result = "rows" THEN Append(idle, call[q].session) ELSE idle
  /\ call' = [call EXCEPT ![q] = Outcome(@)]
  /\ UNCHANGED <<closed, running, silent, pipe, deaths>>

\* ... and puts the session back, without looking again ...
Put(q) ==
  /\ call[q].phase = "put"
  /\ idle' = Append(idle, call[q].session)
  /\ call' = [call EXCEPT ![q] = Outcome(@)]
  /\ UNCHANGED <<closed, running, silent, pipe, deaths>>

\* ... or ends it.
End(q) ==
  /\ call[q].phase = "end"
  /\ Discarded(call[q].session)
  /\ \E result \in Ending(call[q].session, call[q].result) :
       call' = [call EXCEPT ![q] = Outcome([@ EXCEPT !.result = result])]
  /\ UNCHANGED <<closed, idle, deaths>>

\* The server stops: the sessions in the queue are ended, up to one that
\* outlives its kill.
Close ==
  /\ ~closed
  /\ closed' = TRUE
  /\ \E rest \in Suffixes(idle) :
       LET ended == ToSet(idle) \ ToSet(rest) IN
       /\ idle # <<>> => ended # {}
       /\ idle' = rest
       /\ running' = running \ ended
       /\ silent' = silent \ ended
       /\ pipe' = [s \in Sessions |-> IF s \in ended THEN {} ELSE pipe[s]]
  /\ UNCHANGED <<deaths, call>>

\* A psql process ends by itself, or the server behind it stops answering.
Die ==
  /\ deaths < Deaths
  /\ deaths' = deaths + 1
  /\ \E s \in running :
       \/ Discarded(s)
       \/ silent' = silent \cup {s} /\ UNCHANGED <<running, pipe>>
  /\ UNCHANGED <<closed, idle, call>>

PoolStep(q) ==
  \/ Check(q) \/ Acquire(q) \/ Exhaust(q)
  \/ Submit(q) \/ NoProcess(q) \/ Receive(q) \/ Stall(q) \/ Fail(q)
  \/ Look(q) \/ Put(q) \/ End(q)

-----------------------------------------------------------------------------
(***************************************************************************)
(* What the pool promises                                                  *)
(***************************************************************************)
\* The values the variables take.
PoolTypeOK ==
  /\ closed \in BOOLEAN
  /\ ToSet(idle) \subseteq Sessions /\ Len(idle) <= Size
  /\ silent \subseteq running /\ running \subseteq Sessions
  /\ pipe \in [Sessions -> SUBSET Threads]
  /\ deaths \in 0..Deaths
  /\ \A q \in Threads :
       call[q].session \in Sessions \cup {None} /\ call[q].tries \in 0..2

\* As long as the pool is open, every session is in the queue once or held by
\* one thread.
SessionsKept ==
  /\ IsInjective(idle)
  /\ \A p, q \in Threads :
       p # q => call[p].session = None \/ call[p].session # call[q].session
  /\ ToSet(idle) \cap Held = {}
  /\ ~closed => ToSet(idle) \cup Held = Sessions

\* A reply is made of the rows of its own query: nothing that an earlier query
\* left in a pipe is ever read for a later one.
RowsAreMine ==
  \A q \in Threads : call[q].rows \subseteq {q}

=============================================================================
