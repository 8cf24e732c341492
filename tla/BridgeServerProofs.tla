-------------------------- MODULE BridgeServerProofs --------------------------
(***************************************************************************)
(* Proofs about the bridge's pool of sessions and the requests over it,    *)
(* for any number of threads, sessions, deaths of processes and queries:   *)
(* every session is in the queue once or held by one thread, and no query  *)
(* gets rows of another.  The argument is that a thread in the middle of a *)
(* query is the only one that holds its session, so that what is in the    *)
(* session's pipe is what this query put there (Piped); whoever leaves a   *)
(* query early empties the pipe before letting go.                         *)
(*                                                                         *)
(* And about what the reads of the bridge answer, for any worlds: what is  *)
(* staged, promoted and commanded in any order leaves one row per identity *)
(* in every layer (LedgerInv), and from any such state the reads agree.    *)
(*                                                                         *)
(* And about the routes: each path is served by one of them, and each type *)
(* of command has one.                                                     *)
(***************************************************************************)
EXTENDS
  BridgeServer, BridgeDashboards, BridgeSpendingViews, BridgeSupplierViews,
  FiniteSetTheorems, SequenceTheorems, TLAPS

-----------------------------------------------------------------------------
(***************************************************************************)
(* The inductive invariant of the pool.                                    *)
(***************************************************************************)

\* A thread waits for what its session has to write, or cannot go on writing.
Reading == {"read", "blocked"}

Holding == Reading \cup {"start", "look", "put", "end"}

Calls ==
  [phase   : {"none", "check", "wait", "done"} \cup Holding,
   session : Sessions \cup {None},
   tries   : 0..2,
   result  : {"rows", "failed", "closed", "exhausted", "broken", "dropped", None},
   rows    : SUBSET Threads,
   single  : BOOLEAN]

PoolShape ==
  /\ closed \in BOOLEAN
  /\ idle \in Seq(Sessions)
  /\ running \subseteq Sessions
  /\ silent \subseteq running
  /\ pipe \in [Sessions -> SUBSET Threads]
  /\ deaths \in 0..Deaths
  /\ call \in [Threads -> Calls]

\* A thread holds a session from taking it until it put it back or, only once
\* the pool is closed, ended it.
Holds ==
  \A q \in Threads :
    /\ call[q].session # None <=> call[q].phase \in Holding
    /\ call[q].phase = "end" => closed

\* Only a running process has something in its pipe, and only for the thread
\* that is reading it.
Piped ==
  \A s \in Sessions :
    /\ s \notin running => pipe[s] = {}
    /\ \A p \in pipe[s] : call[p].session = s /\ call[p].phase \in Reading

PoolInv == PoolShape /\ Holds /\ SessionsKept /\ Piped /\ RowsAreMine

-----------------------------------------------------------------------------
(***************************************************************************)
(* Sequences without repetition.                                           *)
(***************************************************************************)

LEMMA EmptyQueue == ToSet(<<>>) = {} /\ IsInjective(<<>>)
BY DEF ToSet, IsInjective

\* The first one is in the rest no more.
LEMMA TakenOff ==
  ASSUME NEW S, NEW s \in Seq(S), s # <<>>, IsInjective(s)
  PROVE  /\ Head(s) \in S
         /\ Tail(s) \in Seq(S)
         /\ IsInjective(Tail(s))
         /\ Head(s) \notin ToSet(Tail(s))
         /\ ToSet(s) = ToSet(Tail(s)) \cup {Head(s)}
<1>1. /\ Head(s) = s[1] /\ Len(s) \in Nat \ {0} /\ DOMAIN s = 1..Len(s)
      /\ Tail(s) \in Seq(S) /\ Len(Tail(s)) = Len(s) - 1
      /\ DOMAIN Tail(s) = 1..(Len(s) - 1)
  OBVIOUS
<1>2. \A i \in 1..(Len(s) - 1) : Tail(s)[i] = s[i + 1]
  BY <1>1
<1>3. IsInjective(Tail(s))
  <2> SUFFICES ASSUME NEW i \in 1..(Len(s) - 1), NEW j \in 1..(Len(s) - 1),
                      Tail(s)[i] = Tail(s)[j]
               PROVE  i = j
    BY <1>1 DEF IsInjective
  <2>1. i + 1 \in DOMAIN s /\ j + 1 \in DOMAIN s /\ s[i + 1] = s[j + 1]
    BY <1>1, <1>2
  <2>2. i + 1 = j + 1
    BY <2>1 DEF IsInjective
  <2> QED BY <2>2
<1>4. Head(s) \notin ToSet(Tail(s))
  <2> SUFFICES ASSUME NEW i \in 1..(Len(s) - 1), Tail(s)[i] = s[1] PROVE FALSE
    BY <1>1 DEF ToSet
  <2>1. i + 1 \in DOMAIN s /\ 1 \in DOMAIN s /\ s[i + 1] = s[1]
    BY <1>1, <1>2
  <2>2. i + 1 = 1
    BY <2>1 DEF IsInjective
  <2> QED BY <2>2
<1>5. ToSet(s) = ToSet(Tail(s)) \cup {Head(s)}
  <2>1. ASSUME NEW x \in ToSet(s) PROVE x \in ToSet(Tail(s)) \cup {Head(s)}
    <3>1. PICK i \in 1..Len(s) : x = s[i]
      BY <1>1 DEF ToSet
    <3>2. CASE i = 1
      BY <3>1, <3>2, <1>1
    <3>3. CASE i # 1
      <4>1. i - 1 \in 1..(Len(s) - 1) /\ s[(i - 1) + 1] = x
        BY <3>1, <3>3, <1>1
      <4>2. x = Tail(s)[i - 1] /\ i - 1 \in DOMAIN Tail(s)
        BY <4>1, <1>1, <1>2
      <4> QED BY <4>2 DEF ToSet
    <3> QED BY <3>2, <3>3
  <2>2. ASSUME NEW x \in ToSet(Tail(s)) PROVE x \in ToSet(s)
    <3>1. PICK i \in 1..(Len(s) - 1) : x = Tail(s)[i]
      BY <1>1 DEF ToSet
    <3>2. i + 1 \in DOMAIN s /\ x = s[i + 1]
      BY <3>1, <1>1, <1>2
    <3> QED BY <3>2 DEF ToSet
  <2>3. Head(s) \in ToSet(s)
    <3>1. 1 \in DOMAIN s /\ Head(s) = s[1]
      BY <1>1
    <3> QED BY <3>1 DEF ToSet
  <2> QED BY <2>1, <2>2, <2>3
<1> QED BY <1>1, <1>3, <1>4, <1>5

\* One that is not in the queue is put at its end.
LEMMA PutBack ==
  ASSUME NEW S, NEW s \in Seq(S), IsInjective(s), NEW x \in S, x \notin ToSet(s)
  PROVE  /\ Append(s, x) \in Seq(S)
         /\ IsInjective(Append(s, x))
         /\ ToSet(Append(s, x)) = ToSet(s) \cup {x}
<1> DEFINE t == Append(s, x)
<1>1. /\ t \in Seq(S) /\ Len(s) \in Nat /\ DOMAIN s = 1..Len(s)
      /\ DOMAIN t = 1..(Len(s) + 1)
      /\ t[Len(s) + 1] = x
  OBVIOUS
<1>2. \A i \in 1..Len(s) : t[i] = s[i] /\ t[i] \in ToSet(s)
  BY <1>1 DEF ToSet
<1> HIDE DEF t
<1>3. IsInjective(t)
  <2> SUFFICES ASSUME NEW i \in 1..(Len(s) + 1), NEW j \in 1..(Len(s) + 1),
                      t[i] = t[j]
               PROVE  i = j
    BY <1>1 DEF IsInjective
  <2>1. CASE i \in 1..Len(s) /\ j \in 1..Len(s)
    <3>1. s[i] = s[j] /\ i \in DOMAIN s /\ j \in DOMAIN s
      BY <2>1, <1>1, <1>2
    <3> QED BY <3>1 DEF IsInjective
  <2>2. CASE i = Len(s) + 1 \/ j = Len(s) + 1
    BY <2>2, <1>1, <1>2
  <2> QED BY <2>1, <2>2, <1>1
<1>4. ToSet(t) = ToSet(s) \cup {x}
  <2>1. ASSUME NEW y \in ToSet(t) PROVE y \in ToSet(s) \cup {x}
    <3>1. PICK i \in 1..(Len(s) + 1) : y = t[i]
      BY <1>1 DEF ToSet
    <3>2. i \in 1..Len(s) \/ i = Len(s) + 1
      BY <1>1
    <3> QED BY <3>1, <3>2, <1>1, <1>2
  <2>2. ASSUME NEW y \in ToSet(s) PROVE y \in ToSet(t)
    <3>1. PICK i \in 1..Len(s) : y = s[i]
      BY <1>1 DEF ToSet
    <3>2. i \in DOMAIN t /\ y = t[i]
      BY <3>1, <1>1, <1>2
    <3> QED BY <3>2 DEF ToSet
  <2>3. x \in ToSet(t)
    <3>1. Len(s) + 1 \in DOMAIN t
      BY <1>1
    <3> QED BY <3>1, <1>1 DEF ToSet
  <2> QED BY <2>1, <2>2, <2>3
<1> QED BY <1>1, <1>3, <1>4 DEF t

\* What is left of a queue of which the first were taken.
LEMMA LeftOver ==
  ASSUME NEW S, NEW s \in Seq(S), IsInjective(s), NEW t \in Suffixes(s)
  PROVE  t \in Seq(S) /\ IsInjective(t) /\ ToSet(t) \subseteq ToSet(s)
<1>1. CASE t = <<>>
  BY <1>1, EmptyQueue
<1>2. CASE t # <<>>
  <2>1. PICK l \in 1..Len(s) : t = SubSeq(s, l, Len(s))
    BY <1>2 DEF Suffixes
  <2>2. /\ t \in Seq(S) /\ Len(s) \in Nat /\ DOMAIN s = 1..Len(s)
        /\ Len(t) = Len(s) - l + 1 /\ DOMAIN t = 1..Len(t)
        /\ \A i \in 1..Len(t) : t[i] = s[l + i - 1]
    BY <2>1
  <2>3. IsInjective(t)
    <3> SUFFICES ASSUME NEW i \in 1..Len(t), NEW j \in 1..Len(t), t[i] = t[j]
                 PROVE  i = j
      BY <2>2 DEF IsInjective
    <3>1. l + i - 1 \in DOMAIN s /\ l + j - 1 \in DOMAIN s /\ s[l + i - 1] = s[l + j - 1]
      BY <2>2
    <3>2. l + i - 1 = l + j - 1
      BY <3>1 DEF IsInjective
    <3> QED BY <2>2, <3>2
  <2>4. ASSUME NEW x \in ToSet(t) PROVE x \in ToSet(s)
    <3>1. PICK i \in 1..Len(t) : x = t[i]
      BY <2>2 DEF ToSet
    <3>2. l + i - 1 \in DOMAIN s /\ x = s[l + i - 1]
      BY <2>2, <3>1
    <3> QED BY <3>2 DEF ToSet
  <2> QED BY <2>2, <2>3, <2>4
<1> QED BY <1>1, <1>2

\* A queue of different sessions is not longer than there are sessions.
LEMMA QueueFits ==
  ASSUME NEW s \in Seq(Sessions), IsInjective(s)
  PROVE  ToSet(s) \subseteq Sessions /\ Len(s) <= Size
<1>1. Len(s) \in Nat /\ DOMAIN s = 1..Len(s) /\ s \in [1..Len(s) -> Sessions]
  OBVIOUS
<1>2. /\ IsFiniteSet(1..Len(s)) /\ Cardinality(1..Len(s)) = Len(s)
      /\ IsFiniteSet(Sessions) /\ Cardinality(Sessions) = Size
  <2>1. \A n \in Nat : IsFiniteSet(1..n) /\ Cardinality(1..n) = n
    <3> SUFFICES ASSUME NEW n \in Nat
                 PROVE  IsFiniteSet(1..n) /\ Cardinality(1..n) = n
      OBVIOUS
    <3>1. 1 \in Int /\ n \in Int
      OBVIOUS
    <3>2. IsFiniteSet(1..n) /\ Cardinality(1..n) = IF 1 > n THEN 0 ELSE n - 1 + 1
      BY <3>1, FS_Interval
    <3> QED BY <3>2
  <2> QED BY <1>1, <2>1, PoolAssumption DEF Sessions
<1>3. Len(s) <= Size
  <2> SUFFICES ASSUME Size < Len(s) PROVE FALSE
    BY <1>1, PoolAssumption
  <2>1. \E i, j \in 1..Len(s) : i # j /\ s[i] = s[j]
    BY <1>1, <1>2, FS_PigeonHole
  <2> QED BY <2>1, <1>1 DEF IsInjective
<1> QED BY <1>1, <1>3 DEF ToSet

-----------------------------------------------------------------------------
(***************************************************************************)
(* Every step keeps the invariant of the pool.                             *)
(***************************************************************************)

LEMMA NoCallShape ==
  /\ NoCall \in Calls
  /\ NoCall.session = None /\ NoCall.phase = "none" /\ NoCall.rows = {}
BY DEF NoCall, Calls, Holding, Reading

\* A query that is over, or tried again, holds no session and no rows.
LEMMA TriedShape ==
  ASSUME NEW c \in Calls,
         NEW result \in {"rows", "failed", "closed", "exhausted", "broken"}
  PROVE  /\ Tried(c, result) \in Calls
         /\ Tried(c, result).session = None
         /\ Tried(c, result).phase \in {"check", "done"}
         /\ Tried(c, result).rows = {}
<1> DEFINE again == [NoCall EXCEPT !.phase = "check", !.tries = 2]
           over == [NoCall EXCEPT !.phase = "done", !.result = result]
<1>1. Tried(c, result) = again \/ Tried(c, result) = over
  BY DEF Tried
<1>2. again \in Calls /\ again.session = None /\ again.phase = "check" /\ again.rows = {}
  <2>1. 2 \in 0..2
    OBVIOUS
  <2>2. again.phase = "check" /\ again.session = None /\ again.rows = {}
    BY NoCallShape DEF Calls
  <2>3. again \in Calls
    <3>1. PICK c1 \in Calls : c1 = [NoCall EXCEPT !.phase = "check"]
      BY NoCallShape DEF Calls
    <3>2. [c1 EXCEPT !.tries = 2] \in Calls
      BY <2>1 DEF Calls
    <3> QED BY <3>1, <3>2, NoCallShape DEF Calls
  <2> QED BY <2>2, <2>3
<1>3. over \in Calls /\ over.session = None /\ over.phase = "done" /\ over.rows = {}
  BY NoCallShape DEF Calls
<1> HIDE DEF again, over
<1> QED BY <1>1, <1>2, <1>3

LEMMA OutcomeShape ==
  ASSUME NEW c \in Calls
  PROVE  /\ Outcome(c) \in Calls
         /\ Outcome(c).session = None
         /\ Outcome(c).phase \in {"check", "done"}
         /\ Outcome(c).rows \subseteq c.rows
<1>1. CASE c.result = "failed"
  <2>1. Outcome(c) = Tried(c, "failed")
    BY <1>1 DEF Outcome
  <2> QED BY <2>1, TriedShape
<1>2. CASE c.result # "failed"
  <2>1. Outcome(c) = [c EXCEPT !.phase = "done", !.session = None]
    BY <1>2 DEF Outcome
  <2> QED BY <2>1 DEF Calls
<1> QED BY <1>1, <1>2

\* A step of one query that neither takes nor leaves a session, and that does
\* not end the reading, disturbs nothing.
LEMMA OneCallChanges ==
  ASSUME PoolInv, NEW q \in Threads, NEW c \in Calls,
         call' = [call EXCEPT ![q] = c],
         c.session = call[q].session,
         c.phase \in Holding <=> call[q].phase \in Holding,
         c.phase = "end" => closed,
         call[q].phase \in Reading => c.phase \in Reading, c.rows \subseteq {q},
         UNCHANGED <<closed, idle, running, silent, pipe, deaths>>
  PROVE  PoolInv'
<1>1. PoolShape'
  BY DEF PoolInv, PoolShape
<1>2. \A p \in Threads : call'[p].session = call[p].session
  BY DEF PoolInv, PoolShape
<1>3. Holds'
  BY <1>2 DEF PoolInv, PoolShape, Holds
<1>4. SessionsKept'
  <2>1. Held' = Held
    BY <1>2 DEF Held
  <2> QED BY <1>2, <2>1 DEF PoolInv, SessionsKept
<1>5. Piped'
  BY DEF PoolInv, PoolShape, Piped
<1>6. RowsAreMine'
  BY DEF PoolInv, PoolShape, RowsAreMine
<1> QED BY <1>1, <1>3, <1>4, <1>5, <1>6 DEF PoolInv

\* One thread's session is no other's.
LEMMA HeldAlone ==
  ASSUME PoolInv, NEW q \in Threads, call[q].phase \in Holding
  PROVE  /\ call[q].session \in Sessions
         /\ \A p \in Threads : call[p].session = call[q].session => p = q
         /\ call[q].session \notin ToSet(idle)
         /\ pipe[call[q].session] \subseteq {q}
<1>1. call[q].session \in Sessions /\ call[q].session # None
  BY DEF PoolInv, PoolShape, Holds, Calls
<1>2. \A p \in Threads : call[p].session = call[q].session => p = q
  BY <1>1 DEF PoolInv, SessionsKept
<1>3. call[q].session \in Held
  BY <1>1 DEF Held
<1> QED BY <1>1, <1>2, <1>3 DEF PoolInv, PoolShape, SessionsKept, Piped, Reading

\* The query of a thread that gives its session up, with a result of its own or
\* without one.
LEMMA PutOrEnd ==
  ASSUME NEW q \in Threads, Put(q) \/ End(q), PoolShape
  PROVE  \E c \in Calls :
           /\ call' = [call EXCEPT ![q] = Outcome(c)]
           /\ c.rows = call[q].rows /\ c.tries = call[q].tries
           /\ c.single = call[q].single /\ call[q].phase \in {"put", "end"}
<1>1. call[q] \in Calls
  BY DEF PoolShape
<1>2. CASE Put(q)
  BY <1>1, <1>2 DEF Put
<1>3. CASE End(q)
  <2>1. PICK result \in Ending(call[q].session, call[q].result) :
          call' = [call EXCEPT ![q] = Outcome([call[q] EXCEPT !.result = result])]
    BY <1>3 DEF End
  <2>2. result = call[q].result \/ result = "dropped"
    BY DEF Ending
  <2>3. result \in {"rows", "failed", "closed", "exhausted", "broken", "dropped", None}
    BY <1>1, <2>2 DEF Calls
  <2>4. PICK c : c = [call[q] EXCEPT !.result = result]
    OBVIOUS
  <2>5. /\ c \in Calls /\ c.rows = call[q].rows /\ c.tries = call[q].tries
        /\ c.single = call[q].single
    BY <1>1, <2>3, <2>4 DEF Calls
  <2> QED BY <1>3, <2>1, <2>4, <2>5 DEF End
<1> QED BY <1>2, <1>3

LEMMA PoolStepKeeps ==
  ASSUME PoolInv, NEW q \in Threads, PoolStep(q)
  PROVE  PoolInv'
<1> DEFINE s == call[q].session
<1>0. /\ PoolShape /\ call[q] \in Calls /\ call[q].rows \subseteq {q}
      /\ None \notin Sessions
  BY PoolAssumption DEF PoolInv, PoolShape, RowsAreMine, Sessions
<1>1. CASE Check(q)
  <2>1. PICK c \in Calls :
          /\ call' = [call EXCEPT ![q] = c]
          /\ c.session = None /\ c.phase \in {"check", "wait", "done"}
          /\ c.rows \subseteq {q}
    <3>1. CASE closed
      <4>1. /\ Tried(call[q], "closed") \in Calls
            /\ Tried(call[q], "closed").session = None
            /\ Tried(call[q], "closed").phase \in {"check", "done"}
            /\ Tried(call[q], "closed").rows = {}
        BY <1>0, TriedShape
      <4>2. call' = [call EXCEPT ![q] = Tried(call[q], "closed")]
        BY <1>1, <3>1 DEF Check
      <4> QED BY <4>1, <4>2
    <3>2. CASE ~closed
      <4>1. [call[q] EXCEPT !.phase = "wait"] \in Calls
        BY <1>0 DEF Calls
      <4> WITNESS [call[q] EXCEPT !.phase = "wait"] \in Calls
      <4> QED BY <1>0, <1>1, <3>2 DEF Check, PoolInv, PoolShape, Holds, Calls, Holding, Reading
    <3> QED BY <3>1, <3>2
  <2>2. /\ call[q].phase = "check" /\ call[q].session = None
        /\ UNCHANGED <<closed, idle, running, silent, pipe, deaths>>
    BY <1>0, <1>1 DEF Check, PoolInv, Holds, Holding, Reading
  <2>3. /\ call[q].phase \notin Holding /\ c.phase \notin Holding /\ c.phase # "end"
        /\ call[q].phase \notin Reading
    BY <2>1, <2>2 DEF Holding, Reading
  <2> QED BY <2>1, <2>2, <2>3, OneCallChanges
<1>2. CASE Acquire(q)
  <2>1. /\ Head(idle) \in Sessions /\ Tail(idle) \in Seq(Sessions)
        /\ IsInjective(Tail(idle)) /\ Head(idle) \notin ToSet(Tail(idle))
        /\ ToSet(idle) = ToSet(Tail(idle)) \cup {Head(idle)}
    BY <1>0, <1>2, TakenOff DEF Acquire, PoolInv, PoolShape, SessionsKept
  <2>2. PICK c \in Calls :
          /\ call' = [call EXCEPT ![q] = c]
          /\ c.session = Head(idle) /\ c.phase = "start" /\ c.rows \subseteq {q}
    <3>1. [call[q] EXCEPT !.phase = "start", !.session = Head(idle)] \in Calls
      BY <1>0, <2>1 DEF Calls, Holding, Reading
    <3> WITNESS [call[q] EXCEPT !.phase = "start", !.session = Head(idle)] \in Calls
    <3> QED BY <1>0, <1>2 DEF Acquire, Calls
  <2>3. /\ call' \in [Threads -> Calls] /\ call'[q] = c
        /\ \A p \in Threads \ {q} : call'[p] = call[p]
    BY <1>0, <2>2 DEF PoolShape
  <2>4. call[q].session = None
    BY <1>2 DEF Acquire, PoolInv, Holds, Holding, Reading
  <2>5. Held' = Held \cup {Head(idle)}
    BY <1>0, <2>1, <2>2, <2>3, <2>4 DEF Held
  <2>6. idle' = Tail(idle)
    BY <1>2 DEF Acquire
  <2>7. PoolShape'
    BY <1>0, <1>2, <2>1, <2>3, <2>6 DEF Acquire, PoolShape
  <2>8. Holds'
    BY <1>0, <1>2, <2>1, <2>2, <2>3 DEF Acquire, PoolInv, Holds, Holding, Reading
  <2>9. SessionsKept'
    <3>1. Head(idle) \notin Held
      BY <2>1 DEF PoolInv, SessionsKept
    <3>2. \A p \in Threads : call[p].session # Head(idle)
      BY <1>0, <2>1, <3>1 DEF Held
    <3> QED BY <1>0, <1>2, <2>1, <2>2, <2>3, <2>5, <2>6, <3>2
            DEF Acquire, PoolInv, SessionsKept
  <2>10. Piped'
    BY <1>2, <2>3 DEF Acquire, PoolInv, PoolShape, Piped, Reading
  <2>11. RowsAreMine'
    BY <2>2, <2>3 DEF PoolInv, RowsAreMine
  <2> QED BY <2>7, <2>8, <2>9, <2>10, <2>11 DEF PoolInv
<1>3. CASE Exhaust(q)
  <2>1. /\ Tried(call[q], "exhausted") \in Calls
        /\ Tried(call[q], "exhausted").session = None
        /\ Tried(call[q], "exhausted").phase \in {"check", "done"}
        /\ Tried(call[q], "exhausted").rows = {}
    BY <1>0, TriedShape
  <2>2. call' = [call EXCEPT ![q] = Tried(call[q], "exhausted")]
    BY <1>3 DEF Exhaust
  <2> QED BY <1>0, <1>3, <2>1, <2>2, OneCallChanges
          DEF Exhaust, PoolInv, Holds, Holding, Reading
<1>4. CASE Submit(q)
  <2>1. /\ s \in Sessions /\ pipe[s] = {}
        /\ \A p \in Threads : call[p].session = s => p = q
    <3>1. call[q].phase \in Holding
      BY <1>4 DEF Submit, Holding, Reading
    <3>2. call[q].session \in Sessions
      BY <3>1, HeldAlone
    <3> QED BY <1>4, <3>1, <3>2, HeldAlone DEF Submit, PoolInv, Piped, Reading
  <2>2. PICK c \in Calls :
          /\ call' = [call EXCEPT ![q] = c]
          /\ c.session = s /\ c.phase \in Reading /\ c.rows \subseteq {q}
    <3>1. PICK phase \in Reading : call' = [call EXCEPT ![q].phase = phase]
      BY <1>4 DEF Submit, Reading
    <3>2. [call[q] EXCEPT !.phase = phase] \in Calls
      BY <1>0 DEF Calls, Holding, Reading
    <3> WITNESS [call[q] EXCEPT !.phase = phase] \in Calls
    <3> QED BY <1>0, <3>1 DEF Calls
  <2>3. /\ call' \in [Threads -> Calls] /\ call'[q] = c
        /\ \A p \in Threads \ {q} : call'[p] = call[p]
    BY <1>0, <2>2 DEF PoolShape
  <2>4. \A p \in Threads : call'[p].session = call[p].session
    BY <2>2, <2>3
  <2>5. /\ pipe' = [pipe EXCEPT ![s] = {q}] /\ running' = running \cup {s}
        /\ UNCHANGED <<closed, idle, silent, deaths>>
    BY <1>4, <2>1 DEF Submit
  <2>6. PoolShape'
    BY <1>0, <2>1, <2>3, <2>5 DEF PoolShape
  <2>7. Holds'
    BY <1>4, <2>2, <2>3, <2>4, <2>5 DEF Submit, PoolInv, Holds, Holding, Reading
  <2>8. SessionsKept'
    <3>1. Held' = Held
      BY <2>4 DEF Held
    <3> QED BY <2>4, <2>5, <3>1 DEF PoolInv, SessionsKept
  <2>9. Piped'
    BY <1>0, <1>4, <2>1, <2>2, <2>3, <2>5 DEF Submit, PoolInv, PoolShape, Piped, Reading
  <2>10. RowsAreMine'
    BY <2>2, <2>3 DEF PoolInv, RowsAreMine
  <2> QED BY <2>6, <2>7, <2>8, <2>9, <2>10 DEF PoolInv
<1>5. CASE NoProcess(q)
  <2>1. PICK c \in Calls :
          /\ call' = [call EXCEPT ![q] = c]
          /\ c.session = s /\ c.phase = "look" /\ c.rows \subseteq {q}
    <3>1. [call[q] EXCEPT !.phase = "look", !.result = "broken"] \in Calls
      BY <1>0 DEF Calls, Holding, Reading
    <3> WITNESS [call[q] EXCEPT !.phase = "look", !.result = "broken"] \in Calls
    <3> QED BY <1>0, <1>5 DEF NoProcess, Calls
  <2> QED BY <1>5, <2>1, OneCallChanges DEF NoProcess, Holding, Reading
<1>6. CASE Receive(q)
  <2>1. /\ s \in Sessions /\ pipe[s] \subseteq {q}
        /\ \A p \in Threads : call[p].session = s => p = q
    BY <1>6, HeldAlone DEF Receive, Holding, Reading
  <2>2. PICK c \in Calls :
          /\ call' = [call EXCEPT ![q] = c]
          /\ c.session = s /\ c.phase = "look" /\ c.rows \subseteq {q}
    <3>1. pipe[s] \in SUBSET Threads
      BY <1>0, <2>1 DEF PoolShape
    <3>2. [call[q] EXCEPT !.phase = "look", !.result = "rows", !.rows = pipe[s]] \in Calls
      BY <1>0, <3>1 DEF Calls, Holding, Reading
    <3> WITNESS [call[q] EXCEPT !.phase = "look", !.result = "rows", !.rows = pipe[s]]
                \in Calls
    <3> QED BY <1>0, <1>6, <2>1 DEF Receive, Calls
  <2>3. /\ call' \in [Threads -> Calls] /\ call'[q] = c
        /\ \A p \in Threads \ {q} : call'[p] = call[p]
    BY <1>0, <2>2 DEF PoolShape
  <2>4. \A p \in Threads : call'[p].session = call[p].session
    BY <2>2, <2>3
  <2>5. /\ pipe' = [pipe EXCEPT ![s] = {}]
        /\ UNCHANGED <<closed, idle, running, silent, deaths>>
    BY <1>6 DEF Receive
  <2>6. PoolShape'
    BY <1>0, <2>1, <2>3, <2>5 DEF PoolShape
  <2>7. Holds'
    BY <1>6, <2>2, <2>3, <2>4, <2>5 DEF Receive, PoolInv, Holds, Holding, Reading
  <2>8. SessionsKept'
    <3>1. Held' = Held
      BY <2>4 DEF Held
    <3> QED BY <2>4, <2>5, <3>1 DEF PoolInv, SessionsKept
  <2>9. Piped'
    BY <1>0, <2>1, <2>3, <2>5 DEF PoolInv, PoolShape, Piped, Reading
  <2>10. RowsAreMine'
    BY <2>2, <2>3 DEF PoolInv, RowsAreMine
  <2> QED BY <2>6, <2>7, <2>8, <2>9, <2>10 DEF PoolInv
<1>7. CASE Fail(q)
  <2>1. /\ s \in Sessions
        /\ \A p \in Threads : call[p].session = s => p = q
    BY <1>7, HeldAlone DEF Fail, Holding, Reading
  <2>2. PICK c \in Calls :
          /\ call' = [call EXCEPT ![q] = c]
          /\ c.session = s /\ c.phase = "look" /\ c.rows \subseteq {q}
    <3>1. PICK result \in {"failed", "dropped"} :
            call' = [call EXCEPT ![q].phase = "look", ![q].result = result]
      BY <1>7 DEF Fail, Ending
    <3>2. [call[q] EXCEPT !.phase = "look", !.result = result] \in Calls
      BY <1>0 DEF Calls, Holding, Reading
    <3> WITNESS [call[q] EXCEPT !.phase = "look", !.result = result] \in Calls
    <3> QED BY <1>0, <3>1 DEF Calls
  <2>3. /\ call' \in [Threads -> Calls] /\ call'[q] = c
        /\ \A p \in Threads \ {q} : call'[p] = call[p]
    BY <1>0, <2>2 DEF PoolShape
  <2>4. \A p \in Threads : call'[p].session = call[p].session
    BY <2>2, <2>3
  <2>5. /\ running' = running \ {s} /\ silent' = silent \ {s}
        /\ pipe' = [pipe EXCEPT ![s] = {}]
        /\ UNCHANGED <<closed, idle, deaths>>
    BY <1>7 DEF Fail, Discarded
  <2>6. PoolShape'
    BY <1>0, <2>1, <2>3, <2>5 DEF PoolShape
  <2>7. Holds'
    BY <1>7, <2>2, <2>3, <2>4, <2>5 DEF Fail, PoolInv, Holds, Holding, Reading
  <2>8. SessionsKept'
    <3>1. Held' = Held
      BY <2>4 DEF Held
    <3> QED BY <2>4, <2>5, <3>1 DEF PoolInv, SessionsKept
  <2>9. Piped'
    BY <1>0, <2>1, <2>3, <2>5 DEF PoolInv, PoolShape, Piped, Reading
  <2>10. RowsAreMine'
    BY <2>2, <2>3 DEF PoolInv, RowsAreMine
  <2> QED BY <2>6, <2>7, <2>8, <2>9, <2>10 DEF PoolInv
<1>8. CASE Look(q)
  <2>1. PICK c \in Calls :
          /\ call' = [call EXCEPT ![q] = c]
          /\ c.session = s /\ c.phase = (IF closed THEN "end" ELSE "put")
          /\ c.rows \subseteq {q}
    <3>1. [call[q] EXCEPT !.phase = IF closed THEN "end" ELSE "put"] \in Calls
      BY <1>0 DEF Calls, Holding, Reading
    <3> WITNESS [call[q] EXCEPT !.phase = IF closed THEN "end" ELSE "put"] \in Calls
    <3> QED BY <1>0, <1>8 DEF Look, Calls
  <2> QED BY <1>8, <2>1, OneCallChanges DEF Look, Holding, Reading
<1>9. ASSUME Put(q) \/ End(q) PROVE PoolInv'
  <2>1. call[q].phase \in {"put", "end"}
    BY <1>9 DEF Put, End
  <2>2. /\ s \in Sessions /\ s \notin ToSet(idle) /\ pipe[s] = {}
        /\ \A p \in Threads : call[p].session = s => p = q
    <3>1. call[q].phase \in Holding
      BY <2>1 DEF Holding, Reading
    <3>2. call[q].session \in Sessions
      BY <3>1, HeldAlone
    <3> QED BY <2>1, <3>1, <3>2, HeldAlone DEF PoolInv, Piped, Reading
  <2>3. PICK c \in Calls :
          /\ call' = [call EXCEPT ![q] = c]
          /\ c.session = None /\ c.phase \in {"check", "done"} /\ c.rows \subseteq {q}
    <3>1. PICK c0 \in Calls : /\ call' = [call EXCEPT ![q] = Outcome(c0)]
                              /\ c0.rows = call[q].rows
      BY <1>0, <1>9, PutOrEnd
    <3>2. /\ Outcome(c0) \in Calls
          /\ Outcome(c0).session = None
          /\ Outcome(c0).phase \in {"check", "done"}
          /\ Outcome(c0).rows \subseteq c0.rows
      BY <1>0, OutcomeShape
    <3> QED BY <1>0, <3>1, <3>2
  <2>4. /\ call' \in [Threads -> Calls] /\ call'[q] = c
        /\ \A p \in Threads \ {q} : call'[p] = call[p]
    BY <1>0, <2>3 DEF PoolShape
  <2>5. Held' = Held \ {s}
    BY <1>0, <2>2, <2>3, <2>4 DEF Held
  <2>6. Holds'
    BY <1>9, <2>3, <2>4 DEF Put, End, PoolInv, Holds, Holding, Reading
  <2>7. RowsAreMine'
    BY <2>3, <2>4 DEF PoolInv, RowsAreMine
  <2>8. \A p1, p2 \in Threads :
          p1 # p2 => call'[p1].session = None \/ call'[p1].session # call'[p2].session
    BY <1>0, <2>3, <2>4 DEF PoolInv, SessionsKept
  <2>9. CASE Put(q)
    <3>1. /\ idle' = Append(idle, s)
          /\ UNCHANGED <<closed, running, silent, pipe, deaths>>
      BY <2>9 DEF Put
    <3>2. /\ idle' \in Seq(Sessions) /\ IsInjective(idle')
          /\ ToSet(idle') = ToSet(idle) \cup {s}
      BY <1>0, <2>2, <3>1, PutBack DEF PoolInv, PoolShape, SessionsKept
    <3>3. PoolShape'
      BY <1>0, <2>4, <3>1, <3>2 DEF PoolShape
    <3>4. SessionsKept'
      BY <2>2, <2>5, <2>8, <3>1, <3>2 DEF PoolInv, SessionsKept
    <3>5. Piped'
      BY <2>1, <2>2, <2>4, <3>1 DEF PoolInv, PoolShape, Piped, Reading
    <3> QED BY <2>6, <2>7, <3>3, <3>4, <3>5 DEF PoolInv
  <2>10. CASE End(q)
    <3>1. /\ running' = running \ {s} /\ silent' = silent \ {s}
          /\ pipe' = [pipe EXCEPT ![s] = {}]
          /\ UNCHANGED <<closed, idle, deaths>>
      BY <2>10 DEF End, Discarded
    <3>2. PoolShape'
      BY <1>0, <2>2, <2>4, <3>1 DEF PoolShape
    <3>3. SessionsKept'
      <4>1. closed
        BY <2>10 DEF End, PoolInv, Holds
      <4> QED BY <2>5, <2>8, <3>1, <4>1 DEF PoolInv, SessionsKept
    <3>4. Piped'
      BY <1>0, <2>1, <2>2, <2>4, <3>1 DEF PoolInv, PoolShape, Piped, Reading
    <3> QED BY <2>6, <2>7, <3>2, <3>3, <3>4 DEF PoolInv
  <2> QED BY <1>9, <2>9, <2>10
<1>10. CASE Stall(q)
  <2>1. PICK c \in Calls :
          /\ call' = [call EXCEPT ![q] = c]
          /\ c.session = s /\ c.phase = "blocked" /\ c.rows \subseteq {q}
    <3>1. [call[q] EXCEPT !.phase = "blocked"] \in Calls
      BY <1>0 DEF Calls, Holding, Reading
    <3> WITNESS [call[q] EXCEPT !.phase = "blocked"] \in Calls
    <3> QED BY <1>0, <1>10 DEF Stall, Calls
  <2> QED BY <1>10, <2>1, OneCallChanges DEF Stall, Holding, Reading
<1> QED BY <1>1, <1>2, <1>3, <1>4, <1>5, <1>6, <1>7, <1>8, <1>9, <1>10 DEF PoolStep

LEMMA CloseKeeps == PoolInv /\ Close => PoolInv'
<1> SUFFICES ASSUME PoolInv, Close PROVE PoolInv'
  OBVIOUS
<1>1. PICK ended \in SUBSET ToSet(idle) :
        /\ closed' = TRUE /\ idle' \in Suffixes(idle)
        /\ running' = running \ ended /\ silent' = silent \ ended
        /\ pipe' = [s \in Sessions |-> IF s \in ended THEN {} ELSE pipe[s]]
        /\ UNCHANGED <<deaths, call>>
  BY DEF Close
<1>2. idle' \in Seq(Sessions) /\ IsInjective(idle') /\ ToSet(idle') \subseteq ToSet(idle)
  BY <1>1, LeftOver DEF PoolInv, PoolShape, SessionsKept
<1>3. PoolShape'
  BY <1>1, <1>2 DEF PoolInv, PoolShape
<1>4. Holds'
  BY <1>1 DEF PoolInv, Holds
<1>5. SessionsKept'
  <2>1. Held' = Held
    BY <1>1 DEF Held
  <2> QED BY <1>1, <1>2, <2>1 DEF PoolInv, SessionsKept
<1>6. Piped'
  BY <1>1 DEF PoolInv, PoolShape, Piped
<1>7. RowsAreMine'
  BY <1>1 DEF PoolInv, RowsAreMine
<1> QED BY <1>3, <1>4, <1>5, <1>6, <1>7 DEF PoolInv

LEMMA DieKeeps == PoolInv /\ Die => PoolInv'
<1> SUFFICES ASSUME PoolInv, Die PROVE PoolInv'
  OBVIOUS
<1>1. /\ deaths < Deaths /\ deaths' = deaths + 1
      /\ UNCHANGED <<closed, idle, call>>
  BY DEF Die
<1>2. PICK s \in running :
        \/ /\ running' = running \ {s} /\ silent' = silent \ {s}
           /\ pipe' = [pipe EXCEPT ![s] = {}]
        \/ silent' = silent \cup {s} /\ UNCHANGED <<running, pipe>>
  BY DEF Die, Discarded
<1>3. deaths' \in 0..Deaths
  BY <1>1, PoolAssumption DEF PoolInv, PoolShape
<1>4. PoolShape'
  BY <1>1, <1>2, <1>3 DEF PoolInv, PoolShape
<1>5. Holds' /\ RowsAreMine'
  BY <1>1 DEF PoolInv, Holds, RowsAreMine
<1>6. SessionsKept'
  <2>1. Held' = Held
    BY <1>1 DEF Held
  <2> QED BY <1>1, <2>1 DEF PoolInv, SessionsKept
<1>7. Piped'
  BY <1>1, <1>2 DEF PoolInv, PoolShape, Piped
<1> QED BY <1>4, <1>5, <1>6, <1>7 DEF PoolInv

LEMMA PoolStarts == PoolInit => PoolInv
<1> SUFFICES ASSUME PoolInit PROVE PoolInv
  OBVIOUS
<1>1. /\ closed = FALSE /\ running = {} /\ silent = {} /\ deaths = 0
      /\ idle = [s \in Sessions |-> s] /\ pipe = [s \in Sessions |-> {}]
      /\ call = [q \in Threads |-> NoCall]
  BY DEF PoolInit
<1>2. /\ idle \in Seq(Sessions) /\ DOMAIN idle = Sessions
      /\ \A s \in Sessions : idle[s] = s
  BY <1>1, PoolAssumption DEF Sessions
<1>3. IsInjective(idle) /\ ToSet(idle) = Sessions
  BY <1>2 DEF IsInjective, ToSet
<1>4. PoolShape
  <2>1. deaths \in 0..Deaths
    BY <1>1, PoolAssumption
  <2>2. call \in [Threads -> Calls] /\ pipe \in [Sessions -> SUBSET Threads]
    BY <1>1, NoCallShape
  <2> QED BY <1>1, <1>2, <2>1, <2>2 DEF PoolShape
<1>5. Held = {}
  BY <1>1, NoCallShape DEF Held
<1>6. Holds /\ Piped /\ RowsAreMine
  BY <1>1, NoCallShape DEF Holds, Holding, Reading, Piped, RowsAreMine
<1>7. SessionsKept
  BY <1>1, <1>3, <1>5, NoCallShape DEF SessionsKept
<1> QED BY <1>4, <1>6, <1>7 DEF PoolInv

-----------------------------------------------------------------------------
(***************************************************************************)
(* The requests over the pool.                                             *)
(***************************************************************************)

Replies == {"ok", "refused", "missing", "unavailable", "dropped"}

Requests ==
  [phase  : {"idle", "calls", "done"},
   calls  : Seq({"read", "txn"}),
   single : BOOLEAN,
   ends   : SUBSET Replies,
   txns   : 0..2,
   reply  : Replies \cup {""}]

\* Only a request that was let in and not answered runs a query, and what it
\* handed over fits the attempt it is at.
Turn ==
  \A q \in Threads :
    /\ req[q].phase # "calls" => call[q] = NoCall
    /\ req[q].phase = "done" => req[q].reply \in Replies
    /\ call[q].phase = "none" => call[q] = NoCall /\ req[q].txns = 0
    /\ call[q].phase # "none" => req[q].calls # <<>>
    /\ call[q].phase \in {"check", "wait", "start"} =>
         call[q].tries \in 1..2 /\ req[q].txns <= call[q].tries - 1
    /\ call[q].phase \in Reading \cup {"look", "put", "end"} =>
         call[q].tries \in 1..2 /\ req[q].txns <= call[q].tries

IInv == PoolInv /\ req \in [Threads -> Requests] /\ Turn

\* However a request is put, it is treated in one of these ways.
Sound(t) ==
  /\ t.reply \in {"", "refused", "missing", "unavailable"}
  /\ t.single \in BOOLEAN
  /\ t.ends \subseteq Replies

LEMMA EndedSound ==
  ASSUME NEW reply \in {"", "refused", "missing", "unavailable"}
  PROVE  Sound(Ended(reply))
BY DEF Sound, Ended

LEMMA TreatmentsSound == \A t \in AllTreatments : Sound(t)
<1>1. ASSUME NEW route, NEW t \in ReadTreatment(route) PROVE Sound(t)
  <2>1. \/ t = [Ended("") EXCEPT !.ends =
                  {"ok"} \cup (IF "found" \in route.asks THEN {"missing"} ELSE {})]
        \/ t = Ended("refused") \/ t = Ended("unavailable")
    BY <1>1 DEF ReadTreatment
  <2>2. CASE t = Ended("refused") \/ t = Ended("unavailable")
    BY <2>2, EndedSound
  <2>3. CASE t = [Ended("") EXCEPT !.ends =
                    {"ok"} \cup (IF "found" \in route.asks THEN {"missing"} ELSE {})]
    BY <2>3 DEF Sound, Ended, Replies
  <2> QED BY <2>1, <2>2, <2>3
<1>2. ASSUME NEW route, NEW t \in CommandTreatment(route) PROVE Sound(t)
  <2>1. \/ t = Ended("refused")
        \/ t = [reply |-> "", txn |-> TRUE, single |-> route.family \in Single,
                again |-> route.again, ends |-> {"ok", "refused"}]
    BY <1>2 DEF CommandTreatment
  <2>2. CASE t = Ended("refused")
    BY <2>2, EndedSound
  <2>3. CASE t = [reply |-> "", txn |-> TRUE, single |-> route.family \in Single,
                  again |-> route.again, ends |-> {"ok", "refused"}]
    <3>1. t.single = (route.family \in Single) /\ t.reply = "" /\ t.ends = {"ok", "refused"}
      BY <2>3
    <3>2. (route.family \in Single) \in BOOLEAN
      OBVIOUS
    <3>3. t.single \in BOOLEAN
      BY <3>1, <3>2, Zenon
    <3> QED BY <3>1, <3>3 DEF Sound, Replies
  <2> QED BY <2>1, <2>2, <2>3
<1>3. ASSUME NEW m, NEW p, NEW lack, NEW t \in Treatments(m, p, lack) PROVE Sound(t)
  <2>1. CASE lack \in Needs(m, p)
    BY <1>3, <2>1, EndedSound DEF Treatments
  <2>2. CASE lack \notin Needs(m, p) /\ Serving(m, p) = {}
    BY <1>3, <2>2, EndedSound DEF Treatments
  <2>3. CASE lack \notin Needs(m, p) /\ Serving(m, p) # {}
    <3>1. PICK route \in Serving(m, p) :
            t \in (IF "family" \in DOMAIN route THEN CommandTreatment(route)
                   ELSE ReadTreatment(route))
      BY <1>3, <2>3 DEF Treatments
    <3>2. t \in CommandTreatment(route) \/ t \in ReadTreatment(route)
      BY <3>1
    <3> QED BY <1>1, <1>2, <3>2
  <2> QED BY <2>1, <2>2, <2>3
<1> QED BY <1>3 DEF AllTreatments

\* What one step of the pool does to the query it is a step of.
LEMMA StepOfCall ==
  ASSUME PoolInv, NEW q \in Threads, PoolStep(q)
  PROVE  \E c \in Calls :
           /\ call' = [call EXCEPT ![q] = c]
           /\ call[q].phase \notin {"none", "done"} /\ c.phase # "none"
           /\ c.phase = "check" => call[q].tries = 1 /\ c.tries = 2
           /\ c.phase \notin {"check", "done"} => c.tries = call[q].tries
           /\ c.phase = "wait" => call[q].phase = "check"
           /\ c.phase = "start" => call[q].phase = "wait"
           /\ c.phase \in Reading => call[q].phase \in Reading \cup {"start"}
           /\ c.phase \in {"look", "put", "end"} =>
                call[q].phase \in Reading \cup {"start", "look"}
<1>0. PoolShape /\ call[q] \in Calls
  BY DEF PoolInv, PoolShape
<1>1. ASSUME NEW result \in {"failed", "closed", "exhausted"}
      PROVE  /\ Tried(call[q], result) \in Calls
             /\ Tried(call[q], result).phase \in {"check", "done"}
             /\ Tried(call[q], result).phase = "check" =>
                  call[q].tries = 1 /\ Tried(call[q], result).tries = 2
  <2>1. /\ Tried(call[q], result) \in Calls
        /\ Tried(call[q], result).phase \in {"check", "done"}
    BY <1>0, TriedShape
  <2>2. CASE call[q].tries = 1 /\ ~call[q].single
    <3>1. Tried(call[q], result) = [NoCall EXCEPT !.phase = "check", !.tries = 2]
      BY <2>2 DEF Tried
    <3>2. Tried(call[q], result).tries = 2
      BY <3>1 DEF NoCall
    <3> QED BY <2>1, <2>2, <3>2
  <2>3. CASE ~(call[q].tries = 1 /\ ~call[q].single)
    <3>1. Tried(call[q], result) = [NoCall EXCEPT !.phase = "done", !.result = result]
      BY <2>3 DEF Tried
    <3>2. Tried(call[q], result).phase = "done"
      BY <3>1 DEF NoCall
    <3> QED BY <2>1, <3>2
  <2> QED BY <2>2, <2>3
<1>2. CASE Check(q)
  <2>1. CASE closed
    <3>1. call' = [call EXCEPT ![q] = Tried(call[q], "closed")] /\ call[q].phase = "check"
      BY <1>2, <2>1 DEF Check
    <3> QED BY <1>1, <3>1 DEF Reading
  <2>2. CASE ~closed
    <3>1. [call[q] EXCEPT !.phase = "wait"] \in Calls
      BY <1>0 DEF Calls
    <3>2. /\ call' = [call EXCEPT ![q] = [call[q] EXCEPT !.phase = "wait"]]
          /\ call[q].phase = "check"
      BY <1>2, <2>2 DEF Check
    <3> QED BY <1>0, <3>1, <3>2 DEF Calls, Reading
  <2> QED BY <2>1, <2>2
<1>3. CASE Acquire(q)
  <2>1. Head(idle) \in Sessions
    BY <1>0, <1>3, TakenOff DEF Acquire, PoolInv, PoolShape, SessionsKept
  <2>2. [call[q] EXCEPT !.phase = "start", !.session = Head(idle)] \in Calls
    BY <1>0, <2>1 DEF Calls, Holding, Reading
  <2>3. /\ call' = [call EXCEPT ![q] =
                      [call[q] EXCEPT !.phase = "start", !.session = Head(idle)]]
        /\ call[q].phase = "wait"
    BY <1>0, <1>3 DEF Acquire, PoolShape
  <2> QED BY <1>0, <2>2, <2>3 DEF Calls, Reading
<1>4. CASE Exhaust(q)
  <2>1. call' = [call EXCEPT ![q] = Tried(call[q], "exhausted")] /\ call[q].phase = "wait"
    BY <1>4 DEF Exhaust
  <2> QED BY <1>1, <2>1 DEF Reading
<1>5. CASE Submit(q)
  <2>1. PICK phase \in Reading : call' = [call EXCEPT ![q] = [call[q] EXCEPT !.phase = phase]]
    BY <1>5 DEF Submit, Reading
  <2>2. [call[q] EXCEPT !.phase = phase] \in Calls /\ call[q].phase = "start"
    BY <1>0, <1>5 DEF Submit, Calls, Holding, Reading
  <2> QED BY <1>0, <2>1, <2>2 DEF Calls, Reading
<1>6. CASE NoProcess(q)
  <2>1. [call[q] EXCEPT !.phase = "look", !.result = "broken"] \in Calls
    BY <1>0 DEF Calls, Holding, Reading
  <2>2. /\ call' = [call EXCEPT ![q] =
                      [call[q] EXCEPT !.phase = "look", !.result = "broken"]]
        /\ call[q].phase = "start"
    BY <1>6 DEF NoProcess
  <2> QED BY <1>0, <2>1, <2>2 DEF Calls, Reading
<1>7. CASE Receive(q)
  <2>1. pipe[call[q].session] \in SUBSET Threads
    BY <1>0, <1>7, HeldAlone DEF Receive, Holding, Reading, PoolShape
  <2>2. [call[q] EXCEPT !.phase = "look", !.result = "rows",
                        !.rows = pipe[call[q].session]] \in Calls
    BY <1>0, <2>1 DEF Calls, Holding, Reading
  <2>3. /\ call' = [call EXCEPT ![q] =
                      [call[q] EXCEPT !.phase = "look", !.result = "rows",
                                      !.rows = pipe[call[q].session]]]
        /\ call[q].phase = "read"
    BY <1>7 DEF Receive
  <2> QED BY <1>0, <2>2, <2>3 DEF Calls, Reading
<1>8. CASE Fail(q)
  <2>1. PICK result \in {"failed", "dropped"} :
          call' = [call EXCEPT ![q] = [call[q] EXCEPT !.phase = "look", !.result = result]]
    BY <1>8 DEF Fail, Ending
  <2>2. /\ [call[q] EXCEPT !.phase = "look", !.result = result] \in Calls
        /\ call[q].phase \in Reading
    BY <1>0, <1>8 DEF Fail, Calls, Holding, Reading
  <2> QED BY <1>0, <2>1, <2>2 DEF Calls, Reading
<1>9. CASE Look(q)
  <2>1. [call[q] EXCEPT !.phase = IF closed THEN "end" ELSE "put"] \in Calls
    BY <1>0 DEF Calls, Holding, Reading
  <2>2. /\ call' = [call EXCEPT ![q] =
                      [call[q] EXCEPT !.phase = IF closed THEN "end" ELSE "put"]]
        /\ call[q].phase = "look"
    BY <1>9 DEF Look
  <2> QED BY <1>0, <2>1, <2>2 DEF Calls, Reading
<1>10. CASE Put(q) \/ End(q)
  <2>1. PICK c \in Calls :
          /\ call' = [call EXCEPT ![q] = Outcome(c)]
          /\ c.tries = call[q].tries /\ c.single = call[q].single
          /\ call[q].phase \in {"put", "end"}
    BY <1>0, <1>10, PutOrEnd
  <2>2. CASE c.result = "failed"
    <3>1. Outcome(c) = Tried(call[q], "failed")
      BY <2>1, <2>2 DEF Outcome, Tried
    <3> QED BY <1>1, <2>1, <3>1 DEF Reading
  <2>3. CASE c.result # "failed"
    <3>1. Outcome(c) = [c EXCEPT !.phase = "done", !.session = None]
      BY <2>3 DEF Outcome
    <3>2. Outcome(c) \in Calls /\ Outcome(c).phase = "done"
      BY <1>0, <3>1 DEF Calls
    <3> QED BY <2>1, <3>2 DEF Reading
  <2> QED BY <2>2, <2>3
<1>11. CASE Stall(q)
  <2>1. [call[q] EXCEPT !.phase = "blocked"] \in Calls
    BY <1>0 DEF Calls, Holding, Reading
  <2>2. /\ call' = [call EXCEPT ![q] = [call[q] EXCEPT !.phase = "blocked"]]
        /\ call[q].phase = "read"
    BY <1>11 DEF Stall
  <2> QED BY <1>0, <2>1, <2>2 DEF Calls, Reading
<1> QED BY <1>2, <1>3, <1>4, <1>5, <1>6, <1>7, <1>8, <1>9, <1>10, <1>11 DEF PoolStep

LEMMA IdleShape ==
  /\ Idle \in Requests /\ Idle.phase = "idle" /\ Idle.txns = 0
  /\ \A reply \in Replies :
       /\ Replied(reply) \in Requests /\ Replied(reply).phase = "done"
       /\ Replied(reply).txns = 0 /\ Replied(reply).reply = reply
<1>1. Idle \in Requests /\ Idle.phase = "idle" /\ Idle.txns = 0
  BY DEF Idle, Requests
<1>2. ASSUME NEW reply \in Replies
      PROVE  /\ Replied(reply) \in Requests /\ Replied(reply).phase = "done"
             /\ Replied(reply).txns = 0 /\ Replied(reply).reply = reply
  BY <1>1 DEF Replied, Requests
<1> QED BY <1>1, <1>2

\* A step that changes one request and no query.
LEMMA OneRequestChanges ==
  ASSUME IInv, NEW q \in Threads, NEW r \in Requests,
         req' = [req EXCEPT ![q] = r], UNCHANGED poolVars,
         call[q] = NoCall, r.txns = 0, r.phase = "done" => r.reply \in Replies
  PROVE  IInv'
<1>1. PoolInv'
  BY DEF IInv, PoolInv, poolVars, PoolShape, Holds, SessionsKept, Piped, RowsAreMine,
         Held
<1>2. req' \in [Threads -> Requests]
  BY DEF IInv
<1>3. Turn'
  BY NoCallShape DEF IInv, Turn, poolVars
<1> QED BY <1>1, <1>2, <1>3 DEF IInv

LEMMA ArriveKeeps == ASSUME IInv, NEW q \in Threads, Arrive(q) PROVE IInv'
<1>1. PICK t \in AllTreatments, before \in 0..Queries :
        req' = [req EXCEPT ![q] =
          IF t.reply # "" THEN Replied(t.reply)
          ELSE [@ EXCEPT !.phase = "calls", !.single = t.single, !.ends = t.ends,
                         !.calls = Times(before)
                                     \o (IF t.txn THEN <<"txn">> ELSE <<>>)
                                     \o (IF t.again THEN Times(Queries) ELSE <<>>)]]
  BY DEF Arrive
<1>2. Sound(t)
  BY TreatmentsSound
<1>3. req[q] \in Requests /\ req[q].phase = "idle" /\ call[q] = NoCall /\ req[q].txns = 0
  BY NoCallShape DEF IInv, Arrive, Turn
<1>4. CASE t.reply # ""
  <2>1. t.reply \in Replies
    BY <1>2, <1>4 DEF Sound, Replies
  <2>2. req' = [req EXCEPT ![q] = Replied(t.reply)]
    BY <1>1, <1>4
  <2> QED BY <1>3, <2>1, <2>2, IdleShape, OneRequestChanges DEF Arrive
<1>5. CASE t.reply = ""
  <2> DEFINE calls == Times(before) \o (IF t.txn THEN <<"txn">> ELSE <<>>)
                        \o (IF t.again THEN Times(Queries) ELSE <<>>)
             r == [req[q] EXCEPT !.phase = "calls", !.single = t.single,
                                 !.ends = t.ends, !.calls = calls]
  <2>1. \A n \in Nat : Times(n) \in Seq({"read", "txn"})
    BY DEF Times
  <2>2. /\ <<"txn">> \in Seq({"read", "txn"}) /\ <<>> \in Seq({"read", "txn"})
        /\ before \in Nat /\ Queries \in Nat
    BY ServerAssumption
  <2>3. (IF t.txn THEN <<"txn">> ELSE <<>>) \in Seq({"read", "txn"})
    BY <2>2
  <2>4. (IF t.again THEN Times(Queries) ELSE <<>>) \in Seq({"read", "txn"})
    BY <2>1, <2>2
  <2>5. \A a, b \in Seq({"read", "txn"}) : a \o b \in Seq({"read", "txn"})
    OBVIOUS
  <2>6. calls \in Seq({"read", "txn"})
    BY <2>1, <2>2, <2>3, <2>4, <2>5
  <2>7. req' = [req EXCEPT ![q] = r]
    BY <1>1, <1>5
  <2> HIDE DEF calls
  <2>8. r \in Requests /\ r.txns = 0 /\ r.phase = "calls"
    BY <1>2, <1>3, <2>6 DEF Requests, Sound
  <2> HIDE DEF r
  <2> QED BY <1>3, <2>7, <2>8, OneRequestChanges DEF Arrive
<1> QED BY <1>4, <1>5

LEMMA ServeKeeps == ASSUME IInv, NEW q \in Threads, Serve(q) PROVE IInv'
<1>0. /\ PoolInv /\ call[q] \in Calls /\ req[q] \in Requests
      /\ call \in [Threads -> Calls] /\ req \in [Threads -> Requests]
  BY DEF IInv, PoolInv, PoolShape
<1>1. CASE NextCall(q)
  <2>1. /\ req[q].phase = "calls" /\ call[q].phase = "none"
        /\ call[q] = NoCall /\ req[q].txns = 0
        /\ UNCHANGED <<closed, idle, running, silent, pipe, deaths, req>>
    BY <1>1 DEF NextCall, IInv, Turn
  <2>9. req[q].calls # <<>>
    BY <1>1 DEF NextCall
  <2>2. PICK c \in Calls :
          /\ call' = [call EXCEPT ![q] = c]
          /\ c.phase = "check" /\ c.session = None /\ c.tries = 1 /\ c.rows = {}
    <3> DEFINE b == req[q].single /\ Head(req[q].calls) = "txn"
               c1 == [NoCall EXCEPT !.phase = "check", !.tries = 1, !.single = b]
    <3>1. b \in BOOLEAN
      <4>1. req[q].single \in BOOLEAN
        BY <1>0 DEF Requests
      <4>2. (Head(req[q].calls) = "txn") \in BOOLEAN
        OBVIOUS
      <4> QED BY <4>1, <4>2, Zenon
    <3>2. call' = [call EXCEPT ![q] = c1]
      BY <1>1 DEF NextCall, Call
    <3> HIDE DEF b
    <3>3. c1 \in Calls
      <4>1. PICK c2 \in Calls : c2 = [NoCall EXCEPT !.phase = "check"]
        BY NoCallShape DEF Calls
      <4>2. 1 \in 0..2
        OBVIOUS
      <4>3. [c2 EXCEPT !.tries = 1] \in Calls
        BY <4>2 DEF Calls
      <4>4. [[c2 EXCEPT !.tries = 1] EXCEPT !.single = b] \in Calls
        BY <3>1, <4>3 DEF Calls
      <4> QED BY <4>1, <4>4, NoCallShape DEF Calls
    <3>4. c1.phase = "check" /\ c1.session = None /\ c1.tries = 1 /\ c1.rows = {}
      BY NoCallShape DEF NoCall
    <3> QED BY <3>2, <3>3, <3>4
  <2>3. PoolInv'
    <3>1. call[q].phase \notin Holding /\ c.phase \notin Holding /\ call[q].phase \notin Reading
      BY <2>1, <2>2 DEF Holding, Reading
    <3> QED BY <1>0, <2>1, <2>2, <3>1, NoCallShape, OneCallChanges
  <2>4. Turn'
    BY <1>0, <2>1, <2>2, <2>9 DEF IInv, Turn, Reading
  <2> QED BY <1>0, <2>1, <2>3, <2>4 DEF IInv
<1>2. CASE Settle(q)
  <2>1. PICK reply \in {"refused", "ok"} : req' = [req EXCEPT ![q] = Replied(reply)]
    BY <1>2 DEF Settle
  <2>2. call[q] = NoCall /\ UNCHANGED poolVars
    BY <1>2 DEF Settle, IInv, Turn
  <2>3. reply \in Replies
    BY DEF Replies
  <2> QED BY <2>1, <2>2, <2>3, IdleShape, OneRequestChanges
<1>3. CASE Returned(q)
  <2>1. /\ call[q].phase = "done" /\ call' = [call EXCEPT ![q] = NoCall]
        /\ UNCHANGED <<closed, idle, running, silent, pipe, deaths>>
    BY <1>3 DEF Returned
  <2>2. PoolInv'
    <3>1. call[q].session = None /\ "done" \notin Holding /\ "none" \notin Holding
          /\ call[q].phase \notin Reading
      BY <1>0, <2>1 DEF PoolInv, Holds, Holding, Reading
    <3> QED BY <1>0, <2>1, <3>1, NoCallShape, OneCallChanges
  <2>3. PICK r \in Requests :
          /\ req' = [req EXCEPT ![q] = r]
          /\ r.txns = 0
          /\ r.phase = "done" => r.reply \in Replies
    <3>1. CASE call[q].result = "rows"
      <4> DEFINE r1 == [req[q] EXCEPT !.calls = Tail(req[q].calls), !.txns = 0]
      <4>1. req' = [req EXCEPT ![q] = r1]
        BY <1>3, <3>1 DEF Returned
      <4>2. req[q].phase = "calls"
        BY <2>1, NoCallShape, <1>0 DEF IInv, Turn, Requests
      <4>3. Tail(req[q].calls) \in Seq({"read", "txn"})
        <5>1. req[q].calls # <<>> /\ req[q].calls \in Seq({"read", "txn"})
          BY <1>0, <2>1 DEF IInv, Turn, Requests
        <5> QED BY <5>1
      <4>4. r1 \in Requests /\ r1.txns = 0 /\ r1.phase = "calls"
        <5>1. PICK rest \in Seq({"read", "txn"}) : rest = Tail(req[q].calls)
          BY <4>3
        <5>2. PICK r2 \in Requests :
                r2 = [req[q] EXCEPT !.calls = rest] /\ r2.phase = "calls"
          <6>1. PICK r0 \in Requests : r0 = req[q] /\ r0.phase = "calls"
            BY <1>0, <4>2
          <6>2. [r0 EXCEPT !.calls = rest] \in Requests
            BY DEF Requests
          <6>3. [r0 EXCEPT !.calls = rest].phase = "calls"
            BY <6>1 DEF Requests
          <6> QED BY <6>1, <6>2, <6>3
        <5>3. 0 \in 0..2
          OBVIOUS
        <5>4. r1 = [r2 EXCEPT !.txns = 0]
          BY <1>0, <5>1, <5>2 DEF Requests
        <5> HIDE DEF r1
        <5> QED BY <5>2, <5>3, <5>4 DEF Requests
      <4> HIDE DEF r1
      <4> QED BY <4>1, <4>4
    <3>2. CASE call[q].result # "rows"
      <4>1. PICK reply \in Replies : req' = [req EXCEPT ![q] = Replied(reply)]
        BY <1>3, <3>2 DEF Returned, Replies
      <4> QED BY <4>1, IdleShape
    <3> QED BY <3>1, <3>2
  <2>4. Turn'
    BY <1>0, <2>1, <2>3, NoCallShape DEF IInv, Turn, Reading
  <2> QED BY <1>0, <2>2, <2>3, <2>4 DEF IInv
<1>4. CASE Reply(q)
  <2>1. PICK reply \in req[q].ends : req' = [req EXCEPT ![q] = Replied(reply)]
    BY <1>4 DEF Reply
  <2>2. reply \in Replies
    BY <1>0 DEF Requests
  <2>3. call[q] = NoCall /\ UNCHANGED poolVars
    BY <1>4 DEF Reply, IInv, Turn
  <2> QED BY <2>1, <2>2, <2>3, IdleShape, OneRequestChanges
<1>5. CASE Query(q)
  <2>1. PoolInv'
    BY <1>0, <1>5, PoolStepKeeps DEF Query
  <2>2. PICK c \in Calls :
          /\ call' = [call EXCEPT ![q] = c]
          /\ call[q].phase \notin {"none", "done"} /\ c.phase # "none"
          /\ c.phase = "check" => call[q].tries = 1 /\ c.tries = 2
          /\ c.phase \notin {"check", "done"} => c.tries = call[q].tries
          /\ c.phase = "wait" => call[q].phase = "check"
          /\ c.phase = "start" => call[q].phase = "wait"
          /\ c.phase \in Reading => call[q].phase \in Reading \cup {"start"}
          /\ c.phase \in {"look", "put", "end"} =>
               call[q].phase \in Reading \cup {"start", "look"}
    BY <1>0, <1>5, StepOfCall DEF Query
  <2>3. /\ req[q].phase = "calls" /\ call[q].tries \in 1..2 /\ req[q].txns \in 0..2
        /\ req[q].txns <= call[q].tries /\ req[q].calls # <<>>
        /\ call[q].phase \in {"check", "wait", "start"} =>
             req[q].txns <= call[q].tries - 1
    <3>1. call[q] # NoCall
      BY <2>2, NoCallShape
    <3>2. call[q].phase \in {"check", "wait"} \cup Holding
      BY <1>0, <2>2 DEF Calls, Holding
    <3>3. req[q].txns \in 0..2 /\ call[q].tries \in 0..2
      BY <1>0 DEF Requests, Calls
    <3> QED BY <3>1, <3>2, <3>3 DEF IInv, Turn, Holding, Reading
  <2>4. PICK r \in Requests :
          /\ req' = [req EXCEPT ![q] = r] /\ r.phase = "calls" /\ r.calls = req[q].calls
          /\ \/ r.txns = req[q].txns
             \/ call[q].phase = "start" /\ r.txns = req[q].txns + 1
    <3> DEFINE handed == /\ call[q].phase = "start" /\ call'[q].phase # "look"
                         /\ Head(req[q].calls) = "txn"
    <3>1. CASE handed
      <4>1. call[q].phase = "start" /\ req[q].txns + 1 \in 0..2
        BY <1>0, <2>2, <2>3, <3>1
      <4>2. req' = [req EXCEPT ![q] = [req[q] EXCEPT !.txns = req[q].txns + 1]]
        BY <1>5, <3>1 DEF Query
      <4>3. [req[q] EXCEPT !.txns = req[q].txns + 1] \in Requests
        BY <1>0, <4>1 DEF Requests
      <4> QED BY <1>0, <2>3, <4>1, <4>2, <4>3 DEF Requests
    <3>2. CASE ~handed
      <4>1. req' = [req EXCEPT ![q] = req[q]]
        BY <1>0, <1>5, <3>2 DEF Query
      <4> QED BY <1>0, <2>3, <4>1
    <3> QED BY <3>1, <3>2
  <2>5. /\ c.phase \in {"check", "wait", "start"} =>
             c.tries \in 1..2 /\ r.txns <= c.tries - 1
        /\ c.phase \in Reading \cup {"look", "put", "end"} =>
             c.tries \in 1..2 /\ r.txns <= c.tries
    BY <2>2, <2>3, <2>4 DEF Reading
  <2>6. Turn'
    BY <1>0, <2>2, <2>3, <2>4, <2>5 DEF IInv, Turn
  <2> QED BY <1>0, <2>1, <2>4, <2>6 DEF IInv
<1> QED BY <1>1, <1>2, <1>3, <1>4, <1>5 DEF Serve

-----------------------------------------------------------------------------
(***************************************************************************)
(* The theorems.                                                           *)
(***************************************************************************)

LEMMA Starts == Init => IInv
<1> SUFFICES ASSUME Init PROVE IInv
  OBVIOUS
<1>1. PoolInv
  BY PoolStarts DEF Init
<1>2. /\ call = [q \in Threads |-> NoCall] /\ req = [q \in Threads |-> Idle]
  BY DEF Init, PoolInit
<1>3. req \in [Threads -> Requests] /\ Turn
  BY <1>2, NoCallShape, IdleShape DEF Turn, Reading
<1> QED BY <1>1, <1>3 DEF IInv

LEMMA Keeps == IInv /\ [Next]_vars => IInv'
<1> SUFFICES ASSUME IInv, [Next]_vars PROVE IInv'
  OBVIOUS
<1>1. ASSUME NEW q \in Threads, Arrive(q) \/ Serve(q) PROVE IInv'
  BY <1>1, ArriveKeeps, ServeKeeps
<1>2. ASSUME (Close \/ Die) /\ UNCHANGED req PROVE IInv'
  <2>1. PoolInv' /\ UNCHANGED <<call, req>>
    BY <1>2, CloseKeeps, DieKeeps DEF IInv, Close, Die
  <2> QED BY <2>1 DEF IInv, Turn
<1>3. CASE UNCHANGED vars
  BY <1>3 DEF IInv, vars, poolVars, PoolInv, PoolShape, Holds, SessionsKept, Piped,
              RowsAreMine, Held, Turn
<1> QED BY <1>1, <1>2, <1>3 DEF Next, Rest

\* A request that was answered runs no query, no transaction is handed to more
\* than two sessions, and the queue never holds more sessions than it was made
\* for, so that putting one back never waits (PsqlPool, query_lines).
LEMMA Accounted == IInv => SessionsAccounted
<1> SUFFICES ASSUME IInv PROVE SessionsAccounted
  OBVIOUS
<1>1. SessionsKept /\ ToSet(idle) \subseteq Sessions /\ Len(idle) <= Size
  BY QueueFits DEF IInv, PoolInv, PoolShape, SessionsKept
<1>2. PoolTypeOK
  <2>1. \A q \in Threads :
          call[q].session \in Sessions \cup {None} /\ call[q].tries \in 0..2
    BY DEF IInv, PoolInv, PoolShape, Calls
  <2> QED BY <1>1, <2>1 DEF PoolTypeOK, IInv, PoolInv, PoolShape
<1>3. TypeOK
  <2>1. \A q \in Threads :
          req[q].phase \in {"idle", "calls", "done"} /\ req[q].txns \in 0..2
    BY DEF IInv, Requests
  <2>2. \A q \in Threads : req[q].phase = "done" =>
          /\ req[q].reply \in {"ok", "refused", "missing", "unavailable", "dropped"}
          /\ call[q] = NoCall
    BY DEF IInv, Turn, Replies
  <2> QED BY <1>2, <2>1, <2>2 DEF TypeOK
<1> QED BY <1>1, <1>3 DEF SessionsAccounted

\* However many threads share however many sessions, and whatever dies, times
\* out or is closed, the pool neither loses nor shares a session, and no
\* transaction is handed to more than two (PsqlPool.execute, execute_read).
THEOREM SessionsCorrect == Spec => []SessionsAccounted
<1>1. Spec => []IInv
  BY Starts, Keeps, PTL DEF Spec
<1> QED BY <1>1, Accounted, PTL

\* What a query returns was written for that query, never left over from an
\* earlier one that timed out on the same session (PsqlSession.execute).
THEOREM RowsCorrect == Spec => []RowsAreMine
<1>1. Spec => []IInv
  BY Starts, Keeps, PTL DEF Spec
<1>2. IInv => RowsAreMine
  BY DEF IInv, PoolInv
<1> QED BY <1>1, <1>2, PTL

-----------------------------------------------------------------------------
(***************************************************************************)
(* The tables the reads are computed from.                                 *)
(***************************************************************************)

PaymentStates == {"draft", "submitted", "approved", "rejected", "voided"}

\* One row per identity, of those the world may stage.
RawInv ==
  /\ DOMAIN raw = Tables
  /\ \A t \in Tables :
       /\ IsFiniteSet(raw[t]) /\ OnceEach(raw[t])
       /\ \A r \in raw[t] : t \in DOMAIN scope.imports /\ r \in scope.imports[t]

\* One latest revision per record, of those the world may draft.
LocalInv ==
  /\ DOMAIN local = Families
  /\ \A f \in Families :
       /\ OnceEach(local[f])
       /\ \A l \in local[f] :
            /\ f \in DOMAIN scope.drafts /\ IsRow(l) /\ "state" \in DOMAIN l
            /\ \E d \in scope.drafts[f] : l.id = d.id /\ DOMAIN l = DOMAIN d

\* A promotion has its row, a promoted plan or application its contract.
PromotedInv ==
  /\ DOMAIN promoted = (Separate \cup Merged) \cap Families
  /\ \A f \in DOMAIN promoted :
       /\ promoted[f] \subseteq Ids(raw[TableOf[f]])
       /\ \A r \in raw[TableOf[f]] : r.id \in promoted[f] => Promotable(f, r)

\* A local payment application is never paid.
PaymentInv ==
  "payment" \in Families => \A l \in local["payment"] : l.state \in PaymentStates

CommandFields == {"family", "type", "wants", "draft", "basis", "read"}

\* A revision of a record that clients of the world may create.
Revision(f, l) ==
  /\ f \in DOMAIN scope.drafts /\ IsRow(l) /\ "state" \in DOMAIN l
  /\ \E d \in scope.drafts[f] : l.id = d.id /\ DOMAIN l = DOMAIN d

\* A command knows its record and at most one revision of it, and it has found
\* that in a state that it may change, or imported.
Grounded(c) ==
  /\ DOMAIN c = CommandFields
  /\ Revision(c.family, c.draft)
  /\ c.family # "message" => c.type \in Types(c.family)
  /\ OnceEach(c.basis)
  /\ \A l \in c.basis : Revision(c.family, l) /\ l.id = c.draft.id
  /\ c.family = "payment" => \A l \in c.basis : l.state \in PaymentStates
  /\ c.read => \/ Rechecks(c.family, c.type, Found(c))
               \/ c.family \in Merged /\ c.basis = {}

CommandsInv == \A c \in commands : Grounded(c)

LedgerInv ==
  scope \in Scopes /\ RawInv /\ LocalInv /\ PromotedInv /\ PaymentInv /\ CommandsInv

\* What a world names, and what its rows are.
LEMMA ScopeFacts ==
  ASSUME scope \in Scopes
  PROVE  /\ DOMAIN scope.imports \subseteq Tables /\ DOMAIN scope.drafts \subseteq Families
         /\ \A t \in DOMAIN scope.imports : \A r \in scope.imports[t] : IsRow(r)
         /\ \A f \in DOMAIN scope.drafts : \A d \in scope.drafts[f] :
              IsRow(d) /\ "state" \in DOMAIN d
BY LedgerAssumption DEF Tables, Families

\* The type invariant is part of the inductive one.
LEMMA LedgerTyped == LedgerInv => LedgerTypeOK
<1> SUFFICES ASSUME LedgerInv PROVE LedgerTypeOK
  OBVIOUS
<1>1. \A t \in Tables : raw[t] # {} => raw[t] \subseteq scope.imports[t] /\ OnceEach(raw[t])
  BY DEF LedgerInv, RawInv
<1>2. \A f \in DOMAIN promoted : promoted[f] \subseteq Ids(raw[TableOf[f]])
  BY DEF LedgerInv, PromotedInv
<1>3. ASSUME NEW f \in Families, local[f] # {}
      PROVE  Ids(local[f]) \subseteq Ids(scope.drafts[f]) /\ OnceEach(local[f])
  BY <1>3 DEF LedgerInv, LocalInv, Ids
<1>4. ASSUME NEW c \in commands
      PROVE  /\ c.family \in DOMAIN scope.drafts
             /\ c.draft.id \in Ids(scope.drafts[c.family])
             /\ OnceEach(c.basis) /\ Ids(c.basis) \subseteq {c.draft.id}
  BY <1>4 DEF LedgerInv, CommandsInv, Grounded, Revision, Ids
<1> QED BY <1>1, <1>2, <1>3, <1>4 DEF LedgerTypeOK, LedgerInv

\* At first every layer is empty.
LEMMA InitLedger == LedgerInit => LedgerInv
<1> SUFFICES ASSUME LedgerInit PROVE LedgerInv
  OBVIOUS
<1>1. /\ scope \in Scopes /\ raw = [t \in Tables |-> {}] /\ local = [f \in Families |-> {}]
      /\ promoted = [f \in (Separate \cup Merged) \cap Families |-> {}] /\ commands = {}
  BY DEF LedgerInit
<1>2. RawInv
  BY <1>1, FS_EmptySet DEF RawInv, OnceEach
<1>3. LocalInv /\ PaymentInv
  BY <1>1 DEF LocalInv, PaymentInv, OnceEach
<1>4. PromotedInv /\ CommandsInv
  BY <1>1, LedgerAssumption DEF PromotedInv, CommandsInv
<1> QED BY <1>1, <1>2, <1>3, <1>4 DEF LedgerInv

\* A command under way stays sound while its world stays.
LEMMA GroundedStays == ASSUME scope' = scope, NEW c, Grounded(c) PROVE Grounded(c)'
BY DEF Grounded, Revision, OnceEach

\* A row that is staged is a new one; everything else stays.
LEMMA ImportKeeps ==
  ASSUME LedgerInv, NEW t \in DOMAIN scope.imports, NEW row \in scope.imports[t], Import(t, row)
  PROVE  LedgerInv'
<1>1. /\ t \in Tables /\ \A r \in raw[t] : r.id # row.id
      /\ raw' = [raw EXCEPT ![t] = raw[t] \cup {row}]
      /\ scope' = scope /\ promoted' = promoted /\ local' = local /\ commands' = commands
  BY ScopeFacts DEF Import, In, LedgerInv
<1>2. /\ DOMAIN raw = Tables /\ DOMAIN raw' = Tables /\ raw'[t] = raw[t] \cup {row}
      /\ \A u \in Tables : u # t => raw'[u] = raw[u]
      /\ \A u \in Tables : raw[u] \subseteq raw'[u]
  BY <1>1 DEF LedgerInv, RawInv
<1>3. IsFiniteSet(raw'[t]) /\ OnceEach(raw'[t])
  BY <1>1, <1>2, FS_AddElement DEF LedgerInv, RawInv, OnceEach
<1>4. RawInv'
  BY <1>1, <1>2, <1>3 DEF LedgerInv, RawInv, OnceEach
<1>5. PromotedInv'
  <2>1. DOMAIN promoted = (Separate \cup Merged) \cap Families
        /\ \A f \in DOMAIN promoted : TableOf[f] \in Tables
    BY LedgerAssumption DEF LedgerInv, PromotedInv
  <2>2. ASSUME NEW f \in DOMAIN promoted
        PROVE  promoted[f] \subseteq Ids(raw'[TableOf[f]])
    BY <1>2, <2>1, <2>2 DEF LedgerInv, PromotedInv, Ids
  <2>3. ASSUME NEW f \in DOMAIN promoted, NEW r \in raw'[TableOf[f]], r.id \in promoted[f]
        PROVE  Promotable(f, r)'
    <3>1. r \in raw[TableOf[f]]
      <4>1. PICK q \in raw[TableOf[f]] : q.id = r.id
        BY <2>3 DEF LedgerInv, PromotedInv, Ids
      <4>2. q \in raw'[TableOf[f]] /\ OnceEach(raw'[TableOf[f]])
        BY <1>2, <1>4, <2>1, <4>1 DEF RawInv, OnceEach
      <4> QED BY <4>1, <4>2 DEF OnceEach
    <3>2. Promotable(f, r)
      BY <2>3, <3>1 DEF LedgerInv, PromotedInv
    <3>3. f \in {"payment", "milestone"} => "contract" \in Tables
      BY <2>1, LedgerAssumption
    <3> QED BY <1>2, <3>2, <3>3 DEF Promotable, In
  <2> QED BY <1>1, <2>1, <2>2, <2>3 DEF PromotedInv
<1>6. LocalInv' /\ PaymentInv'
  BY <1>1 DEF LedgerInv, LocalInv, PaymentInv
<1>7. CommandsInv'
  BY <1>1, GroundedStays DEF LedgerInv, CommandsInv
<1> QED BY <1>1, <1>4, <1>5, <1>6, <1>7 DEF LedgerInv

\* A promotion adds an identity, and takes the local revisions over that it
\* becomes the latest of.
LEMMA PromoteKeeps ==
  ASSUME LedgerInv, NEW f \in DOMAIN promoted, NEW row \in raw[TableOf[f]], Promote(f, row.id)
  PROVE  /\ LedgerInv'
         /\ \A g \in Families : local'[g] \subseteq local[g]
         /\ \A g \in Families : \A id : Stored(g, id)' = Stored(g, id) \/ Stored(g, id)' = {}
<1>1. /\ DOMAIN promoted = (Separate \cup Merged) \cap Families /\ f \in Families
      /\ DOMAIN local = Families /\ TableOf[f] \in Tables
  BY LedgerAssumption DEF LedgerInv, PromotedInv, LocalInv
<1>2. /\ scope' = scope /\ raw' = raw /\ commands' = commands
      /\ promoted' = [promoted EXCEPT ![f] = promoted[f] \cup {row.id}]
      /\ local' = IF f \in Merged THEN [local EXCEPT ![f] = local[f] \ Stored(f, row.id)]
                  ELSE local
      /\ Promotable(f, Row(TableOf[f], row.id))
  BY DEF Promote
<1>3. Row(TableOf[f], row.id) = row
  BY <1>1 DEF Row, LedgerInv, RawInv, OnceEach
<1>4. RawInv'
  BY <1>2 DEF LedgerInv, RawInv
<1>5. PromotedInv'
  <2>1. /\ DOMAIN promoted' = DOMAIN promoted /\ promoted'[f] = promoted[f] \cup {row.id}
        /\ \A g \in DOMAIN promoted : g # f => promoted'[g] = promoted[g]
    BY <1>2
  <2>2. ASSUME NEW g \in DOMAIN promoted
        PROVE  promoted'[g] \subseteq Ids(raw[TableOf[g]])
    BY <2>1 DEF LedgerInv, PromotedInv, Ids
  <2>3. ASSUME NEW g \in DOMAIN promoted, NEW r \in raw[TableOf[g]], r.id \in promoted'[g]
        PROVE  Promotable(g, r)
    <3>1. CASE r.id \in promoted[g]
      BY <2>3, <3>1 DEF LedgerInv, PromotedInv
    <3>2. CASE r.id \notin promoted[g]
      <4>1. g = f /\ r.id = row.id
        BY <2>1, <2>3, <3>2
      <4>2. r = row
        BY <1>1, <2>3, <4>1 DEF LedgerInv, RawInv, OnceEach
      <4> QED BY <1>2, <1>3, <4>1, <4>2
    <3> QED BY <3>1, <3>2
  <2>4. \A g, r : Promotable(g, r)' = Promotable(g, r)
    BY <1>2 DEF Promotable, In
  <2> QED BY <1>1, <1>2, <2>1, <2>2, <2>3, <2>4 DEF PromotedInv
<1>6. /\ DOMAIN local' = Families /\ \A g \in Families : local'[g] \subseteq local[g]
      /\ \A g \in Families : local'[g] = local[g] \/ local'[g] = local[g] \ Stored(g, row.id)
  BY <1>1, <1>2
<1>7. LocalInv' /\ PaymentInv'
  <2>1. LocalInv'
    BY <1>2, <1>6 DEF LedgerInv, LocalInv, OnceEach
  <2>2. PaymentInv'
    BY <1>6 DEF LedgerInv, PaymentInv
  <2> QED BY <2>1, <2>2
<1>8. ASSUME NEW g \in Families, NEW id
      PROVE  Stored(g, id)' = Stored(g, id) \/ Stored(g, id)' = {}
  BY <1>6 DEF Stored
<1>9. CommandsInv'
  BY <1>2, GroundedStays DEF LedgerInv, CommandsInv
<1> QED BY <1>2, <1>4, <1>5, <1>6, <1>7, <1>8, <1>9 DEF LedgerInv

\* A revision of a record as a command leaves it.
Revised(l, s) == [l EXCEPT !.state = s]

\* It has the fields of l, and all but its state.
LEMMA RevisedFacts ==
  ASSUME NEW l, NEW s, IsRow(l), "state" \in DOMAIN l
  PROVE  /\ IsRow(Revised(l, s)) /\ DOMAIN Revised(l, s) = DOMAIN l
         /\ Revised(l, s).state = s
         /\ \A x \in DOMAIN l : x # "state" => Revised(l, s)[x] = l[x]
<1>1. PICK n : n = Revised(l, s)
  OBVIOUS
<1>2. n = [x \in DOMAIN l |-> IF x = "state" THEN s ELSE l[x]]
  BY <1>1 DEF Revised, IsRow
<1>3. /\ DOMAIN n = DOMAIN l /\ n = [x \in DOMAIN n |-> n[x]] /\ n.state = s
      /\ \A x \in DOMAIN l : x # "state" => n[x] = l[x]
  BY <1>2
<1>4. IsRow(n)
  BY <1>3 DEF IsRow
<1> QED BY <1>1, <1>3, <1>4

\* The draft of a command is as it was given, but for the messages it lists.
LEMMA PreparedFacts ==
  ASSUME NEW type, NEW d, IsRow(d)
  PROVE  /\ IsRow(Prepared(type, d)) /\ DOMAIN Prepared(type, d) = DOMAIN d
         /\ \A x \in DOMAIN d : x # "messages" => Prepared(type, d)[x] = d[x]
         /\ type # "read_all" => Prepared(type, d) = d
         /\ type = "read_all" /\ "messages" \in DOMAIN d =>
              Prepared(type, d).messages \subseteq Ids(raw["message"])
<1>1. CASE type # "read_all"
  BY <1>1 DEF Prepared
<1>2. CASE type = "read_all"
  <2>1. PICK m : m = {k.id : k \in {r \in raw.message : r.user = d.by}}
    OBVIOUS
  <2>2. PICK n : n = Prepared(type, d)
    OBVIOUS
  <2>3. n = [d EXCEPT !.messages = m]
    BY <1>2, <2>1, <2>2 DEF Prepared
  <2>4. n = [x \in DOMAIN d |-> IF x = "messages" THEN m ELSE d[x]]
    BY <2>3 DEF IsRow
  <2>5. /\ DOMAIN n = DOMAIN d /\ n = [x \in DOMAIN n |-> n[x]]
        /\ \A x \in DOMAIN d : x # "messages" => n[x] = d[x]
        /\ "messages" \in DOMAIN d => n.messages = m
    BY <2>4
  <2>6. IsRow(n)
    BY <2>5 DEF IsRow
  <2>7. m \subseteq Ids(raw["message"])
    BY <2>1 DEF Ids
  <2> QED BY <1>2, <2>2, <2>5, <2>6, <2>7
<1> QED BY <1>1, <1>2

\* What a command stores is its draft, or the revision it has found; and if it
\* reads all messages, with those that it has listed.
Makes(c, l, n) ==
  /\ \/ l = c.draft /\ (c.type = "create" \/ c.basis = {})
     \/ l \in c.basis /\ c.type # "create"
  /\ IsRow(n) /\ DOMAIN n = DOMAIN l
  /\ n.state = Leaves(c.family, c.type, Found(c), c.wants)
  /\ \A x \in DOMAIN l : x \notin {"state", "messages"} => n[x] = l[x]
  /\ "messages" \in DOMAIN l =>
       \/ n.messages = l.messages
       \/ /\ c.type = "read_all" /\ l \in c.basis
          /\ n.messages = l.messages \cup c.draft.messages

LEMMA ContentsFacts ==
  ASSUME NEW c, Grounded(c)
  PROVE  /\ \E k : Contents(c) \subseteq {k}
         /\ \A k \in Contents(c) : \A s : \E l : 
              /\ \/ l = c.draft /\ (c.type = "create" \/ c.basis = {})
                 \/ l \in c.basis /\ c.type # "create"
              /\ IsRow(k) /\ DOMAIN k = DOMAIN l /\ IsRow(l) /\ "state" \in DOMAIN l
              /\ \A x \in DOMAIN l : x # "messages" => k[x] = l[x]
              /\ "messages" \in DOMAIN l =>
                   \/ k.messages = l.messages
                   \/ /\ c.type = "read_all" /\ l \in c.basis
                      /\ k.messages = l.messages \cup c.draft.messages
<1>0. /\ IsRow(c.draft) /\ "state" \in DOMAIN c.draft
      /\ \A l \in c.basis : IsRow(l) /\ "state" \in DOMAIN l
      /\ \A l, k \in c.basis : l = k
  BY DEF Grounded, Revision, OnceEach
<1>1. CASE c.type = "create" \/ c.basis = {}
  <2>1. Contents(c) = {c.draft}
    BY <1>1 DEF Contents
  <2> QED BY <1>0, <1>1, <2>1
<1>2. CASE c.type # "create" /\ c.basis # {}
  <2>1. PICK l \in c.basis : TRUE
    BY <1>2
  <2>2. c.basis = {l}
    BY <1>0, <2>1
  <2>3. CASE c.type = "read_all"
    <3>1. PICK k : k = [l EXCEPT !.messages = l.messages \cup c.draft.messages]
      OBVIOUS
    <3>2. Contents(c) = {k}
      BY <1>2, <2>2, <2>3, <3>1 DEF Contents
    <3>3. k = [x \in DOMAIN l |->
                 IF x = "messages" THEN l.messages \cup c.draft.messages ELSE l[x]]
      BY <1>0, <2>1, <3>1 DEF IsRow
    <3>4. /\ DOMAIN k = DOMAIN l /\ k = [x \in DOMAIN k |-> k[x]]
          /\ \A x \in DOMAIN l : x # "messages" => k[x] = l[x]
          /\ "messages" \in DOMAIN l => k.messages = l.messages \cup c.draft.messages
      BY <3>3
    <3>5. IsRow(k)
      BY <1>0, <2>1, <3>4 DEF IsRow
    <3> QED BY <1>0, <1>2, <2>1, <2>3, <3>2, <3>4, <3>5
  <2>4. CASE c.type # "read_all"
    <3>1. Contents(c) = {l}
      BY <1>2, <2>2, <2>4 DEF Contents
    <3> QED BY <1>0, <1>2, <2>1, <3>1
  <2> QED BY <2>3, <2>4
<1> QED BY <1>1, <1>2

\* It stores at most one revision, of its record.
LEMMA ResultFacts ==
  ASSUME NEW c, Grounded(c)
  PROVE  /\ \E n : Result(c) \subseteq {n}
         /\ \A n \in Result(c) : \E l : Makes(c, l, n)
         /\ \A n \in Result(c) : Revision(c.family, n) /\ n.id = c.draft.id
<1>1. PICK s : s = Leaves(c.family, c.type, Found(c), c.wants)
  OBVIOUS
<1>2. Result(c) \subseteq {Revised(k, s) : k \in Contents(c)}
  BY <1>1 DEF Result, Revised
<1>3. \E n : Result(c) \subseteq {n}
  <2>1. PICK k : Contents(c) \subseteq {k}
    BY ContentsFacts
  <2>2. PICK n : n = Revised(k, s)
    OBVIOUS
  <2> QED BY <1>2, <2>1, <2>2
<1>4. ASSUME NEW n \in Result(c)
      PROVE  /\ \E l : Makes(c, l, n)
             /\ Revision(c.family, n) /\ n.id = c.draft.id
  <2>1. PICK k \in Contents(c) : n = Revised(k, s)
    BY <1>2, <1>4
  <2>2. PICK l :
          /\ \/ l = c.draft /\ (c.type = "create" \/ c.basis = {})
             \/ l \in c.basis /\ c.type # "create"
          /\ IsRow(k) /\ DOMAIN k = DOMAIN l /\ IsRow(l) /\ "state" \in DOMAIN l
          /\ \A x \in DOMAIN l : x # "messages" => k[x] = l[x]
          /\ "messages" \in DOMAIN l =>
               \/ k.messages = l.messages
               \/ /\ c.type = "read_all" /\ l \in c.basis
                  /\ k.messages = l.messages \cup c.draft.messages
    BY <2>1, ContentsFacts
  <2>3. /\ IsRow(n) /\ DOMAIN n = DOMAIN l /\ n.state = s
        /\ \A x \in DOMAIN l : x # "state" => n[x] = k[x]
    BY <2>1, <2>2, RevisedFacts
  <2>4. Makes(c, l, n)
    BY <1>1, <2>2, <2>3 DEF Makes
  <2>5. Revision(c.family, l) /\ l.id = c.draft.id
    BY <2>2 DEF Grounded
  <2>6. n.id = l.id
    BY <2>2, <2>3 DEF IsRow
  <2>7. Revision(c.family, n)
    BY <2>2, <2>3, <2>5, <2>6 DEF Revision
  <2> QED BY <2>4, <2>5, <2>6, <2>7
<1> QED BY <1>3, <1>4

\* What is stored of a record.
LEMMA StoredFacts ==
  ASSUME LedgerInv, NEW f \in Families, NEW id
  PROVE  /\ OnceEach(Stored(f, id))
         /\ \A l \in Stored(f, id) : Revision(f, l) /\ l.id = id
         /\ f = "payment" => \A l \in Stored(f, id) : l.state \in PaymentStates
BY DEF LedgerInv, LocalInv, PaymentInv, Stored, OnceEach, Revision

\* A command that is undertaken knows its record.
LEMMA UndertakeKeeps ==
  ASSUME LedgerInv, NEW f \in DOMAIN scope.drafts, NEW draft \in scope.drafts[f],
         NEW type \in Given(f, draft), NEW wants, Undertake(f, type, draft, wants)
  PROVE  /\ LedgerInv' /\ UNCHANGED <<scope, raw, promoted, local>>
         /\ commands' = commands \cup
              {[family |-> f, type |-> type, wants |-> wants, draft |-> Prepared(type, draft),
                basis |-> Stored(f, draft.id), read |-> FALSE]}
<1>1. PICK c : c = [family |-> f, type |-> type, wants |-> wants, draft |-> Prepared(type, draft),
                    basis |-> Stored(f, draft.id), read |-> FALSE]
  OBVIOUS
<1>2. UNCHANGED <<scope, raw, promoted, local>> /\ commands' = commands \cup {c}
  BY <1>1 DEF Undertake
<1>3. f \in Families /\ IsRow(draft) /\ "state" \in DOMAIN draft /\ "id" \in DOMAIN draft
  BY ScopeFacts DEF LedgerInv, IsRow
<1>4. /\ DOMAIN c = CommandFields /\ c.family = f /\ c.type = type /\ c.read = FALSE
      /\ c.draft = Prepared(type, draft) /\ c.basis = Stored(f, draft.id)
  BY <1>1 DEF CommandFields
<1>5. Revision(f, c.draft) /\ c.draft.id = draft.id
  <2>1. PICK d : d = Prepared(type, draft)
    OBVIOUS
  <2>2. IsRow(d) /\ DOMAIN d = DOMAIN draft /\ d["id"] = draft["id"]
    BY <1>3, <2>1, PreparedFacts
  <2> QED BY <1>3, <1>4, <2>1, <2>2 DEF Revision
<1>6. /\ OnceEach(Stored(f, draft.id))
      /\ \A l \in Stored(f, draft.id) : Revision(f, l) /\ l.id = draft.id
      /\ f = "payment" => \A l \in Stored(f, draft.id) : l.state \in PaymentStates
  BY <1>3, StoredFacts
<1>7. Grounded(c)
  BY <1>4, <1>5, <1>6 DEF Grounded, Given
<1>8. CommandsInv'
  BY <1>2, <1>7, GroundedStays DEF LedgerInv, CommandsInv
<1>9. RawInv' /\ LocalInv' /\ PaymentInv' /\ PromotedInv' /\ scope' \in Scopes
  BY <1>2 DEF LedgerInv, RawInv, LocalInv, PaymentInv, PromotedInv, Promotable, In
<1> QED BY <1>1, <1>2, <1>8, <1>9 DEF LedgerInv

\* The state found is that of the revision found.
LEMMA FoundFacts ==
  ASSUME NEW c
  PROVE  /\ c.basis = {} => Found(c) = Absent
         /\ c.basis # {} => \E l \in c.basis : Found(c) = l.state
BY DEF Found

\* The second look of a command finds its record in a state that it may change, or
\* imported.
LEMMA LookUpKeeps ==
  ASSUME LedgerInv, NEW c \in commands, LookUp(c)
  PROVE  /\ LedgerInv' /\ UNCHANGED <<scope, raw, promoted, local>>
         /\ commands' = (commands \ {c}) \cup
              {[c EXCEPT !.basis = Stored(c.family, c.draft.id), !.read = TRUE]}
<1>1. PICK e : e = [c EXCEPT !.basis = Stored(c.family, c.draft.id), !.read = TRUE]
  OBVIOUS
<1>2. /\ UNCHANGED <<scope, raw, promoted, local>> /\ commands' = (commands \ {c}) \cup {e}
      /\ \/ Overtaken(c.family, c.draft.id)
         \/ Rechecks(c.family, c.type, StateOf(c.family, c.draft.id))
  BY <1>1 DEF LookUp
<1>3. Grounded(c) /\ DOMAIN c = CommandFields
  BY DEF LedgerInv, CommandsInv, Grounded
<1>4. /\ DOMAIN e = CommandFields /\ e.family = c.family /\ e.type = c.type
      /\ e.draft = c.draft /\ e.basis = Stored(c.family, c.draft.id)
  BY <1>1, <1>3 DEF CommandFields
<1>5. c.family \in Families
  BY <1>3, ScopeFacts DEF LedgerInv, Grounded, Revision
<1>6. /\ OnceEach(e.basis)
      /\ \A l \in e.basis : Revision(c.family, l) /\ l.id = c.draft.id
      /\ c.family = "payment" => \A l \in e.basis : l.state \in PaymentStates
  BY <1>4, <1>5, StoredFacts
<1>7. Rechecks(e.family, e.type, Found(e)) \/ (e.family \in Merged /\ e.basis = {})
  <2>1. Found(e) = StateOf(c.family, c.draft.id)
    BY <1>4 DEF Found, StateOf
  <2> QED BY <1>2, <1>4, <2>1 DEF Overtaken
<1>8. Grounded(e)
  BY <1>3, <1>4, <1>6, <1>7 DEF Grounded
<1>9. CommandsInv'
  BY <1>2, <1>8, GroundedStays DEF LedgerInv, CommandsInv
<1>10. RawInv' /\ LocalInv' /\ PaymentInv' /\ PromotedInv' /\ scope' \in Scopes
  BY <1>2 DEF LedgerInv, RawInv, LocalInv, PaymentInv, PromotedInv, Promotable, In
<1> QED BY <1>1, <1>2, <1>9, <1>10 DEF LedgerInv

\* What a store does: one record of one family gets a new latest revision, or is
\* hidden.
LEMMA StoreFacts ==
  ASSUME LedgerInv, NEW c \in commands, Store(c)
  PROVE  /\ UNCHANGED <<scope, raw, promoted>> /\ commands' = commands \ {c}
         /\ c.family \in Families /\ DOMAIN local' = Families
         /\ \A g \in Families : g # c.family => local'[g] = local[g]
         /\ local'[c.family] = (local[c.family] \ Stored(c.family, c.draft.id)) \cup Result(c)
         /\ Grounded(c) /\ c.read /\ (Fixed(c) => Unmoved(c))
<1>1. Grounded(c) /\ DOMAIN local = Families
  BY DEF LedgerInv, CommandsInv, LocalInv
<1>2. c.family \in Families
  BY <1>1, ScopeFacts DEF LedgerInv, Grounded, Revision
<1>3. /\ UNCHANGED <<scope, raw, promoted>> /\ commands' = commands \ {c}
      /\ local' = [local EXCEPT ![c.family] =
           (local[c.family] \ Stored(c.family, c.draft.id)) \cup Result(c)]
      /\ c.read /\ (Fixed(c) => Unmoved(c))
  BY DEF Store
<1> QED BY <1>1, <1>2, <1>3

\* The states a payment application goes through.
LEMMA PaymentStatesStay ==
  ASSUME NEW type, NEW state \in PaymentStates \cup {Absent}, NEW wants,
         Rechecks("payment", type, state)
  PROVE  Leaves("payment", type, state, wants) \in PaymentStates
<1>1. Rechecks("payment", type, state) <=> PaymentAdmits(type, state)
  BY DEF Rechecks, PaymentRechecks, SalesFamilies, MarketingFamilies, DeliveryFamilies,
         FundFamilies
<1>2. Leaves("payment", type, state, wants) = PaymentLeaves(type, state)
  BY DEF Leaves, SalesFamilies, MarketingFamilies, DeliveryFamilies, FundFamilies
<1> QED BY <1>1, <1>2 DEF PaymentAdmits, LoopAdmits, PaymentLeaves, LoopLeaves, PaymentStates, Absent

\* A command that has found a payment application leaves it in one of its states.
LEMMA PaymentFound ==
  ASSUME NEW c, Grounded(c), c.read, c.family = "payment"
  PROVE  Leaves(c.family, c.type, Found(c), c.wants) \in PaymentStates
<1>1. Found(c) \in PaymentStates \cup {Absent}
  BY FoundFacts DEF Grounded
<1>2. Rechecks("payment", c.type, Found(c))
  BY DEF Grounded, Merged
<1>3. PICK state \in PaymentStates \cup {Absent} : state = Found(c)
  BY <1>1
<1>4. Leaves("payment", c.type, state, c.wants) \in PaymentStates
  BY <1>2, <1>3, PaymentStatesStay
<1> QED BY <1>3, <1>4

\* A command replaces one revision by another of its identity.
LEMMA StoreKeeps ==
  ASSUME LedgerInv, NEW c \in commands, Store(c)
  PROVE  LedgerInv'
<1>1. /\ scope' = scope /\ raw' = raw /\ promoted' = promoted /\ commands' = commands \ {c}
      /\ c.family \in Families /\ DOMAIN local' = Families
      /\ \A g \in Families : g # c.family => local'[g] = local[g]
      /\ local'[c.family] = (local[c.family] \ Stored(c.family, c.draft.id)) \cup Result(c)
      /\ Grounded(c) /\ c.read
  BY StoreFacts
<1>2. RawInv' /\ scope' \in Scopes
  BY <1>1 DEF LedgerInv, RawInv
<1>3. PromotedInv'
  BY <1>1 DEF LedgerInv, PromotedInv, Promotable, In
<1>4. CommandsInv'
  BY <1>1, GroundedStays DEF LedgerInv, CommandsInv
<1>5. /\ \A n \in Result(c) : Revision(c.family, n) /\ n.id = c.draft.id
      /\ \A n, m \in Result(c) : n = m
  BY <1>1, ResultFacts
<1>6. LocalInv'
  <2>1. OnceEach(local'[c.family])
    BY <1>1, <1>5 DEF LedgerInv, LocalInv, OnceEach, Stored
  <2>2. \A l \in local'[c.family] : Revision(c.family, l)
    BY <1>1, <1>5 DEF LedgerInv, LocalInv, Revision
  <2> QED BY <1>1, <2>1, <2>2 DEF LedgerInv, LocalInv, Revision
<1>7. PaymentInv'
  <2>1. CASE c.family # "payment"
    BY <1>1, <2>1 DEF LedgerInv, PaymentInv
  <2>2. CASE c.family = "payment"
    <3>1. \A n \in Result(c) : n.state \in PaymentStates
      BY <1>1, <2>2, ResultFacts, PaymentFound DEF Makes
    <3> QED BY <1>1, <2>2, <3>1 DEF LedgerInv, PaymentInv
  <2> QED BY <2>1, <2>2
<1> QED BY <1>2, <1>3, <1>4, <1>6, <1>7 DEF LedgerInv

\* A command that gives up leaves everything as it is.
LEMMA GiveUpKeeps ==
  ASSUME LedgerInv, NEW c \in commands, GiveUp(c)
  PROVE  LedgerInv' /\ UNCHANGED <<scope, raw, promoted, local>> /\ commands' = commands \ {c}
<1>1. UNCHANGED <<scope, raw, promoted, local>> /\ commands' = commands \ {c}
  BY DEF GiveUp
<1>2. CommandsInv'
  BY <1>1, GroundedStays DEF LedgerInv, CommandsInv
<1>3. RawInv' /\ LocalInv' /\ PaymentInv' /\ PromotedInv' /\ scope' \in Scopes
  BY <1>1 DEF LedgerInv, RawInv, LocalInv, PaymentInv, PromotedInv, Promotable, In
<1> QED BY <1>1, <1>2, <1>3 DEF LedgerInv

\* Every step keeps the layers sound.
LEMMA LedgerStep == LedgerInv /\ [LedgerNext]_ledgerVars => LedgerInv'
<1> SUFFICES ASSUME LedgerInv, [LedgerNext]_ledgerVars PROVE LedgerInv'
  OBVIOUS
<1>1. ASSUME NEW t \in DOMAIN scope.imports, NEW row \in scope.imports[t], Import(t, row)
      PROVE  LedgerInv'
  BY <1>1, ImportKeeps
<1>2. ASSUME NEW f \in DOMAIN promoted \cap DOMAIN scope.drafts, NEW row \in raw[TableOf[f]],
             Promote(f, row.id)
      PROVE  LedgerInv'
  BY <1>2, PromoteKeeps
<1>3. ASSUME NEW f \in DOMAIN scope.drafts, NEW draft \in scope.drafts[f],
             NEW type \in Given(f, draft), NEW wants \in Wants(f, type),
             Undertake(f, type, draft, wants)
      PROVE  LedgerInv'
  BY <1>3, UndertakeKeeps
<1>4. ASSUME NEW c \in commands, LookUp(c) \/ Store(c) \/ GiveUp(c)
      PROVE  LedgerInv'
  BY <1>4, LookUpKeeps, StoreKeeps, GiveUpKeeps
<1>5. CASE UNCHANGED ledgerVars
  <2>1. CommandsInv'
    BY <1>5, GroundedStays DEF ledgerVars, LedgerInv, CommandsInv
  <2> QED BY <1>5, <2>1
          DEF ledgerVars, LedgerInv, RawInv, LocalInv, PromotedInv, PaymentInv, Promotable, In
<1> QED BY <1>1, <1>2, <1>3, <1>4, <1>5 DEF LedgerNext

\* The layers are sound in every state.
LEMMA LedgerInductive == LedgerSpec => []LedgerInv
BY InitLedger, LedgerStep, PTL DEF LedgerSpec

\* Whatever is staged, promoted and commanded in whatever order, there is one row
\* per identity in every layer (apply_rows), for any tables, families and worlds.
THEOREM LedgerTypeCorrect == LedgerSpec => []LedgerTypeOK
BY LedgerInductive, LedgerTyped, PTL

-----------------------------------------------------------------------------
(***************************************************************************)
(* The reads on suppliers, tenders and splits.                             *)
(***************************************************************************)

\* The layers of these families have one row per identity.
LEMMA ProcurementFacts ==
  ASSUME LedgerInv, HasProcurement
  PROVE  /\ \A t \in {"supplier", "tender", "split"} :
              t \in Families /\ t \in Tables /\ TableOf[t] = t
         /\ \A t \in {"supplier", "tender", "split"} : OnceEach(raw[t]) /\ OnceEach(local[t])
<1>1. \A t \in {"supplier", "tender", "split"} :
        t \in (Separate \cup Merged) \cap Families /\ TableOf[t] = t
  BY DEF HasProcurement, Merged, TableOf
<1>2. \A t \in {"supplier", "tender", "split"} : t \in Tables
  BY <1>1, LedgerAssumption
<1> QED BY <1>1, <1>2 DEF LedgerInv, RawInv, LocalInv

\* Where a row of the list of suppliers comes from.
LEMMA SupplierRows ==
  ASSUME NEW x \in Suppliers
  PROVE  \/ \E s \in raw["supplier"] : /\ Stored("supplier", s.id) = {}
              /\ x = [id |-> s.id, kind |-> "imported", state |-> "active",
                      eval |-> IF s.barred THEN "unqualified" ELSE "qualified"]
         \/ \E l \in local["supplier"] :
              x = [id |-> l.id, kind |-> "command", state |-> l.state,
                   eval |-> Evaluation(l)]
<1>1. TableOf["supplier"] = "supplier"
  BY DEF TableOf
<1> QED BY <1>1 DEF Suppliers, Projected

\* A supplier is listed once: a local revision hides the row it is of.
LEMMA SuppliersOnce ==
  ASSUME LedgerInv, HasProcurement
  PROVE  OnceEach(Suppliers)
<1>1. OnceEach(raw["supplier"]) /\ OnceEach(local["supplier"]) /\ TableOf["supplier"] = "supplier"
  BY ProcurementFacts
<1>2. ASSUME NEW x \in Suppliers
      PROVE  \/ \E s \in raw["supplier"] : /\ Stored("supplier", s.id) = {}
                  /\ x = [id |-> s.id, kind |-> "imported", state |-> "active",
                          eval |-> IF s.barred THEN "unqualified" ELSE "qualified"]
             \/ \E l \in local["supplier"] :
                  x = [id |-> l.id, kind |-> "command", state |-> l.state,
                       eval |-> Evaluation(l)]
  BY <1>2, SupplierRows
<1>3. SUFFICES ASSUME NEW x \in Suppliers, NEW y \in Suppliers, x.id = y.id PROVE x = y
  BY DEF OnceEach
<1>4. CASE \E l \in local["supplier"] : 
             x = [id |-> l.id, kind |-> "command", state |-> l.state, eval |-> Evaluation(l)]
  <2>1. PICK l \in local["supplier"] :
               x = [id |-> l.id, kind |-> "command", state |-> l.state, eval |-> Evaluation(l)]
    BY <1>4
  <2>2. x.id = l.id /\ l \in Stored("supplier", y.id)
    BY <1>3, <2>1 DEF Stored
  <2>3. ~\E s \in raw["supplier"] : Stored("supplier", s.id) = {} /\ y.id = s.id
    BY <2>2
  <2>4. PICK k \in local["supplier"] :
               y = [id |-> k.id, kind |-> "command", state |-> k.state, eval |-> Evaluation(k)]
    BY <1>2, <2>3
  <2>5. k = l
    BY <1>1, <1>3, <2>2, <2>4 DEF OnceEach
  <2> QED BY <2>1, <2>4, <2>5
<1>5. CASE ~\E l \in local["supplier"] : 
             x = [id |-> l.id, kind |-> "command", state |-> l.state, eval |-> Evaluation(l)]
  <2>1. PICK s \in raw["supplier"] : /\ Stored("supplier", s.id) = {}
               /\ x = [id |-> s.id, kind |-> "imported", state |-> "active",
                       eval |-> IF s.barred THEN "unqualified" ELSE "qualified"]
    BY <1>2, <1>5
  <2>2. ~\E l \in local["supplier"] : l.id = y.id
    BY <1>3, <2>1 DEF Stored
  <2>3. PICK q \in raw["supplier"] : 
               y = [id |-> q.id, kind |-> "imported", state |-> "active",
                    eval |-> IF q.barred THEN "unqualified" ELSE "qualified"]
    BY <1>2, <2>2
  <2>4. q = s
    BY <1>1, <1>3, <2>1, <2>3 DEF OnceEach
  <2> QED BY <2>1, <2>3, <2>4
<1> QED BY <1>4, <1>5

\* So are tenders and splits.
LEMMA ListedOnce ==
  ASSUME LedgerInv, HasProcurement
  PROVE  ProcurementListedOnce
<1>1. OnceEach(local["tender"]) /\ OnceEach(local["split"])
      /\ TableOf["tender"] = "tender" /\ TableOf["split"] = "split"
  BY ProcurementFacts
<1>2. OnceEach(Tenders)
  BY <1>1 DEF Tenders, Projected, Kept, Stored, OnceEach
<1>3. OnceEach(ContractSplits(NoFilter))
  BY <1>1 DEF ContractSplits, Projected, Stored, OnceEach, Fits
<1>4. Tenders \subseteq SourceTenders(NoFilter, NoFilter)
  BY <1>1 DEF Tenders, SourceTenders, Projected, Kept, Fits
<1>5. ContractSplits(NoFilter) \subseteq SourceSplits(NoFilter, NoFilter)
  BY <1>1 DEF ContractSplits, SourceSplits, Projected, Fits
<1> QED BY <1>2, <1>3, <1>4, <1>5, SuppliersOnce DEF ProcurementListedOnce

\* Each read matches contracts more widely than the list does.
LEMMA PagesAgree == SupplierPagesAgree
<1>1. \A s \in Live("supplier") : ListMatches(s) \subseteq PageMatches(s)
  BY DEF ListMatches, PageMatches
<1>2. ASSUME NEW id \in KnownSuppliers, NEW p \in SupplierPage(id)
      PROVE  \E r \in SupplierList : /\ r.id = id /\ r.kind = p.kind
                                     /\ r.contracts \subseteq p.contracts
  <2>1. CASE {s \in Live("supplier") : s.id = id} # {}
    <3>1. PICK s \in Live("supplier") : s.id = id /\ p = [kind |-> "imported", contracts |-> PageMatches(s)]
      BY <1>2, <2>1 DEF SupplierPage
    <3>2. [id |-> s.id, kind |-> "imported", contracts |-> ListMatches(s)] \in SupplierList
      BY <3>1 DEF SupplierList
    <3> QED BY <1>1, <3>1, <3>2
  <2>2. CASE {s \in Live("supplier") : s.id = id} = {}
    <3>1. PICK l \in local.supplier :
            l.id = id /\ Enabled(l) /\ p = [kind |-> "command", contracts |-> {}]
      BY <1>2, <2>2 DEF SupplierPage, Stored
    <3>2. [id |-> l.id, kind |-> "command", contracts |-> {}] \in SupplierList
      BY <3>1 DEF SupplierList, Enabled, Kept
    <3> QED BY <3>1, <3>2
  <2> QED BY <2>1, <2>2
<1>3. ASSUME NEW r \in SupplierList, r.kind = "imported"
      PROVE  /\ SupplierPage(r.id) # {}
             /\ r.contracts # {} => \E a \in SupplierAnalysis :
                  a.id = r.id /\ r.contracts \subseteq a.contracts
  <2>1. PICK s \in Live("supplier") :
          r = [id |-> s.id, kind |-> "imported", contracts |-> ListMatches(s)]
    BY <1>3 DEF SupplierList
  <2>2. SupplierPage(r.id) # {}
    BY <2>1 DEF SupplierPage
  <2>3. PICK of : of = {c \in raw.contract :
                          c.supplier = s.name \/ (s.short # "" /\ Mentions(s.short, c.supplier))}
    OBVIOUS
  <2>4. ListMatches(s) \subseteq of
    BY <2>3 DEF ListMatches, Live
  <2>5. of # {} => [id |-> s.id, contracts |-> of] \in SupplierAnalysis
    BY <2>1, <2>3 DEF SupplierAnalysis, Live
  <2> QED BY <2>1, <2>2, <2>4, <2>5
<1>4. ASSUME NEW r \in SupplierStats
      PROVE  \E p \in SupplierPage(r.id) : r.contracts = p.contracts
  <2>1. PICK s \in Live("supplier") : r = [id |-> s.id, contracts |-> PageMatches(s)]
    BY <1>4 DEF SupplierStats, CountedSuppliers
  <2>2. [kind |-> "imported", contracts |-> PageMatches(s)] \in SupplierPage(r.id)
    BY <2>1 DEF SupplierPage
  <2> QED BY <2>1, <2>2
<1> QED BY <1>2, <1>3, <1>4 DEF SupplierPagesAgree

\* What an aggregate that a check of signing answers for looks like in the reads.
Checked(id, s) ==
  /\ s \in Suppliers /\ s.id = id /\ s.kind = "command" /\ s.state # "voided"
  /\ s.state = "blacklisted" => Rating(s) = "E"
  /\ SignCheck(id) = IF Rating(s) = "E" THEN "refused"
                     ELSE IF Rating(s) = "D" THEN "extra approval" ELSE "allowed"

\* A check that answers has looked at such an aggregate.
LEMMA SignedFacts ==
  ASSUME NEW id, SignCheck(id) \notin {"gated", NotFound}
  PROVE  /\ ~\E s \in Live("supplier") : s.id = id
         /\ \E s : Checked(id, s)
<1>1. ~\E s \in Live("supplier") : s.id = id
  BY DEF SignCheck
<1>2. PICK found : found = {s \in Suppliers : s.id = id /\ s.kind = "command" /\ s.state # "voided"}
  OBVIOUS
<1>3. found # {}
  BY <1>1, <1>2 DEF SignCheck
<1>4. PICK s : s = CHOOSE x \in found : TRUE
  OBVIOUS
<1>5. s \in found
  BY <1>3, <1>4
<1>6. SignCheck(id) = CASE s.state = "blacklisted" \/ Rating(s) = "E" -> "refused"
                        [] Rating(s) = "D" -> "extra approval"
                        [] OTHER -> "allowed"
  BY <1>1, <1>2, <1>3, <1>4 DEF SignCheck
<1>7. s.state = "blacklisted" => Rating(s) = "E"
  BY DEF Rating
<1>8. SignCheck(id) = IF Rating(s) = "E" THEN "refused"
                     ELSE IF Rating(s) = "D" THEN "extra approval" ELSE "allowed"
  BY <1>6, <1>7
<1>9. Checked(id, s)
  BY <1>2, <1>5, <1>7, <1>8 DEF Checked
<1> QED BY <1>1, <1>9

\* Whoever is of high risk is on the board of high risks.
LEMMA RiskFacts ==
  ASSUME LedgerInv, HasProcurement, NEW id, SourceRisk(id) \in {"D", "E"}
  PROVE  \E s \in SourceRiskBoard : s.id = id
<1>1. PICK s \in Live("supplier") : s.id = id
  BY DEF SourceRisk, NotFound
<1>2. OnceEach(raw["supplier"])
  BY ProcurementFacts
<1>3. Row("supplier", id) = s
  BY <1>1, <1>2 DEF Row, Live, OnceEach
<1>4. SourceRating(s) \in {"D", "E"}
  BY <1>1, <1>3 DEF SourceRisk
<1> QED BY <1>1, <1>4 DEF SourceRiskBoard

\* The check of signing and the risk reads look at the same aggregate.
LEMMA RiskStops ==
  ASSUME LedgerInv, HasProcurement
  PROVE  RiskStopsSigning
<1> SUFFICES
      ASSUME NEW id \in KnownSuppliers
      PROVE  /\ SourceRisk(id) \in {"D", "E"} => \E s \in SourceRiskBoard : s.id = id
             /\ SignCheck(id) = "refused" => [id |-> id, rating |-> "E"] \in RiskBoard
             /\ SignCheck(id) \in {"allowed", "extra approval"} =>
                  /\ SourceRisk(id) = NotFound
                  /\ [id |-> id, rating |-> "E"] \notin RiskBoard
                  /\ ~\E s \in local.supplier :
                        /\ s.id = id
                        /\ \/ s.state \in {"blacklisted", "voided"}
                           \/ s.state = "suspended" /\ s.verdict = "unqualified"
  BY Zenon DEF RiskStopsSigning
<1>1. ASSUME SignCheck(id) = "refused"
      PROVE  [id |-> id, rating |-> "E"] \in RiskBoard
  <2>1. PICK s : Checked(id, s)
    BY <1>1, SignedFacts DEF NotFound
  <2>2. s \in Suppliers /\ s.id = id /\ Rating(s) = "E"
    BY <1>1, <2>1 DEF Checked
  <2> QED BY <2>2 DEF RiskBoard
<1>2. ASSUME SignCheck(id) \in {"allowed", "extra approval"}
      PROVE  /\ SourceRisk(id) = NotFound
             /\ [id |-> id, rating |-> "E"] \notin RiskBoard
             /\ ~\E s \in local.supplier :
                   /\ s.id = id
                   /\ \/ s.state \in {"blacklisted", "voided"}
                      \/ s.state = "suspended" /\ s.verdict = "unqualified"
  <2>1. ~\E s \in Live("supplier") : s.id = id
    BY <1>2, SignedFacts DEF NotFound
  <2>0. PICK s : Checked(id, s)
    BY <1>2, SignedFacts DEF NotFound
  <2>2. /\ s \in Suppliers /\ s.id = id /\ s.kind = "command" /\ s.state # "voided"
        /\ s.state # "blacklisted" /\ Rating(s) # "E"
    BY <1>2, <2>0 DEF Checked
  <2>3. \A x \in Suppliers : x.id = id => x = s
    BY <2>2, SuppliersOnce DEF OnceEach
  <2>4. [id |-> id, rating |-> "E"] \notin RiskBoard
    BY <2>2, <2>3 DEF RiskBoard
  <2>5. ASSUME NEW l \in local.supplier, l.id = id
        PROVE  ~(\/ l.state \in {"blacklisted", "voided"}
                 \/ l.state = "suspended" /\ l.verdict = "unqualified")
    <3>1. PICK x : x = [id |-> l.id, kind |-> "command", state |-> l.state,
                        eval |-> Evaluation(l)]
      OBVIOUS
    <3>2. x \in Suppliers /\ x.id = id /\ x.state = l.state /\ x.eval = Evaluation(l)
      BY <2>5, <3>1 DEF Suppliers
    <3>3. x = s
      BY <2>3, <3>2
    <3>4. ~(s.state = "suspended" /\ s.eval = "unqualified")
      BY <2>2 DEF Rating
    <3> QED BY <2>2, <3>2, <3>3, <3>4 DEF Evaluation
  <2> QED BY <2>1, <2>4, <2>5 DEF SourceRisk
<1>3. ASSUME SourceRisk(id) \in {"D", "E"}
      PROVE  \E s \in SourceRiskBoard : s.id = id
  BY <1>3, RiskFacts
<1> QED BY <1>1, <1>2, <1>3

\* The reads on suppliers, tenders and splits agree, and no supplier may be signed
\* with that another of them holds at risk (supplier_source_check_sign_boundary),
\* whatever is staged, promoted and commanded in whatever order.
THEOREM SuppliersAgreeHolds ==
  ASSUME HasProcurement
  PROVE  LedgerSpec => []SuppliersAgree
<1>1. LedgerInv => SuppliersAgree
  BY ListedOnce, PagesAgree, RiskStops DEF SuppliersAgree
<1> QED BY <1>1, LedgerInductive, PTL

\* A command that has found a barred supplier leaves a barred one.
LEMMA BarredStates ==
  ASSUME NEW type, NEW wants, NEW state \in Barred, Rechecks("supplier", type, state)
  PROVE  Leaves("supplier", type, state, wants) \in Barred
<1>1. Rechecks("supplier", type, state) <=> SupplierRechecks(type, state)
  BY DEF Rechecks, SalesFamilies, MarketingFamilies, DeliveryFamilies, FundFamilies
<1>2. Leaves("supplier", type, state, wants) = SupplierLeaves(type, state, wants = "qualified")
  BY DEF Leaves, SalesFamilies, MarketingFamilies, DeliveryFamilies, FundFamilies
<1>3. type \in {"update", "blacklist", "void"}
  BY <1>1 DEF SupplierRechecks, SupplierAdmits, Absent, Barred
<1> QED BY <1>2, <1>3 DEF SupplierLeaves, Barred

\* The creation of a supplier inserts at the first number; the other commands that
\* have found none leave none.
LEMMA BarredUnfound ==
  ASSUME NEW c, Grounded(c), c.family = "supplier", c.basis = {}, Result(c) # {}
  PROVE  Fixed(c)
<1>1. c.type \in SupplierTypes
  BY DEF Grounded, Types, SalesFamilies, MarketingFamilies, DeliveryFamilies, FundFamilies
<1>2. c.type = "create"
  BY <1>1 DEF Result, Merged, SupplierTypes
<1>3. Txn(c.family, c.type) = FirstTxn
  BY <1>2 DEF Txn, SupplierTxn, SalesFamilies, MarketingFamilies, DeliveryFamilies, FundFamilies
<1>4. ~ Contains(FirstTxn, "number")
  BY DEF Contains, FirstTxn
<1> QED BY <1>3, <1>4 DEF Fixed, Takes

\* A revision that is not barred is made of one that is not, or where there is none.
LEMMA BarredMade ==
  ASSUME NEW c, Grounded(c), c.read, c.family = "supplier",
         NEW n \in Result(c), n.state \notin Barred, ~\E l \in c.basis : l.state \notin Barred
  PROVE  Fixed(c) /\ c.basis = {}
<1>1. PICK l : Makes(c, l, n)
  BY ResultFacts
<1>2. c.basis = {}
  <2> SUFFICES ASSUME c.basis # {} PROVE FALSE
    OBVIOUS
  <2>1. Found(c) \in Barred
    BY FoundFacts
  <2>2. Rechecks("supplier", c.type, Found(c))
    BY DEF Grounded
  <2>3. PICK state \in Barred : state = Found(c)
    BY <2>1
  <2>4. Leaves("supplier", c.type, state, c.wants) \in Barred
    BY <2>2, <2>3, BarredStates
  <2>5. n.state = Leaves("supplier", c.type, state, c.wants)
    BY <1>1, <2>3 DEF Makes
  <2> QED BY <2>4, <2>5
<1> QED BY <1>2, BarredUnfound

\* A supplier that may be signed with has a latest revision, and not a barred one.
SignedStored(id) ==
  SignCheck(id) \in {"allowed", "extra approval"} =>
    \E l \in local["supplier"] : l.id = id /\ l.state \notin Barred

\* That is so in every state,
LEMMA SignedIsStored == ASSUME NEW CONSTANT id PROVE SignedStored(id)
<1> SUFFICES ASSUME SignCheck(id) \in {"allowed", "extra approval"}
             PROVE  \E l \in local["supplier"] :
                       l.id = id /\ l.state \notin Barred
  BY DEF SignedStored
<1>1. PICK s : Checked(id, s)
  BY SignedFacts DEF NotFound
<1>2. s \in Suppliers /\ s.id = id /\ s.kind = "command" /\ s.state \notin Barred
  BY <1>1 DEF Checked, Barred
<1>3. PICK x \in Suppliers : x = s
  BY <1>2
<1>4. \/ \E q \in raw["supplier"] : /\ Stored("supplier", q.id) = {}
           /\ x = [id |-> q.id, kind |-> "imported", state |-> "active",
                   eval |-> IF q.barred THEN "unqualified" ELSE "qualified"]
      \/ \E l \in local["supplier"] :
           x = [id |-> l.id, kind |-> "command", state |-> l.state, eval |-> Evaluation(l)]
  BY SupplierRows
<1>5. ASSUME NEW q, x = [id |-> q.id, kind |-> "imported", state |-> "active",
                         eval |-> IF q.barred THEN "unqualified" ELSE "qualified"]
      PROVE  FALSE
  <2>1. x.kind = "imported"
    BY <1>5
  <2>2. x.kind = "command"
    BY <1>2, <1>3
  <2> QED BY <2>1, <2>2
<1>6. PICK l \in local["supplier"] :
        x = [id |-> l.id, kind |-> "command", state |-> l.state, eval |-> Evaluation(l)]
  BY <1>4, <1>5
<1>7. l.id = x.id /\ l.state = x.state
  BY <1>6
<1> QED BY <1>2, <1>3, <1>7

\* and in the next one.
LEMMA SignedNext == ASSUME NEW CONSTANT id PROVE SignedStored(id)'
<1>1. SignedStored(id)
  BY SignedIsStored
<1> QED BY <1>1, PTL

\* A record's state is that of its one latest revision.
LEMMA StoredState ==
  ASSUME LedgerInv, NEW f \in Families, NEW l \in local[f]
  PROVE  StateOf(f, l.id) = l.state
<1>1. Stored(f, l.id) = {l}
  BY DEF LedgerInv, LocalInv, OnceEach, Stored
<1> QED BY <1>1 DEF StateOf

Unbarred(id) ==
  \E c \in commands \ commands' :
    /\ c.family = "supplier" /\ c.draft.id = id
    /\ \E l \in c.basis : l.state \notin Barred

StaysBarred(id) ==
  StateOf("supplier", id) \in Barred /\ SignCheck(id)' \in {"allowed", "extra approval"} =>
    Unbarred(id)

\* No step makes a barred supplier one that may be signed with, but the store of a
\* command that found it unbarred.
LEMMA BarredStep ==
  ASSUME LedgerInv, LedgerInv', HasProcurement, [LedgerNext]_ledgerVars, NEW CONSTANT id
  PROVE  StaysBarred(id)
<1>1. "supplier" \in Families
  BY DEF HasProcurement
<1>2. SUFFICES ASSUME StateOf("supplier", id) \in Barred,
                      SignCheck(id)' \in {"allowed", "extra approval"}, ~ Unbarred(id)
               PROVE  FALSE
  BY DEF StaysBarred
<1>3. \E l \in local'["supplier"] : l.id = id /\ l.state \notin Barred
  <2>1. SignedStored(id)'
    BY SignedNext
  <2> QED BY <1>2, <2>1 DEF SignedStored
<1>4. PICK l \in local'["supplier"] : l.id = id /\ l.state \notin Barred
  BY <1>3
<1>5. l \notin local["supplier"] /\ local' # local
  BY <1>1, <1>2, <1>4, StoredState
<1>6. ASSUME NEW f \in DOMAIN promoted \cap DOMAIN scope.drafts, NEW row \in raw[TableOf[f]],
             Promote(f, row.id)
      PROVE  FALSE
  BY <1>1, <1>4, <1>5, <1>6, PromoteKeeps
<1>7. ASSUME NEW c \in commands, Store(c)
      PROVE  FALSE
  <2>1. /\ \A g \in Families : g # c.family => local'[g] = local[g]
        /\ local'[c.family] = (local[c.family] \ Stored(c.family, c.draft.id)) \cup Result(c)
        /\ commands' = commands \ {c} /\ Grounded(c) /\ c.read /\ (Fixed(c) => Unmoved(c))
    BY <1>7, StoreFacts
  <2>2. c.family = "supplier"
    BY <1>1, <1>4, <1>5, <2>1
  <2>3. l \in Result(c)
    BY <1>4, <1>5, <2>1, <2>2
  <2>4. c.draft.id = id
    BY <1>4, <2>1, <2>3, ResultFacts
  <2>5. ~\E k \in c.basis : k.state \notin Barred
    BY <1>2, <2>1, <2>2, <2>4 DEF Unbarred
  <2>6. Fixed(c) /\ c.basis = {}
    BY <1>4, <2>1, <2>2, <2>3, <2>5, BarredMade
  <2>7. Stored("supplier", id) = {}
    BY <2>1, <2>2, <2>4, <2>6 DEF Unmoved
  <2>8. StateOf("supplier", id) = Absent
    BY <2>7 DEF StateOf
  <2> QED BY <1>2, <2>8 DEF Absent, Barred
<1>8. ASSUME NEW t \in DOMAIN scope.imports, NEW row \in scope.imports[t], Import(t, row)
      PROVE  FALSE
  BY <1>5, <1>8 DEF Import
<1>9. ASSUME NEW f \in DOMAIN scope.drafts, NEW draft \in scope.drafts[f],
             NEW type \in Given(f, draft), NEW wants \in Wants(f, type),
             Undertake(f, type, draft, wants)
      PROVE  FALSE
  BY <1>5, <1>9 DEF Undertake
<1>10. ASSUME NEW c \in commands, LookUp(c) \/ GiveUp(c)
       PROVE  FALSE
  BY <1>5, <1>10 DEF LookUp, GiveUp
<1>11. CASE UNCHANGED ledgerVars
  BY <1>5, <1>11 DEF ledgerVars
<1> QED BY <1>6, <1>7, <1>8, <1>9, <1>10, <1>11 DEF LedgerNext

\* A supplier once blacklisted or voided is again one that a contract may be signed
\* with (supplier_source_check_sign_boundary) only by a command that read it before
\* and stores its revision after, as supplier_command lets it: no command that
\* looked at it since takes the verdict back, and no import that takes the record
\* over makes it a local one.
THEOREM BarredStaysBarredHolds ==
  ASSUME HasProcurement
  PROVE  LedgerSpec => BarredStaysBarred
<1>1. ASSUME LedgerInv, LedgerInv', [LedgerNext]_ledgerVars
      PROVE  [\A id \in KnownSuppliers :
                /\ StateOf("supplier", id) \in Barred
                /\ SignCheck(id)' \in {"allowed", "extra approval"}
                => \E c \in commands \ commands' :
                     /\ c.family = "supplier" /\ c.draft.id = id
                     /\ \E l \in c.basis : l.state \notin Barred]_ledgerVars
  <2>1. \A id \in KnownSuppliers : StaysBarred(id)
    BY <1>1, BarredStep
  <2> QED BY <2>1 DEF StaysBarred, Unbarred
<1> QED BY <1>1, LedgerInductive, PTL DEF BarredStaysBarred, LedgerSpec

-----------------------------------------------------------------------------
(***************************************************************************)
(* The reads on contracts, their milestones and applications.              *)
(***************************************************************************)

\* What the reads on spending find in the layers.
LEMMA SpendingFacts ==
  ASSUME LedgerInv, HasSpending
  PROVE  /\ TableOf["contract"] = "contract" /\ TableOf["payment"] = "apply"
         /\ TableOf["milestone"] = "plan"
         /\ OnceEach(raw["contract"]) /\ OnceEach(raw["apply"]) /\ OnceEach(raw["plan"])
         /\ IsFiniteSet(raw["apply"])
         /\ OnceEach(local["contract"]) /\ OnceEach(local["payment"])
         /\ \A l \in local["payment"] : l.state \in PaymentStates
         /\ \A m \in Projected("milestone") : In("contract", m.contract) /\ m.planned \in Int
         /\ \A a \in raw["apply"] : a.apply \in {"draft", "approving", "approved", "rejected"}
         /\ \A l \in local["milestone"] : IsRow(l) /\ "contract" \in DOMAIN l
<1>1. /\ TableOf["contract"] = "contract" /\ TableOf["payment"] = "apply"
      /\ TableOf["milestone"] = "plan"
  BY DEF TableOf
<1>2. /\ {"contract", "payment", "milestone"} \subseteq Families
      /\ {"contract", "payment", "milestone"} \subseteq Separate
      /\ {"contract", "apply", "plan"} \subseteq Tables
  <2>1. \A f \in {"contract", "payment", "milestone"} : f \in (Separate \cup Merged) \cap Families
    BY DEF HasSpending, Separate
  <2> QED BY <1>1, <2>1, LedgerAssumption DEF Separate
<1>3. /\ OnceEach(raw["contract"]) /\ OnceEach(raw["apply"]) /\ OnceEach(raw["plan"])
      /\ IsFiniteSet(raw["apply"])
      /\ OnceEach(local["contract"]) /\ OnceEach(local["payment"])
  BY <1>2 DEF LedgerInv, RawInv, LocalInv
<1>4. \A l \in local["payment"] : l.state \in PaymentStates
  BY <1>2 DEF LedgerInv, PaymentInv
<1>5. \A a \in raw["apply"] : a.apply \in {"draft", "approving", "approved", "rejected"}
  BY <1>2 DEF LedgerInv, RawInv, HasSpending
<1>6. \A l \in local["milestone"] : IsRow(l) /\ "contract" \in DOMAIN l
  BY <1>2 DEF LedgerInv, LocalInv, HasSpending
<1>7. ASSUME NEW m \in Projected("milestone")
      PROVE  In("contract", m.contract) /\ m.planned \in Int
  <2>1. m \in raw["plan"] /\ m.id \in promoted["milestone"] /\ "milestone" \in DOMAIN promoted
    BY <1>1, <1>2, <1>7 DEF Projected, LedgerInv, PromotedInv
  <2>2. In("contract", m.contract)
    BY <1>1, <2>1 DEF LedgerInv, PromotedInv, Promotable
  <2>3. m.planned \in Int
    BY <1>2, <2>1 DEF LedgerInv, RawInv, HasSpending
  <2> QED BY <2>2, <2>3
<1> QED BY <1>1, <1>3, <1>4, <1>5, <1>6, <1>7

\* Local rows laid over imported ones name each identity once.
LEMMA OverlayOnce ==
  ASSUME NEW base, NEW top, OnceEach(base), OnceEach(top)
  PROVE  OnceEach(Overlay(base, top))
BY DEF OnceEach, Overlay, Ids

\* So do the lists of contracts and applications.
LEMMA SpendingOnce ==
  ASSUME LedgerInv, HasSpending
  PROVE  SpendingListedOnce
<1>1. /\ TableOf["payment"] = "apply" /\ OnceEach(raw["apply"])
      /\ OnceEach(local["contract"]) /\ OnceEach(local["payment"])
  BY SpendingFacts
<1>2. OnceEach(Contracts)
  <2>1. OnceEach({[id |-> c, kind |-> "imported", state |-> "active"] : c \in promoted.contract})
    BY DEF OnceEach
  <2>2. OnceEach({[id |-> l.id, kind |-> "command", state |-> l.state] :
                    l \in Kept("contract", {"deleted"})})
    BY <1>1 DEF OnceEach, Kept
  <2> QED BY <2>1, <2>2, OverlayOnce DEF Contracts
<1>3. OnceEach(Applications)
  <2>1. OnceEach({[id |-> a.id, kind |-> "imported", contract |-> a.contract,
                   state |-> OperationState(a)] : a \in Projected("payment")})
    BY <1>1 DEF OnceEach, Projected
  <2>2. OnceEach({[id |-> l.id, kind |-> "command", contract |-> l.contract,
                   state |-> l.state] : l \in local.payment})
    BY <1>1 DEF OnceEach
  <2> QED BY <2>1, <2>2, OverlayOnce DEF Applications
<1>4. PaymentApplications("all") \subseteq Applications
  BY DEF PaymentApplications
<1>5. OnceEach(PaymentApplications("all"))
  BY <1>3, <1>4 DEF OnceEach
<1> QED BY <1>2, <1>5 DEF SpendingListedOnce

\* What the page counts as paid counts against what was planned.
LEMMA PaidCountsHold ==
  ASSUME LedgerInv, HasSpending
  PROVE  PaidCounts
<1>1. SUFFICES ASSUME NEW c, NEW m \in Projected("milestone"), NEW p \in ContractPage(c),
                      m.planned > 0, Cardinality({a \in p.paid : a.plan = m.id}) >= m.planned
               PROVE  "over" \in Eligibility(m.id, 1)
  BY DEF PaidCounts
<1>2. /\ OnceEach(raw["plan"]) /\ IsFiniteSet(raw["apply"]) /\ m.planned \in Int
      /\ TableOf["milestone"] = "plan"
  BY SpendingFacts
<1>3. m.id \in promoted.milestone /\ m \in raw["plan"]
  BY <1>2 DEF Projected
<1>4. Row("plan", m.id) = m
  BY <1>2, <1>3 DEF Row, OnceEach
<1>5. PICK paid, counted : /\ paid = {a \in p.paid : a.plan = m.id}
                           /\ counted = Counted(m.id)
  OBVIOUS
<1>6. p.paid \subseteq {a \in raw.apply : a.pay \in PaidStates}
  BY <1>1 DEF ContractPage, Page
<1>7. paid \subseteq counted /\ counted \subseteq raw["apply"]
  BY <1>5, <1>6 DEF Counted
<1>8. IsFiniteSet(counted) /\ Cardinality(counted) \in Nat
      /\ Cardinality(paid) \in Nat /\ Cardinality(paid) =< Cardinality(counted)
  BY <1>2, <1>7, FS_Subset, FS_CardinalityType
<1>9. Cardinality(Counted(m.id)) + 1 > m.planned
  BY <1>1, <1>2, <1>5, <1>8
<1> QED BY <1>1, <1>3, <1>4, <1>9 DEF Eligibility

\* A row with its kind has what the row had.
LEMMA KindedFacts ==
  ASSUME NEW r, IsRow(r), NEW kind
  PROVE  /\ Kinded(r, kind).kind = kind
         /\ \A x \in DOMAIN r : Kinded(r, kind)[x] = r[x]
<1>1. PICK n : n = Kinded(r, kind)
  OBVIOUS
<1>2. n["kind"] = kind /\ \A x \in DOMAIN r : n[x] = r[x]
  BY <1>1 DEF Kinded, IsRow
<1> QED BY <1>1, <1>2

\* The milestones of a contract that commands wrote are on its page.
LEMMA CommandedMilestones ==
  ASSUME LedgerInv, HasSpending, NEW c, NEW m \in ContractMilestones(c), m.kind = "command"
  PROVE  \E k \in MilestonesOf(c) : k.kind = "command" /\ k.id = m.id
<1>1. TableOf["milestone"] = "plan" /\ \A l \in local["milestone"] : IsRow(l) /\ "contract" \in DOMAIN l
  BY SpendingFacts
<1>2. \A r \in raw["plan"] : IsRow(r)
  <2>1. "milestone" \in (Separate \cup Merged) \cap Families
    BY DEF HasSpending, Separate
  <2>2. "plan" \in Tables
    BY <1>1, <2>1, LedgerAssumption
  <2> QED BY <2>2, ScopeFacts DEF LedgerInv, RawInv
<1>3. m \notin Imported(Projected("milestone"))
  <2>1. ASSUME NEW r \in raw["plan"], m = Kinded(r, "imported")
        PROVE  FALSE
    <3>1. m.kind = "imported"
      BY <1>2, <2>1, KindedFacts
    <3>2. "imported" # "command"
      OBVIOUS
    <3> QED BY <3>1, <3>2
  <2> QED BY <1>1, <2>1 DEF Imported, Named, Projected, Kinded
<1>4. PICK l \in Kept("milestone", {"deleted"}) : m = Kinded(l, "command") /\ m.contract = c
  BY <1>3 DEF ContractMilestones, Commanded, Named, Kinded
<1>5. l \in local["milestone"]
  BY <1>4 DEF Kept
<1>6. IsRow(l) /\ "contract" \in DOMAIN l /\ "id" \in DOMAIN l
  BY <1>1, <1>5 DEF IsRow
<1>7. m.id = l.id /\ l.contract = c
  <2>1. \A x \in DOMAIN l : m[x] = l[x]
    BY <1>4, <1>6, KindedFacts
  <2> QED BY <1>4, <1>6, <2>1
<1>8. PICK k : k = [id |-> l.id, kind |-> "command", contract |-> l.contract]
  OBVIOUS
<1>9. k \in LatestMilestones({"deleted"}) /\ k.contract = c /\ k.kind = "command" /\ k.id = m.id
  BY <1>4, <1>7, <1>8 DEF LatestMilestones
<1> QED BY <1>9 DEF MilestonesOf

\* The list of contracts and the page of one agree.
LEMMA ContractPages ==
  ASSUME LedgerInv, HasSpending
  PROVE  ContractPagesAgree
<1> SUFFICES
      ASSUME NEW c
      PROVE  /\ c \in Ids(SourceContracts(NoFilter)) <=> ContractPage(c) # {}
             /\ \A p \in ContractPage(c) :
                  /\ \E r \in SourceContracts(NoFilter) :
                       /\ r.id = c /\ r.kind = p.kind
                       /\ r.milestones \subseteq p.milestones
                  /\ p.paid \subseteq SourceRow([id |-> c]).paid
                  /\ p.kind = "imported" =>
                       {a \in ContractPaid(c) : a.unit = Row("contract", c).unit} \subseteq p.paid
                  /\ Ids({m \in ContractMilestones(c) : m.kind = "command"}) \subseteq
                       Ids(p.milestones)
  BY DEF ContractPagesAgree
<1>1. OnceEach(raw["contract"]) /\ TableOf["milestone"] = "plan"
      /\ \A m \in Projected("milestone") : In("contract", m.contract)
  BY SpendingFacts
<1>2. SourceContracts(NoFilter) =
        {SourceRow(r) : r \in raw["contract"]}
          \cup {CommandRow(d) : d \in {e \in Contracts : e.kind = "command"}}
  BY DEF SourceContracts, Fits
<1>3. \A r : SourceRow(r).id = r.id /\ CommandRow(r).id = r.id
  BY DEF SourceRow, CommandRow
<1>4. c \in Ids(SourceContracts(NoFilter)) <=>
        In("contract", c) \/ \E d \in Contracts : d.id = c /\ d.kind = "command"
  BY <1>2, <1>3 DEF Ids, In
<1>5. c \in Ids(SourceContracts(NoFilter)) <=> ContractPage(c) # {}
  BY <1>4 DEF ContractPage
<1>6. ASSUME NEW p \in ContractPage(c)
      PROVE  /\ p.paid \subseteq SourceRow([id |-> c]).paid
             /\ {m \in MilestonesOf(c) : m.kind = "command"} \subseteq p.milestones
  BY <1>6 DEF ContractPage, Page, SourceRow
<1>7. ASSUME NEW p \in ContractPage(c)
      PROVE  Ids({m \in ContractMilestones(c) : m.kind = "command"}) \subseteq Ids(p.milestones)
  <2>1. \A m \in ContractMilestones(c) : m.kind = "command" =>
          \E k \in MilestonesOf(c) : k.kind = "command" /\ k.id = m.id
    BY CommandedMilestones
  <2> QED BY <1>6, <1>7, <2>1 DEF Ids
<1>8. CASE In("contract", c)
  <2>1. PICK r \in raw["contract"] : r.id = c
    BY <1>8 DEF In
  <2>2. Row("contract", c) = r
    BY <1>1, <2>1 DEF Row, OnceEach
  <2>3. ASSUME NEW p \in ContractPage(c)
        PROVE  p = Page(c, "imported", r.unit)
    BY <1>8, <2>2, <2>3 DEF ContractPage
  <2>4. ASSUME NEW p \in ContractPage(c)
        PROVE  {a \in ContractPaid(c) : a.unit = Row("contract", c).unit} \subseteq p.paid
    BY <2>2, <2>3, <2>4 DEF Page, ContractPaid, PaidStates
  <2>5. ASSUME NEW p \in ContractPage(c)
        PROVE  \E q \in SourceContracts(NoFilter) :
                 q.id = c /\ q.kind = p.kind /\ q.milestones \subseteq p.milestones
    <3>1. SourceRow(r) \in SourceContracts(NoFilter)
      BY <1>2
    <3>2. p.kind = "imported" /\ SourceRow(r).kind = "imported" /\ SourceRow(r).id = c
      BY <2>1, <2>3, <2>5 DEF Page, SourceRow
    <3>3. SourceRow(r).milestones \subseteq p.milestones
      BY <2>1, <2>3, <2>5 DEF Page, SourceRow
    <3> QED BY <3>1, <3>2, <3>3
  <2> QED BY <1>5, <1>6, <1>7, <2>4, <2>5
<1>9. CASE ~In("contract", c)
  <2>1. ASSUME NEW p \in ContractPage(c)
        PROVE  p = Page(c, "command", NoFilter)
    BY <1>9, <2>1 DEF ContractPage
  <2>2. ASSUME NEW p \in ContractPage(c)
        PROVE  p.kind = "command"
    BY <2>1, <2>2 DEF Page
  <2>3. \A m \in MilestonesOf(c) : m.kind = "command"
    BY <1>1, <1>9 DEF MilestonesOf, LatestMilestones
  <2>4. ASSUME NEW p \in ContractPage(c)
        PROVE  \E q \in SourceContracts(NoFilter) :
                 q.id = c /\ q.kind = p.kind /\ q.milestones \subseteq p.milestones
    <3>1. PICK d \in Contracts : d.id = c /\ d.kind = "command"
      BY <1>9, <2>4 DEF ContractPage
    <3>2. CommandRow(d) \in SourceContracts(NoFilter)
      BY <1>2, <3>1
    <3>3. CommandRow(d).id = c /\ CommandRow(d).kind = "command"
          /\ CommandRow(d).milestones = MilestonesOf(c)
      BY <3>1 DEF CommandRow
    <3> QED BY <1>6, <2>2, <2>3, <2>4, <3>2, <3>3
  <2>5. "command" # "imported"
    OBVIOUS
  <2> QED BY <1>5, <1>6, <1>7, <2>2, <2>4, <2>5
<1> QED BY <1>8, <1>9

\* What a tab of one list holds, the same tab of the other does.
LEMMA TabsHold ==
  ASSUME LedgerInv, HasSpending
  PROVE  TabsAgree
<1>1. SUFFICES ASSUME NEW view \in Views, NEW a \in PaymentApplications(view),
                      NEW x, x = [id |-> a.id, kind |-> a.kind],
                      x \in SourceApplications("all", NoFilter, NoFilter)
               PROVE  x \in SourceApplications(view, NoFilter, NoFilter)
  BY DEF TabsAgree
<1>2. /\ OnceEach(raw["apply"]) /\ OnceEach(local["payment"]) /\ TableOf["payment"] = "apply"
      /\ \A l \in local["payment"] : l.state \in PaymentStates
      /\ \A b \in raw["apply"] : b.apply \in {"draft", "approving", "approved", "rejected"}
  BY SpendingFacts
<1>3. /\ a \in Applications
      /\ view = "approving" => a.state = "submitted"
      /\ view = "approved" => a.state = "approved"
      /\ view = "fullpaid" => a.state = "paid"
  BY <1>1 DEF PaymentApplications
<1>4. CASE \E b \in raw["apply"] : a = [id |-> b.id, kind |-> "imported",
                                        contract |-> b.contract, state |-> OperationState(b)]
  <2>1. PICK b \in raw["apply"] : a = [id |-> b.id, kind |-> "imported",
                                       contract |-> b.contract, state |-> OperationState(b)]
    BY <1>4
  <2>2. x.id = b.id /\ x.kind = "imported" /\ a.state = OperationState(b)
    BY <1>1, <2>1
  <2>3. PICK q \in raw["apply"] :
          /\ ~q.gone /\ In("contract", q.contract)
          /\ x = [id |-> q.id, kind |-> "imported"]
    <3>1. ~\E l \in local.payment : x = [id |-> l.id, kind |-> "command"]
      BY <2>2
    <3> QED BY <1>1, <3>1 DEF SourceApplications, Live
  <2>4. q = b
    BY <1>2, <2>2, <2>3 DEF OnceEach
  <2>5. ImportedInView(b, view, NoFilter)
    BY <1>1, <1>2, <1>3, <2>2 DEF ImportedInView, OperationState, Views, PaidStates
  <2> QED BY <2>3, <2>4, <2>5 DEF SourceApplications, Live, Fits
<1>5. CASE \E l \in local["payment"] : a = [id |-> l.id, kind |-> "command",
                                            contract |-> l.contract, state |-> l.state]
  <2>1. PICK l \in local["payment"] : a = [id |-> l.id, kind |-> "command",
                                           contract |-> l.contract, state |-> l.state]
    BY <1>5
  <2>2. x.id = l.id /\ x.kind = "command" /\ a.state = l.state
    BY <1>1, <2>1
  <2>3. PICK d \in local["payment"], c \in Live("contract") :
          c.id = d.contract /\ x = [id |-> d.id, kind |-> "command"]
    <3>1. ~\E q \in raw.apply : x = [id |-> q.id, kind |-> "imported"]
      BY <2>2
    <3> QED BY <1>1, <3>1 DEF SourceApplications, Live
  <2>4. d = l
    BY <1>2, <2>2, <2>3 DEF OnceEach
  <2>5. CommandInView(l, view, NoFilter)
    BY <1>1, <1>2, <1>3, <2>2 DEF CommandInView, Views, PaymentStates
  <2> QED BY <2>3, <2>4, <2>5 DEF SourceApplications, Fits
<1> QED BY <1>2, <1>3, <1>4, <1>5 DEF Applications, Overlay, Projected

\* The reads on contracts, their milestones, plans and applications tell one story
\* (contracts, cost_source_contracts, cost_source_contract_detail,
\* payment_applications, payment_application_eligibility): the lists name each
\* record once, list and page agree, what is paid counts, the tabs hold the same,
\* whatever is staged, promoted and commanded in whatever order.
THEOREM SpendingAgreesHolds ==
  ASSUME HasSpending
  PROVE  LedgerSpec => []SpendingAgrees
<1>1. LedgerInv => SpendingAgrees
  BY LedgerTyped, SpendingOnce, ContractPages, PaidCountsHold, TabsHold DEF SpendingAgrees
<1> QED BY <1>1, LedgerInductive, PTL

-----------------------------------------------------------------------------
(***************************************************************************)
(* Messages.                                                               *)
(***************************************************************************)

\* A record of reading is of a draft; who reads all messages marks those there are.
Marker(l) ==
  /\ {"state", "by", "type", "messages"} \subseteq DOMAIN l
  /\ l.type \in {"read", "read_all"}
  /\ l.type = "read_all" => l.messages \subseteq Ids(raw["message"])
  /\ \E d \in scope.drafts["message"] :
       /\ d.id = l.id /\ d.by = l.by /\ d.type = l.type
       /\ l.type = "read" => l.messages = d.messages

InboxInv ==
  /\ \A l \in local["message"] : Marker(l)
  /\ \A c \in commands : c.family = "message" =>
       /\ Marker(c.draft) /\ c.type = c.draft.type
       /\ \A l \in c.basis : Marker(l)

\* What a sound ledger says of messages and their marks.
LEMMA InboxFacts ==
  ASSUME LedgerInv, HasInbox
  PROVE  /\ "message" \in Families /\ "message" \in Tables /\ "message" \notin Merged
         /\ OnceEach(raw["message"]) /\ OnceEach(local["message"])
         /\ OnceEach(raw["subscription"]) /\ OnceEach(local["subscription"])
         /\ IsFiniteSet(raw["message"])
         /\ \A m \in raw["message"] : m.user # NoFilter
         /\ \A s \in raw["subscription"] : IsRow(s)
         /\ \A l \in local["subscription"] : IsRow(l)
<1>1. "message" \in Families /\ "message" \in Tables /\ "message" \notin Merged
      /\ "subscription" \in Families /\ "subscription" \in Tables
  BY DEF HasInbox, Merged
<1>2. /\ OnceEach(raw["message"]) /\ OnceEach(local["message"])
      /\ OnceEach(raw["subscription"]) /\ OnceEach(local["subscription"])
      /\ IsFiniteSet(raw["message"])
  BY <1>1 DEF LedgerInv, RawInv, LocalInv
<1>3. \A m \in raw["message"] : m.user # NoFilter
  BY <1>1 DEF LedgerInv, RawInv, HasInbox
<1>4. \A s \in raw["subscription"] : IsRow(s)
  BY <1>1, ScopeFacts DEF LedgerInv, RawInv
<1>5. \A l \in local["subscription"] : IsRow(l)
  BY <1>1 DEF LedgerInv, LocalInv
<1> QED BY <1>1, <1>2, <1>3, <1>4, <1>5

\* What a step does to the messages, the commands and what they mark: either
\* nothing, or messages arrive, or one command is stored that marks what its
\* predecessor marked.
Arrives ==
  /\ raw["message"] \subseteq raw'["message"]
  /\ local'["message"] = local["message"]
  /\ \A m \in raw'["message"] \ raw["message"] : m.id \notin Ids(raw["message"])

\* A command that marks messages, over a list that another has stored meanwhile.
Over(c) == c.type = "read_all" /\ c.basis # Stored("message", c.draft.id)

\* A record of reading is stored, and marks what the one before it did.
Marks ==
  /\ raw' = raw
  /\ \E c \in commands \ commands', n \in local'["message"] :
       /\ Marker(n) /\ n.by = c.draft.by
       /\ \A l \in local["message"] :
            \/ l \in local'["message"]
            \/ l.by = n.by /\ (l.messages \subseteq n.messages \/ Over(c))
       /\ \A l \in local'["message"] : l \in local["message"] \/ l = n

\* What marks messages goes on to, whatever is staged.
LEMMA MarkerStays ==
  ASSUME scope' = scope, Ids(raw["message"]) \subseteq Ids(raw'["message"]), NEW l, Marker(l)
  PROVE  Marker(l)'
BY DEF Marker

\* A command has found records of its own reader, and of its own kind.
LEMMA MarkersAgree ==
  ASSUME HasInbox, LedgerInv, "message" \in DOMAIN scope.drafts,
         NEW l, NEW k, Marker(l), Marker(k), l.id = k.id
  PROVE  /\ l.by = k.by /\ l.type = k.type
         /\ l.type = "read" => l.messages = k.messages
<1>1. scope \in Scopes
  BY DEF LedgerInv
<1>2. \A d, e \in scope.drafts["message"] :
        d.id = e.id => d.by = e.by /\ d.type = e.type /\ d.messages = e.messages
  BY <1>1 DEF HasInbox
<1> QED BY <1>2 DEF Marker

\* What a command on messages stores is a mark of its reader.
LEMMA MarkMade ==
  ASSUME HasInbox, LedgerInv, InboxInv, NEW c \in commands, c.family = "message",
         NEW n \in Result(c)
  PROVE  /\ Marker(n) /\ n.by = c.draft.by /\ n.id = c.draft.id
         /\ c.basis # {} => \E k \in c.basis : k.messages \subseteq n.messages
         /\ c.type = "read" => n.messages = c.draft.messages
<1>1. /\ Grounded(c) /\ "message" \in DOMAIN scope.drafts
      /\ Marker(c.draft) /\ c.type = c.draft.type /\ \A l \in c.basis : Marker(l)
      /\ \A l \in c.basis : l.id = c.draft.id
  BY DEF LedgerInv, CommandsInv, Grounded, Revision, InboxInv
<1>2. c.type # "create"
  BY <1>1 DEF Marker
<1>3. n.id = c.draft.id /\ \E l : Makes(c, l, n)
  BY <1>1, ResultFacts
<1>4. PICK l : Makes(c, l, n)
  BY <1>3
<1>5. l \in c.basis \/ (l = c.draft /\ c.basis = {})
  BY <1>2, <1>4 DEF Makes
<1>6. Marker(l) /\ l.id = c.draft.id
  BY <1>1, <1>5
<1>7. /\ l.by = c.draft.by /\ l.type = c.draft.type
      /\ l.type = "read" => l.messages = c.draft.messages
  BY <1>1, <1>6, MarkersAgree
<1>8. /\ DOMAIN n = DOMAIN l /\ n.by = l.by /\ n.type = l.type
      /\ \/ n.messages = l.messages
         \/ c.type = "read_all" /\ n.messages = l.messages \cup c.draft.messages
  BY <1>4, <1>6 DEF Makes, Marker
<1>9. Marker(n)
  BY <1>1, <1>3, <1>6, <1>7, <1>8 DEF Marker
<1>10. c.basis # {} => \E k \in c.basis : k.messages \subseteq n.messages
  BY <1>5, <1>8
<1>11. c.type = "read" => n.messages = c.draft.messages
  BY <1>1, <1>7, <1>8
<1> QED BY <1>3, <1>7, <1>8, <1>9, <1>10, <1>11

\* A step leaves the messages as they are, or more arrive, or some are marked.
LEMMA InboxSteps ==
  ASSUME LedgerInv, HasInbox, InboxInv, [LedgerNext]_ledgerVars
  PROVE  Arrives \/ Marks
<1>0. "message" \in Families /\ "message" \in Tables /\ "message" \notin Merged
  BY InboxFacts
<1>1. ASSUME NEW t \in DOMAIN scope.imports, NEW row \in scope.imports[t], Import(t, row)
      PROVE  Arrives
  <2>1. /\ raw' = [raw EXCEPT ![t] = raw[t] \cup {row}] /\ ~In(t, row.id) /\ local' = local
    BY <1>1 DEF Import
  <2>2. DOMAIN raw = Tables
    BY DEF LedgerInv, RawInv
  <2>3. CASE t = "message"
    BY <1>0, <2>1, <2>2, <2>3 DEF Arrives, In, Ids
  <2>4. CASE t # "message"
    BY <1>0, <2>1, <2>2, <2>4 DEF Arrives
  <2> QED BY <2>3, <2>4
<1>2. ASSUME NEW f \in DOMAIN promoted \cap DOMAIN scope.drafts, NEW row \in raw[TableOf[f]],
             Promote(f, row.id)
      PROVE  Arrives
  <2>1. /\ raw' = raw
        /\ local' = IF f \in Merged THEN [local EXCEPT ![f] = local[f] \ Stored(f, row.id)]
                    ELSE local
    BY <1>2 DEF Promote
  <2>2. local'["message"] = local["message"]
    <3>1. DOMAIN local = Families
      BY DEF LedgerInv, LocalInv
    <3> QED BY <1>0, <2>1, <3>1
  <2> QED BY <2>1, <2>2 DEF Arrives
<1>3. ASSUME NEW c \in commands, Store(c)
      PROVE  Arrives \/ Marks
  <2>1. /\ UNCHANGED raw /\ commands' = commands \ {c} /\ Grounded(c)
        /\ \A g \in Families : g # c.family => local'[g] = local[g]
        /\ local'[c.family] = (local[c.family] \ Stored(c.family, c.draft.id)) \cup Result(c)
    BY <1>3, StoreFacts
  <2>2. CASE c.family # "message"
    BY <1>0, <2>1, <2>2 DEF Arrives
  <2>3. CASE c.family = "message"
    <3>1. PICK n : Result(c) \subseteq {n}
      BY <2>1, ResultFacts
    <3>2. CASE n \in Result(c)
      <4>1. /\ Marker(n) /\ n.by = c.draft.by /\ n.id = c.draft.id
            /\ c.basis # {} => \E k \in c.basis : k.messages \subseteq n.messages
            /\ c.type = "read" => n.messages = c.draft.messages
        BY <2>3, <3>2, MarkMade
      <4>2. ASSUME NEW l \in Stored("message", c.draft.id)
            PROVE  l.by = n.by /\ (l.messages \subseteq n.messages \/ Over(c))
        <5>1. Marker(l) /\ l.id = c.draft.id /\ Marker(c.draft) /\ c.type = c.draft.type
              /\ "message" \in DOMAIN scope.drafts
          BY <2>1, <2>3, <4>2 DEF InboxInv, Stored, Grounded, Revision
        <5>2. /\ l.by = c.draft.by /\ l.type = c.draft.type
              /\ l.type = "read" => l.messages = c.draft.messages
          BY <5>1, MarkersAgree
        <5>3. CASE c.type = "read"
          BY <4>1, <5>1, <5>2, <5>3
        <5>4. CASE c.type = "read_all" /\ c.basis = Stored("message", c.draft.id)
          <6>1. PICK k \in c.basis : k.messages \subseteq n.messages
            BY <4>1, <4>2, <5>4
          <6>2. k = l
            BY <4>2, <5>4, <6>1, InboxFacts DEF Stored, OnceEach
          <6> QED BY <4>1, <5>2, <6>1, <6>2
        <5>5. CASE c.type = "read_all" /\ c.basis # Stored("message", c.draft.id)
          BY <4>1, <5>2, <5>5 DEF Over
        <5>6. c.type \in {"read", "read_all"}
          BY <5>1 DEF Marker
        <5> QED BY <5>3, <5>4, <5>5, <5>6
      <4>3. local'["message"] = (local["message"] \ Stored("message", c.draft.id)) \cup {n}
        BY <2>1, <2>3, <3>1, <3>2
      <4>4. c \in commands \ commands' /\ n \in local'["message"]
        BY <2>1, <4>3
      <4>5. \A l \in local["message"] :
              \/ l \in local'["message"]
              \/ l.by = n.by /\ (l.messages \subseteq n.messages \/ Over(c))
        BY <4>2, <4>3
      <4>6. \A l \in local'["message"] : l \in local["message"] \/ l = n
        BY <4>3
      <4> QED BY <2>1, <4>1, <4>4, <4>5, <4>6 DEF Marks
    <3>3. CASE n \notin Result(c)
      <4>1. Result(c) # {}
        <5>1. Contents(c) # {}
          BY DEF Contents
        <5>2. "message" \notin Merged
          BY <1>0
        <5> QED BY <2>3, <5>1, <5>2 DEF Result
      <4> QED BY <3>1, <3>3, <4>1
    <3> QED BY <3>2, <3>3
  <2> QED BY <2>2, <2>3
<1>4. ASSUME NEW f \in DOMAIN scope.drafts, NEW draft \in scope.drafts[f],
             NEW type \in Given(f, draft), NEW wants \in Wants(f, type),
             Undertake(f, type, draft, wants)
      PROVE  Arrives
  BY <1>4 DEF Undertake, Arrives
<1>5. ASSUME NEW c \in commands, LookUp(c) \/ GiveUp(c)
      PROVE  Arrives
  BY <1>5 DEF LookUp, GiveUp, Arrives
<1>6. CASE UNCHANGED ledgerVars
  BY <1>6 DEF ledgerVars, Arrives
<1> QED BY <1>1, <1>2, <1>3, <1>4, <1>5, <1>6 DEF LedgerNext

\* No message goes, and the world stays.
LEMMA MessagesStay ==
  ASSUME LedgerInv, HasInbox, InboxInv, [LedgerNext]_ledgerVars
  PROVE  scope' = scope /\ Ids(raw["message"]) \subseteq Ids(raw'["message"])
<1>1. Arrives \/ Marks
  BY InboxSteps
<1>2. Ids(raw["message"]) \subseteq Ids(raw'["message"])
  BY <1>1 DEF Arrives, Marks, Ids
<1>3. scope' = scope
  BY DEF LedgerNext, Import, Promote, Undertake, LookUp, Store, GiveUp, ledgerVars
<1> QED BY <1>2, <1>3

\* What a step does to the commands on messages.
LEMMA InboxCommands ==
  ASSUME LedgerInv, HasInbox, InboxInv, [LedgerNext]_ledgerVars,
         NEW c \in commands', c.family = "message"
  PROVE  /\ Marker(c.draft) /\ c.type = c.draft.type
         /\ \A l \in c.basis : Marker(l)
<1>1. CASE c \in commands
  BY <1>1 DEF InboxInv
<1>2. ASSUME NEW f \in DOMAIN scope.drafts, NEW draft \in scope.drafts[f],
             NEW type \in Given(f, draft), NEW wants \in Wants(f, type),
             Undertake(f, type, draft, wants), c \notin commands
      PROVE  /\ Marker(c.draft) /\ c.type = c.draft.type
             /\ \A l \in c.basis : Marker(l)
  <2>1. c = [family |-> f, type |-> type, wants |-> wants, draft |-> Prepared(type, draft),
             basis |-> Stored(f, draft.id), read |-> FALSE]
    BY <1>2, UndertakeKeeps
  <2>2. f = "message" /\ c.type = type /\ c.basis = Stored("message", draft.id)
    BY <2>1
  <2>3. PICK d : d = Prepared(type, draft)
    OBVIOUS
  <2>4. c.draft = d
    BY <2>1, <2>3
  <2>5. type = draft.type
    BY <2>2 DEF Given
  <2>6. scope \in Scopes /\ draft \in scope.drafts["message"]
    BY <2>2 DEF LedgerInv
  <2>7. /\ {"by", "type", "messages"} \subseteq DOMAIN draft
        /\ draft.type \in {"read", "read_all"}
        /\ draft.type = "read_all" => draft.messages = {}
    BY <2>2, <2>6 DEF HasInbox
  <2>8. IsRow(draft) /\ "state" \in DOMAIN draft /\ "id" \in DOMAIN draft
    BY ScopeFacts DEF LedgerInv, IsRow
  <2>9. /\ DOMAIN d = DOMAIN draft /\ d["id"] = draft["id"] /\ d["by"] = draft["by"]
        /\ d["type"] = draft["type"]
        /\ type # "read_all" => d = draft
        /\ type = "read_all" => d.messages \subseteq Ids(raw["message"])
    BY <2>3, <2>7, <2>8, PreparedFacts
  <2>10. Marker(d)
    BY <2>5, <2>6, <2>7, <2>8, <2>9 DEF Marker
  <2>11. \A l \in c.basis : Marker(l)
    BY <2>2 DEF InboxInv, Stored
  <2> QED BY <2>2, <2>4, <2>5, <2>9, <2>10, <2>11
<1>3. ASSUME NEW b \in commands, LookUp(b), c \notin commands
      PROVE  /\ Marker(c.draft) /\ c.type = c.draft.type
             /\ \A l \in c.basis : Marker(l)
  <2>1. c = [b EXCEPT !.basis = Stored(b.family, b.draft.id), !.read = TRUE]
    BY <1>3, LookUpKeeps
  <2>2. DOMAIN b = CommandFields
    BY DEF LedgerInv, CommandsInv, Grounded
  <2>3. /\ c.family = b.family /\ c.draft = b.draft /\ c.type = b.type
        /\ c.basis = Stored(b.family, b.draft.id)
    BY <2>1, <2>2 DEF CommandFields
  <2> QED BY <2>3 DEF InboxInv, Stored
<1>4. ASSUME NEW b \in commands, Store(b) \/ GiveUp(b)
      PROVE  c \in commands
  BY <1>4 DEF Store, GiveUp
<1>5. ASSUME NEW t \in DOMAIN scope.imports, NEW row \in scope.imports[t], Import(t, row)
      PROVE  c \in commands
  BY <1>5 DEF Import
<1>6. ASSUME NEW f \in DOMAIN promoted \cap DOMAIN scope.drafts, NEW row \in raw[TableOf[f]],
             Promote(f, row.id)
      PROVE  c \in commands
  BY <1>6 DEF Promote
<1>7. CASE UNCHANGED ledgerVars
  BY <1>1, <1>7 DEF ledgerVars
<1> QED BY <1>1, <1>2, <1>3, <1>4, <1>5, <1>6, <1>7 DEF LedgerNext

\* No step marks a message that is not there.
LEMMA InboxKeeps ==
  ASSUME LedgerInv, HasInbox, InboxInv, [LedgerNext]_ledgerVars
  PROVE  InboxInv'
<1>1. \A l : Marker(l) => Marker(l)'
  BY MessagesStay, MarkerStays
<1>2. \A l \in local'["message"] : Marker(l)
  <2>1. Arrives \/ Marks
    BY InboxSteps
  <2> QED BY <2>1 DEF Arrives, Marks, InboxInv
<1>3. \A c \in commands' : c.family = "message" =>
        /\ Marker(c.draft) /\ c.type = c.draft.type
        /\ \A l \in c.basis : Marker(l)
  BY InboxCommands
<1> QED BY <1>1, <1>2, <1>3 DEF InboxInv

LEMMA InboxInit == LedgerInit /\ HasInbox => InboxInv
BY DEF LedgerInit, HasInbox, InboxInv

\* Marks are of staged messages, in every state.
LEMMA InboxInductive ==
  ASSUME HasInbox
  PROVE  LedgerSpec => [](LedgerInv /\ InboxInv)
<1>1. LedgerInit => LedgerInv /\ InboxInv
  BY InitLedger, InboxInit
<1>2. LedgerInv /\ InboxInv /\ [LedgerNext]_ledgerVars => (LedgerInv /\ InboxInv)'
  BY LedgerStep, InboxKeeps
<1> QED BY <1>1, <1>2, PTL DEF LedgerSpec

\* A message of the user is read if it came so or a command of the user marked it.
LEMMA ReadFacts ==
  ASSUME LedgerInv, HasInbox, NEW u, u # NoFilter
  PROVE  /\ \A m : m \in Messages(u, "read") <=>
              /\ m \in raw["message"] /\ m.user = u
              /\ m.read \/ \E l \in local["message"] : l.by = u /\ m.id \in l.messages
         /\ \A m : m \in Messages(u, "unread") <=>
              /\ m \in raw["message"] /\ m.user = u
              /\ ~m.read /\ ~\E l \in local["message"] : l.by = u /\ m.id \in l.messages
<1>1. \A x : Fits(u, x) <=> x = u
  BY DEF Fits
<1>2. \A m : ReadBy(m, u) <=>
         m.read \/ \E l \in local["message"] : l.by = u /\ m.id \in l.messages
  BY <1>1 DEF ReadBy, MarkedRead
<1>3. "read" # "unread"
  OBVIOUS
<1> QED BY <1>1, <1>2, <1>3 DEF Messages

\* The list of subscriptions of a user names each once.
SubscriptionsOnce(u) == LedgerInv => OnceEach(Subscriptions(u))

\* A user sees each subscription once.
LEMMA SubscriptionsAreOnce == ASSUME HasInbox, NEW CONSTANT u PROVE SubscriptionsOnce(u)
<1> SUFFICES ASSUME LedgerInv PROVE OnceEach(Subscriptions(u))
  BY DEF SubscriptionsOnce
<1>1. /\ OnceEach(raw["subscription"]) /\ OnceEach(local["subscription"])
      /\ \A s \in raw["subscription"] : IsRow(s)
      /\ \A l \in local["subscription"] : IsRow(l)
  BY InboxFacts
<1> DEFINE mine == {l \in local.subscription : Fits(u, l.by)}
<1>2. \A x \in Subscriptions(u) :
        \/ /\ x \in Imported(raw["subscription"]) /\ x.id \notin Ids(mine)
        \/ x \in Commanded({l \in mine : l.state # "deleted"})
  BY DEF Subscriptions
<1>3. ASSUME NEW x \in Imported(raw["subscription"])
      PROVE  \E s \in raw["subscription"] : x = Kinded(s, "imported") /\ x.id = s.id
  <2>1. PICK s \in raw["subscription"] : x = Kinded(s, "imported")
    BY <1>3 DEF Imported, Named
  <2>2. IsRow(s) /\ "id" \in DOMAIN s
    BY <1>1 DEF IsRow
  <2>3. x["id"] = s["id"]
    BY <2>1, <2>2, KindedFacts
  <2> QED BY <2>1, <2>3
<1>4. ASSUME NEW x \in Commanded({l \in mine : l.state # "deleted"})
      PROVE  \E l \in mine : x = Kinded(l, "command") /\ x.id = l.id
  <2>1. PICK s \in mine : x = Kinded(s, "command")
    BY <1>4 DEF Commanded, Named
  <2>2. IsRow(s) /\ "id" \in DOMAIN s
    BY <1>1 DEF IsRow
  <2>3. x["id"] = s["id"]
    BY <2>1, <2>2, KindedFacts
  <2> QED BY <2>1, <2>3
<1>5. \A l \in mine : l \in local["subscription"] /\ l.id \in Ids(mine)
  BY DEF Ids
<1> HIDE DEF mine
<1> SUFFICES ASSUME NEW x \in Subscriptions(u), NEW y \in Subscriptions(u), x.id = y.id
             PROVE  x = y
  BY DEF OnceEach
<1>6. CASE x \in Imported(raw["subscription"]) /\ x.id \notin Ids(mine)
  <2>1. y \in Imported(raw["subscription"])
    BY <1>2, <1>4, <1>5, <1>6
  <2>2. PICK s \in raw["subscription"] : x = Kinded(s, "imported") /\ x.id = s.id
    BY <1>3, <1>6
  <2>3. PICK t \in raw["subscription"] : y = Kinded(t, "imported") /\ y.id = t.id
    BY <1>3, <2>1
  <2>4. s = t
    BY <1>1, <2>2, <2>3 DEF OnceEach
  <2> QED BY <2>2, <2>3, <2>4
<1>7. CASE x \in Commanded({l \in mine : l.state # "deleted"})
  <2>1. PICK s \in mine : x = Kinded(s, "command") /\ x.id = s.id
    BY <1>4, <1>7
  <2>2. y \in Commanded({l \in mine : l.state # "deleted"})
    BY <1>2, <1>5, <2>1
  <2>3. PICK t \in mine : y = Kinded(t, "command") /\ y.id = t.id
    BY <1>4, <2>2
  <2>4. s = t
    BY <1>1, <1>5, <2>1, <2>3 DEF OnceEach
  <2> QED BY <2>1, <2>3, <2>4
<1> QED BY <1>2, <1>6, <1>7

\* What a step may do to the messages of a user, part by part.
ReadByOwner(u) ==
  \A m \in Messages(u, "read")' \ Messages(u, "read") :
    m \in raw.message => \E l \in local.message' \ local.message : l.by = u

\* What a user has read stays read, but where a list of the user's is stored over.
ReadStays(u) == Messages(u, "read") \subseteq Messages(u, "read")' \/ StoredOver(u)

\* The count of unread messages grows only with the messages, or there.
UnreadArrives(u) ==
  UnreadCount(u)' > UnreadCount(u) => raw.message' # raw.message \/ StoredOver(u)

\* A message that a user is first shown is unread.
ComesUnread(u) ==
  \A m \in raw.message' \ raw.message :
    m.user = u /\ ~m.read => \/ m \in Messages(u, "unread")'
                             \/ \E l \in local.message : l.type = "read" /\ m.id \in l.messages

\* Before and after: read are the user's messages that came so or are marked.
ReadAre(u) ==
  LedgerInv /\ u # NoFilter =>
    /\ \A m : m \in Messages(u, "read") <=>
         /\ m \in raw["message"] /\ m.user = u
         /\ m.read \/ \E l \in local["message"] : l.by = u /\ m.id \in l.messages
    /\ \A m : m \in Messages(u, "unread") <=>
         /\ m \in raw["message"] /\ m.user = u
         /\ ~m.read /\ ~\E l \in local["message"] : l.by = u /\ m.id \in l.messages
    /\ IsFiniteSet(Messages(u, "unread"))

LEMMA ReadNow == ASSUME HasInbox, NEW CONSTANT u PROVE ReadAre(u)
<1> SUFFICES ASSUME LedgerInv, u # NoFilter PROVE IsFiniteSet(Messages(u, "unread"))
  BY ReadFacts DEF ReadAre
<1>1. IsFiniteSet(raw["message"])
  BY InboxFacts
<1>2. Messages(u, "unread") \subseteq raw["message"]
  BY DEF Messages
<1> QED BY <1>1, <1>2, FS_Subset

LEMMA ReadNext == ASSUME HasInbox, NEW CONSTANT u PROVE ReadAre(u)'
<1>1. ReadAre(u)
  BY ReadNow
<1> QED BY <1>1, PTL

LEMMA SubscriptionsNext == ASSUME HasInbox, NEW CONSTANT u PROVE SubscriptionsOnce(u)'
<1>1. SubscriptionsOnce(u)
  BY SubscriptionsAreOnce
<1> QED BY <1>1, PTL

\* The three hold of a step.
LEMMA InboxStep ==
  ASSUME LedgerInv, LedgerInv', InboxInv, HasInbox, [LedgerNext]_ledgerVars,
         NEW CONSTANT u, u # NoFilter
  PROVE  ReadByOwner(u) /\ ReadStays(u) /\ UnreadArrives(u) /\ ComesUnread(u)
<1>1. /\ \A m : m \in Messages(u, "read") <=>
           /\ m \in raw["message"] /\ m.user = u
           /\ m.read \/ \E l \in local["message"] : l.by = u /\ m.id \in l.messages
      /\ \A m : m \in Messages(u, "unread") <=>
           /\ m \in raw["message"] /\ m.user = u
           /\ ~m.read /\ ~\E l \in local["message"] : l.by = u /\ m.id \in l.messages
      /\ IsFiniteSet(Messages(u, "unread"))
  BY ReadNow DEF ReadAre
<1>2. /\ \A m : m \in Messages(u, "read")' <=>
           /\ m \in raw'["message"] /\ m.user = u
           /\ m.read \/ \E l \in local'["message"] : l.by = u /\ m.id \in l.messages
      /\ \A m : m \in Messages(u, "unread")' <=>
           /\ m \in raw'["message"] /\ m.user = u
           /\ ~m.read /\ ~\E l \in local'["message"] : l.by = u /\ m.id \in l.messages
  BY ReadNext DEF ReadAre
<1>3. Arrives \/ Marks
  BY InboxSteps
<1>4. /\ raw["message"] \subseteq raw'["message"]
      /\ \/ StoredOver(u)
         \/ \A l \in local["message"] : l.by = u => \E k \in local'["message"] :
              k.by = l.by /\ l.messages \subseteq k.messages
  <2>1. CASE Arrives
    BY <2>1 DEF Arrives
  <2>2. CASE Marks
    <3>1. PICK c \in commands \ commands', n \in local'["message"] :
            /\ n.by = c.draft.by
            /\ \A l \in local["message"] :
                 \/ l \in local'["message"]
                 \/ l.by = n.by /\ (l.messages \subseteq n.messages \/ Over(c))
      BY <2>2 DEF Marks
    <3>2. Over(c) /\ n.by = u => StoredOver(u)
      BY <3>1 DEF Over, StoredOver
    <3> QED BY <2>2, <3>1, <3>2 DEF Marks
  <2> QED BY <1>3, <2>1, <2>2
<1>5. ReadStays(u)
  BY <1>1, <1>2, <1>4 DEF ReadStays
<1>6. ReadByOwner(u)
  <2> SUFFICES ASSUME NEW m \in Messages(u, "read")' \ Messages(u, "read"), m \in raw["message"]
               PROVE  \E l \in local.message' \ local.message : l.by = u
    BY DEF ReadByOwner
  <2>1. PICK l \in local'["message"] : l.by = u /\ m.id \in l.messages
    BY <1>1, <1>2
  <2>2. l \notin local["message"]
    BY <1>1, <1>2, <2>1
  <2> QED BY <2>1, <2>2
<1>7. UnreadArrives(u)
  <2> SUFFICES ASSUME raw.message' = raw.message, ~ StoredOver(u)
               PROVE  ~(UnreadCount(u)' > UnreadCount(u))
    BY DEF UnreadArrives
  <2>1. Messages(u, "unread")' \subseteq Messages(u, "unread")
    BY <1>1, <1>2, <1>4
  <2>2. PICK now, then : now = Messages(u, "unread") /\ then = Messages(u, "unread")'
    OBVIOUS
  <2>3. /\ IsFiniteSet(then) /\ Cardinality(then) <= Cardinality(now)
        /\ Cardinality(now) \in Nat /\ Cardinality(then) \in Nat
    BY <1>1, <2>1, <2>2, FS_Subset, FS_CardinalityType
  <2>4. UnreadCount(u) = Cardinality(now) /\ UnreadCount(u)' = Cardinality(then)
    BY <2>2 DEF UnreadCount
  <2> QED BY <2>3, <2>4
<1>8. ComesUnread(u)
  <2> SUFFICES ASSUME NEW m \in raw'["message"] \ raw["message"], m.user = u, ~m.read,
                      m \notin Messages(u, "unread")'
               PROVE  \E l \in local.message : l.type = "read" /\ m.id \in l.messages
    BY DEF ComesUnread
  <2>1. PICK l \in local'["message"] : l.by = u /\ m.id \in l.messages
    BY <1>2
  <2>2. Arrives
    BY <1>3 DEF Marks
  <2>3. l \in local["message"] /\ m.id \notin Ids(raw["message"])
    BY <2>1, <2>2 DEF Arrives
  <2>4. l.type = "read"
    BY <2>1, <2>3 DEF InboxInv, Marker
  <2> QED BY <2>1, <2>3, <2>4
<1> QED BY <1>5, <1>6, <1>7, <1>8

\* A message becomes read by a command of its reader only and stays so, unless two
\* commands of its reader to read all crossed (the lists are merged before the lock
\* is taken); one that comes later is unread although all were read
\* (notification_messages, notification_message_command): for every user, whatever
\* is staged meanwhile.
THEOREM InboxMovesHolds ==
  ASSUME HasInbox
  PROVE  LedgerSpec => InboxMoves
<1>1. ASSUME LedgerInv, LedgerInv', InboxInv, [LedgerNext]_ledgerVars,
             NEW CONSTANT u, u # NoFilter
      PROVE  /\ ReadByOwner(u) /\ ReadStays(u) /\ UnreadArrives(u) /\ ComesUnread(u)
             /\ OnceEach(Subscriptions(u)')
  <2>1. SubscriptionsOnce(u)'
    BY SubscriptionsNext
  <2> QED BY <1>1, <2>1, InboxStep DEF SubscriptionsOnce
<1>2. ASSUME LedgerInv, LedgerInv', InboxInv, [LedgerNext]_ledgerVars,
             NEW u \in {m.user : m \in raw.message'}
      PROVE  u # NoFilter
  <2>1. "message" \in Tables /\ \A m \in raw'["message"] : m.user # NoFilter
    BY <1>2 DEF HasInbox, LedgerInv, RawInv
  <2> QED BY <1>2, <2>1
<1>3. ASSUME LedgerInv, LedgerInv', InboxInv, [LedgerNext]_ledgerVars
      PROVE  [\A u \in {m.user : m \in raw.message'} :
                /\ \A m \in Messages(u, "read")' \ Messages(u, "read") :
                     m \in raw.message => \E l \in local.message' \ local.message : l.by = u
                /\ Messages(u, "read") \subseteq Messages(u, "read")' \/ StoredOver(u)
                /\ UnreadCount(u)' > UnreadCount(u) => raw.message' # raw.message \/ StoredOver(u)
                /\ OnceEach(Subscriptions(u)')
                /\ \A m \in raw.message' \ raw.message :
                     m.user = u /\ ~m.read => \/ m \in Messages(u, "unread")'
                                              \/ \E l \in local.message :
                                                   l.type = "read" /\ m.id \in l.messages]_ledgerVars
  BY <1>1, <1>2, <1>3 DEF ReadByOwner, ReadStays, UnreadArrives, ComesUnread
<1> QED BY <1>3, InboxInductive, PTL DEF LedgerSpec, InboxMoves

-----------------------------------------------------------------------------
(***************************************************************************)
(* What the weights of the elements of a set add up to (FiniteSetsExt).    *)
(* Induction is over a set of numbers, or of subsets, that is closed under *)
(* the step.                                                               *)
(***************************************************************************)

\* Every set of numbers has a least one.
LEMMA LeastNumber ==
  ASSUME NEW T, T \subseteq Nat, T # {}
  PROVE  \E n \in T : \A k \in T : ~ (k < n)
<1> DEFINE R == OpToRel(<, Nat)
<1>1. IsWellFoundedOn(R, Nat)
  BY NatLessThanWellFounded, Zenon
<1>2. \A x, y \in Nat : y < x => <<y, x>> \in R
  BY DEF OpToRel
<1> HIDE DEF R
<1>3. \E x \in T : \A y \in T : ~ (<<y, x>> \in R)
  BY <1>1, WFMin
<1> QED BY <1>2, <1>3

\* A set with 0 and with the successor of all it has is all numbers.
LEMMA NatSetInduction ==
  ASSUME NEW P, 0 \in P, \A n \in Nat : n \in P => n + 1 \in P
  PROVE  Nat \subseteq P
<1> SUFFICES ASSUME Nat \ P # {} PROVE FALSE
  OBVIOUS
<1>1. PICK n \in Nat \ P : \A k \in Nat \ P : ~ (k < n)
  BY LeastNumber
<1>2. n # 0 /\ n - 1 \in Nat
  BY <1>1
<1>3. n - 1 \in P
  BY <1>1, <1>2
<1> QED BY <1>1, <1>2, <1>3

\* Among the subsets of a finite set there is one that no other is inside of.
LEMMA SmallestSet ==
  ASSUME NEW S, IsFiniteSet(S), NEW B, B \subseteq SUBSET S, B # {}
  PROVE  \E m \in B : \A t \in B : t \subseteq m => t = m
<1> DEFINE R == StrictSubsetOrdering(S)
<1>1. IsWellFoundedOn(R, FiniteSubsetsOf(S))
  BY FS_StrictSubsetOrderingWellFounded
<1>2. B \subseteq FiniteSubsetsOf(S)
  BY FS_Subset DEF FiniteSubsetsOf
<1>3. \A t, m \in SUBSET S : t \subseteq m /\ t # m => <<t, m>> \in R
  BY DEF StrictSubsetOrdering
<1> HIDE DEF R
<1>4. \E m \in B : \A t \in B : ~ (<<t, m>> \in R)
  BY <1>1, <1>2, WFMin
<1> QED BY <1>3, <1>4

\* Some element of a set.
OneOf(s) == CHOOSE x \in s : TRUE

\* What the weights of a set add up to.
Sum(w, set) == MapThenSumSet(LAMBDA x : w[x], set)

\* What a set adds up to, from what its smaller subsets add up to.
Summed(w, f, s) == IF s = {} THEN 0 ELSE w[OneOf(s)] + f[s \ {OneOf(s)}]

\* The sum of every subset, by an element less.
Tally(w, S, f) == f = [s \in SUBSET S |-> Summed(w, f, s)]

\* The element the sum takes first is one of the set.
LEMMA OneOfSet == ASSUME NEW s, s # {} PROVE OneOf(s) \in s
BY DEF OneOf

\* The recursion of the sum has a solution: one that is right up to a size is
\* made right up to the next.
LEMMA TallyExists ==
  ASSUME NEW w, NEW S, IsFiniteSet(S)
  PROVE  \E f : Tally(w, S, f)
<1> DEFINE UpTo(n, f) == /\ f = [s \in SUBSET S |-> f[s]]
                         /\ \A s \in SUBSET S : Cardinality(s) <= n => f[s] = Summed(w, f, s)
           P == {n \in Nat : \E f : UpTo(n, f)}
<1>0. \A s \in SUBSET S : IsFiniteSet(s) /\ Cardinality(s) \in Nat
                            /\ Cardinality(s) <= Cardinality(S)
  BY FS_Subset, FS_CardinalityType
<1>1. 0 \in P
  <2> DEFINE f == [s \in SUBSET S |-> 0]
  <2>1. \A s \in SUBSET S : Cardinality(s) <= 0 => s = {}
    BY <1>0, FS_EmptySet
  <2>2. \A s \in SUBSET S : Cardinality(s) <= 0 => f[s] = Summed(w, f, s)
    BY <2>1 DEF Summed
  <2>3. UpTo(0, f)
    BY <2>2
  <2> QED BY <2>3
<1>2. ASSUME NEW n \in Nat, n \in P PROVE n + 1 \in P
  <2>1. PICK f : UpTo(n, f)
    BY <1>2
  <2> DEFINE g == [s \in SUBSET S |-> Summed(w, f, s)]
  <2>2. ASSUME NEW s \in SUBSET S, Cardinality(s) <= n + 1
        PROVE  g[s] = Summed(w, g, s)
    <3>1. CASE s = {}
      BY <3>1 DEF Summed
    <3>2. CASE s # {}
      <4> DEFINE t == s \ {OneOf(s)}
      <4>1. t \in SUBSET S /\ Cardinality(t) = Cardinality(s) - 1
        BY <1>0, <3>2, OneOfSet, FS_RemoveElement
      <4>2. f[t] = Summed(w, f, t)
        <5>1. Cardinality(s) \in Nat /\ Cardinality(s) <= n + 1
          BY <1>0, <2>2
        <5>2. Cardinality(t) <= n
          BY <4>1, <5>1
        <5> QED BY <2>1, <4>1, <5>2
      <4>3. g[t] = f[t]
        BY <4>1, <4>2
      <4>4. g[s] = Summed(w, f, s)
        OBVIOUS
      <4> HIDE DEF g
      <4> QED BY <3>2, <4>3, <4>4 DEF Summed
    <3> QED BY <3>1, <3>2
  <2>3. g = [s \in SUBSET S |-> g[s]]
    OBVIOUS
  <2> HIDE DEF g
  <2>4. UpTo(n + 1, g)
    BY <2>2, <2>3
  <2>5. \E h : UpTo(n + 1, h)
    BY <2>4
  <2> HIDE DEF UpTo
  <2> QED BY <2>5
<1>3. Cardinality(S) \in P
  <2> HIDE DEF P
  <2>1. Nat \subseteq P
    BY <1>1, <1>2, NatSetInduction
  <2> QED BY <2>1, FS_CardinalityType
<1>4. PICK f : UpTo(Cardinality(S), f)
  BY <1>3
<1>5. \A s \in SUBSET S : f[s] = Summed(w, f, s)
  BY <1>0, <1>4
<1>6. f = [s \in SUBSET S |-> Summed(w, f, s)]
  BY <1>4, <1>5
<1> QED BY <1>6 DEF Tally

\* What a set has if its smaller subsets do, all have.
LEMMA SubsetInduction ==
  ASSUME NEW S, IsFiniteSet(S), NEW P,
         \A s \in SUBSET S : (\A t \in SUBSET s : t # s => t \in P) => s \in P
  PROVE  \A s \in SUBSET S : s \in P
<1> DEFINE B == (SUBSET S) \ P
<1>1. ASSUME B # {} PROVE FALSE
  <2>1. B \subseteq SUBSET S
    OBVIOUS
  <2>2. PICK m \in B : \A t \in B : t \subseteq m => t = m
    <3> HIDE DEF B
    <3> QED BY <1>1, <2>1, SmallestSet
  <2>3. \A t \in SUBSET m : t # m => t \in P
    BY <2>2
  <2> QED BY <2>3
<1> QED BY <1>1

\* It has one solution, whatever larger set it is solved on.
LEMMA TallyUnique ==
  ASSUME NEW w, NEW S, IsFiniteSet(S), NEW f, NEW g, NEW T, S \subseteq T,
         Tally(w, S, f), Tally(w, T, g)
  PROVE  \A s \in SUBSET S : f[s] = g[s]
<1> DEFINE P == {s \in SUBSET S : f[s] = g[s]}
<1>1. ASSUME NEW s \in SUBSET S, \A t \in SUBSET s : t # s => t \in P
      PROVE  s \in P
  <2>1. f[s] = Summed(w, f, s) /\ g[s] = Summed(w, g, s)
    BY SUBSET S \subseteq SUBSET T DEF Tally
  <2>2. s # {} => f[s \ {OneOf(s)}] = g[s \ {OneOf(s)}]
    BY <1>1, OneOfSet
  <2> QED BY <2>1, <2>2 DEF Summed
<1>2. \A s \in SUBSET S : s \in P
  <2> HIDE DEF P
  <2> QED BY <1>1, SubsetInduction
<1> QED BY <1>2

\* The total is that solution.
LEMMA SumIsTally ==
  ASSUME NEW w, NEW S, IsFiniteSet(S)
  PROVE  \E f : Tally(w, S, f) /\ Sum(w, S) = f[S]
<1> DEFINE f == CHOOSE h : h = [s \in SUBSET S |->
                  IF s = {} THEN 0
                  ELSE w[CHOOSE x \in s : TRUE] + h[s \ {CHOOSE x \in s : TRUE}]]
<1>1. Sum(w, S) = f[S]
  BY DEF Sum, MapThenSumSet, MapThenFoldSet
<1>2. f = CHOOSE h : Tally(w, S, h)
  BY DEF Tally, Summed, OneOf
<1>3. Tally(w, S, f)
  BY <1>2, TallyExists
<1> HIDE DEF f
<1> QED BY <1>1, <1>3

\* A total is of one element and of what is left.
LEMMA SumCounts ==
  ASSUME NEW w
  PROVE  /\ Sum(w, {}) = 0
         /\ \A S : IsFiniteSet(S) /\ S # {} =>
              Sum(w, S) = w[OneOf(S)] + Sum(w, S \ {OneOf(S)})
<1>1. Sum(w, {}) = 0
  <2>1. PICK f : Tally(w, {}, f) /\ Sum(w, {}) = f[{}]
    BY SumIsTally, FS_EmptySet
  <2> QED BY <2>1 DEF Tally, Summed
<1>2. ASSUME NEW S, IsFiniteSet(S), S # {}
      PROVE  Sum(w, S) = w[OneOf(S)] + Sum(w, S \ {OneOf(S)})
  <2> DEFINE T == S \ {OneOf(S)}
  <2>1. IsFiniteSet(T)
    BY <1>2, FS_RemoveElement
  <2>2. PICK f : Tally(w, S, f) /\ Sum(w, S) = f[S]
    BY <1>2, SumIsTally
  <2>3. PICK g : Tally(w, T, g) /\ Sum(w, T) = g[T]
    BY <2>1, SumIsTally
  <2>4. g[T] = f[T]
    BY <2>1, <2>2, <2>3, TallyUnique
  <2>5. f[S] = Summed(w, f, S)
    BY <2>2 DEF Tally
  <2> QED BY <1>2, <2>2, <2>3, <2>4, <2>5 DEF Summed
<1> QED BY <1>1, <1>2

\* The elements have amounts.
Amounts(w, S) == \A x \in S : w[x] \in Int

\* A total of amounts is an amount.
LEMMA SumIsInt ==
  ASSUME NEW w, NEW S, IsFiniteSet(S), Amounts(w, S)
  PROVE  Sum(w, S) \in Int
<1> DEFINE P == {s \in SUBSET S : Sum(w, s) \in Int}
<1>1. ASSUME NEW s \in SUBSET S, \A t \in SUBSET s : t # s => t \in P
      PROVE  s \in P
  <2>1. CASE s = {}
    BY <2>1, SumCounts
  <2>2. CASE s # {}
    <3>1. IsFiniteSet(s) /\ OneOf(s) \in s
      BY <2>2, OneOfSet, FS_Subset
    <3>2. Sum(w, s \ {OneOf(s)}) \in Int
      BY <1>1, <3>1
    <3>3. Sum(w, s) = w[OneOf(s)] + Sum(w, s \ {OneOf(s)})
      BY <2>2, <3>1, SumCounts
    <3>4. w[OneOf(s)] \in Int
      BY <3>1 DEF Amounts
    <3> QED BY <3>2, <3>3, <3>4
  <2> QED BY <2>1, <2>2
<1>2. \A s \in SUBSET S : s \in P
  <2> HIDE DEF P
  <2> QED BY <1>1, SubsetInduction
<1> QED BY <1>2

\* What a function makes of a finite set is finite.
LEMMA ImageFinite ==
  ASSUME NEW S, IsFiniteSet(S), NEW f
  PROVE  IsFiniteSet({f[x] : x \in S})
<1> DEFINE g == [x \in S |-> f[x]]
           T == {f[x] : x \in S}
<1>1. g \in Surjection(S, T)
  BY DEF Surjection
<1> HIDE DEF g, T
<1>2. IsFiniteSet(T)
  BY <1>1, FS_Surjection
<1> QED BY <1>2 DEF T

LEMMA PairFinite == ASSUME NEW x, NEW y PROVE IsFiniteSet({x, y})
<1>1. IsFiniteSet({x} \cup {y})
  BY FS_Singleton, FS_Union
<1>2. {x} \cup {y} = {x, y}
  OBVIOUS
<1> QED BY <1>1, <1>2

\* The elements of a finite set fall into groups by a key, which add up to them all.
LEMMA GroupsAddUp ==
  ASSUME NEW S, IsFiniteSet(S), NEW key, NEW D, IsFiniteSet(D), \A x \in S : key[x] \in D,
         NEW w, \A d \in D : w[d] = Cardinality({x \in S : key[x] = d})
  PROVE  Sum(w, D) = Cardinality(S)
<1> DEFINE In2(s) == {x \in S : key[x] \in s}
           P == {s \in SUBSET D : Sum(w, s) = Cardinality(In2(s))}
<1>1. ASSUME NEW s \in SUBSET D, \A t \in SUBSET s : t # s => t \in P, s # {}
      PROVE  s \in P
  <2>1. PICK c : c = OneOf(s)
    OBVIOUS
  <2>2. PICK t : t = s \ {c}
    OBVIOUS
  <2>3. IsFiniteSet(s) /\ c \in s /\ c \in D
    BY <1>1, <2>1, OneOfSet, FS_Subset
  <2>4. Sum(w, t) = Cardinality(In2(t))
    BY <1>1, <2>2, <2>3
  <2>5. Sum(w, s) = w[c] + Sum(w, t)
    BY <1>1, <2>1, <2>2, <2>3, SumCounts
  <2>6. PICK G : G = {x \in S : key[x] = c}
    OBVIOUS
  <2>7. In2(s) = G \cup In2(t) /\ G \cap In2(t) = {} /\ G \subseteq S /\ In2(t) \subseteq S
    BY <2>2, <2>3, <2>6
  <2>8. w[c] = Cardinality(G)
    BY <2>3, <2>6
  <2> HIDE DEF In2
  <2>9. IsFiniteSet(G) /\ IsFiniteSet(In2(t)) /\ Cardinality(G) \in Nat /\ Cardinality(In2(t)) \in Nat
    BY <2>7, FS_Subset, FS_CardinalityType
  <2>10. Cardinality(In2(s)) = Cardinality(G) + Cardinality(In2(t)) - Cardinality({})
    BY <2>7, <2>9, FS_Union
  <2>11. Cardinality({}) = 0
    BY FS_EmptySet
  <2>12. Cardinality(In2(s)) = Cardinality(G) + Cardinality(In2(t))
    BY <2>9, <2>10, <2>11
  <2> QED BY <2>4, <2>5, <2>8, <2>12
<1>2. {} \in P
  <2>1. In2({}) = {}
    OBVIOUS
  <2> HIDE DEF In2
  <2> QED BY <2>1, FS_EmptySet, SumCounts
<1>3. D \in P
  <2> HIDE DEF P
  <2>1. \A s \in SUBSET D : s \in P
    BY <1>1, <1>2, SubsetInduction
  <2> QED BY <2>1
<1>4. In2(D) = S
  OBVIOUS
<1> QED BY <1>3, <1>4

-----------------------------------------------------------------------------
(***************************************************************************)
(* Warnings.                                                               *)
(***************************************************************************)

\* There are finitely many findings.
LEMMA FindingsFinite ==
  ASSUME LedgerInv, HasFindings
  PROVE  IsFiniteSet(Findings)
<1> DEFINE ids == UNION {Ids(raw[t]) : t \in FindingTables}
           names == {s.name : s \in raw["supplier"]}
           rules == {"W001", "W002", "W003", "W004", "W005", "W006", "W008", "W009", "W010", "W012"}
<1>1. \A t \in FindingTables : IsFiniteSet(raw[t])
  BY DEF HasFindings, LedgerInv, RawInv
<1>2. ASSUME NEW S, IsFiniteSet(S)
      PROVE  IsFiniteSet({r.id : r \in S}) /\ IsFiniteSet({r.name : r \in S})
  <2> DEFINE f == [r \in S |-> r.id]
             g == [r \in S |-> r.name]
  <2>1. {r.id : r \in S} = {f[r] : r \in S} /\ {r.name : r \in S} = {g[r] : r \in S}
    OBVIOUS
  <2> HIDE DEF f, g
  <2>2. IsFiniteSet({f[r] : r \in S})
    BY <1>2, ImageFinite
  <2>3. IsFiniteSet({g[r] : r \in S})
    BY <1>2, ImageFinite
  <2> QED BY <2>1, <2>2, <2>3
<1>3. IsFiniteSet(names)
  BY <1>1, <1>2 DEF FindingTables
<1>4. IsFiniteSet(ids)
  <2>1. \A t \in FindingTables : IsFiniteSet(Ids(raw[t]))
    BY <1>1, <1>2 DEF Ids
  <2>2. IsFiniteSet(Ids(raw["project"]) \cup Ids(raw["contract"]) \cup Ids(raw["apply"])
                     \cup Ids(raw["cost"]) \cup Ids(raw["expense"]))
    BY <2>1, FS_Union DEF FindingTables
  <2>3. IsFiniteSet(Ids(raw["share"]) \cup Ids(raw["loan"]) \cup Ids(raw["task"])
                     \cup Ids(raw["supplier"]) \cup Ids(raw["user"]))
    BY <2>1, FS_Union DEF FindingTables
  <2>4. ids = (Ids(raw["project"]) \cup Ids(raw["contract"]) \cup Ids(raw["apply"])
                     \cup Ids(raw["cost"]) \cup Ids(raw["expense"]))
                \cup (Ids(raw["share"]) \cup Ids(raw["loan"]) \cup Ids(raw["task"])
                     \cup Ids(raw["supplier"]) \cup Ids(raw["user"]))
    BY DEF FindingTables
  <2> HIDE DEF ids
  <2>5. \A S, T : IsFiniteSet(S) /\ IsFiniteSet(T) => IsFiniteSet(S \cup T)
    BY FS_Union
  <2> QED BY <2>2, <2>3, <2>4, <2>5
<1>5. IsFiniteSet(rules)
  <2>1. \A x, y : IsFiniteSet({x, y})
    BY PairFinite
  <2>2. IsFiniteSet({"W001", "W002"} \cup {"W003", "W004"})
        /\ IsFiniteSet({"W005", "W006"} \cup {"W008", "W009"})
    BY <2>1, FS_Union
  <2>3. IsFiniteSet(({"W001", "W002"} \cup {"W003", "W004"})
                      \cup ({"W005", "W006"} \cup {"W008", "W009"}))
    BY <2>2, FS_Union
  <2>4. rules = (({"W001", "W002"} \cup {"W003", "W004"})
                   \cup ({"W005", "W006"} \cup {"W008", "W009"})) \cup {"W010", "W012"}
    OBVIOUS
  <2>5. IsFiniteSet((({"W001", "W002"} \cup {"W003", "W004"})
                   \cup ({"W005", "W006"} \cup {"W008", "W009"})) \cup {"W010", "W012"})
    BY <2>1, <2>3, FS_Union
  <2> HIDE DEF rules
  <2> QED BY <2>4, <2>5
<1>6. \A r \in raw["project"] \cup raw["contract"] \cup raw["apply"]
        \cup raw["expense"] \cup raw["loan"] \cup raw["task"] \cup raw["user"] : r.id \in ids
  BY DEF FindingTables, Ids
<1>7. \A s \in raw["supplier"] : s.name \in names
  OBVIOUS
<1>8. IsFiniteSet(rules \X (ids \cup names))
  BY <1>3, <1>4, <1>5, FS_Union, FS_Product
<1> HIDE DEF ids, names
<1>9. Findings \subseteq rules \X (ids \cup names)
  <2>1. ASSUME NEW x \in Findings
        PROVE  \/ \E rule \in rules : \E r \in raw["project"] \cup raw["contract"] \cup raw["apply"]
                    \cup raw["expense"] \cup raw["loan"] \cup raw["task"] \cup raw["user"] :
                      x = <<rule, r.id>>
               \/ \E s \in raw["supplier"] : x = <<"W010", s.name>>
    BY <2>1 DEF Findings, Live
  <2> QED BY <1>6, <1>7, <2>1
<1> QED BY <1>8, <1>9, FS_Subset

\* The warnings that nobody has decided.
Open == {w \in Warnings : w.state = "open"}

\* They are finitely many.
LEMMA OpenFinite ==
  ASSUME LedgerInv, HasFindings
  PROVE  IsFiniteSet(Open)
<1> DEFINE f == [w \in Findings |-> [id |-> w, state |-> "open"]]
<1>1. Open \subseteq {f[w] : w \in Findings}
  BY DEF Open, Warnings
<1> HIDE DEF f
<1>2. IsFiniteSet({f[w] : w \in Findings})
  BY FindingsFinite, ImageFinite
<1> QED BY <1>1, <1>2, FS_Subset

\* The badge is the sum of what the rules with an open finding show.
LEMMA BadgeAddsUp ==
  ASSUME LedgerInv, HasFindings
  PROVE  WarningBadge = MapThenSumSet(LAMBDA r : WarningRules[r], DOMAIN WarningRules)
<1>1. PICK S : S = Open
  OBVIOUS
<1>2. PICK w : w = WarningRules
  OBVIOUS
<1>3. IsFiniteSet(S)
  BY <1>1, OpenFinite
<1> DEFINE key == [x \in S |-> x.id[1]]
           D == {key[x] : x \in S}
<1>4. w = [r \in {x.id[1] : x \in S} |-> Cardinality({x \in S : x.id[1] = r})]
  BY <1>1, <1>2 DEF WarningRules, Open
<1>5. DOMAIN w = D /\ \A d \in D : w[d] = Cardinality({x \in S : key[x] = d})
  <2>1. \A x \in S : key[x] = x.id[1]
    OBVIOUS
  <2>2. \A d : {x \in S : key[x] = d} = {x \in S : x.id[1] = d}
    BY <2>1
  <2>3. D = {x.id[1] : x \in S}
    BY <2>1
  <2> QED BY <1>4, <2>2, <2>3
<1>6. \A x \in S : key[x] \in D
  OBVIOUS
<1> HIDE DEF key
<1>7. IsFiniteSet(D)
  BY <1>3, ImageFinite
<1> HIDE DEF D
<1>8. Sum(w, D) = Cardinality(S)
  BY <1>3, <1>5, <1>6, <1>7, GroupsAddUp
<1>9. WarningList("open", NoFilter) = S
  BY <1>1 DEF WarningList, Open, Fits, NoFilter
<1>10. MapThenSumSet(LAMBDA r : WarningRules[r], DOMAIN WarningRules) = Sum(WarningRules, DOMAIN WarningRules)
  BY DEF Sum
<1> QED BY <1>2, <1>5, <1>8, <1>9, <1>10 DEF WarningBadge

\* The state a finding is shown with is that of its latest decision.
ShownAs(id) ==
  \A v \in Warnings : v.id = id =>
    v.state = IF Stored("warning", id) = {} THEN "open"
              ELSE OneOf(Stored("warning", id)).state

LEMMA ShownNow == ASSUME NEW CONSTANT id PROVE ShownAs(id)
BY DEF ShownAs, Warnings, Handled, Stored, OneOf

LEMMA ShownNext == ASSUME NEW CONSTANT id PROVE ShownAs(id)'
<1>1. ShownAs(id)
  BY ShownNow
<1> QED BY <1>1, PTL

\* The open findings are those without a decision, or reopened.
OpenAre ==
  LedgerInv => /\ IsFiniteSet(Open)
               /\ \A o : o \in Open <=>
                    \E w \in Findings :
                      /\ o = [id |-> w, state |-> "open"]
                      /\ \/ Handled(w) = {}
                         \/ OneOf(Handled(w)).state = "open"
               /\ WarningBadge = Cardinality(Open)
               /\ WarningBadge =
                    MapThenSumSet(LAMBDA r : WarningRules[r], DOMAIN WarningRules)

LEMMA OpenNow == HasFindings => OpenAre
<1> SUFFICES ASSUME HasFindings, LedgerInv PROVE OpenAre
  BY DEF OpenAre
<1>1. ASSUME NEW o
      PROVE  o \in Open <=> \E w \in Findings :
                              /\ o = [id |-> w, state |-> "open"]
                              /\ Handled(w) = {} \/ OneOf(Handled(w)).state = "open"
  BY DEF Open, Warnings, OneOf
<1>2. WarningBadge = Cardinality(Open)
  BY DEF WarningBadge, WarningList, Open, Fits, NoFilter
<1> QED BY <1>1, <1>2, OpenFinite, BadgeAddsUp DEF OpenAre

LEMMA OpenNext == ASSUME HasFindings PROVE OpenAre'
<1>1. OpenAre
  BY OpenNow
<1> QED BY <1>1, PTL

\* The parts of what decisions do.
DecisionStands(id) ==
  \A w \in Warnings : \A v \in Warnings' :
    w.id = id /\ v.id = id /\ v.state # w.state =>
      Stored("warning", id) # Stored("warning", id)'

\* The badge falls only by a decision.
BadgeFalls ==
  WarningBadge' < WarningBadge => local.warning' # local.warning \/ ~(Findings \subseteq Findings')

\* A decision stands until another is made.
LEMMA DecisionsStand == ASSUME NEW CONSTANT id PROVE DecisionStands(id)
<1> SUFFICES ASSUME NEW w \in Warnings, NEW v \in Warnings', w.id = id, v.id = id,
                    Stored("warning", id)' = Stored("warning", id)
             PROVE  v.state = w.state
  BY DEF DecisionStands
<1>1. w.state = IF Stored("warning", id) = {} THEN "open" ELSE OneOf(Stored("warning", id)).state
  BY ShownNow DEF ShownAs
<1>2. v.state = IF Stored("warning", id)' = {} THEN "open" ELSE OneOf(Stored("warning", id)').state
  BY ShownNext DEF ShownAs
<1> QED BY <1>1, <1>2

\* The badge, likewise, does not fall by itself.
LEMMA BadgeFallsFor == ASSUME HasFindings, LedgerInv, LedgerInv' PROVE BadgeFalls
<1> SUFFICES ASSUME local.warning' = local.warning, Findings \subseteq Findings'
             PROVE  ~(WarningBadge' < WarningBadge)
  BY DEF BadgeFalls
<1>1. OpenAre /\ OpenAre'
  BY OpenNow, OpenNext
<1>2. \A w : Handled(w)' = Handled(w)
  BY DEF Handled
<1>3. Open \subseteq Open'
  BY <1>1, <1>2 DEF OpenAre
<1>4. PICK now, then : now = Open /\ then = Open'
  OBVIOUS
<1>5. /\ IsFiniteSet(now) /\ IsFiniteSet(then) /\ now \subseteq then
      /\ WarningBadge = Cardinality(now) /\ WarningBadge' = Cardinality(then)
  BY <1>1, <1>3, <1>4 DEF OpenAre
<1>6. Cardinality(now) <= Cardinality(then) /\ Cardinality(now) \in Nat /\ Cardinality(then) \in Nat
  BY <1>5, FS_Subset, FS_CardinalityType
<1> QED BY <1>5, <1>6

\* What was decided on a finding stands until a command on that very finding
\* (warning_transition), though findings come and go with what is staged, and the
\* badge is the sum of what the rules show (warning_badge, warning_rules).
THEOREM DecisionsStayHolds ==
  ASSUME HasFindings
  PROVE  LedgerSpec => DecisionsStay
<1>1. ASSUME LedgerInv, LedgerInv', [LedgerNext]_ledgerVars
      PROVE  [/\ \A w \in Warnings : \A v \in Warnings' :
                   v.id = w.id /\ v.state # w.state =>
                     Stored("warning", w.id) # Stored("warning", w.id)'
              /\ WarningBadge' < WarningBadge =>
                   local.warning' # local.warning \/ ~(Findings \subseteq Findings')
              /\ WarningBadge =
                   MapThenSumSet(LAMBDA r : WarningRules[r], DOMAIN WarningRules)]_ledgerVars
  <2>1. \A w \in Warnings : \A v \in Warnings' :
          v.id = w.id /\ v.state # w.state =>
            Stored("warning", w.id) # Stored("warning", w.id)'
    <3> SUFFICES ASSUME NEW w \in Warnings, NEW v \in Warnings', v.id = w.id, v.state # w.state
                 PROVE  Stored("warning", w.id) # Stored("warning", w.id)'
      OBVIOUS
    <3>1. \A id : DecisionStands(id)
      BY DecisionsStand
    <3>2. DecisionStands(w.id)
      BY <3>1
    <3> QED BY <3>2 DEF DecisionStands
  <2>2. BadgeFalls
    BY <1>1, BadgeFallsFor
  <2>3. OpenAre
    BY OpenNow
  <2> QED BY <1>1, <2>1, <2>2, <2>3 DEF BadgeFalls, OpenAre
<1> QED BY <1>1, LedgerInductive, PTL DEF DecisionsStay, LedgerSpec

-----------------------------------------------------------------------------
(***************************************************************************)
(* Work.                                                                   *)
(***************************************************************************)

\* A family holds finitely many records.
LocalFinite == \A f \in Families : IsFiniteSet(local[f])

\* A step adds or replaces one record.
LEMMA LocalFiniteStep == LedgerInv /\ LocalFinite /\ [LedgerNext]_ledgerVars => LocalFinite'
<1> SUFFICES ASSUME LedgerInv, LocalFinite, [LedgerNext]_ledgerVars,
                    NEW g \in Families
             PROVE  IsFiniteSet(local'[g])
  BY DEF LocalFinite
<1>0. IsFiniteSet(local[g])
  BY DEF LocalFinite
<1>1. ASSUME NEW t \in DOMAIN scope.imports, NEW row \in scope.imports[t], Import(t, row)
      PROVE  IsFiniteSet(local'[g])
  BY <1>0, <1>1 DEF Import
<1>2. ASSUME NEW f \in DOMAIN promoted \cap DOMAIN scope.drafts, NEW row \in raw[TableOf[f]],
             Promote(f, row.id)
      PROVE  IsFiniteSet(local'[g])
  <2>1. local'[g] \subseteq local[g]
    BY <1>2, PromoteKeeps
  <2> QED BY <1>0, <2>1, FS_Subset
<1>3. ASSUME NEW f \in DOMAIN scope.drafts, NEW draft \in scope.drafts[f],
             NEW type \in Given(f, draft), NEW wants \in Wants(f, type),
             Undertake(f, type, draft, wants)
      PROVE  IsFiniteSet(local'[g])
  BY <1>0, <1>3 DEF Undertake
<1>4. ASSUME NEW c \in commands, Store(c)
      PROVE  IsFiniteSet(local'[g])
  <2>1. /\ \A h \in Families : h # c.family => local'[h] = local[h]
        /\ local'[c.family] = (local[c.family] \ Stored(c.family, c.draft.id)) \cup Result(c)
        /\ Grounded(c)
    BY <1>4, StoreFacts
  <2>2. CASE c.family # g
    BY <1>0, <2>1, <2>2
  <2>3. CASE c.family = g
    <3>1. PICK n : Result(c) \subseteq {n}
      BY <2>1, ResultFacts
    <3>2. IsFiniteSet(local[g] \cup {n})
      BY <1>0, FS_AddElement
    <3>3. local'[g] \subseteq local[g] \cup {n}
      BY <2>1, <2>3, <3>1
    <3> QED BY <3>2, <3>3, FS_Subset
  <2> QED BY <2>2, <2>3
<1>5. ASSUME NEW c \in commands, LookUp(c) \/ GiveUp(c)
      PROVE  IsFiniteSet(local'[g])
  BY <1>0, <1>5 DEF LookUp, GiveUp
<1>6. CASE UNCHANGED ledgerVars
  BY <1>0, <1>6 DEF ledgerVars
<1> QED BY <1>1, <1>2, <1>3, <1>4, <1>5, <1>6 DEF LedgerNext

LEMMA LocalFiniteInductive == LedgerSpec => [](LedgerInv /\ LocalFinite)
<1>1. LedgerInit => LedgerInv /\ LocalFinite
  <2>1. LedgerInit => LocalFinite
    BY FS_EmptySet DEF LedgerInit, LocalFinite
  <2> QED BY <2>1, InitLedger
<1>2. LedgerInv /\ LocalFinite /\ [LedgerNext]_ledgerVars => (LedgerInv /\ LocalFinite)'
  BY LedgerStep, LocalFiniteStep
<1> QED BY <1>1, <1>2, PTL DEF LedgerSpec

\* Some element of a finite set has the greatest value.
LEMMA Greatest ==
  ASSUME NEW S, IsFiniteSet(S), S # {}, NEW v, \A x \in S : v[x] \in Int
  PROVE  \E m \in S : \A x \in S : v[x] <= v[m]
<1> DEFINE P == {s \in SUBSET S : s # {} => \E m \in s : \A x \in s : v[x] <= v[m]}
<1>1. ASSUME NEW s \in SUBSET S, \A t \in SUBSET s : t # s => t \in P, s # {}
      PROVE  \E m \in s : \A x \in s : v[x] <= v[m]
  <2>1. PICK c \in s : TRUE
    BY <1>1
  <2>2. PICK t : t = s \ {c}
    OBVIOUS
  <2>3. t \in P
    BY <1>1, <2>2
  <2>4. CASE t = {}
    <3>1. \A x \in s : x = c
      BY <2>2, <2>4
    <3>2. v[c] \in Int
      BY <2>1
    <3> QED BY <2>1, <3>1, <3>2
  <2>5. CASE t # {}
    <3>1. PICK m \in t : \A x \in t : v[x] <= v[m]
      BY <2>3, <2>5
    <3>2. v[c] \in Int /\ v[m] \in Int /\ m \in s /\ \A x \in t : v[x] \in Int
      BY <2>1, <2>2, <3>1
    <3>3. \A x \in s : x \in t \/ x = c
      BY <2>2
    <3>4. CASE v[c] <= v[m]
      BY <3>1, <3>2, <3>3, <3>4
    <3>5. CASE v[m] <= v[c]
      BY <2>1, <3>1, <3>2, <3>3, <3>5
    <3> QED BY <3>2, <3>4, <3>5
  <2> QED BY <2>4, <2>5
<1>2. S \in P
  <2>1. \A s \in SUBSET S : (\A t \in SUBSET s : t # s => t \in P) => s \in P
    BY <1>1
  <2> HIDE DEF P
  <2>2. \A s \in SUBSET S : s \in P
    BY <2>1, SubsetInduction
  <2> QED BY <2>2
<1> QED BY <1>2

\* What a sound ledger says of the tables on work.
LEMMA WorkFacts ==
  ASSUME LedgerInv, HasWork
  PROVE  /\ \A t \in WorkTables : IsFiniteSet(raw[t]) /\ OnceEach(raw[t])
         /\ \A r \in raw["progress"] \cup raw["output"] : IsRow(r) /\ "proj" \in DOMAIN r
         /\ \A t \in raw["task"] : t.id # NoFilter
         /\ \A l \in local["plan_task"] : l.id # NoFilter
         /\ \A i \in raw["instance"] : i.at \in Int
         /\ \A k \in raw["cost"] : k.target \in Int /\ k.cost \in Int
<1>1. \A t \in WorkTables : t \in Tables
  BY DEF HasWork
<1>2. \A t \in WorkTables : IsFiniteSet(raw[t]) /\ OnceEach(raw[t])
  BY <1>1 DEF LedgerInv, RawInv
<1>3. \A t \in WorkTables : \A r \in raw[t] : t \in DOMAIN scope.imports /\ r \in scope.imports[t]
  BY <1>1 DEF LedgerInv, RawInv
<1>4. scope \in Scopes /\ \A t \in WorkTables : \A r \in raw[t] : IsRow(r)
  BY <1>3, ScopeFacts DEF LedgerInv
<1>5. ASSUME NEW r \in raw["progress"] \cup raw["output"] PROVE IsRow(r) /\ "proj" \in DOMAIN r
  BY <1>3, <1>4 DEF HasWork, WorkTables
<1>6. \A t \in raw["task"] : t.id # NoFilter
  BY <1>3, <1>4 DEF HasWork, WorkTables
<1>7. \A l \in local["plan_task"] : l.id # NoFilter
  <2>1. "plan_task" \in Families
    BY DEF HasWork
  <2> QED BY <1>4, <2>1 DEF HasWork, LedgerInv, LocalInv
<1>8. \A i \in raw["instance"] : i.at \in Int
  BY <1>3, <1>4 DEF HasWork, WorkTables
<1>9. \A k \in raw["cost"] : k.target \in Int /\ k.cost \in Int
  BY <1>3, <1>4 DEF HasWork, WorkTables
<1> QED BY <1>2, <1>5, <1>6, <1>7, <1>8, <1>9

\* The tasks of a project that its plan and its delivery list.
LEMMA PlanFacts ==
  ASSUME NEW p, NEW x
  PROVE  /\ x \in PlanTasks(p, NoFilter) <=>
              \/ \E t \in raw["task"] : t.proj = p /\ x = TaskRow(t, "imported")
              \/ \E l \in local["plan_task"] :
                   l.state \notin Gone /\ l.proj = p /\ x = TaskRow(l, "command")
         /\ x \in PlanTasks(p, NoFilter) => x \in DeliveryTasks(p)
<1>1. \A y : Fits(NoFilter, y) /\ Fits(y, y)
  BY DEF Fits
<1>2. x \in PlanTasks(p, NoFilter) <=>
        \/ \E t \in raw["task"] : t.proj = p /\ x = TaskRow(t, "imported")
        \/ \E l \in local["plan_task"] :
             l.state \notin Gone /\ l.proj = p /\ x = TaskRow(l, "command")
  BY <1>1 DEF PlanTasks, Kept
<1>3. x \in PlanTasks(p, NoFilter) => x \in DeliveryTasks(p)
  BY <1>1 DEF PlanTasks, DeliveryTasks
<1> QED BY <1>2, <1>3

LEMMA TaskRowIds == \A t, kind : TaskRow(t, kind).id = t.id
BY DEF TaskRow

\* A task has a page if and only if a plan lists it, and they show it alike.
LEMMA TaskPages ==
  ASSUME LedgerInv, HasWork, NEW id \in Ids(raw.task) \cup Ids(local.plan_task)
  PROVE  LET plans == {p \in {t.proj : t \in raw.task \cup local.plan_task} :
                         id \in Ids(PlanTasks(p, NoFilter))}
         IN /\ PlanTaskPage(id) = {} <=> plans = {}
            /\ \A page \in PlanTaskPage(id) :
                 /\ page.task \in PlanTasks(page.proj, NoFilter)
                 /\ page.reports \subseteq DeliveryOverview(page.proj).reports
            /\ DelayImpact(id) \subseteq UNION {PlanTasks(p, NoFilter) : p \in plans}
<1> DEFINE Listed(p) == id \in Ids(PlanTasks(p, NoFilter))
           plans == {p \in {t.proj : t \in raw.task \cup local.plan_task} : Listed(p)}
           Shows(t, kind) == [proj |-> t.proj, task |-> TaskRow(t, kind),
                              reports |-> TaskReports(id)]
<1>0. id # NoFilter
  BY WorkFacts DEF Ids
<1>1. \A p : Listed(p) <=> \/ \E t \in raw["task"] : t.proj = p /\ t.id = id
                           \/ \E l \in local["plan_task"] :
                                l.state \notin Gone /\ l.proj = p /\ l.id = id
  BY PlanFacts, TaskRowIds DEF Ids
<1>2. \A page : page \in PlanTaskPage(id) <=>
        \/ \E t \in raw["task"] : t.id = id /\ page = Shows(t, "imported")
        \/ /\ ~In("task", id)
           /\ \E l \in local["plan_task"] :
                l.state \notin Gone /\ l.id = id /\ page = Shows(l, "command")
  BY DEF PlanTaskPage, Kept
<1>3. PlanTaskPage(id) = {} <=> plans = {}
  <2>1. PlanTaskPage(id) # {} => plans # {}
    <3> SUFFICES ASSUME NEW page \in PlanTaskPage(id) PROVE \E p : p \in plans
      OBVIOUS
    <3>1. CASE \E t \in raw["task"] : t.id = id
      <4>1. PICK t \in raw["task"] : t.id = id
        BY <3>1
      <4>2. Listed(t.proj)
        BY <1>1, <4>1
      <4> QED BY <4>1, <4>2
    <3>2. CASE \E l \in local["plan_task"] : l.state \notin Gone /\ l.id = id
      <4>1. PICK l \in local["plan_task"] : l.state \notin Gone /\ l.id = id
        BY <3>2
      <4>2. Listed(l.proj)
        BY <1>1, <4>1
      <4> QED BY <4>1, <4>2
    <3> QED BY <1>2, <3>1, <3>2
  <2>2. plans # {} => PlanTaskPage(id) # {}
    <3> SUFFICES ASSUME NEW p \in plans PROVE \E page : page \in PlanTaskPage(id)
      OBVIOUS
    <3>1. \/ \E t \in raw["task"] : t.id = id
          \/ \E l \in local["plan_task"] : l.state \notin Gone /\ l.id = id
      BY <1>1
    <3> QED BY <1>2, <3>1 DEF In
  <2> QED BY <2>1, <2>2
<1>4. ASSUME NEW page \in PlanTaskPage(id)
      PROVE  /\ page.task \in PlanTasks(page.proj, NoFilter)
             /\ page.reports = TaskReports(id)
             /\ page.task.id = id
  <2>1. ASSUME NEW t \in raw["task"], t.id = id, page = Shows(t, "imported")
        PROVE  page.task \in PlanTasks(page.proj, NoFilter) /\ page.reports = TaskReports(id)
               /\ page.task.id = id
    <3>1. page.task = TaskRow(t, "imported") /\ page.proj = t.proj /\ page.reports = TaskReports(id)
      BY <2>1
    <3> QED BY <2>1, <3>1, PlanFacts, TaskRowIds
  <2>2. ASSUME NEW t \in local["plan_task"], t.state \notin Gone, t.id = id,
               page = Shows(t, "command")
        PROVE  page.task \in PlanTasks(page.proj, NoFilter) /\ page.reports = TaskReports(id)
               /\ page.task.id = id
    <3>1. page.task = TaskRow(t, "command") /\ page.proj = t.proj /\ page.reports = TaskReports(id)
      BY <2>2
    <3> QED BY <2>2, <3>1, PlanFacts, TaskRowIds
  <2> HIDE DEF Shows
  <2> QED BY <1>2, <2>1, <2>2
<1>5. ASSUME NEW page \in PlanTaskPage(id)
      PROVE  page.reports \subseteq DeliveryOverview(page.proj).reports
  <2>1. id \in Ids(DeliveryTasks(page.proj))
    <3>1. page.task \in DeliveryTasks(page.proj)
      BY <1>4, PlanFacts
    <3> QED BY <1>4, <3>1 DEF Ids
  <2>2. \A r \in TaskReports(id) : r \in TaskReports(NoFilter) /\ r.task = id
    BY <1>0 DEF TaskReports, Fits
  <2>3. DeliveryOverview(page.proj).reports =
          {r \in TaskReports(NoFilter) : r.task \in Ids(DeliveryTasks(page.proj))}
    BY DEF DeliveryOverview
  <2> QED BY <1>4, <2>1, <2>2, <2>3
<1>6. DelayImpact(id) \subseteq UNION {PlanTasks(p, NoFilter) : p \in plans}
  <2> SUFFICES ASSUME NEW x \in DelayImpact(id)
               PROVE  \E p \in plans : x \in PlanTasks(p, NoFilter)
    OBVIOUS
  <2>1. PICK r \in raw["task"] : r.id = id /\ x \in PlanTasks(r.proj, NoFilter)
    BY DEF DelayImpact
  <2>2. Listed(r.proj)
    BY <1>1, <2>1
  <2> QED BY <2>1, <2>2
<1> QED BY <1>3, <1>4, <1>5, <1>6

\* A summary of tasks counts each of them once.
LEMMA CountsAddUp ==
  ASSUME NEW S, IsFiniteSet(S), NEW summary, summary = Counts(S)
  PROVE  Sum(summary, DOMAIN summary) = Cardinality(S)
<1> DEFINE States == {"done", "in_progress", "pending", "overdue", "blocked"}
           key == [t \in S |-> IF t.state \in States THEN t.state ELSE "pending"]
<1>1. /\ DOMAIN summary = States
      /\ \A s \in States \ {"pending"} : summary[s] = Cardinality({t \in S : t.state = s})
      /\ summary["pending"] = Cardinality({t \in S : t.state = "pending"}
                                            \cup {t \in S : t.state \notin States})
  BY DEF Counts
<1>2. \A s \in States \ {"pending"} : {t \in S : t.state = s} = {t \in S : key[t] = s}
  OBVIOUS
<1>3. {t \in S : t.state = "pending"} \cup {t \in S : t.state \notin States} =
        {t \in S : key[t] = "pending"}
  OBVIOUS
<1>4. \A t \in S : key[t] \in States
  OBVIOUS
<1>5. IsFiniteSet(States)
  <2>1. \A x, y : IsFiniteSet({x, y})
    BY PairFinite
  <2>2. IsFiniteSet({"done", "in_progress"} \cup {"pending", "overdue"})
    BY <2>1, FS_Union
  <2>3. IsFiniteSet(({"done", "in_progress"} \cup {"pending", "overdue"})
                      \cup {"overdue", "blocked"})
    BY <2>1, <2>2, FS_Union
  <2>4. States = ({"done", "in_progress"} \cup {"pending", "overdue"}) \cup {"overdue", "blocked"}
    OBVIOUS
  <2> HIDE DEF States
  <2> QED BY <2>3, <2>4
<1> HIDE DEF key
<1>6. ASSUME NEW s \in States
      PROVE  summary[s] = Cardinality({t \in S : key[t] = s})
  <2> HIDE DEF States
  <2>1. CASE s = "pending"
    BY <1>1, <1>3, <2>1
  <2>2. CASE s # "pending"
    <3>1. s \in States \ {"pending"}
      BY <2>2
    <3>2. summary[s] = Cardinality({t \in S : t.state = s})
      BY <1>1, <3>1
    <3>3. {t \in S : t.state = s} = {t \in S : key[t] = s}
      BY <1>2, <3>1
    <3> QED BY <3>2, <3>3
  <2> QED BY <2>1, <2>2
<1> HIDE DEF States
<1>7. Sum(summary, States) = Cardinality(S)
  BY <1>4, <1>5, <1>6, GroupsAddUp
<1> QED BY <1>1, <1>7

\* A project has finitely many tasks.
LEMMA TasksFinite ==
  ASSUME LedgerInv, LocalFinite, HasWork, NEW p
  PROVE  IsFiniteSet(DeliveryTasks(p)) /\ IsFiniteSet(KeyNodes(p))
<1> DEFINE f == [t \in raw["task"] |-> TaskRow(t, "imported")]
           g == [t \in local["plan_task"] |-> TaskRow(t, "command")]
           all == {f[t] : t \in raw["task"]} \cup {g[t] : t \in local["plan_task"]}
<1>1. DeliveryTasks(p) \subseteq all /\ KeyNodes(p) \subseteq all
  BY DEF DeliveryTasks, KeyNodes, PlanTasks, Kept
<1>2. IsFiniteSet(raw["task"]) /\ IsFiniteSet(local["plan_task"])
  BY WorkFacts DEF WorkTables, HasWork, LocalFinite
<1> HIDE DEF f, g
<1>3. IsFiniteSet({f[t] : t \in raw["task"]})
  BY <1>2, ImageFinite
<1>4. IsFiniteSet({g[t] : t \in local["plan_task"]})
  BY <1>2, ImageFinite
<1>5. IsFiniteSet(all)
  BY <1>3, <1>4, FS_Union
<1> HIDE DEF all
<1> QED BY <1>1, <1>5, FS_Subset

\* The delivery page of a project has its staged progress and outputs.
LEMMA DeliveryCovers ==
  ASSUME LedgerInv, HasWork, NEW p
  PROVE  /\ Imported(SourceProgress(p)) \subseteq DeliveryOverview(p).progress
         /\ Imported(SourceOutputs(p, NoFilter)) \subseteq DeliveryOverview(p).outputs
<1>1. DeliveryOverview(p).progress = DeliveryProgress(p) /\ DeliveryOverview(p).outputs = DeliveryOutputs(p)
  BY DEF DeliveryOverview
<1>2. ASSUME NEW r \in raw["progress"] \cup raw["output"], NEW x, x = Kinded(r, "imported")
      PROVE  x.proj = r.proj
  <2>1. IsRow(r) /\ "proj" \in DOMAIN r
    BY WorkFacts
  <2>2. Kinded(r, "imported")["proj"] = r["proj"]
    BY <2>1, KindedFacts
  <2> QED BY <1>2, <2>2
<1>3. ASSUME NEW x \in Imported(SourceProgress(p)) PROVE x \in DeliveryProgress(p)
  <2>1. PICK r \in raw["progress"] : x = Kinded(r, "imported") /\ Fits(p, r.proj)
    BY <1>3 DEF Imported, Named, SourceProgress
  <2>2. x \in Imported(raw["progress"]) /\ Fits(p, x.proj)
    BY <1>2, <2>1 DEF Imported, Named
  <2> QED BY <2>2 DEF DeliveryProgress
<1>4. ASSUME NEW x \in Imported(SourceOutputs(p, NoFilter)) PROVE x \in DeliveryOutputs(p)
  <2>1. PICK r \in raw["output"] : x = Kinded(r, "imported") /\ Fits(p, r.proj)
    BY <1>4 DEF Imported, Named, SourceOutputs
  <2>2. x \in Imported(raw["output"]) /\ Fits(p, x.proj)
    BY <1>2, <2>1 DEF Imported, Named
  <2> QED BY <2>2 DEF DeliveryOutputs
<1> QED BY <1>1, <1>3, <1>4

\* Lists, pages and summaries of tasks agree.
LEMMA TasksHold ==
  ASSUME LedgerInv, LocalFinite, HasWork
  PROVE  TasksAgree
<1>1. ASSUME NEW p \in Projects(NoFilter)
      PROVE  Ids(p.tasks) \subseteq Ids(PlanTasks(p.id, NoFilter))
  <2>1. p.tasks = ProjectTasks(p.id)
    BY DEF Projects, ProjectRow
  <2>2. \A t \in ProjectTasks(p.id) : \E x \in PlanTasks(p.id, NoFilter) : x.id = t.id
    BY PlanFacts, TaskRowIds DEF ProjectTasks, Live
  <2> QED BY <2>1, <2>2 DEF Ids
<1>2. ASSUME NEW p
      PROVE  /\ MapThenSumSet(LAMBDA s : DeliverySummary(p)[s], DOMAIN DeliverySummary(p)) =
                  Cardinality(DeliveryOverview(p).tasks)
             /\ MapThenSumSet(LAMBDA s : PlanSummary(p)[s], DOMAIN PlanSummary(p)) =
                  Cardinality(KeyNodes(p))
  <2>1. PICK c : c = DeliverySummary(p)
    OBVIOUS
  <2>2. PICK d : d = PlanSummary(p)
    OBVIOUS
  <2>3. /\ c = Counts(DeliveryTasks(p)) /\ d = Counts(KeyNodes(p))
        /\ DeliveryOverview(p).tasks = DeliveryTasks(p)
    BY <2>1, <2>2 DEF DeliverySummary, PlanSummary, DeliveryOverview
  <2>4. Sum(c, DOMAIN c) = Cardinality(DeliveryTasks(p))
    BY <2>3, CountsAddUp, TasksFinite
  <2>5. Sum(d, DOMAIN d) = Cardinality(KeyNodes(p))
    BY <2>3, CountsAddUp, TasksFinite
  <2>6. MapThenSumSet(LAMBDA s : DeliverySummary(p)[s], DOMAIN DeliverySummary(p)) =
          Sum(DeliverySummary(p), DOMAIN DeliverySummary(p))
    BY DEF Sum
  <2>7. MapThenSumSet(LAMBDA s : PlanSummary(p)[s], DOMAIN PlanSummary(p)) =
          Sum(PlanSummary(p), DOMAIN PlanSummary(p))
    BY DEF Sum
  <2>8. Sum(DeliverySummary(p), DOMAIN DeliverySummary(p)) = Cardinality(DeliveryOverview(p).tasks)
    BY <2>1, <2>3, <2>4
  <2>9. Sum(PlanSummary(p), DOMAIN PlanSummary(p)) = Cardinality(KeyNodes(p))
    BY <2>2, <2>5
  <2> QED BY <2>6, <2>7, <2>8, <2>9
<1>3. ASSUME NEW p \in Projects(NoFilter)
      PROVE  LET overview == DeliveryOverview(p.id)
                 AddsUp(summary) == MapThenSumSet(LAMBDA s : summary[s], DOMAIN summary)
             IN /\ Ids(p.tasks) \subseteq Ids(PlanTasks(p.id, NoFilter))
                /\ AddsUp(DeliverySummary(p.id)) = Cardinality(overview.tasks)
                /\ AddsUp(PlanSummary(p.id)) = Cardinality(KeyNodes(p.id))
                /\ Imported(SourceProgress(p.id)) \subseteq overview.progress
                /\ Imported(SourceOutputs(p.id, NoFilter)) \subseteq overview.outputs
  <2>1. /\ MapThenSumSet(LAMBDA s : DeliverySummary(p.id)[s], DOMAIN DeliverySummary(p.id)) =
             Cardinality(DeliveryOverview(p.id).tasks)
        /\ MapThenSumSet(LAMBDA s : PlanSummary(p.id)[s], DOMAIN PlanSummary(p.id)) =
             Cardinality(KeyNodes(p.id))
    BY <1>2
  <2>2. Ids(p.tasks) \subseteq Ids(PlanTasks(p.id, NoFilter))
    BY <1>1
  <2>3. /\ Imported(SourceProgress(p.id)) \subseteq DeliveryOverview(p.id).progress
        /\ Imported(SourceOutputs(p.id, NoFilter)) \subseteq DeliveryOverview(p.id).outputs
    BY DeliveryCovers
  <2> QED BY <2>1, <2>2, <2>3
<1> QED BY <1>3, TaskPages DEF TasksAgree

\* A page shows the instance with its identity.
LEMMA PageFacts ==
  ASSUME LedgerInv, HasWork, NEW i \in raw["instance"]
  PROVE  InstancePage(i.id) =
           {[instance |-> i, actions |-> ActionsOf(i.id),
             steps |-> {s \in raw.step : s.process = i.process}]}
<1>1. \A r \in raw["instance"] : r.id = i.id => r = i
  BY WorkFacts DEF WorkTables, OnceEach
<1>2. {r \in raw["instance"] : r.id = i.id} = {i}
  BY <1>1
<1> QED BY <1>2 DEF InstancePage

\* Whoever has to do with an approval finds it on their pages.
LEMMA ApprovalsHold ==
  ASSUME LedgerInv, HasWork
  PROVE  ApprovalsSeen
<1> DEFINE users == {a.user : a \in raw.action} \cup {i.by : i \in raw.instance}
           TheirPage(i) == [instance |-> i, actions |-> ActionsOf(i.id),
                       steps |-> {s \in raw.step : s.process = i.process}]
<1>1. ASSUME NEW i \in raw["instance"]
      PROVE  /\ InstancePage(i.id) = {TheirPage(i)}
             /\ TheirPage(i).instance = i /\ TheirPage(i).actions = ActionsOf(i.id)
             /\ TheirPage(i).steps = {s \in raw.step : s.process = i.process}
  BY PageFacts
<1> HIDE DEF TheirPage
<1>2. ASSUME NEW i \in raw["instance"], i.state \in Running
      PROVE  \E u \in users : i \in TasksMine(u) /\ ActionsOf(i.id) \subseteq UNION
               {p.actions : p \in InstancePage(i.id)}
  <2>1. ActionsOf(i.id) \subseteq UNION {p.actions : p \in InstancePage(i.id)}
    BY <1>1
  <2>2. CASE ActionsOf(i.id) = {}
    <3>1. i.by \in users /\ i \in TasksMine(i.by)
      BY <1>2, <2>2 DEF TasksMine
    <3> QED BY <2>1, <3>1
  <2>3. CASE ActionsOf(i.id) # {}
    <3>1. PICK a \in ActionsOf(i.id) : a \in raw["action"]
      BY <2>3 DEF ActionsOf
    <3>2. a.user \in users /\ i \in TasksMine(a.user)
      BY <1>2, <3>1 DEF TasksMine
    <3> QED BY <2>1, <3>2
  <2> QED BY <2>2, <2>3
<1>3. ASSUME NEW u, NEW a \in History(u)
      PROVE  \E p \in InstancePage(a.instance) : a \in p.actions
  <2>1. a \in raw["action"] /\ In("instance", a.instance)
    BY <1>3 DEF History
  <2>2. PICK i \in raw["instance"] : i.id = a.instance
    BY <2>1 DEF In
  <2>3. a \in ActionsOf(i.id)
    BY <2>1, <2>2 DEF ActionsOf
  <2> QED BY <1>1, <2>2, <2>3
<1>4. ASSUME NEW i \in raw["instance"]
      PROVE  \E p \in InstanceOf(i.biz) : p.instance.at >= i.at
  <2>1. PICK found : found = {j \in raw["instance"] : j.biz = i.biz}
    OBVIOUS
  <2> DEFINE at == [j \in found |-> j.at]
  <2>2. IsFiniteSet(found) /\ i \in found /\ found \subseteq raw["instance"]
    BY <2>1, WorkFacts, FS_Subset DEF WorkTables
  <2>3. \A j \in found : at[j] \in Int /\ at[j] = j.at
    BY <2>2, WorkFacts
  <2> HIDE DEF at
  <2>4. PICK m \in found : \A j \in found : at[j] <= at[m]
    BY <2>2, <2>3, Greatest
  <2>5. m \in {f \in found : \A g \in found : g.at <= f.at} /\ m.at >= i.at
    BY <2>2, <2>3, <2>4
  <2>6. TheirPage(m) \in InstanceOf(i.biz)
    BY <1>1, <2>1, <2>2, <2>5 DEF InstanceOf
  <2> QED BY <1>1, <2>2, <2>5, <2>6
<1>5. ASSUME NEW i \in raw["instance"], NEW d \in ProcessDefs(NoFilter), d.id = i.process,
             NEW p \in InstancePage(i.id)
      PROVE  Ids(p.steps) = Ids(d.steps)
  <2>1. p.steps = {s \in raw["step"] : s.process = d.id}
    BY <1>1, <1>5
  <2>2. \A x : x \in d.steps <=> \E s \in raw["step"] :
          s.process = d.id /\ x = [id |-> s.id, users |-> {a.user : a \in {b \in raw.assignee : b.step = s.id}}]
    BY <1>5 DEF ProcessDefs
  <2>3. \A s \in raw["step"] : s.process = d.id => \E x \in d.steps : x.id = s.id
    <3> SUFFICES ASSUME NEW s \in raw["step"], s.process = d.id PROVE \E x \in d.steps : x.id = s.id
      OBVIOUS
    <3>1. PICK x : x = [id |-> s.id, users |-> {a.user : a \in {b \in raw.assignee : b.step = s.id}}]
      OBVIOUS
    <3>2. x \in d.steps /\ x.id = s.id
      BY <2>2, <3>1
    <3> QED BY <3>2
  <2>4. \A x \in d.steps : \E s \in raw["step"] : s.process = d.id /\ s.id = x.id
    BY <2>2
  <2> QED BY <2>1, <2>3, <2>4 DEF Ids
<1>6. ASSUME NEW u, NEW i \in TasksInitiated(u)
      PROVE  \E p \in InstanceOf(i.biz) : p.instance.at >= i.at
  BY <1>4, <1>6 DEF TasksInitiated
<1> QED BY <1>2, <1>3, <1>5, <1>6 DEF ApprovalsSeen

\* Funnel, lifecycle and stage matrix agree.
LEMMA StagesHold ==
  ASSUME LedgerInv, HasWork
  PROVE  StagesAgree
<1>1. ASSUME NEW p, NEW s \in Ids(raw["stage"])
      PROVE  /\ Lifecycle(p)[s] \in {"in_progress", "done"} => p \in Funnel[s]
             /\ OneOnly({i \in raw["stage_of"] : i.proj = p /\ i.stage = s}) =>
                  (p \in Funnel[s] => Lifecycle(p)[s] \in {"in_progress", "done"})
             /\ Lifecycle(p)[s] = "in_progress" => p \in GroupOverview.busy
  <2>1. PICK of : of = {i \in raw["stage_of"] : i.proj = p /\ i.stage = s}
    OBVIOUS
  <2>2. Lifecycle(p)[s] = IF of = {} THEN "pending" ELSE (CHOOSE i \in of : TRUE).state
    BY <1>1, <2>1 DEF Lifecycle
  <2>3. p \in Funnel[s] <=>
          \E i \in raw["stage_of"] : i.state \in {"in_progress", "done"} /\ i.stage = s /\ i.proj = p
    BY <1>1 DEF Funnel, OfState
  <2>4. p \in GroupOverview.busy <=>
          \E i \in raw["stage_of"] : i.state = "in_progress" /\ i.proj = p
    BY DEF GroupOverview, OfState
  <2>5. CASE of = {}
    BY <2>1, <2>2, <2>3, <2>5
  <2>6. CASE of # {}
    <3>1. PICK k : k = CHOOSE i \in of : TRUE
      OBVIOUS
    <3>2. k \in of /\ Lifecycle(p)[s] = k.state
      BY <2>2, <2>6, <3>1
    <3>3. OneOnly(of) => \A i \in of : i = k
      BY <3>2 DEF OneOnly
    <3> QED BY <2>1, <2>3, <2>4, <3>2, <3>3
  <2> QED BY <2>5, <2>6
<1>2. ASSUME NEW row \in StageMatrix, NEW s \in Ids(raw["stage"])
      PROVE  /\ row.cells[s] \in {"in_progress", "done"} => row.id \in Funnel[s]
             /\ OneOnly({i \in raw["stage_of"] : i.proj = row.id /\ i.stage = s}) =>
                  (row.id \in Funnel[s] => row.cells[s] \in {"in_progress", "done"})
             /\ row.cells[s] = "in_progress" => row.id \in GroupOverview.busy
  <2>1. row.cells = Lifecycle(row.id)
    BY <1>2 DEF StageMatrix
  <2> QED BY <1>1, <2>1
<1>3. ASSUME NEW p \in Projects(NoFilter), p.kind = "imported"
      PROVE  [id |-> p.id, cells |-> p.lifecycle] \in StageMatrix
  <2>1. \E q \in raw["project"] : p.id = q.id /\ p.lifecycle = Lifecycle(q.id)
    <3>1. \A q, l : ProjectRow(q, "command", l).kind = "command"
      BY DEF ProjectRow
    <3>2. \A q, l : ProjectRow(q, "imported", l).id = q.id
                    /\ ProjectRow(q, "imported", l).lifecycle = l
      BY DEF ProjectRow
    <3>3. "command" # "imported"
      OBVIOUS
    <3>4. p \in {ProjectRow(q, "imported", Lifecycle(q.id)) : q \in {r \in Live("project") : Fits(NoFilter, r.id)}}
      BY <1>3, <3>1, <3>3 DEF Projects
    <3> QED BY <3>2, <3>4 DEF Live
  <2> QED BY <2>1 DEF StageMatrix
<1> QED BY <1>2, <1>3 DEF StagesAgree

\* What the costs of a set of rows come to, and what they were to come to.
TargetOf(S) == MapThenSumSet(LAMBDA k : k.target, S)

\* What costs come to.
CostOf(S) == MapThenSumSet(LAMBDA k : k.cost, S)

LEMMA TargetIsInt ==
  ASSUME NEW S, IsFiniteSet(S), \A k \in S : k.target \in Int
  PROVE  TargetOf(S) \in Int
<1> DEFINE Adds(h) == h = [s \in SUBSET S |->
                        IF s = {} THEN 0
                        ELSE (CHOOSE x \in s : TRUE).target + h[s \ {CHOOSE x \in s : TRUE}]]
           f == CHOOSE h : Adds(h)
           w == [k \in S |-> k.target]
<1>1. TargetOf(S) = f[S]
  BY DEF TargetOf, MapThenSumSet, MapThenFoldSet
<1>2. ASSUME NEW h PROVE Adds(h) <=> Tally(w, S, h)
  <2>1. ASSUME NEW s \in SUBSET S
        PROVE  (IF s = {} THEN 0
                ELSE (CHOOSE x \in s : TRUE).target + h[s \ {CHOOSE x \in s : TRUE}])
                 = Summed(w, h, s)
    <3>1. CASE s = {}
      BY <3>1 DEF Summed
    <3>2. CASE s # {}
      <4>1. OneOf(s) \in S /\ w[OneOf(s)] = OneOf(s).target
        BY <3>2, OneOfSet
      <4> QED BY <3>2, <4>1 DEF Summed, OneOf
    <3> QED BY <3>1, <3>2
  <2> HIDE DEF w
  <2> QED BY <2>1 DEF Tally
<1>3. \E h : Adds(h)
  <2>1. PICK h : Tally(w, S, h)
    BY TallyExists
  <2> HIDE DEF Adds, w
  <2> QED BY <1>2, <2>1
<1>4. Adds(f)
  <2> HIDE DEF Adds
  <2> QED BY <1>3
<1>5. Tally(w, S, f)
  BY <1>2, <1>4
<1>6. PICK g : Tally(w, S, g) /\ Sum(w, S) = g[S]
  BY SumIsTally
<1>7. \A k \in S : w[k] \in Int
  OBVIOUS
<1> HIDE DEF f, w, Adds
<1>8. f[S] = Sum(w, S)
  BY <1>5, <1>6, TallyUnique
<1>9. Sum(w, S) \in Int
  BY <1>7, SumIsInt DEF Amounts
<1> QED BY <1>1, <1>8, <1>9

LEMMA CostIsInt ==
  ASSUME NEW S, IsFiniteSet(S), \A k \in S : k.cost \in Int
  PROVE  CostOf(S) \in Int
<1> DEFINE Adds(h) == h = [s \in SUBSET S |->
                        IF s = {} THEN 0
                        ELSE (CHOOSE x \in s : TRUE).cost + h[s \ {CHOOSE x \in s : TRUE}]]
           f == CHOOSE h : Adds(h)
           w == [k \in S |-> k.cost]
<1>1. CostOf(S) = f[S]
  BY DEF CostOf, MapThenSumSet, MapThenFoldSet
<1>2. ASSUME NEW h PROVE Adds(h) <=> Tally(w, S, h)
  <2>1. ASSUME NEW s \in SUBSET S
        PROVE  (IF s = {} THEN 0
                ELSE (CHOOSE x \in s : TRUE).cost + h[s \ {CHOOSE x \in s : TRUE}])
                 = Summed(w, h, s)
    <3>1. CASE s = {}
      BY <3>1 DEF Summed
    <3>2. CASE s # {}
      <4>1. OneOf(s) \in S /\ w[OneOf(s)] = OneOf(s).cost
        BY <3>2, OneOfSet
      <4> QED BY <3>2, <4>1 DEF Summed, OneOf
    <3> QED BY <3>1, <3>2
  <2> HIDE DEF w
  <2> QED BY <2>1 DEF Tally
<1>3. \E h : Adds(h)
  <2>1. PICK h : Tally(w, S, h)
    BY TallyExists
  <2> HIDE DEF Adds, w
  <2> QED BY <1>2, <2>1
<1>4. Adds(f)
  <2> HIDE DEF Adds
  <2> QED BY <1>3
<1>5. Tally(w, S, f)
  BY <1>2, <1>4
<1>6. PICK g : Tally(w, S, g) /\ Sum(w, S) = g[S]
  BY SumIsTally
<1>7. \A k \in S : w[k] \in Int
  OBVIOUS
<1> HIDE DEF f, w, Adds
<1>8. f[S] = Sum(w, S)
  BY <1>5, <1>6, TallyUnique
<1>9. Sum(w, S) \in Int
  BY <1>7, SumIsInt DEF Amounts
<1> QED BY <1>1, <1>8, <1>9

\* A quotient by a positive number is no less than none, and one if there is one.
LEMMA Quotient ==
  ASSUME NEW a \in Int, NEW t \in Int, t > 0
  PROVE  /\ a \div t \in Int
         /\ a >= 0 => a \div t >= 0
         /\ a >= t => a \div t > 0
<1>1. PICK q, r : q = a \div t /\ r = a % t
  OBVIOUS
<1>2. q \in Int /\ r \in Int /\ a = t * q + r /\ 0 <= r /\ r < t
  BY <1>1
<1>3. q < 0 => a < 0
  <2> SUFFICES ASSUME q < 0 PROVE a < 0
    OBVIOUS
  <2>1. PICK n \in Nat : q = -1 - n
    BY <1>2
  <2>2. t * q = -t - t * n /\ t * n \in Nat
    BY <2>1
  <2> QED BY <1>2, <2>2
<1>4. q = 0 => a < t
  BY <1>2
<1> QED BY <1>1, <1>2, <1>3, <1>4

\* The delayed tasks of a project, and its score.
LateOf(p) == {t \in raw.task : t.proj = p.id /\ Delayed(t)}

ScoreOf(p) ==
  (IF Exceeds(p.id, 0)
   THEN ((CostOf(EndCosts(p.id)) - TargetOf(EndCosts(p.id))) * 1000) \div TargetOf(EndCosts(p.id))
   ELSE 0) + Cardinality(LateOf(p)) * 20

\* Costs and targets come to numbers, by which a project exceeds its target.
LEMMA CostFacts ==
  ASSUME LedgerInv, HasWork, NEW p
  PROVE  /\ TargetOf(EndCosts(p)) \in Int /\ CostOf(EndCosts(p)) \in Int
         /\ \A n : Exceeds(p, n) <=>
              /\ TargetOf(EndCosts(p)) > 0
              /\ CostOf(EndCosts(p)) * 100 > TargetOf(EndCosts(p)) * (100 + n)
<1>1. EndCosts(p) \subseteq raw["cost"] /\ IsFiniteSet(raw["cost"])
  BY WorkFacts DEF EndCosts, WorkTables
<1>2. IsFiniteSet(EndCosts(p))
  BY <1>1, FS_Subset
<1>3. \A k \in EndCosts(p) : k.target \in Int /\ k.cost \in Int
  BY <1>1, WorkFacts
<1>4. ASSUME NEW n
      PROVE  Exceeds(p, n) <=>
               /\ TargetOf(EndCosts(p)) > 0
               /\ CostOf(EndCosts(p)) * 100 > TargetOf(EndCosts(p)) * (100 + n)
  BY DEF Exceeds, Target, Total, TargetOf, CostOf
<1> QED BY <1>2, <1>3, <1>4, TargetIsInt, CostIsInt

\* A score is a number, and a project that exceeds its target or is late has one.
LEMMA ScoreFacts ==
  ASSUME LedgerInv, HasWork, NEW p
  PROVE  /\ ScoreOf(p) \in Int
         /\ Exceeds(p.id, 1) \/ LateOf(p) # {} => ScoreOf(p) > 0
<1>1. PICK t, c : t = TargetOf(EndCosts(p.id)) /\ c = CostOf(EndCosts(p.id))
  OBVIOUS
<1>2. /\ t \in Int /\ c \in Int
      /\ Exceeds(p.id, 0) <=> t > 0 /\ c * 100 > t * (100 + 0)
      /\ Exceeds(p.id, 1) <=> t > 0 /\ c * 100 > t * (100 + 1)
  BY <1>1, CostFacts
<1>3. PICK n : n = Cardinality(LateOf(p))
  OBVIOUS
<1>4. n \in Nat /\ (LateOf(p) # {} => n > 0)
  <2>1. LateOf(p) \subseteq raw["task"] /\ IsFiniteSet(raw["task"])
    BY WorkFacts DEF LateOf, WorkTables
  <2>2. IsFiniteSet(LateOf(p))
    BY <2>1, FS_Subset
  <2>3. n \in Nat /\ (n = 0 <=> LateOf(p) = {})
    BY <1>3, <2>2, FS_CardinalityType, FS_EmptySet
  <2> QED BY <2>3
<1>5. PICK e : e = IF Exceeds(p.id, 0) THEN ((c - t) * 1000) \div t ELSE 0
  OBVIOUS
<1>6. e \in Int /\ e >= 0 /\ (Exceeds(p.id, 1) => e > 0)
  <2>1. CASE Exceeds(p.id, 0)
    <3>1. PICK a : a = (c - t) * 1000
      OBVIOUS
    <3>2. a \in Int /\ t > 0 /\ a >= 0 /\ (Exceeds(p.id, 1) => a >= t)
      BY <1>2, <2>1, <3>1
    <3>3. e = a \div t
      BY <1>5, <2>1, <3>1
    <3> QED BY <1>2, <3>2, <3>3, Quotient
  <2>2. CASE ~Exceeds(p.id, 0)
    BY <1>2, <1>5, <2>2
  <2> QED BY <2>1, <2>2
<1>7. ScoreOf(p) = e + n * 20
  BY <1>1, <1>3, <1>5 DEF ScoreOf
<1> QED BY <1>4, <1>6, <1>7

\* A project with a score is among the top ones, as many as there are.
LEMMA TopFacts ==
  ASSUME NEW limit, NEW p \in Live("project"),
         Cardinality({q \in Live("project") : ScoreOf(q) > ScoreOf(p)}) < limit
  PROVE  \E t \in TopAnomalies(limit) : t.id = p.id /\ t.score = ScoreOf(p) /\ t.late = LateOf(p)
<1>1. TopAnomalies(limit) =
        {[id |-> q.id, score |-> ScoreOf(q), late |-> LateOf(q),
          nodes |-> {t \in raw.task : t.proj = q.id /\ t.type = "key_node"
                                        /\ t.state = "in_progress"}] :
           q \in {r \in Live("project") :
                    Cardinality({s \in Live("project") : ScoreOf(s) > ScoreOf(r)}) < limit}}
  BY DEF TopAnomalies, ScoreOf, LateOf, Target, Total, TargetOf, CostOf
<1>2. PICK x : x = [id |-> p.id, score |-> ScoreOf(p), late |-> LateOf(p),
          nodes |-> {t \in raw.task : t.proj = p.id /\ t.type = "key_node"
                                        /\ t.state = "in_progress"}]
  OBVIOUS
<1>3. x \in TopAnomalies(limit)
  BY <1>1, <1>2
<1> QED BY <1>2, <1>3

\* There are as many identities of projects as there are projects above one, and
\* one more.
LEMMA AboveFewer ==
  ASSUME LedgerInv, HasWork, NEW p \in Live("project")
  PROVE  Cardinality({q \in Live("project") : ScoreOf(q) > ScoreOf(p)}) < Cardinality(AllProjects)
<1> DEFINE above == {q \in Live("project") : ScoreOf(q) > ScoreOf(p)}
           ids == [q \in raw["project"] |-> q.id]
           others == AllProjects \ {p.id}
           f == [q \in above |-> q.id]
<1>1. IsFiniteSet(raw["project"]) /\ OnceEach(raw["project"]) /\ p \in raw["project"]
  BY WorkFacts DEF WorkTables, Live
<1>2. AllProjects = {ids[q] : q \in raw["project"]} /\ p.id \in AllProjects
  BY <1>1 DEF AllProjects, Ids
<1>3. IsFiniteSet(AllProjects)
  <2> HIDE DEF ids
  <2>1. IsFiniteSet({ids[q] : q \in raw["project"]})
    BY <1>1, ImageFinite
  <2> QED BY <1>2, <2>1
<1>4. above \subseteq raw["project"] /\ p \notin above
  BY ScoreFacts DEF Live
<1> HIDE DEF above
<1>5. f \in Injection(above, others)
  <2>1. \A q \in above : q.id \in others
    BY <1>1, <1>4 DEF OnceEach, AllProjects, Ids
  <2>2. \A q, r \in above : q.id = r.id => q = r
    BY <1>1, <1>4 DEF OnceEach
  <2>3. f \in [above -> others]
    BY <2>1
  <2>4. \A q, r \in above : f[q] = f[r] => q = r
    BY <2>2
  <2> HIDE DEF f, others
  <2> QED BY <2>3, <2>4 DEF Injection, IsInjective
<1> HIDE DEF f
<1>6. IsFiniteSet(others) /\ Cardinality(others) = Cardinality(AllProjects) - 1
  BY <1>2, <1>3, FS_RemoveElement
<1> HIDE DEF others
<1>7. Cardinality(above) <= Cardinality(others) /\ IsFiniteSet(above)
  BY <1>5, <1>6, FS_Injection
<1>8. Cardinality(above) \in Nat /\ Cardinality(others) \in Nat /\ Cardinality(AllProjects) \in Nat
  BY <1>3, <1>6, <1>7, FS_CardinalityType
<1>9. Cardinality(above) < Cardinality(AllProjects)
  BY <1>6, <1>7, <1>8
<1> QED BY <1>9 DEF above

\* Delays and slow approvals are shown alike.
LEMMA DelaysHold ==
  ASSUME LedgerInv, HasWork
  PROVE  DelaysNest
<1>1. ASSUME NEW p, NEW a \in ProjectAnomalies(p)
      PROVE  /\ \A k \in ProjectKpi(p) : k.late \subseteq a.late /\ k.approvals = a.approvals
             /\ a.late \subseteq GroupOverview.tasks
             /\ a.approvals \subseteq GroupOverview.approvals
             /\ a.cost \/ a.late # {} =>
                  \E t \in TopAnomalies(Cardinality(AllProjects)) :
                    t.id = p /\ t.score > 0 /\ a.late \subseteq t.late
  <2>1. PICK q \in Live("project") :
          /\ q.id = p
          /\ a = [cost |-> Exceeds(p, 1),
                  late |-> {t \in raw.task : t.proj = p /\ t.type = "key_node" /\ Delayed(t)},
                  approvals |-> {i \in Slow : i.biz \in ApprovalsOf(q)}]
    BY <1>1 DEF ProjectAnomalies
  <2>2. /\ a.late = {t \in raw.task : t.proj = p /\ t.type = "key_node" /\ Delayed(t)}
        /\ a.approvals = {i \in Slow : i.biz \in ApprovalsOf(q)}
        /\ a.cost = Exceeds(p, 1)
    BY <2>1
  <2>3. \A r \in Live("project") : r.id = p => r = q
    BY <2>1, WorkFacts DEF WorkTables, OnceEach, Live
  <2>4. ASSUME NEW k \in ProjectKpi(p)
        PROVE  k.late \subseteq a.late /\ k.approvals = a.approvals
    <3>1. /\ k.late = {t \in {n \in raw.task : n.proj = p /\ n.type = "key_node"} :
                         t.state # "done" /\ t.end < Today}
          /\ k.approvals = {i \in Slow : i.biz \in ApprovalsOf(q)}
      BY <2>3, <2>4 DEF ProjectKpi
    <3> QED BY <2>2, <3>1 DEF Delayed
  <2>5. a.late \subseteq GroupOverview.tasks /\ a.approvals \subseteq GroupOverview.approvals
    BY <2>2 DEF GroupOverview
  <2>6. a.late \subseteq LateOf(q)
    BY <2>1, <2>2 DEF LateOf
  <2>7. ASSUME a.cost \/ a.late # {}
        PROVE  \E t \in TopAnomalies(Cardinality(AllProjects)) :
                 t.id = p /\ t.score > 0 /\ a.late \subseteq t.late
    <3>1. ScoreOf(q) > 0
      <4>1. Exceeds(q.id, 1) \/ LateOf(q) # {}
        BY <2>1, <2>2, <2>6, <2>7
      <4> QED BY <4>1, ScoreFacts
    <3>2. PICK t \in TopAnomalies(Cardinality(AllProjects)) :
            t.id = q.id /\ t.score = ScoreOf(q) /\ t.late = LateOf(q)
      BY AboveFewer, TopFacts
    <3> QED BY <2>1, <2>6, <3>1, <3>2
  <2> QED BY <2>4, <2>5, <2>7
<1>2. GroupOverview.approvals =
        UNION {ApprovalEfficiency[b].overdue : b \in DOMAIN ApprovalEfficiency}
  <2>1. /\ DOMAIN ApprovalEfficiency = {i.type : i \in raw["instance"]}
        /\ \A b \in {i.type : i \in raw["instance"]} :
             ApprovalEfficiency[b].overdue = {i \in raw["instance"] : i.type = b} \cap Slow
    BY DEF ApprovalEfficiency
  <2>2. GroupOverview.approvals = Slow /\ Slow \subseteq raw["instance"]
    BY DEF GroupOverview, Slow
  <2> HIDE DEF ApprovalEfficiency
  <2> QED BY <2>1, <2>2
<1> QED BY <1>1, <1>2 DEF DelaysNest

\* Tasks, delays, stages and approvals are shown alike by the pages on work and by
\* the dashboards (plan_tasks, delivery_overview, dashboard_group_overview), and a
\* summary counts each task once, for any number of them.
THEOREM WorkAgreesHolds ==
  ASSUME HasWork
  PROVE  LedgerSpec => []WorkAgrees
<1>1. LedgerInv /\ LocalFinite => WorkAgrees
  BY LedgerTyped, TasksHold, ApprovalsHold, DelaysHold, StagesHold DEF WorkAgrees
<1> QED BY <1>1, LocalFiniteInductive, PTL

-----------------------------------------------------------------------------
(***************************************************************************)
(* Figures.                                                                *)
(***************************************************************************)

\* What a sound ledger says of those tables.
LEMMA FigureFacts ==
  ASSUME LedgerInv, HasFigures
  PROVE  /\ \A t \in FigureTables : IsFiniteSet(raw[t]) /\ OnceEach(raw[t])
         /\ \A p \in AllProjects : p # NoFilter
         /\ \A v \in raw["version"] : v.id # NoFilter
         /\ \A l \in raw["leaf"] : l.amount \in Int
         /\ \A m \in raw["milestone"] : m.day \in Int
         /\ \A p \in raw["fund_plan"] : IsRow(p) /\ {"proj", "period", "out"} \subseteq DOMAIN p
<1>1. \A t \in FigureTables : t \in Tables
  BY DEF HasFigures
<1>2. \A t \in FigureTables : IsFiniteSet(raw[t]) /\ OnceEach(raw[t])
  BY <1>1 DEF LedgerInv, RawInv
<1>3. \A t \in FigureTables : \A r \in raw[t] : t \in DOMAIN scope.imports /\ r \in scope.imports[t]
  BY <1>1 DEF LedgerInv, RawInv
<1>4. scope \in Scopes /\ \A t \in FigureTables : \A r \in raw[t] : IsRow(r)
  BY <1>3, ScopeFacts DEF LedgerInv
<1>5. \A p \in AllProjects : p # NoFilter
  BY <1>3, <1>4 DEF HasFigures, FigureTables, AllProjects, Ids
<1>6. \A v \in raw["version"] : v.id # NoFilter
  BY <1>3, <1>4 DEF HasFigures, FigureTables
<1>7. \A l \in raw["leaf"] : l.amount \in Int
  BY <1>3, <1>4 DEF HasFigures, FigureTables
<1>8. \A m \in raw["milestone"] : m.day \in Int
  BY <1>3, <1>4 DEF HasFigures, FigureTables
<1>9. \A p \in raw["fund_plan"] : IsRow(p) /\ {"proj", "period", "out"} \subseteq DOMAIN p
  BY <1>3, <1>4 DEF HasFigures, FigureTables
<1> QED BY <1>2, <1>5, <1>6, <1>7, <1>8, <1>9

LEMMA FitsFacts == \A x, y : Fits(NoFilter, y) /\ Fits(y, y) /\ (x # NoFilter /\ Fits(x, y) => x = y)
BY DEF Fits

\* A narrower view of spending is within the wider one.
LEMMA SpendingNested ==
  ASSUME LedgerInv, HasFigures
  PROVE  SpendingNests
<1>1. GroupOverview.paid = {a \in raw["apply"] : a.pay \in PaidOut}
  BY DEF GroupOverview
<1>2. ASSUME NEW u, NEW p, NEW a \in CenterPaid(u, p).applies
      PROVE  a \in raw["apply"] /\ Fits(p, a.proj) /\ a.pay \in PaidOut
  <2>1. CenterPaid(u, p).applies = {b \in InScope("apply", u, p) : b.pay \in PaidOut}
    BY DEF CenterPaid
  <2> QED BY <1>2, <2>1 DEF InScope, Scoped
<1>3. ASSUME NEW u, NEW p
      PROVE  /\ CenterSales(u, p).released \subseteq CenterSales(NoFilter, NoFilter).released
             /\ CenterSales(u, p).refunds \subseteq CenterSales(NoFilter, NoFilter).refunds
  <2>1. {NoFilter, NoFilter} = {NoFilter}
    OBVIOUS
  <2>2. /\ CenterSales(u, p).released \subseteq OfState(Live("mortgage"), {"released"})
        /\ CenterSales(u, p).refunds \subseteq OfState(Live("refund"), {"approved"})
    BY DEF CenterSales, OfState
  <2>3. /\ CenterSales(NoFilter, NoFilter).released = OfState(Live("mortgage"), {"released"})
        /\ CenterSales(NoFilter, NoFilter).refunds = OfState(Live("refund"), {"approved"})
    BY <2>1 DEF CenterSales, OfState
  <2> QED BY <2>2, <2>3
<1>4. ASSUME NEW u, NEW p
      PROVE  /\ CenterWork(u, p).awards \subseteq CenterWork(NoFilter, NoFilter).awards
             /\ CenterWork(u, p).running \subseteq CenterWork(NoFilter, NoFilter).running
  <2>1. {NoFilter, NoFilter} = {NoFilter}
    OBVIOUS
  <2>2. /\ CenterWork(u, p).awards \subseteq Live("award")
        /\ CenterWork(u, p).running \subseteq OfState(Live("instance"), {"Running"})
    BY DEF CenterWork
  <2>3. /\ CenterWork(NoFilter, NoFilter).awards = Live("award")
        /\ CenterWork(NoFilter, NoFilter).running = OfState(Live("instance"), {"Running"})
    BY <2>1 DEF CenterWork
  <2> QED BY <2>2, <2>3
<1>5. ASSUME NEW u, NEW p, p = NoFilter \/ ProjectsIn(u, p) # {}
      PROVE  CenterContracts(u, p).unpaid \subseteq Cockpit(u, p).unpaid
  <2> SUFFICES ASSUME NEW a \in CenterContracts(u, p).unpaid PROVE a \in Cockpit(u, p).unpaid
    OBVIOUS
  <2>1. a \in raw["apply"] /\ Fits(u, a.unit) /\ Fits(p, a.proj) /\ Awaits(a)
    <3>1. CenterContracts(u, p).unpaid = {b \in InScope("apply", u, p) : Awaits(b)}
      BY DEF CenterContracts
    <3> QED BY <3>1 DEF InScope, Scoped
  <2>2. p # NoFilter => a.proj \in Ids(ProjectsIn(u, p))
    <3> SUFFICES ASSUME p # NoFilter PROVE a.proj \in Ids(ProjectsIn(u, p))
      OBVIOUS
    <3>1. PICK q \in ProjectsIn(u, p) : Fits(p, q.id)
      BY <1>5 DEF ProjectsIn
    <3>2. q.id = p /\ a.proj = p
      BY <2>1, <3>1, FitsFacts
    <3> QED BY <3>2 DEF Ids
  <2>3. a \in CockpitApplies(u, p)
    BY <2>1, <2>2 DEF CockpitApplies
  <2>4. Cockpit(u, p).unpaid = {b \in CockpitApplies(u, p) : Awaits(b)}
    BY DEF Cockpit
  <2> QED BY <2>1, <2>3, <2>4
<1>6. ASSUME NEW p \in AllProjects, NEW k \in ProjectKpi(p)
      PROVE  CenterPaid(NoFilter, p).applies \subseteq k.paid /\ k.paid \subseteq GroupOverview.paid
  <2>1. k.paid = {a \in {b \in raw.apply : b.proj = p} : a.pay \in PaidOut}
    BY <1>6 DEF ProjectKpi
  <2>2. p # NoFilter
    BY FigureFacts
  <2> QED BY <1>1, <1>2, <2>1, <2>2, FitsFacts
<1>7. ASSUME NEW l \in PaymentLedger
      PROVE  l.paid = {a \in GroupOverview.paid : a.contract = l.id}
  BY <1>1, <1>7 DEF PaymentLedger
<1>8. \A u, p : CenterPaid(u, p).applies \subseteq GroupOverview.paid
  BY <1>1, <1>2
<1> QED BY <1>3, <1>4, <1>5, <1>6, <1>7, <1>8 DEF SpendingNests

\* Lists, remarks and sums of costs agree.
LEMMA CostsHold ==
  ASSUME LedgerInv, HasFigures
  PROVE  CostsAgree
<1> DEFINE projects == AllProjects \cup {k.proj : k \in raw.cost \cup local.dynamic_cost}
<1>1. \A k, kind : CostItem(k, kind).id = k.id /\ CostItem(k, kind).kind = kind
                   /\ CostItem(k, kind).end = k.end
  BY DEF CostItem
<1>2. ASSUME NEW p, NEW x
      PROVE  x \in CostItems(p) <=>
               \/ \E k \in Live("cost") : k.proj = p /\ x = CostItem(k, "imported")
               \/ \E l \in Kept("dynamic_cost", Gone) : l.proj = p /\ x = CostItem(l, "command")
  BY DEF CostItems
<1>3. ASSUME NEW id, NEW x
      PROVE  x \in CostRemark(id) <=>
               \/ \E k \in Live("cost") : k.id = id /\ x = CostItem(k, "imported")
               \/ /\ ~\E k \in Live("cost") : k.id = id
                  /\ \E l \in Kept("dynamic_cost", Gone) : l.id = id /\ x = CostItem(l, "command")
  BY DEF CostRemark
<1>4. (\A k \in Live("cost") : k.proj \in projects)
      /\ \A l \in Kept("dynamic_cost", Gone) : l.proj \in projects
  BY DEF Live, Kept
<1> HIDE DEF projects
<1>5. ASSUME NEW id, NEW x \in CostRemark(id)
      PROVE  \E p \in projects : x \in CostItems(p) /\ x.id = id
  <2>1. CASE \E k \in Live("cost") : k.id = id /\ x = CostItem(k, "imported")
    <3>1. PICK k \in Live("cost") : k.id = id /\ x = CostItem(k, "imported")
      BY <2>1
    <3> QED BY <1>1, <1>2, <1>4, <3>1
  <2>2. CASE \E l \in Kept("dynamic_cost", Gone) : l.id = id /\ x = CostItem(l, "command")
    <3>1. PICK l \in Kept("dynamic_cost", Gone) : l.id = id /\ x = CostItem(l, "command")
      BY <2>2
    <3> QED BY <1>1, <1>2, <1>4, <3>1
  <2> QED BY <1>3, <1>5, <2>1, <2>2
<1>6. ASSUME NEW id, NEW p, NEW x \in CostItems(p), x.id = id
      PROVE  CostRemark(id) # {}
  <2>1. \/ \E k \in Live("cost") : k.id = id
        \/ \E l \in Kept("dynamic_cost", Gone) : l.id = id
    BY <1>1, <1>2, <1>6
  <2>2. \/ \E k \in Live("cost") : CostItem(k, "imported") \in CostRemark(id)
        \/ \E l \in Kept("dynamic_cost", Gone) : CostItem(l, "command") \in CostRemark(id)
    BY <1>3, <2>1
  <2> QED BY <2>2
<1>7. ASSUME NEW id
      PROVE  /\ CostRemark(id) = {} <=> \A p \in projects : id \notin Ids(CostItems(p))
             /\ CostRemark(id) \subseteq UNION {CostItems(p) : p \in projects}
  BY <1>5, <1>6 DEF Ids
<1>8. ASSUME NEW p, NEW k \in DynamicCost(p).summed, k.kind = "imported"
      PROVE  \E r \in Live("cost") : r.proj = p /\ r.id = k.id /\ r.end
  <2>1. k \in CostItems(p) /\ k.end
    BY <1>8 DEF DynamicCost
  <2>2. "command" # "imported"
    OBVIOUS
  <2>3. PICK r \in Live("cost") : r.proj = p /\ k = CostItem(r, "imported")
    BY <1>1, <1>2, <1>8, <2>1, <2>2
  <2> QED BY <1>1, <2>1, <2>3
<1>9. ASSUME NEW p
      PROVE  Ids({k \in DynamicCost(p).summed : k.kind = "imported"}) \subseteq Ids(EndCosts(p))
  BY <1>8, FitsFacts DEF Ids, EndCosts, Live
<1>10. ASSUME NEW p, NEW row \in CostSummary, NEW k \in ProjectKpi(p), row.id = p
       PROVE  row.costs = k.costs
  BY <1>10 DEF CostSummary, ProjectKpi
<1>11. ASSUME NEW p, <<"W005", p>> \in Findings
       PROVE  {k \in DynamicCost(p).summed : k.kind = "imported"} = {}
  <2>1. ~\E k \in Live("cost") : k.proj = p /\ k.end
    BY <1>11 DEF Findings
  <2> QED BY <1>8, <2>1
<1> QED BY <1>7, <1>9, <1>10, <1>11 DEF CostsAgree, projects

\* The gap alert and the payment check agree on what is early.
LEMMA MilestonesHold ==
  ASSUME LedgerInv, HasFigures
  PROVE  MilestonesWarned
<1> SUFFICES ASSUME NEW m \in GapAlert(Patience).out, Stored("milestone", m.id) = {},
                    NEW c \in MilestoneCheck(m.id, 0)
             PROVE  "early_time" \in c.against <=> m.day # Today
  BY DEF MilestonesWarned
<1>1. m \in Live("milestone") /\ m.trigger = "time" /\ m.day \in Today..(Today + Patience)
  BY DEF GapAlert
<1>2. {l \in Kept("milestone", Gone) : l.id = m.id} = {}
  BY DEF Stored, Kept
<1>3. \A r \in Live("milestone") : r.id = m.id => r = m
  BY <1>1, FigureFacts DEF Live, FigureTables, OnceEach
<1>4. PICK r \in Live("milestone") :
        /\ r.id = m.id
        /\ c.against = {w \in {"early_time", "early_progress", "early_event", "over_pay"} :
             \/ w = "early_time" /\ r.trigger = "time" /\ r.day > Today
             \/ /\ w = "early_progress" /\ r.trigger = "progress"
                /\ \E t \in raw.task : t.id = r.task /\ t.state # "done"
             \/ w = "early_event" /\ r.trigger = "event" /\ ~r.reached
             \/ w = "over_pay" /\ r.planned > 0 /\ r.paid + 0 > r.planned}
  BY <1>2 DEF MilestoneCheck
<1>5. "early_time" \in c.against <=> m.day > Today
  BY <1>1, <1>3, <1>4
<1>6. m.day \in Int /\ Today \in Int /\ Patience \in Int
  BY <1>1, FigureFacts DEF Live, HasFigures, Patience
<1> QED BY <1>1, <1>5, <1>6

\* The uses of a leaf: contracts, shares of expenses and changes.
LEMMA LeafUses ==
  ASSUME NEW p, NEW code, NEW x
  PROVE  /\ x \in CostLeaf(p, code).d <=>
              \/ \E c \in Classified(p) : c.leaf = code /\ c.state \in Committed
                                          /\ x = [kind |-> "contract", id |-> c.id]
              \/ \E s \in raw["share"] : s.leaf = code /\ (\E e \in ExpenseOf(s) : e.apply \in Confirmed)
                                          /\ x = [kind |-> "share", id |-> s.id]
              \/ \E h \in Live("change") : h.proj = p /\ h.leaf = code /\ h.state = "confirmed"
                                          /\ x = [kind |-> "change", id |-> h.id]
         /\ x \in CostLeaf(p, code).e <=>
              \/ \E c \in Classified(p) : c.leaf = code /\ c.state = "approving"
                                          /\ x = [kind |-> "contract", id |-> c.id]
              \/ \E s \in raw["share"] : s.leaf = code /\ (\E e \in ExpenseOf(s) : e.apply \in Underway)
                                          /\ x = [kind |-> "share", id |-> s.id]
         /\ x \in CostLeaf(p, code).g <=>
              \E h \in Live("change") : h.proj = p /\ h.leaf = code
                                          /\ h.state \in {"estimated", "approving"}
                                          /\ x = [kind |-> "change", id |-> h.id]
BY DEF CostLeaf

\* A use of a leaf is settled, on its way or foreseen.
LEMMA LeavesHold ==
  ASSUME LedgerInv, HasFigures, NEW p, NEW code
  PROVE  LET leaf == CostLeaf(p, code)
             classified == Ids(Classified(p))
         IN /\ leaf.d \cap leaf.e = {} /\ leaf.g \cap (leaf.d \cup leaf.e) = {}
            /\ {x \in Used(p, code) : x.kind = "contract" => x.id \in classified}
                 \subseteq leaf.d \cup leaf.e
            /\ Ids({x \in leaf.g : x.kind = "change"}) \subseteq Ids(Changes(p, NoFilter))
<1> DEFINE leaf == CostLeaf(p, code)
<1>0. /\ OnceEach(raw["contract"]) /\ OnceEach(raw["share"]) /\ OnceEach(raw["expense"])
      /\ OnceEach(raw["change"])
  BY FigureFacts DEF FigureTables
<1>1. ASSUME NEW x \in leaf.d, x \in leaf.e PROVE FALSE
  <2>1. CASE x.kind = "contract"
    <3>1. \E c \in Classified(p) : c.state \in Committed /\ x.id = c.id
      BY <1>1, <2>1, LeafUses
    <3>2. \E c \in Classified(p) : c.state = "approving" /\ x.id = c.id
      BY <1>1, <2>1, LeafUses
    <3>3. \A c, e \in Classified(p) : c.id = e.id => c = e
      BY <1>0 DEF Classified, Live, OnceEach
    <3> QED BY <3>1, <3>2, <3>3 DEF Committed
  <2>2. CASE x.kind = "share"
    <3>1. PICK s \in raw["share"] : x.id = s.id /\ \E e \in ExpenseOf(s) : e.apply \in Confirmed
      BY <1>1, <2>2, LeafUses
    <3>2. PICK t \in raw["share"] : x.id = t.id /\ \E e \in ExpenseOf(t) : e.apply \in Underway
      BY <1>1, <2>2, LeafUses
    <3>3. s = t
      BY <1>0, <3>1, <3>2 DEF OnceEach
    <3>4. \A e, f \in ExpenseOf(s) : e = f
      BY <1>0 DEF ExpenseOf, Live, OnceEach
    <3> QED BY <3>1, <3>2, <3>3, <3>4 DEF Confirmed, Underway
  <2>3. x.kind = "contract" \/ x.kind = "share"
    BY <1>1, LeafUses
  <2> QED BY <2>1, <2>2, <2>3
<1>2. ASSUME NEW x \in leaf.g, x \in leaf.d \cup leaf.e PROVE FALSE
  <2>1. x.kind = "change"
    BY <1>2, LeafUses
  <2>2. PICK h \in Live("change") : h.state \in {"estimated", "approving"} /\ x.id = h.id
    BY <1>2, LeafUses
  <2>3. PICK k \in Live("change") : k.state = "confirmed" /\ x.id = k.id
    BY <1>2, <2>1, LeafUses
  <2>4. h = k
    BY <1>0, <2>2, <2>3 DEF Live, OnceEach
  <2> QED BY <2>2, <2>3, <2>4
<1>3. ASSUME NEW x \in Used(p, code), x.kind = "contract" => x.id \in Ids(Classified(p))
      PROVE  x \in leaf.d \cup leaf.e
  <2>1. CASE \E c \in Live("contract") : c.proj = p /\ c.leaf = code
                /\ c.state \in Committed \cup {"approving"} /\ x = [kind |-> "contract", id |-> c.id]
    <3>1. PICK c \in Live("contract") : c.proj = p /\ c.leaf = code
                /\ c.state \in Committed \cup {"approving"} /\ x = [kind |-> "contract", id |-> c.id]
      BY <2>1
    <3>2. x.id \in Ids(Classified(p)) /\ x.id = c.id
      BY <1>3, <3>1
    <3>3. c \in Classified(p)
      BY <1>0, <3>1, <3>2 DEF Ids, Classified, Live, OnceEach
    <3> QED BY <3>1, <3>3, LeafUses
  <2>2. CASE \E s \in raw["share"] : s.leaf = code /\ (\E e \in ExpenseOf(s) : e.apply \in BalanceStates)
                /\ x = [kind |-> "share", id |-> s.id]
    <3>1. BalanceStates \subseteq Confirmed \cup Underway
      BY DEF BalanceStates, Confirmed, Underway
    <3> QED BY <2>2, <3>1, LeafUses
  <2> QED BY <2>1, <2>2 DEF Used
<1>4. ASSUME NEW x \in leaf.g PROVE x.id \in Ids(Changes(p, NoFilter))
  <2>1. PICK h \in Live("change") : h.proj = p /\ x.id = h.id
    BY <1>4, LeafUses
  <2> QED BY <2>1, FitsFacts DEF Ids, Changes
<1> QED BY <1>1, <1>2, <1>3, <1>4 DEF Ids

\* The leaves of a budget are of the active version.
LEMMA BudgetLeaves ==
  ASSUME LedgerInv, HasFigures, NEW p \in AllProjects, NEW l \in CenterBudget(NoFilter, p).leaves
  PROVE  /\ l \in Live("leaf") /\ l.proj = p
         /\ \E v \in ActiveVersions(p) : v.id = l.version /\ v.id # NoFilter
<1>1. l \in InScope("leaf", NoFilter, p)
      /\ \E v \in Live("version") : v.active /\ v.proj = l.proj /\ v.id = l.version
  BY DEF CenterBudget
<1>2. l \in Live("leaf") /\ l.proj = p
  BY <1>1, FigureFacts, FitsFacts DEF InScope, Scoped, Live
<1> QED BY <1>1, <1>2, FigureFacts DEF ActiveVersions, VersionsOf, Live

\* What exceeds a leaf on the dashboard exceeds its balance, and a smaller one.
LEMMA OverHolds ==
  ASSUME LedgerInv, HasFigures, NEW p \in AllProjects, NEW l \in CenterBudget(NoFilter, p).over
  PROVE  /\ \E b \in FBalance(p, l.code, l.version) : b.amount = l.amount
         /\ \A b \in FBalance(p, l.code, l.version) :
              b.amount <= l.amount => Cardinality(b.used) > b.amount
<1> DEFINE used == {c \in InScope("contract", NoFilter, p) :
                      c.leaf = l.code /\ c.state \in Committed \cup {"approving"}}
           f == [c \in used |-> [kind |-> "contract", id |-> c.id]]
           all == Used(p, l.code)
           sh == [s \in raw["share"] |-> [kind |-> "share", id |-> s.id]]
           co == [c \in raw["contract"] |-> [kind |-> "contract", id |-> c.id]]
<1>1. /\ l \in CenterBudget(NoFilter, p).leaves /\ Cardinality(used) > l.amount
  BY DEF CenterBudget
<1>2. /\ l \in Live("leaf") /\ l.proj = p /\ l.version # NoFilter
  BY <1>1, BudgetLeaves
<1>3. \A b \in FBalance(p, l.code, l.version) : b.used = all /\ b.amount \in Int
  <2>1. \A b \in FBalance(p, l.code, l.version) :
          \E k \in Live("leaf") : b.amount = k.amount /\ b.used = all
    BY DEF FBalance
  <2> QED BY <2>1, FigureFacts DEF Live
<1>4. l.amount \in Int /\ \E b \in FBalance(p, l.code, l.version) : b.amount = l.amount
  <2>1. CbsVersion(p, l.version) = l.version
    BY <1>2 DEF CbsVersion
  <2>2. PICK b : b = [amount |-> l.amount, used |-> all]
    OBVIOUS
  <2>3. b \in FBalance(p, l.code, l.version) /\ b.amount = l.amount
    BY <1>2, <2>1, <2>2 DEF FBalance
  <2> QED BY <1>2, <2>3, FigureFacts DEF Live
<1>5. IsFiniteSet(all)
  <2>1. all \subseteq {co[c] : c \in raw["contract"]} \cup {sh[s] : s \in raw["share"]}
    BY DEF Used, Live
  <2>2. IsFiniteSet(raw["contract"]) /\ IsFiniteSet(raw["share"])
    BY FigureFacts DEF FigureTables
  <2> HIDE DEF co, sh, all
  <2>3. IsFiniteSet({co[c] : c \in raw["contract"]}) /\ IsFiniteSet({sh[s] : s \in raw["share"]})
    <3>1. IsFiniteSet({co[c] : c \in raw["contract"]})
      BY <2>2, ImageFinite
    <3>2. IsFiniteSet({sh[s] : s \in raw["share"]})
      BY <2>2, ImageFinite
    <3> QED BY <3>1, <3>2
  <2>4. IsFiniteSet({co[c] : c \in raw["contract"]} \cup {sh[s] : s \in raw["share"]})
    BY <2>3, FS_Union
  <2> QED BY <2>1, <2>4, FS_Subset
<1>6. f \in Injection(used, all)
  <2>1. \A c \in used : c \in Live("contract") /\ c.proj = p /\ c.leaf = l.code
                        /\ c.state \in Committed \cup {"approving"}
    BY FigureFacts, FitsFacts DEF InScope, Scoped, Live
  <2>2. \A c \in used : [kind |-> "contract", id |-> c.id] \in all
    BY <2>1 DEF Used
  <2>3. \A c, d \in used : c.id = d.id => c = d
    BY <2>1, FigureFacts DEF Live, OnceEach, FigureTables
  <2> HIDE DEF used, all
  <2>4. f \in [used -> all]
    BY <2>2
  <2>5. ASSUME NEW c \in used, NEW d \in used, f[c] = f[d] PROVE c = d
    <3>1. f[c].id = c.id /\ f[d].id = d.id
      OBVIOUS
    <3> QED BY <2>3, <2>5, <3>1
  <2> HIDE DEF f
  <2> QED BY <2>4, <2>5 DEF Injection, IsInjective
<1> HIDE DEF f, used, all
<1>7. Cardinality(used) <= Cardinality(all) /\ IsFiniteSet(used)
  BY <1>5, <1>6, FS_Injection
<1>8. Cardinality(used) \in Nat /\ Cardinality(all) \in Nat
  BY <1>5, <1>7, FS_CardinalityType
<1> QED BY <1>1, <1>3, <1>4, <1>7, <1>8

\* The breakdown, the balance and the dashboards agree on a leaf.
LEMMA BreakdownHolds ==
  ASSUME LedgerInv, HasFigures
  PROVE  BreakdownAgrees
<1> SUFFICES
      ASSUME NEW p \in AllProjects
      PROVE  /\ \A code \in {l.code : l \in raw.leaf} :
                  LET leaf == CostLeaf(p, code)
                      classified == Ids(Classified(p))
                  IN /\ leaf.d \cap leaf.e = {} /\ leaf.g \cap (leaf.d \cup leaf.e) = {}
                     /\ {x \in Used(p, code) : x.kind = "contract" => x.id \in classified}
                          \subseteq leaf.d \cup leaf.e
                     /\ Ids({x \in leaf.g : x.kind = "change"}) \subseteq Ids(Changes(p, NoFilter))
             /\ \A l \in CenterBudget(NoFilter, p).over :
                  LET balances == FBalance(p, l.code, l.version)
                  IN /\ \E b \in balances : b.amount = l.amount
                     /\ \A b \in balances :
                          b.amount <= l.amount => Cardinality(b.used) > b.amount
             /\ \A k \in CostDashboard(p, NoFilter) :
                  /\ k.r0 \subseteq R0Queue(p)
                  /\ ActiveVersions(p) # {} => Codes(k.leaves) \subseteq PlannedCodes(p)
                  /\ OneOnly(ActiveVersions(p)) => PlannedCodes(p) \subseteq Codes(k.leaves)
             /\ CenterContracts(NoFilter, p).r0 = R0Queue(p)
             /\ R0Queue(p) \cup CenterContracts(NoFilter, p).signed \subseteq CbsContracts(p)
             /\ \A m \in 1..2 :
                  /\ ForecastV3(p, m).d = CenterContracts(NoFilter, p).signed
                  /\ ForecastV3(p, m).e = CenterContracts(NoFilter, p).approving
  BY DEF BreakdownAgrees
<1>1. p # NoFilter
  BY FigureFacts
<1>2. \A c : c \in InScope("contract", NoFilter, p) <=> c \in Live("contract") /\ c.proj = p
  BY <1>1, FitsFacts DEF InScope, Scoped, Live
<1>3. /\ CenterContracts(NoFilter, p).signed = {c \in InScope("contract", NoFilter, p) : c.state \in Committed}
      /\ CenterContracts(NoFilter, p).approving =
           {c \in InScope("contract", NoFilter, p) : c.state = "approving"}
      /\ CenterContracts(NoFilter, p).r0 = {c \in InScope("contract", NoFilter, p) : c.r \in {"", "R0"}}
  BY DEF CenterContracts, OfState
<1>4. CenterContracts(NoFilter, p).r0 = R0Queue(p)
  BY <1>1, <1>2, <1>3, FitsFacts DEF R0Queue
<1>5. R0Queue(p) \cup CenterContracts(NoFilter, p).signed \subseteq CbsContracts(p)
  BY <1>2, <1>3, FitsFacts DEF R0Queue, CbsContracts
<1>6. ASSUME NEW m
      PROVE  /\ ForecastV3(p, m).d = CenterContracts(NoFilter, p).signed
             /\ ForecastV3(p, m).e = CenterContracts(NoFilter, p).approving
  <2>1. /\ ForecastV3(p, m).d = {c \in {d \in Live("contract") : d.proj = p} : c.state \in Committed}
        /\ ForecastV3(p, m).e = {c \in {d \in Live("contract") : d.proj = p} : c.state = "approving"}
    BY DEF ForecastV3
  <2> QED BY <1>2, <1>3, <2>1
<1>7. ASSUME NEW k \in CostDashboard(p, NoFilter)
      PROVE  /\ k.r0 \subseteq R0Queue(p)
             /\ ActiveVersions(p) # {} => Codes(k.leaves) \subseteq PlannedCodes(p)
             /\ OneOnly(ActiveVersions(p)) => PlannedCodes(p) \subseteq Codes(k.leaves)
  <2>1. /\ k.leaves = {[code |-> l.code, a |-> l.amount, used |-> CostLeaf(p, l.code)] :
                         l \in CbsDict(p, NoFilter, NoFilter)}
        /\ k.r0 = {c \in Classified(p) : c.r = "R0"}
    BY <1>7 DEF CostDashboard
  <2>2. k.r0 \subseteq R0Queue(p)
    BY <2>1, FitsFacts DEF Classified, R0Queue
  <2>3. Codes(k.leaves) = Codes(CbsDict(p, NoFilter, NoFilter))
    <3> DEFINE LeafLine(l) == [code |-> l.code, a |-> l.amount, used |-> CostLeaf(p, l.code)]
    <3>1. \A l : LeafLine(l).code = l.code
      OBVIOUS
    <3>2. k.leaves = {LeafLine(l) : l \in CbsDict(p, NoFilter, NoFilter)}
      BY <2>1
    <3> HIDE DEF LeafLine
    <3> QED BY <3>1, <3>2 DEF Codes
  <2>4. PICK w : w = CHOOSE x \in ActiveVersions(p) : TRUE
    OBVIOUS
  <2>5. ASSUME ActiveVersions(p) # {}
        PROVE  w \in ActiveVersions(p) /\ CbsVersion(p, NoFilter) = w.id
    BY <2>4, <2>5 DEF CbsVersion
  <2>6. ASSUME ActiveVersions(p) # {}, NEW l \in CbsDict(p, NoFilter, NoFilter)
        PROVE  l \in CenterBudget(NoFilter, p).leaves
    <3>1. l \in Live("leaf") /\ l.proj = p /\ l.version = w.id
      BY <2>5, <2>6 DEF CbsDict
    <3>2. w \in Live("version") /\ w.active /\ w.proj = p
      BY <2>5, <2>6 DEF ActiveVersions, VersionsOf
    <3>3. l \in InScope("leaf", NoFilter, p)
      BY <3>1, FitsFacts DEF InScope, Scoped, Live
    <3> QED BY <3>1, <3>2, <3>3 DEF CenterBudget
  <2>7. ASSUME OneOnly(ActiveVersions(p)), NEW l \in CenterBudget(NoFilter, p).leaves
        PROVE  l \in CbsDict(p, NoFilter, NoFilter)
    <3>1. l \in Live("leaf") /\ l.proj = p
      BY BudgetLeaves
    <3>2. PICK v \in ActiveVersions(p) : v.id = l.version
      BY BudgetLeaves
    <3>3. v = w /\ CbsVersion(p, NoFilter) = w.id
      BY <2>5, <2>7, <3>2 DEF OneOnly
    <3> QED BY <3>1, <3>2, <3>3, FitsFacts DEF CbsDict
  <2> QED BY <2>2, <2>3, <2>6, <2>7 DEF Codes, PlannedCodes
<1> QED BY <1>4, <1>5, <1>6, <1>7, LeavesHold, OverHolds

\* A dated invoice is in the tax ledger, in its month.
LEMMA InvoicesHold ==
  ASSUME NEW p
  PROVE  {i \in Invoices(TRUE, p, NoFilter) : i.month # 0} =
           UNION {TaxLedger(p)[m].out : m \in DOMAIN TaxLedger(p)}
<1> DEFINE dated == {i \in Invoices(TRUE, p, NoFilter) \cup Invoices(FALSE, p, NoFilter) :
                       i.month # 0}
           Sent(m) == {i \in dated : i.month = m /\ i.out}
<1>1. \A i \in Invoices(TRUE, p, NoFilter) : i.out = TRUE
  BY DEF Invoices
<1>2. \A i \in Invoices(FALSE, p, NoFilter) : i.out = FALSE
  BY DEF Invoices
<1>3. /\ DOMAIN TaxLedger(p) = {i.month : i \in dated}
      /\ \A m \in {i.month : i \in dated} : TaxLedger(p)[m].out = Sent(m)
  BY DEF TaxLedger
<1>4. \A i : i \in dated /\ i.out => i \in Invoices(TRUE, p, NoFilter) /\ i.month # 0
  BY <1>2
<1>5. \A i : i \in Invoices(TRUE, p, NoFilter) /\ i.month # 0 => i \in dated /\ i \in Sent(i.month)
  BY <1>1
<1>6. \A m : \A i \in Sent(m) : i \in Invoices(TRUE, p, NoFilter) /\ i.month # 0
  BY <1>4
<1>7. \A i \in dated : i.month \in {j.month : j \in dated}
  OBVIOUS
<1> HIDE DEF dated, Sent
<1>8. ASSUME NEW i, i \in Invoices(TRUE, p, NoFilter), i.month # 0
      PROVE  i.month \in DOMAIN TaxLedger(p) /\ i \in TaxLedger(p)[i.month].out
  BY <1>3, <1>5, <1>7, <1>8
<1>9. ASSUME NEW m \in DOMAIN TaxLedger(p), NEW i \in TaxLedger(p)[m].out
      PROVE  i \in Invoices(TRUE, p, NoFilter) /\ i.month # 0
  BY <1>3, <1>6, <1>9
<1> QED BY <1>8, <1>9

\* A fund plan is in the gap of its period.
LEMMA FundsHold ==
  ASSUME NEW p
  PROVE  /\ FundPlans(p, {TRUE}) = UNION {FundGap(p)[t].out : t \in DOMAIN FundGap(p)}
         /\ \A x \in FundPlans(p, {TRUE}) : x \in FundGap(p)[x.period].out
<1> DEFINE plans == FundPlans(p, BOOLEAN)
           Out(m) == {x \in plans : x.period = m /\ x.out}
<1>1. \A x : x \in FundPlans(p, {TRUE}) <=> x \in plans /\ x.out = TRUE
  BY DEF FundPlans
<1>2. \A x \in plans : x.out \in BOOLEAN
  BY DEF FundPlans
<1>3. /\ DOMAIN FundGap(p) = {x.period : x \in plans}
      /\ \A m \in {x.period : x \in plans} : FundGap(p)[m].out = Out(m)
  BY DEF FundGap
<1>4. \A x : x \in FundPlans(p, {TRUE}) => x \in plans /\ x \in Out(x.period)
  BY <1>1
<1>5. \A m : \A x \in Out(m) : x \in FundPlans(p, {TRUE})
  BY <1>1, <1>2
<1>6. \A x \in plans : x.period \in {y.period : y \in plans}
  OBVIOUS
<1> HIDE DEF plans, Out
<1> QED BY <1>3, <1>4, <1>5, <1>6

\* A fund plan of the third dashboard is in the gap of its period.
LEMMA CenterFundsHold ==
  ASSUME LedgerInv, HasFigures, NEW p, NEW g \in CenterFunds(NoFilter, p)
  PROVE  Imported(g.out) \subseteq FundGap(p)[g.period].out
<1>1. /\ g.period \in {q.period : q \in InScope("fund_plan", NoFilter, p)}
      /\ g.out = {q \in InScope("fund_plan", NoFilter, p) : q.period = g.period /\ q.out = TRUE}
  BY DEF CenterFunds
<1> SUFFICES ASSUME NEW q \in g.out PROVE Kinded(q, "imported") \in FundGap(p)[g.period].out
  BY DEF Imported, Named
<1>2. q \in Live("fund_plan") /\ Fits(p, q.proj) /\ q.period = g.period /\ q.out = TRUE
  BY <1>1 DEF InScope, Scoped, Live
<1>3. IsRow(q) /\ {"proj", "period", "out"} \subseteq DOMAIN q
  BY <1>2, FigureFacts DEF Live
<1>4. PICK x : x = Kinded(q, "imported")
  OBVIOUS
<1>5. \A d \in DOMAIN q : x[d] = q[d]
  BY <1>3, <1>4, KindedFacts
<1>6. x.proj = q.proj /\ x.period = q.period /\ x.out = q.out
  BY <1>3, <1>5
<1>7. x \in Imported(Live("fund_plan"))
  BY <1>2, <1>4 DEF Imported, Named
<1>8. x \in FundPlans(p, {TRUE})
  BY <1>2, <1>6, <1>7 DEF FundPlans
<1>9. x \in FundGap(p)[x.period].out
  BY <1>8, FundsHold
<1> QED BY <1>2, <1>4, <1>6, <1>9

\* A month of the forecast, its detail and its inflow agree.
LEMMA MonthsHold ==
  ASSUME NEW m, NEW p
  PROVE  LET forecast == Forecast(m, NoFilter, p)
             detail == CashDetail(m, NoFilter, p)
             inflow == Inflow(m, p)
         IN /\ forecast.planned = detail.plans
            /\ forecast.pending \cup forecast.confirmed \subseteq detail.applies
            /\ \A l \in forecast.loan : \E k \in Loans(l.id, "Approved") : k.kind = "imported"
            /\ inflow.expected \cap inflow.overdue = {}
            /\ inflow.received \cup inflow.expected \cup inflow.overdue
                 \subseteq NetFlow(m).in
            /\ p # NoFilter =>
                 ForecastV3(p, m).in \subseteq inflow.expected \cup inflow.overdue
<1> DEFINE rows == {r \in Live("revenue") : r.month = m /\ Fits(p, r.proj)}
           Late(r) == r.state = "expected" /\ r.day < Today
<1>1. /\ Forecast(m, NoFilter, p).planned = PlansIn(m, NoFilter, p)
      /\ Forecast(m, NoFilter, p).pending = {a \in AppliesIn(m, NoFilter, p) : a.apply = "approving"}
      /\ Forecast(m, NoFilter, p).confirmed = {a \in AppliesIn(m, NoFilter, p) : a.apply = "approved"}
  BY DEF Forecast
<1>2. \A l \in Forecast(m, NoFilter, p).loan : l \in Live("loan") /\ l.apply = "Approved"
  BY DEF Forecast
<1>3. /\ CashDetail(m, NoFilter, p).plans = PlansIn(m, NoFilter, p)
      /\ CashDetail(m, NoFilter, p).applies = AppliesIn(m, NoFilter, p)
  BY DEF CashDetail
<1>4. ASSUME NEW l \in Forecast(m, NoFilter, p).loan
      PROVE  \E k \in Loans(l.id, "Approved") : k.kind = "imported"
  <2>1. l \in raw["loan"] /\ Fits(l.id, l.id) /\ Fits("Approved", l.apply)
    BY <1>2, FitsFacts DEF Live
  <2>2. PICK k : k = [id |-> l.id, kind |-> "imported", state |-> l.apply,
                      offsets |-> {o \in raw.offset : o.loan = l.id}]
    OBVIOUS
  <2>3. k \in Loans(l.id, "Approved") /\ k.kind = "imported"
    BY <2>1, <2>2 DEF Loans
  <2> QED BY <2>3
<1>5. /\ Inflow(m, p).received = {r \in rows : r.state = "received"}
      /\ Inflow(m, p).expected = {r \in rows : r.state = "expected" /\ ~Late(r)}
      /\ Inflow(m, p).overdue = {r \in rows : Late(r) \/ r.state = "overdue"}
  BY DEF Inflow
<1>6. NetFlow(m).in = {r \in Live("revenue") : r.month = m}
  BY DEF NetFlow
<1>7. \A r \in ForecastV3(p, m).in :
        r \in Live("revenue") /\ r.proj = p /\ r.month = m /\ r.state = "expected"
  BY DEF ForecastV3
<1>8. \A r \in ForecastV3(p, m).in : r \in rows /\ r.state = "expected"
  BY <1>7, FitsFacts
<1>9. Inflow(m, p).expected \cap Inflow(m, p).overdue = {}
  <2>1. "expected" # "overdue"
    OBVIOUS
  <2> QED BY <1>5, <2>1
<1>10. rows \subseteq NetFlow(m).in
  BY <1>6
<1> HIDE DEF rows, Late
<1>11. Inflow(m, p).received \cup Inflow(m, p).expected \cup Inflow(m, p).overdue \subseteq NetFlow(m).in
  BY <1>5, <1>10
<1>12. p # NoFilter => ForecastV3(p, m).in \subseteq Inflow(m, p).expected \cup Inflow(m, p).overdue
  BY <1>5, <1>8
<1>13. Forecast(m, NoFilter, p).pending \cup Forecast(m, NoFilter, p).confirmed
         \subseteq CashDetail(m, NoFilter, p).applies
  BY <1>1, <1>3
<1> QED BY <1>1, <1>3, <1>4, <1>9, <1>11, <1>12, <1>13

LEMMA MoneyHold ==
  ASSUME LedgerInv, HasFigures
  PROVE  MoneyAgrees
BY InvoicesHold, FundsHold, CenterFundsHold, MonthsHold DEF MoneyAgrees

\* The dashboards, reports and lists on money agree on what was spent, is owed and
\* is expected (CompanyReadModelStore's dashboard, report and cash-flow reads).
THEOREM FiguresAgreeHolds ==
  ASSUME HasFigures
  PROVE  LedgerSpec => []FiguresAgree
<1>1. LedgerInv => FiguresAgree
  BY SpendingNested, BreakdownHolds, CostsHold, MilestonesHold, MoneyHold DEF FiguresAgree
<1> QED BY <1>1, LedgerInductive, PTL

-----------------------------------------------------------------------------
(***************************************************************************)
(* The routes.  That an order of groups serves every path it matches once, *)
(* and by the route that spells it out, is shown from what the groups are: *)
(* no path matches two routes of one group, and of two routes of different *)
(* groups that a path could match the earlier one is spelled out.          *)
(***************************************************************************)
\* A word of a route that only itself matches.
Spelled(w) == w \notin {Name, Digits}

Literal(path) == \A i \in DOMAIN path : Spelled(path[i])

\* No path matches two routes with these.
Apart(a, b) ==
  \/ Len(a) # Len(b)
  \/ \E i \in 1..Len(a) : Spelled(a[i]) /\ Spelled(b[i]) /\ a[i] # b[i]

IsTuple(a) == Len(a) \in Nat /\ DOMAIN a = 1..Len(a) /\ a = [i \in 1..Len(a) |-> a[i]]

\* Of two routes, in groups i and j of an order, that a path could match, the
\* earlier spells its path out.
InTurn(i, r, j, s) ==
  \/ Apart(r.path, s.path)
  \/ i = j /\ r = s
  \/ i < j /\ Literal(r.path)
  \/ j < i /\ Literal(s.path)

\* No path matches two routes that are apart.
LEMMA ApartMatch ==
  ASSUME NEW p, NEW r, NEW s, IsTuple(p), Matches(p, r), Matches(p, s)
  PROVE  ~Apart(r.path, s.path)
BY DEF Matches, Apart, Spelled, IsTuple

\* A route that is spelled out matches one path.
LEMMA LiteralMatch ==
  ASSUME NEW p, NEW r, IsTuple(p), IsTuple(r.path), Matches(p, r), Literal(r.path)
  PROVE  r.path = p
<1>1. Len(p) = Len(r.path) /\ \A i \in 1..Len(p) : p[i] = r.path[i]
  BY DEF IsTuple, Matches, Literal, Spelled
<1>2. /\ p = [i \in 1..Len(p) |-> p[i]]
      /\ r.path = [i \in 1..Len(p) |-> r.path[i]]
  BY <1>1 DEF IsTuple
<1> QED BY <1>1, <1>2

\* The first group with a route for a path has one, and it is the route asked
\* about unless it spells the path out.
LEMMA ServedOnce ==
  ASSUME NEW m \in Methods, NEW p, IsTuple(p),
         DOMAIN Order(m) \subseteq Nat,
         \A i, j \in DOMAIN Order(m) : \A r \in Order(m)[i], s \in Order(m)[j] :
           IsTuple(r.path) /\ InTurn(i, r, j, s),
         NEW r \in Routes(m), Matches(p, r)
  PROVE  /\ Cardinality(Serving(m, p)) = 1
         /\ \A s \in Serving(m, p) : s # r => s.path = p
<1> DEFINE order == Order(m)
           found == {i \in DOMAIN order : \E s \in order[i] : Matches(p, s)}
           first == CHOOSE i \in found : \A j \in found : i <= j
<1>1. PICK k \in DOMAIN order : r \in order[k]
  BY DEF Routes, ToSet
<1>2. k \in found /\ found \subseteq Nat
  BY <1>1
<1>3. \E i \in found : \A j \in found : i <= j
  <2> HIDE DEF found
  <2>1. PICK i \in found : \A j \in found : ~ (j < i)
    BY <1>2, LeastNumber
  <2> QED BY <1>2, <2>1
<1>4. first \in found /\ \A j \in found : first <= j
  <2> HIDE DEF found
  <2> QED BY <1>3
<1>5. Serving(m, p) = {s \in order[first] : Matches(p, s)}
  BY <1>2 DEF Serving
<1> HIDE DEF found, first
<1>6. first \in DOMAIN order /\ \E s \in order[first] : Matches(p, s)
  BY <1>4 DEF found
<1>7. first \in Nat /\ k \in Nat /\ first <= k
  BY <1>2, <1>4
<1>8. PICK s0 \in order[first] : Matches(p, s0)
  BY <1>6
<1>9. ASSUME NEW s \in order[first], Matches(p, s) PROVE s = s0
  <2>1. InTurn(first, s, first, s0)
    BY <1>6, <1>8, <1>9
  <2>2. ~Apart(s.path, s0.path)
    BY <1>8, <1>9, ApartMatch
  <2> QED BY <1>7, <2>1, <2>2 DEF InTurn
<1>10. Serving(m, p) = {s0}
  BY <1>5, <1>8, <1>9
<1>11. Cardinality(Serving(m, p)) = 1
  BY <1>10, FS_Singleton
<1>12. s0 # r => s0.path = p
  <2>1. InTurn(first, s0, k, r) /\ IsTuple(s0.path)
    BY <1>1, <1>6, <1>8
  <2>2. ~Apart(s0.path, r.path)
    BY <1>8, ApartMatch
  <2>3. s0 = r \/ Literal(s0.path)
    BY <1>7, <2>1, <2>2 DEF InTurn
  <2> QED BY <1>8, <2>1, <2>3, LiteralMatch
<1> QED BY <1>10, <1>11, <1>12

\* A group of an order that no path matches twice.
Parted(G) ==
  \A r, s \in G : IsTuple(r.path) /\ (r.path = s.path \/ Apart(r.path, s.path))

Distinct(G) ==
  \A r, s \in G : r.path = s.path => r = s

Alone(G) == Parted(G) /\ Distinct(G)

\* A group whose routes may be tried before those of another.
Before(G, H) ==
  \A r \in G, s \in H : Apart(r.path, s.path) \/ Literal(r.path)

\* An order whose groups are like that.
Ordered(order) ==
  /\ DOMAIN order \subseteq Nat
  /\ \A i \in DOMAIN order : Alone(order[i])
  /\ \A i, j \in DOMAIN order : i < j => Before(order[i], order[j])

LEMMA ApartSwaps ==
  ASSUME NEW a, NEW b, IsTuple(a), Apart(a, b)
  PROVE  Apart(b, a)
BY DEF Apart, IsTuple

\* In such an order a path is served once, and if by another than a route that
\* it matches, by one that spells it out.
LEMMA OrderedServes ==
  ASSUME NEW m \in Methods, Ordered(Order(m)), NEW p, IsTuple(p),
         NEW r \in Routes(m), Matches(p, r)
  PROVE  /\ Cardinality(Serving(m, p)) = 1
         /\ \A s \in Serving(m, p) : s # r => s.path = p
<1> DEFINE order == Order(m)
<1>1. ASSUME NEW i \in DOMAIN order, NEW j \in DOMAIN order,
             NEW x \in order[i], NEW y \in order[j]
      PROVE  IsTuple(x.path) /\ InTurn(i, x, j, y)
  <2>1. i \in Nat /\ j \in Nat /\ Alone(order[i]) /\ Alone(order[j])
    BY DEF Ordered
  <2>2. IsTuple(x.path) /\ IsTuple(y.path)
    BY <2>1 DEF Alone, Parted, Distinct
  <2>3. CASE i = j
    BY <2>1, <2>2, <2>3 DEF Alone, Parted, Distinct, InTurn
  <2>4. CASE i < j
    <3>1. Before(order[i], order[j])
      BY <2>4 DEF Ordered
    <3> QED BY <2>2, <2>4, <3>1 DEF Before, InTurn
  <2>5. CASE j < i
    <3>1. Before(order[j], order[i])
      BY <2>5 DEF Ordered
    <3>2. Apart(y.path, x.path) \/ Literal(y.path)
      BY <3>1 DEF Before
    <3> QED BY <2>2, <2>5, <3>2, ApartSwaps DEF InTurn
  <2> QED BY <2>1, <2>3, <2>4, <2>5
<1>2. DOMAIN order \subseteq Nat
  BY DEF Ordered
<1> QED BY <1>1, <1>2, ServedOnce

-----------------------------------------------------------------------------
(***************************************************************************)
(* The groups of the reads                                                 *)
(***************************************************************************)
LEMMA ReadPath ==
  \A x, y : Read(x).path = x /\ ReadWith(x, y).path = x
BY DEF Read, ReadWith

\* Each group of the reads after the other.
LEMMA ReadsAlone ==
  \A i \in 1..12 : Alone(ReadOrder[i])
<1>1. Parted(SpendingReads)
  BY SMTT(60) DEF Parted, SpendingReads, Read, ReadWith, Apart, Spelled, Name, Digits, IsTuple
<1>2. Distinct(SpendingReads)
  BY ReadPath, SMTT(60) DEF Distinct, SpendingReads, Name, Digits
<1>3. Parted(ProcurementReads)
  BY SMTT(60) DEF Parted, ProcurementReads, Read, ReadWith, Apart, Spelled, Name, Digits,
     IsTuple
<1>4. Distinct(ProcurementReads)
  BY ReadPath, SMTT(60) DEF Distinct, ProcurementReads, Name, Digits
<1>5. Parted(CashflowReads)
  BY SMTT(60) DEF Parted, CashflowReads, Read, ReadWith, Apart, Spelled, Name, Digits, IsTuple
<1>6. Distinct(CashflowReads)
  BY ReadPath, SMTT(60) DEF Distinct, CashflowReads, Name, Digits
<1>7. Parted(SupplierReads)
  BY SMTT(60) DEF Parted, SupplierReads, Read, ReadWith, Apart, Spelled, Name, Digits, IsTuple
<1>8. Distinct(SupplierReads)
  BY ReadPath, SMTT(60) DEF Distinct, SupplierReads, Name, Digits
<1>9. Parted(SalesReads)
  BY SMTT(60) DEF Parted, SalesReads, SalesWords, Read, ReadWith, Apart, Spelled, Name,
     Digits, IsTuple
<1>10. Distinct(SalesReads)
  BY ReadPath, SMTT(60) DEF Distinct, SalesReads, SalesWords, Name, Digits
<1>11. Parted(ReportReads)
  BY SMTT(60) DEF Parted, ReportReads, Read, ReadWith, Apart, Spelled, Name, Digits, IsTuple
<1>12. Distinct(ReportReads)
  BY ReadPath, SMTT(60) DEF Distinct, ReportReads, Name, Digits
<1>13. Parted(CbsReads)
  BY SMTT(60) DEF Parted, CbsReads, Read, ReadWith, Apart, Spelled, Name, Digits, IsTuple
<1>14. Distinct(CbsReads)
  BY ReadPath, SMTT(60) DEF Distinct, CbsReads, Name, Digits
<1>15. Parted(ObservationReads)
  BY SMTT(60) DEF Parted, ObservationReads, Read, ReadWith, Apart, Spelled, Name, Digits,
     IsTuple
<1>16. Distinct(ObservationReads)
  BY ReadPath, SMTT(60) DEF Distinct, ObservationReads, Name, Digits
<1>17. Parted(InvestmentReads)
  BY SMTT(60) DEF Parted, InvestmentReads, Read, ReadWith, Apart, Spelled, Name, Digits, IsTuple
<1>18. Distinct(InvestmentReads)
  BY ReadPath, SMTT(60) DEF Distinct, InvestmentReads, Name, Digits
<1>19. Parted(AdministrationReads)
  BY SMTT(60) DEF Parted, AdministrationReads, Read, ReadWith, Apart, Spelled, Name, Digits,
     IsTuple
<1>20. Distinct(AdministrationReads)
  BY ReadPath, SMTT(60) DEF Distinct, AdministrationReads, Name, Digits
<1>21. Parted(ProjectReads)
  BY SMTT(60) DEF Parted, ProjectReads, Read, ReadWith, Apart, Spelled, Name, Digits, IsTuple
<1>22. Distinct(ProjectReads)
  BY ReadPath, SMTT(60) DEF Distinct, ProjectReads, Name, Digits
<1>23. Parted(DeliveryReads)
  BY SMTT(60) DEF Parted, DeliveryReads, Read, ReadWith, Apart, Spelled, Name, Digits, IsTuple
<1>24. Distinct(DeliveryReads)
  BY ReadPath, SMTT(60) DEF Distinct, DeliveryReads, Name, Digits
<1> QED BY <1>1, <1>2, <1>3, <1>4, <1>5, <1>6, <1>7, <1>8, <1>9, <1>10, <1>11, <1>12, <1>13,
        <1>14, <1>15, <1>16, <1>17, <1>18, <1>19, <1>20, <1>21, <1>22, <1>23, <1>24 DEF
        ReadOrder, Alone

LEMMA ReadsInTurn ==
  \A i, j \in 1..12 : i < j => Before(ReadOrder[i], ReadOrder[j])
<1>1. \A j \in 1..12 : 1 < j => Before(ReadOrder[1], ReadOrder[j])
  <2>1. Before(SpendingReads, ProcurementReads)
    BY SMTT(60) DEF Before, SpendingReads, ProcurementReads, Read, ReadWith, Apart, Spelled,
       Name, Digits
  <2>2. Before(SpendingReads, CashflowReads)
    BY SMTT(60) DEF Before, SpendingReads, CashflowReads, Read, ReadWith, Apart, Spelled,
       Name, Digits
  <2>3. Before(SpendingReads, SupplierReads)
    BY SMTT(60) DEF Before, SpendingReads, SupplierReads, Read, ReadWith, Apart, Spelled,
       Name, Digits
  <2>4. Before(SpendingReads, SalesReads)
    BY SMTT(60) DEF Before, SpendingReads, SalesReads, SalesWords, Read, ReadWith, Apart,
       Spelled, Name, Digits
  <2>5. Before(SpendingReads, ReportReads)
    BY SMTT(60) DEF Before, SpendingReads, ReportReads, Read, ReadWith, Apart, Spelled, Name,
       Digits
  <2>6. Before(SpendingReads, CbsReads)
    BY SMTT(60) DEF Before, SpendingReads, CbsReads, Read, ReadWith, Apart, Spelled, Name,
       Digits
  <2>7. Before(SpendingReads, ObservationReads)
    BY SMTT(60) DEF Before, SpendingReads, ObservationReads, Read, ReadWith, Apart, Spelled,
       Name, Digits
  <2>8. Before(SpendingReads, InvestmentReads)
    BY SMTT(60) DEF Before, SpendingReads, InvestmentReads, Read, ReadWith, Apart, Spelled,
       Name, Digits
  <2>9. Before(SpendingReads, AdministrationReads)
    BY SMTT(60) DEF Before, SpendingReads, AdministrationReads, Read, ReadWith, Apart,
       Spelled, Name, Digits
  <2>10. Before(SpendingReads, ProjectReads)
    BY SMTT(60) DEF Before, SpendingReads, ProjectReads, Read, ReadWith, Apart, Spelled, Name,
       Digits
  <2>11. Before(SpendingReads, DeliveryReads)
    BY SMTT(60) DEF Before, SpendingReads, DeliveryReads, Read, ReadWith, Apart, Spelled,
       Name, Digits
  <2> QED BY <2>1, <2>2, <2>3, <2>4, <2>5, <2>6, <2>7, <2>8, <2>9, <2>10, <2>11 DEF ReadOrder
<1>2. \A j \in 1..12 : 2 < j => Before(ReadOrder[2], ReadOrder[j])
  <2>1. Before(ProcurementReads, CashflowReads)
    BY SMTT(60) DEF Before, ProcurementReads, CashflowReads, Read, ReadWith, Apart, Spelled,
       Name, Digits
  <2>2. Before(ProcurementReads, SupplierReads)
    BY SMTT(60) DEF Before, ProcurementReads, SupplierReads, Read, ReadWith, Apart, Spelled,
       Name, Digits
  <2>3. Before(ProcurementReads, SalesReads)
    BY SMTT(60) DEF Before, ProcurementReads, SalesReads, SalesWords, Literal, Read, ReadWith,
       Apart, Spelled, Name, Digits
  <2>4. Before(ProcurementReads, ReportReads)
    BY SMTT(60) DEF Before, ProcurementReads, ReportReads, Read, ReadWith, Apart, Spelled,
       Name, Digits
  <2>5. Before(ProcurementReads, CbsReads)
    BY SMTT(60) DEF Before, ProcurementReads, CbsReads, Read, ReadWith, Apart, Spelled, Name,
       Digits
  <2>6. Before(ProcurementReads, ObservationReads)
    BY SMTT(60) DEF Before, ProcurementReads, ObservationReads, Read, ReadWith, Apart,
       Spelled, Name, Digits
  <2>7. Before(ProcurementReads, InvestmentReads)
    BY SMTT(60) DEF Before, ProcurementReads, InvestmentReads, Read, ReadWith, Apart, Spelled,
       Name, Digits
  <2>8. Before(ProcurementReads, AdministrationReads)
    BY SMTT(60) DEF Before, ProcurementReads, AdministrationReads, Read, ReadWith, Apart,
       Spelled, Name, Digits
  <2>9. Before(ProcurementReads, ProjectReads)
    BY SMTT(60) DEF Before, ProcurementReads, ProjectReads, Read, ReadWith, Apart, Spelled,
       Name, Digits
  <2>10. Before(ProcurementReads, DeliveryReads)
    BY SMTT(60) DEF Before, ProcurementReads, DeliveryReads, Read, ReadWith, Apart, Spelled,
       Name, Digits
  <2> QED BY <2>1, <2>2, <2>3, <2>4, <2>5, <2>6, <2>7, <2>8, <2>9, <2>10 DEF ReadOrder
<1>3. \A j \in 1..12 : 3 < j => Before(ReadOrder[3], ReadOrder[j])
  <2>1. Before(CashflowReads, SupplierReads)
    BY SMTT(60) DEF Before, CashflowReads, SupplierReads, Read, ReadWith, Apart, Spelled,
       Name, Digits
  <2>2. Before(CashflowReads, SalesReads)
    BY SMTT(60) DEF Before, CashflowReads, SalesReads, SalesWords, Read, ReadWith, Apart,
       Spelled, Name, Digits
  <2>3. Before(CashflowReads, ReportReads)
    BY SMTT(60) DEF Before, CashflowReads, ReportReads, Read, ReadWith, Apart, Spelled, Name,
       Digits
  <2>4. Before(CashflowReads, CbsReads)
    BY SMTT(60) DEF Before, CashflowReads, CbsReads, Read, ReadWith, Apart, Spelled, Name,
       Digits
  <2>5. Before(CashflowReads, ObservationReads)
    BY SMTT(60) DEF Before, CashflowReads, ObservationReads, Read, ReadWith, Apart, Spelled,
       Name, Digits
  <2>6. Before(CashflowReads, InvestmentReads)
    BY SMTT(60) DEF Before, CashflowReads, InvestmentReads, Read, ReadWith, Apart, Spelled,
       Name, Digits
  <2>7. Before(CashflowReads, AdministrationReads)
    BY SMTT(60) DEF Before, CashflowReads, AdministrationReads, Read, ReadWith, Apart,
       Spelled, Name, Digits
  <2>8. Before(CashflowReads, ProjectReads)
    BY SMTT(60) DEF Before, CashflowReads, ProjectReads, Read, ReadWith, Apart, Spelled, Name,
       Digits
  <2>9. Before(CashflowReads, DeliveryReads)
    BY SMTT(60) DEF Before, CashflowReads, DeliveryReads, Read, ReadWith, Apart, Spelled,
       Name, Digits
  <2> QED BY <2>1, <2>2, <2>3, <2>4, <2>5, <2>6, <2>7, <2>8, <2>9 DEF ReadOrder
<1>4. \A j \in 1..12 : 4 < j => Before(ReadOrder[4], ReadOrder[j])
  <2>1. Before(SupplierReads, SalesReads)
    BY SMTT(60) DEF Before, SupplierReads, SalesReads, SalesWords, Read, ReadWith, Apart,
       Spelled, Name, Digits
  <2>2. Before(SupplierReads, ReportReads)
    BY SMTT(60) DEF Before, SupplierReads, ReportReads, Read, ReadWith, Apart, Spelled, Name,
       Digits
  <2>3. Before(SupplierReads, CbsReads)
    BY SMTT(60) DEF Before, SupplierReads, CbsReads, Read, ReadWith, Apart, Spelled, Name,
       Digits
  <2>4. Before(SupplierReads, ObservationReads)
    BY SMTT(60) DEF Before, SupplierReads, ObservationReads, Read, ReadWith, Apart, Spelled,
       Name, Digits
  <2>5. Before(SupplierReads, InvestmentReads)
    BY SMTT(60) DEF Before, SupplierReads, InvestmentReads, Read, ReadWith, Apart, Spelled,
       Name, Digits
  <2>6. Before(SupplierReads, AdministrationReads)
    BY SMTT(60) DEF Before, SupplierReads, AdministrationReads, Read, ReadWith, Apart,
       Spelled, Name, Digits
  <2>7. Before(SupplierReads, ProjectReads)
    BY SMTT(60) DEF Before, SupplierReads, ProjectReads, Read, ReadWith, Apart, Spelled, Name,
       Digits
  <2>8. Before(SupplierReads, DeliveryReads)
    BY SMTT(60) DEF Before, SupplierReads, DeliveryReads, Read, ReadWith, Apart, Spelled,
       Name, Digits
  <2> QED BY <2>1, <2>2, <2>3, <2>4, <2>5, <2>6, <2>7, <2>8 DEF ReadOrder
<1>5. \A j \in 1..12 : 5 < j => Before(ReadOrder[5], ReadOrder[j])
  <2>1. Before(SalesReads, ReportReads)
    BY SMTT(60) DEF Before, SalesReads, ReportReads, SalesWords, Read, ReadWith, Apart,
       Spelled, Name, Digits
  <2>2. Before(SalesReads, CbsReads)
    BY SMTT(60) DEF Before, SalesReads, CbsReads, SalesWords, Read, ReadWith, Apart, Spelled,
       Name, Digits
  <2>3. Before(SalesReads, ObservationReads)
    BY SMTT(60) DEF Before, SalesReads, ObservationReads, SalesWords, Read, ReadWith, Apart,
       Spelled, Name, Digits
  <2>4. Before(SalesReads, InvestmentReads)
    BY SMTT(60) DEF Before, SalesReads, InvestmentReads, SalesWords, Read, ReadWith, Apart,
       Spelled, Name, Digits
  <2>5. Before(SalesReads, AdministrationReads)
    BY SMTT(60) DEF Before, SalesReads, AdministrationReads, SalesWords, Read, ReadWith,
       Apart, Spelled, Name, Digits
  <2>6. Before(SalesReads, ProjectReads)
    BY SMTT(60) DEF Before, SalesReads, ProjectReads, SalesWords, Read, ReadWith, Apart,
       Spelled, Name, Digits
  <2>7. Before(SalesReads, DeliveryReads)
    BY SMTT(60) DEF Before, SalesReads, DeliveryReads, SalesWords, Read, ReadWith, Apart,
       Spelled, Name, Digits
  <2> QED BY <2>1, <2>2, <2>3, <2>4, <2>5, <2>6, <2>7 DEF ReadOrder
<1>6. \A j \in 1..12 : 6 < j => Before(ReadOrder[6], ReadOrder[j])
  <2>1. Before(ReportReads, CbsReads)
    BY SMTT(60) DEF Before, ReportReads, CbsReads, Read, ReadWith, Apart, Spelled, Name, Digits
  <2>2. Before(ReportReads, ObservationReads)
    BY SMTT(60) DEF Before, ReportReads, ObservationReads, Read, ReadWith, Apart, Spelled,
       Name, Digits
  <2>3. Before(ReportReads, InvestmentReads)
    BY SMTT(60) DEF Before, ReportReads, InvestmentReads, Read, ReadWith, Apart, Spelled,
       Name, Digits
  <2>4. Before(ReportReads, AdministrationReads)
    BY SMTT(60) DEF Before, ReportReads, AdministrationReads, Read, ReadWith, Apart, Spelled,
       Name, Digits
  <2>5. Before(ReportReads, ProjectReads)
    BY SMTT(60) DEF Before, ReportReads, ProjectReads, Read, ReadWith, Apart, Spelled, Name,
       Digits
  <2>6. Before(ReportReads, DeliveryReads)
    BY SMTT(60) DEF Before, ReportReads, DeliveryReads, Read, ReadWith, Apart, Spelled, Name,
       Digits
  <2> QED BY <2>1, <2>2, <2>3, <2>4, <2>5, <2>6 DEF ReadOrder
<1>7. \A j \in 1..12 : 7 < j => Before(ReadOrder[7], ReadOrder[j])
  <2>1. Before(CbsReads, ObservationReads)
    BY SMTT(60) DEF Before, CbsReads, ObservationReads, Read, ReadWith, Apart, Spelled, Name,
       Digits
  <2>2. Before(CbsReads, InvestmentReads)
    BY SMTT(60) DEF Before, CbsReads, InvestmentReads, Read, ReadWith, Apart, Spelled, Name,
       Digits
  <2>3. Before(CbsReads, AdministrationReads)
    BY SMTT(60) DEF Before, CbsReads, AdministrationReads, Read, ReadWith, Apart, Spelled,
       Name, Digits
  <2>4. Before(CbsReads, ProjectReads)
    BY SMTT(60) DEF Before, CbsReads, ProjectReads, Read, ReadWith, Apart, Spelled, Name, Digits
  <2>5. Before(CbsReads, DeliveryReads)
    BY SMTT(60) DEF Before, CbsReads, DeliveryReads, Read, ReadWith, Apart, Spelled, Name,
       Digits
  <2> QED BY <2>1, <2>2, <2>3, <2>4, <2>5 DEF ReadOrder
<1>8. \A j \in 1..12 : 8 < j => Before(ReadOrder[8], ReadOrder[j])
  <2>1. Before(ObservationReads, InvestmentReads)
    BY SMTT(60) DEF Before, ObservationReads, InvestmentReads, Read, ReadWith, Apart, Spelled,
       Name, Digits
  <2>2. Before(ObservationReads, AdministrationReads)
    BY SMTT(60) DEF Before, ObservationReads, AdministrationReads, Read, ReadWith, Apart,
       Spelled, Name, Digits
  <2>3. Before(ObservationReads, ProjectReads)
    BY SMTT(60) DEF Before, ObservationReads, ProjectReads, Read, ReadWith, Apart, Spelled,
       Name, Digits
  <2>4. Before(ObservationReads, DeliveryReads)
    BY SMTT(60) DEF Before, ObservationReads, DeliveryReads, Read, ReadWith, Apart, Spelled,
       Name, Digits
  <2> QED BY <2>1, <2>2, <2>3, <2>4 DEF ReadOrder
<1>9. \A j \in 1..12 : 9 < j => Before(ReadOrder[9], ReadOrder[j])
  <2>1. Before(InvestmentReads, AdministrationReads)
    BY SMTT(60) DEF Before, InvestmentReads, AdministrationReads, Read, ReadWith, Apart,
       Spelled, Name, Digits
  <2>2. Before(InvestmentReads, ProjectReads)
    BY SMTT(60) DEF Before, InvestmentReads, ProjectReads, Read, ReadWith, Apart, Spelled,
       Name, Digits
  <2>3. Before(InvestmentReads, DeliveryReads)
    BY SMTT(60) DEF Before, InvestmentReads, DeliveryReads, Read, ReadWith, Apart, Spelled,
       Name, Digits
  <2> QED BY <2>1, <2>2, <2>3 DEF ReadOrder
<1>10. \A j \in 1..12 : 10 < j => Before(ReadOrder[10], ReadOrder[j])
  <2>1. Before(AdministrationReads, ProjectReads)
    BY SMTT(60) DEF Before, AdministrationReads, ProjectReads, Read, ReadWith, Apart, Spelled,
       Name, Digits
  <2>2. Before(AdministrationReads, DeliveryReads)
    BY SMTT(60) DEF Before, AdministrationReads, DeliveryReads, Read, ReadWith, Apart,
       Spelled, Name, Digits
  <2> QED BY <2>1, <2>2 DEF ReadOrder
<1>11. \A j \in 1..12 : 11 < j => Before(ReadOrder[11], ReadOrder[j])
  <2>1. Before(ProjectReads, DeliveryReads)
    BY SMTT(60) DEF Before, ProjectReads, DeliveryReads, Literal, Read, ReadWith, Apart,
       Spelled, Name, Digits
  <2> QED BY <2>1 DEF ReadOrder
<1> HIDE DEF ReadOrder
<1> QED BY <1>1, <1>2, <1>3, <1>4, <1>5, <1>6, <1>7, <1>8, <1>9, <1>10, <1>11

LEMMA ReadsOrdered ==
  Ordered(ReadOrder)
<1>1. DOMAIN ReadOrder = 1..12
  BY DEF ReadOrder
<1> QED BY <1>1, ReadsAlone, ReadsInTurn DEF Ordered

-----------------------------------------------------------------------------
(***************************************************************************)
(* The groups of the commands                                              *)
(***************************************************************************)
LEMMA CommandPath ==
  \A x, f, t : Command(x, f, t).path = x /\ Alias(x, f, t).path = x
BY DEF Command, Alias

\* Tuples of words, joined.
LEMMA WordThenTwo ==
  ASSUME NEW a, NEW b, NEW c
  PROVE  <<a>> \o <<b, c>> = <<a, b, c>>
<1> DEFINE W == {a, b, c}
<1>1. <<a>> \in Seq(W) /\ <<b, c>> \in Seq(W) /\ <<a, b, c>> \in Seq(W)
  OBVIOUS
<1> HIDE DEF W
<1>2. <<a>> \o <<b, c>> \in Seq(W) /\ Len(<<a>> \o <<b, c>>) = 3
  BY <1>1, ConcatProperties
<1>3. \A i \in 1..3 :
        (<<a>> \o <<b, c>>)[i] = IF i <= 1 THEN <<a>>[i] ELSE <<b, c>>[i - 1]
  BY <1>1, ConcatProperties
<1>4. \A i \in 1..3 : (<<a>> \o <<b, c>>)[i] = <<a, b, c>>[i]
  BY <1>3
<1> QED BY <1>1, <1>2, <1>4, SeqEqual

LEMMA TwoThenTwo ==
  ASSUME NEW a, NEW b, NEW c, NEW d
  PROVE  <<a, b>> \o <<c, d>> = <<a, b, c, d>>
<1> DEFINE W == {a, b, c, d}
<1>1. <<a, b>> \in Seq(W) /\ <<c, d>> \in Seq(W) /\ <<a, b, c, d>> \in Seq(W)
  OBVIOUS
<1> HIDE DEF W
<1>2. <<a, b>> \o <<c, d>> \in Seq(W) /\ Len(<<a, b>> \o <<c, d>>) = 4
  BY <1>1, ConcatProperties
<1>3. \A i \in 1..4 :
        (<<a, b>> \o <<c, d>>)[i] = IF i <= 2 THEN <<a, b>>[i] ELSE <<c, d>>[i - 2]
  BY <1>1, ConcatProperties
<1>4. \A i \in 1..4 : (<<a, b>> \o <<c, d>>)[i] = <<a, b, c, d>>[i]
  BY <1>3
<1> QED BY <1>1, <1>2, <1>4, SeqEqual

LEMMA VerbsOfOne ==
  \A a, f, V : Verbs(<<a>>, f, V) = {Command(<<a, Name, v>>, f, TypeOf(v)) : v \in V}
<1> TAKE a, f, V
<1>1. \A v \in V : <<a>> \o <<Name, v>> = <<a, Name, v>>
  BY WordThenTwo
<1> QED BY <1>1 DEF Verbs

LEMMA VerbsOfTwo ==
  \A a, b, f, V :
    Verbs(<<a, b>>, f, V) = {Command(<<a, b, Name, v>>, f, TypeOf(v)) : v \in V}
<1> TAKE a, b, f, V
<1>1. \A v \in V : <<a, b>> \o <<Name, v>> = <<a, b, Name, v>>
  BY TwoThenTwo
<1> QED BY <1>1 DEF Verbs

\* The words a verb follows, and the family each stands for.
Heads == {"expenses", "contracts", "payment-applies", "tenders", "suppliers", "loans"}

Kind(w) ==
  CASE w = "expenses" -> "expense" [] w = "contracts" -> "contract"
    [] w = "payment-applies" -> "payment" [] w = "tenders" -> "tender"
    [] w = "suppliers" -> "supplier" [] w = "loans" -> "loan"

\* The transitions of longer paths.
Deeper ==
  {Command(<<"source", "cost", "contracts", Name, "milestones">>, "milestone", "create"),
   Command(<<"source", "cost", "milestones", Name, "trigger-event">>,
           "milestone", "trigger_event"),
   Command(<<"fund", "dispatches", Name, "approve">>, "fund_dispatch", "approve"),
   Command(<<"fund", "plans", Name, "delete">>, "fund_plan", "delete"),
   Command(<<"plan", "tasks", Name, "report">>, "task_report", "create"),
   Command(<<"plan", "tasks", Name, "delete">>, "plan_task", "delete"),
   Command(<<"delivery", "tasks", Name, "report">>, "task_report", "create"),
   Command(<<"delivery", "outputs", Name, "confirm">>, "output", "confirm"),
   Command(<<"marketing", "placements", Name, "effect">>, "placement", "effect")}

Reported ==
  {Command(<<"delivery", "progress", Name, v>>, "progress", TypeOf(v)) :
     v \in {"report", "accept", "reject"}}

\* A verb after one word.
HeadVerb(r) ==
  \E w \in Heads : \E v : Spelled(v) /\ r = Command(<<w, Name, v>>, Kind(w), TypeOf(v))

\* What the transitions look like.
LEMMA VerbForms ==
  ASSUME NEW w \in Heads, NEW V, \A v \in V : Spelled(v),
         NEW r \in Verbs(<<w>>, Kind(w), V)
  PROVE  HeadVerb(r)
<1>1. r \in {Command(<<w, Name, v>>, Kind(w), TypeOf(v)) : v \in V}
  BY VerbsOfOne
<1> QED BY <1>1 DEF HeadVerb

LEMMA TransitionForms ==
  ASSUME NEW r \in Transitions
  PROVE  HeadVerb(r) \/ r \in Deeper \cup Reported
<1>1. CASE r \in Verbs(<<"expenses">>, "expense",
        {"submit", "submit-for-approval", "approve", "reject", "resubmit", "void"})
  <2>1. r \in Verbs(<<"expenses">>, Kind("expenses"),
        {"submit", "submit-for-approval", "approve", "reject", "resubmit", "void"})
    BY <1>1 DEF Kind
  <2> QED BY <2>1, VerbForms DEF Heads, Spelled, Name, Digits
<1>2. CASE r \in Verbs(<<"contracts">>, "contract", {"submit", "approve", "reject", "resubmit"})
  <2>1. r \in Verbs(<<"contracts">>, Kind("contracts"), {"submit", "approve", "reject", "resubmit"})
    BY <1>2 DEF Kind
  <2> QED BY <2>1, VerbForms DEF Heads, Spelled, Name, Digits
<1>3. CASE r \in Verbs(<<"payment-applies">>, "payment",
               {"submit", "approve", "reject", "resubmit", "update", "void"})
  <2>1. r \in Verbs(<<"payment-applies">>, Kind("payment-applies"),
               {"submit", "approve", "reject", "resubmit", "update", "void"})
    BY <1>3 DEF Kind
  <2> QED BY <2>1, VerbForms DEF Heads, Spelled, Name, Digits
<1>4. CASE r \in Verbs(<<"tenders">>, "tender",
               {"publish", "open_bidding", "award", "complete", "cancel"})
  <2>1. r \in Verbs(<<"tenders">>, Kind("tenders"),
               {"publish", "open_bidding", "award", "complete", "cancel"})
    BY <1>4 DEF Kind
  <2> QED BY <2>1, VerbForms DEF Heads, Spelled, Name, Digits
<1>5. CASE r \in Verbs(<<"suppliers">>, "supplier",
               {"update", "submit_review", "review", "blacklist", "void"})
  <2>1. r \in Verbs(<<"suppliers">>, Kind("suppliers"),
               {"update", "submit_review", "review", "blacklist", "void"})
    BY <1>5 DEF Kind
  <2> QED BY <2>1, VerbForms DEF Heads, Spelled, Name, Digits
<1>6. CASE r \in Verbs(<<"loans">>, "loan",
               {"submit-for-approval", "offset", "sync-from-workflow", "update", "void"})
  <2>1. r \in Verbs(<<"loans">>, Kind("loans"),
               {"submit-for-approval", "offset", "sync-from-workflow", "update", "void"})
    BY <1>6 DEF Kind
  <2> QED BY <2>1, VerbForms DEF Heads, Spelled, Name, Digits
<1>7. CASE r \in Verbs(<<"delivery", "progress">>, "progress", {"report", "accept", "reject"})
  <2> DEFINE V == {"report", "accept", "reject"}
  <2> HIDE DEF V
  <2>1. Verbs(<<"delivery", "progress">>, "progress", V)
          = {Command(<<"delivery", "progress", Name, v>>, "progress", TypeOf(v)) : v \in V}
    BY VerbsOfTwo
  <2> QED BY <1>7, <2>1 DEF Reported, V
<1> QED BY <1>1, <1>2, <1>3, <1>4, <1>5, <1>6, <1>7, SMTT(30) DEF Transitions, Deeper

\* A verb of sales.
SalesVerb(r) ==
  \E w \in SalesWords : \E v :
    /\ Spelled(v) /\ v # "open_receivable"
    /\ r = Command(<<"sales", w, Name, v>>, SalesFamily(w), TypeOf(v))

LEMMA SalesForms ==
  ASSUME NEW r \in SalesTransitionRoutes
  PROVE  \/ r = Command(<<"sales", "contracts", Name, "open_receivable">>, "receivable", "create")
         \/ SalesVerb(r)
<1> DEFINE V == {"update", "block", "archive", "convert", "cancel", "fulfill",
                 "approve", "release", "pay", "reject", "delete", "confirm-received"}
<1>1. \A v \in V : Spelled(v) /\ v # "open_receivable"
  BY DEF Spelled, Name, Digits
<1>2. \A w \in SalesWords : \A x \in Verbs(<<"sales", w>>, SalesFamily(w), V) : SalesVerb(x)
  <2> HIDE DEF V
  <2> TAKE w \in SalesWords
  <2>1. Verbs(<<"sales", w>>, SalesFamily(w), V)
          = {Command(<<"sales", w, Name, v>>, SalesFamily(w), TypeOf(v)) : v \in V}
    BY VerbsOfTwo
  <2> QED BY <1>1, <2>1 DEF SalesVerb
<1> QED BY <1>2, Zenon DEF SalesTransitionRoutes

LEMMA ApartAt ==
  ASSUME NEW a, NEW b, NEW i \in 1..Len(a), Spelled(a[i]), Spelled(b[i]), a[i] # b[i]
  PROVE  Apart(a, b)
BY DEF Apart

LEMMA ApartNot ==
  ASSUME NEW a, Apart(a, a)
  PROVE  FALSE
BY DEF Apart

LEMMA TransitionsWithin ==
  ASSUME NEW r \in Transitions, NEW s \in Transitions
  PROVE  r = s \/ Apart(r.path, s.path)
<1>1. CASE HeadVerb(r) /\ HeadVerb(s)
  <2> PICK w \in Heads :
        \E v : Spelled(v) /\ r = Command(<<w, Name, v>>, Kind(w), TypeOf(v))
    BY <1>1 DEF HeadVerb
  <2>1. PICK v : Spelled(v) /\ r = Command(<<w, Name, v>>, Kind(w), TypeOf(v))
    OBVIOUS
  <2> PICK x \in Heads :
        \E y : Spelled(y) /\ s = Command(<<x, Name, y>>, Kind(x), TypeOf(y))
    BY <1>1 DEF HeadVerb
  <2>2. PICK y : Spelled(y) /\ s = Command(<<x, Name, y>>, Kind(x), TypeOf(y))
    OBVIOUS
  <2>3. r.path = <<w, Name, v>> /\ s.path = <<x, Name, y>>
    BY <2>1, <2>2, CommandPath
  <2>4. w = x /\ v = y => r = s
    BY <2>1, <2>2
  <2>5. Spelled(w) /\ Spelled(x)
    BY DEF Heads, Spelled, Name, Digits
  <2>6. /\ Len(r.path) = 3 /\ Len(s.path) = 3
        /\ r.path[1] = w /\ s.path[1] = x /\ r.path[3] = v /\ s.path[3] = y
    BY <2>3
  <2>7. w # x => Apart(r.path, s.path)
    BY <2>5, <2>6, ApartAt
  <2>8. v # y => Apart(r.path, s.path)
    BY <2>1, <2>2, <2>6, ApartAt
  <2> QED BY <2>4, <2>7, <2>8
<1>2. CASE HeadVerb(r) /\ s \in Deeper \cup Reported
  BY <1>2, SMTT(30) DEF HeadVerb, Deeper, Reported, Command, Apart
<1>3. CASE r \in Deeper \cup Reported /\ HeadVerb(s)
  BY <1>3, SMTT(30) DEF HeadVerb, Deeper, Reported, Command, Apart
<1>4. CASE r \in Deeper \cup Reported /\ s \in Deeper \cup Reported
  <2>1. Apart(r.path, s.path) \/ r.path = s.path
    BY <1>4, SMTT(30) DEF Deeper, Reported, Command, Apart, Spelled, Name, Digits
  <2>2. r.path = s.path => r = s
    BY <1>4, CommandPath, SMTT(30) DEF Deeper, Reported, Name
  <2> QED BY <2>1, <2>2
<1> QED BY <1>1, <1>2, <1>3, <1>4, TransitionForms

LEMMA SalesWithin ==
  ASSUME NEW r \in SalesTransitionRoutes, NEW s \in SalesTransitionRoutes
  PROVE  r = s \/ Apart(r.path, s.path)
<1>1. CASE SalesVerb(r) /\ SalesVerb(s)
  <2> PICK w \in SalesWords :
        \E v : Spelled(v) /\ r = Command(<<"sales", w, Name, v>>, SalesFamily(w), TypeOf(v))
    BY <1>1 DEF SalesVerb
  <2>1. PICK v : Spelled(v) /\ r = Command(<<"sales", w, Name, v>>, SalesFamily(w), TypeOf(v))
    OBVIOUS
  <2> PICK x \in SalesWords :
        \E y : Spelled(y) /\ s = Command(<<"sales", x, Name, y>>, SalesFamily(x), TypeOf(y))
    BY <1>1 DEF SalesVerb
  <2>2. PICK y : Spelled(y) /\ s = Command(<<"sales", x, Name, y>>, SalesFamily(x), TypeOf(y))
    OBVIOUS
  <2>3. r.path = <<"sales", w, Name, v>> /\ s.path = <<"sales", x, Name, y>>
    BY <2>1, <2>2, CommandPath
  <2>4. w = x /\ v = y => r = s
    BY <2>1, <2>2
  <2>5. Spelled(w) /\ Spelled(x)
    BY DEF SalesWords, Spelled, Name, Digits
  <2>6. /\ Len(r.path) = 4 /\ Len(s.path) = 4
        /\ r.path[2] = w /\ s.path[2] = x /\ r.path[4] = v /\ s.path[4] = y
    BY <2>3
  <2>7. w # x => Apart(r.path, s.path)
    BY <2>5, <2>6, ApartAt
  <2>8. v # y => Apart(r.path, s.path)
    BY <2>1, <2>2, <2>6, ApartAt
  <2> QED BY <2>4, <2>7, <2>8
<1>2. CASE ~SalesVerb(r) /\ SalesVerb(s)
  BY <1>2, SalesForms, SMTT(30) DEF SalesVerb, Command, Apart, SalesWords, Spelled, Name, Digits
<1>3. CASE SalesVerb(r) /\ ~SalesVerb(s)
  BY <1>3, SalesForms, SMTT(30) DEF SalesVerb, Command, Apart, SalesWords, Spelled, Name, Digits
<1> QED BY <1>1, <1>2, <1>3, SalesForms

LEMMA SalesApart ==
  ASSUME NEW r \in Transitions, NEW s \in SalesTransitionRoutes
  PROVE  Apart(r.path, s.path)
<1>1. Len(s.path) = 4 /\ s.path[1] = "sales"
  BY SalesForms DEF SalesVerb, Command
<1>2. CASE HeadVerb(r)
  BY <1>1, <1>2 DEF HeadVerb, Command, Apart
<1>3. CASE r \in Deeper \cup Reported
  BY <1>1, <1>3 DEF Deeper, Reported, Command, Apart, Spelled, Name, Digits
<1> QED BY <1>2, <1>3, TransitionForms

\* Each group of the posts after the other.
LEMMA PostsAlone ==
  \A i \in 1..7 : Alone(PostOrder[i])
<1>1. Parted(MessagePosts)
  BY SMTT(60) DEF Parted, MessagePosts, Command, Alias, Apart, Spelled, Name, Digits, IsTuple
<1>2. Distinct(MessagePosts)
  BY CommandPath, SMTT(60) DEF Distinct, MessagePosts, Name, Digits
<1>3. Parted(SubscriptionRoutes("POST"))
  BY SMTT(60) DEF Parted, SubscriptionRoutes, Command, Alias, Apart, Spelled, Name, Digits,
     IsTuple
<1>4. Distinct(SubscriptionRoutes("POST"))
  BY CommandPath, SMTT(60) DEF Distinct, SubscriptionRoutes, Name, Digits
<1>5. Parted(PostedReads)
  BY SMTT(60) DEF Parted, PostedReads, Read, Apart, Spelled, Name, Digits, IsTuple
<1>6. Distinct(PostedReads)
  BY ReadPath, SMTT(60) DEF Distinct, PostedReads
<1>7. Parted(Creations)
  BY SMTT(60) DEF Parted, Creations, Command, Alias, Apart, Spelled, Name, Digits, IsTuple
<1>8. Distinct(Creations)
  BY CommandPath, SMTT(60) DEF Distinct, Creations, Name, Digits
<1>9. Parted(MoreCreations)
  BY SMTT(60) DEF Parted, MoreCreations, SalesWords, WarningTypes, Command, Alias, Apart,
     Spelled, Name, Digits, IsTuple
<1>10. Distinct(MoreCreations)
  BY CommandPath, SMTT(60) DEF Distinct, MoreCreations, SalesWords, WarningTypes, Name, Digits
<1>11. Alone(Transitions)
  <2>1. ASSUME NEW r \in Transitions
        PROVE  IsTuple(r.path)
    <3>1. CASE HeadVerb(r)
      BY <3>1 DEF HeadVerb, Command, IsTuple
    <3>2. CASE r \in Deeper \cup Reported
      BY <3>2 DEF Deeper, Reported, Command, IsTuple
    <3> QED BY <3>1, <3>2, TransitionForms
  <2> QED BY <2>1, TransitionsWithin, ApartNot DEF Alone, Parted, Distinct
<1>12. Alone(SalesTransitionRoutes)
  <2>1. ASSUME NEW r \in SalesTransitionRoutes
        PROVE  IsTuple(r.path)
    BY SalesForms DEF SalesVerb, Command, IsTuple
  <2> QED BY <2>1, SalesWithin, ApartNot DEF Alone, Parted, Distinct
<1> QED BY <1>1, <1>2, <1>3, <1>4, <1>5, <1>6, <1>7, <1>8, <1>9, <1>10, <1>11, <1>12 DEF
        PostOrder, Alone

LEMMA PostsInTurn ==
  \A i, j \in 1..7 : i < j => Before(PostOrder[i], PostOrder[j])
<1>1. \A j \in 1..7 : 1 < j => Before(PostOrder[1], PostOrder[j])
  <2>1. Before(MessagePosts, SubscriptionRoutes("POST"))
    BY SMTT(60) DEF Before, MessagePosts, SubscriptionRoutes, Command, Alias, Apart, Spelled,
       Name, Digits
  <2>2. Before(MessagePosts, PostedReads)
    BY SMTT(60) DEF Before, MessagePosts, PostedReads, Read, Command, Alias, Apart, Spelled,
       Name, Digits
  <2>3. Before(MessagePosts, Creations)
    BY SMTT(60) DEF Before, MessagePosts, Creations, Command, Alias, Apart, Spelled, Name,
       Digits
  <2>4. Before(MessagePosts, MoreCreations)
    BY SMTT(60) DEF Before, MessagePosts, MoreCreations, SalesWords, WarningTypes, Command,
       Alias, Apart, Spelled, Name, Digits
  <2>5. Before(MessagePosts, Transitions)
    <3> SUFFICES ASSUME NEW r \in MessagePosts, NEW s \in Transitions
                 PROVE  Apart(r.path, s.path)
      BY DEF Before
    <3>1. CASE HeadVerb(s)
      BY <3>1, SMTT(60) DEF MessagePosts, HeadVerb, Heads, Command, Alias, Apart, Spelled,
         Name, Digits
    <3>2. CASE s \in Deeper \cup Reported
      BY <3>2, SMTT(60) DEF MessagePosts, Deeper, Reported, Command, Alias, Apart, Spelled,
         Name, Digits
    <3> QED BY <3>1, <3>2, TransitionForms
  <2>6. Before(MessagePosts, SalesTransitionRoutes)
    <3> SUFFICES ASSUME NEW r \in MessagePosts, NEW s \in SalesTransitionRoutes
                 PROVE  Apart(r.path, s.path)
      BY DEF Before
    <3>1. Len(s.path) = 4 /\ s.path[1] = "sales"
      BY SalesForms DEF SalesVerb, Command
    <3> QED BY <3>1, SMTT(60) DEF MessagePosts, Command, Alias, Apart, Spelled, Name, Digits
  <2> QED BY <2>1, <2>2, <2>3, <2>4, <2>5, <2>6 DEF PostOrder
<1>2. \A j \in 1..7 : 2 < j => Before(PostOrder[2], PostOrder[j])
  <2>1. Before(SubscriptionRoutes("POST"), PostedReads)
    BY SMTT(60) DEF Before, SubscriptionRoutes, PostedReads, Read, Command, Alias, Apart,
       Spelled, Name, Digits
  <2>2. Before(SubscriptionRoutes("POST"), Creations)
    BY SMTT(60) DEF Before, SubscriptionRoutes, Creations, Command, Alias, Apart, Spelled,
       Name, Digits
  <2>3. Before(SubscriptionRoutes("POST"), MoreCreations)
    BY SMTT(60) DEF Before, SubscriptionRoutes, MoreCreations, SalesWords, WarningTypes,
       Command, Alias, Apart, Spelled, Name, Digits
  <2>4. Before(SubscriptionRoutes("POST"), Transitions)
    <3> SUFFICES ASSUME NEW r \in SubscriptionRoutes("POST"), NEW s \in Transitions
                 PROVE  Apart(r.path, s.path)
      BY DEF Before
    <3>1. CASE HeadVerb(s)
      BY <3>1, SMTT(60) DEF SubscriptionRoutes, HeadVerb, Heads, Command, Alias, Apart,
         Spelled, Name, Digits
    <3>2. CASE s \in Deeper \cup Reported
      BY <3>2, SMTT(60) DEF SubscriptionRoutes, Deeper, Reported, Command, Alias, Apart,
         Spelled, Name, Digits
    <3> QED BY <3>1, <3>2, TransitionForms
  <2>5. Before(SubscriptionRoutes("POST"), SalesTransitionRoutes)
    <3> SUFFICES ASSUME NEW r \in SubscriptionRoutes("POST"), NEW s \in SalesTransitionRoutes
                 PROVE  Apart(r.path, s.path)
      BY DEF Before
    <3>1. Len(s.path) = 4 /\ s.path[1] = "sales"
      BY SalesForms DEF SalesVerb, Command
    <3> QED BY <3>1, SMTT(60) DEF SubscriptionRoutes, Command, Alias, Apart, Spelled, Name,
            Digits
  <2> QED BY <2>1, <2>2, <2>3, <2>4, <2>5 DEF PostOrder
<1>3. \A j \in 1..7 : 3 < j => Before(PostOrder[3], PostOrder[j])
  <2>1. Before(PostedReads, Creations)
    BY SMTT(60) DEF Before, PostedReads, Read, Creations, Command, Alias, Apart, Spelled,
       Name, Digits
  <2>2. Before(PostedReads, MoreCreations)
    BY SMTT(60) DEF Before, PostedReads, Read, MoreCreations, SalesWords, WarningTypes,
       Command, Alias, Apart, Spelled, Name, Digits
  <2>3. Before(PostedReads, Transitions)
    <3> SUFFICES ASSUME NEW r \in PostedReads, NEW s \in Transitions
                 PROVE  Apart(r.path, s.path)
      BY DEF Before
    <3>1. CASE HeadVerb(s)
      BY <3>1, SMTT(60) DEF PostedReads, Read, HeadVerb, Heads, Command, Alias, Apart,
         Spelled, Name, Digits
    <3>2. CASE s \in Deeper \cup Reported
      BY <3>2, SMTT(60) DEF PostedReads, Read, Deeper, Reported, Command, Alias, Apart,
         Spelled, Name, Digits
    <3> QED BY <3>1, <3>2, TransitionForms
  <2>4. Before(PostedReads, SalesTransitionRoutes)
    <3> SUFFICES ASSUME NEW r \in PostedReads, NEW s \in SalesTransitionRoutes
                 PROVE  Apart(r.path, s.path)
      BY DEF Before
    <3>1. Len(s.path) = 4 /\ s.path[1] = "sales"
      BY SalesForms DEF SalesVerb, Command
    <3> QED BY <3>1, SMTT(60) DEF PostedReads, Read, Command, Alias, Apart, Spelled, Name,
            Digits
  <2> QED BY <2>1, <2>2, <2>3, <2>4 DEF PostOrder
<1>4. \A j \in 1..7 : 4 < j => Before(PostOrder[4], PostOrder[j])
  <2>1. Before(Creations, MoreCreations)
    BY SMTT(60) DEF Before, Creations, MoreCreations, SalesWords, WarningTypes, Command,
       Alias, Apart, Spelled, Name, Digits
  <2>2. Before(Creations, Transitions)
    <3> SUFFICES ASSUME NEW r \in Creations, NEW s \in Transitions
                 PROVE  Apart(r.path, s.path)
      BY DEF Before
    <3>1. CASE HeadVerb(s)
      BY <3>1, SMTT(60) DEF Creations, HeadVerb, Heads, Command, Alias, Apart, Spelled, Name,
         Digits
    <3>2. CASE s \in Deeper \cup Reported
      BY <3>2, SMTT(60) DEF Creations, Deeper, Reported, Command, Alias, Apart, Spelled, Name,
         Digits
    <3> QED BY <3>1, <3>2, TransitionForms
  <2>3. Before(Creations, SalesTransitionRoutes)
    <3> SUFFICES ASSUME NEW r \in Creations, NEW s \in SalesTransitionRoutes
                 PROVE  Apart(r.path, s.path)
      BY DEF Before
    <3>1. Len(s.path) = 4 /\ s.path[1] = "sales"
      BY SalesForms DEF SalesVerb, Command
    <3> QED BY <3>1, SMTT(60) DEF Creations, Command, Alias, Apart, Spelled, Name, Digits
  <2> QED BY <2>1, <2>2, <2>3 DEF PostOrder
<1>5. \A j \in 1..7 : 5 < j => Before(PostOrder[5], PostOrder[j])
  <2>1. Before(MoreCreations, Transitions)
    <3> SUFFICES ASSUME NEW r \in MoreCreations, NEW s \in Transitions
                 PROVE  Apart(r.path, s.path)
      BY DEF Before
    <3>1. CASE HeadVerb(s)
      BY <3>1, SMTT(60) DEF MoreCreations, SalesWords, WarningTypes, HeadVerb, Heads, Command,
         Alias, Apart, Spelled, Name, Digits
    <3>2. CASE s \in Deeper \cup Reported
      BY <3>2, SMTT(60) DEF MoreCreations, SalesWords, WarningTypes, Deeper, Reported,
         Command, Alias, Apart, Spelled, Name, Digits
    <3> QED BY <3>1, <3>2, TransitionForms
  <2>2. Before(MoreCreations, SalesTransitionRoutes)
    <3> SUFFICES ASSUME NEW r \in MoreCreations, NEW s \in SalesTransitionRoutes
                 PROVE  Apart(r.path, s.path)
      BY DEF Before
    <3>1. Len(s.path) = 4 /\ s.path[1] = "sales"
      BY SalesForms DEF SalesVerb, Command
    <3> QED BY <3>1, SMTT(60) DEF MoreCreations, SalesWords, WarningTypes, Command, Alias,
            Apart, Spelled, Name, Digits
  <2> QED BY <2>1, <2>2 DEF PostOrder
<1>6. Before(PostOrder[6], PostOrder[7])
  BY SalesApart DEF Before, PostOrder
<1> HIDE DEF PostOrder
<1> QED BY <1>1, <1>2, <1>3, <1>4, <1>5, <1>6

LEMMA PostsOrdered ==
  Ordered(PostOrder)
<1>1. DOMAIN PostOrder = 1..7
  BY DEF PostOrder
<1> QED BY <1>1, PostsAlone, PostsInTurn DEF Ordered

LEMMA OneAlone ==
  ASSUME NEW r, IsTuple(r.path)
  PROVE  Alone({r})
BY DEF Alone, Parted, Distinct

LEMMA AliasesAlone ==
  ASSUME NEW m
  PROVE  Alone(PairedAliases(m))
<1>1. Parted(PairedAliases(m))
  BY SMTT(60) DEF Parted, PairedAliases, DynamicCostAlias, CostAliases, PlanningAliases,
     OwnAliases, LoanAlias, PartyAliases, PreferenceAlias, Command, Alias, Apart, Spelled,
     Name, Digits, IsTuple
<1>2. Distinct(PairedAliases(m))
  BY CommandPath, SMTT(60) DEF Distinct, PairedAliases, DynamicCostAlias, CostAliases,
     PlanningAliases, OwnAliases, LoanAlias, PartyAliases, PreferenceAlias, Name, Digits
<1> QED BY <1>1, <1>2 DEF Alone

LEMMA PutsOrdered ==
  Ordered(PutOrder)
<1>1. Alone(PairedAliases("PUT"))
  BY AliasesAlone
<1>2. Alone({Command(<<"marketing", "placements", Name, "effect">>, "placement", "effect")})
  <2>1. IsTuple(Command(<<"marketing", "placements", Name, "effect">>, "placement", "effect").path)
    BY DEF Command, Alias, IsTuple
  <2> QED BY <2>1, OneAlone
<1>3. Before(PairedAliases("PUT"),
            {Command(<<"marketing", "placements", Name, "effect">>, "placement", "effect")})
  BY SMTT(60) DEF Before, PairedAliases, DynamicCostAlias, CostAliases, PlanningAliases,
     OwnAliases, LoanAlias, PartyAliases, PreferenceAlias, Command, Alias, Apart, Spelled,
     Name, Digits
<1> DEFINE order == PutOrder
<1>4. DOMAIN order = 1..2
  BY DEF PutOrder
<1>5. /\ order[1] = PairedAliases("PUT")
      /\ order[2] = {Command(<<"marketing", "placements", Name, "effect">>, "placement", "effect")}
  BY DEF PutOrder
<1> HIDE DEF order
<1>6. Ordered(order)
  BY <1>1, <1>2, <1>3, <1>4, <1>5 DEF Ordered
<1> QED BY <1>6 DEF order

LEMMA PatchesOrdered ==
  Ordered(PatchOrder)
<1>1. Alone({Command(<<"admin", "dict", "options", Name>>, "admin_dict", "update")})
  <2>1. IsTuple(Command(<<"admin", "dict", "options", Name>>, "admin_dict", "update").path)
    BY DEF Command, Alias, IsTuple
  <2> QED BY <2>1, OneAlone
<1>2. Alone(SubscriptionRoutes("PATCH"))
  <2>1. Parted(SubscriptionRoutes("PATCH"))
    BY SMTT(60) DEF Parted, SubscriptionRoutes, Command, Alias, Apart, Spelled, Name, Digits,
     IsTuple
  <2>2. Distinct(SubscriptionRoutes("PATCH"))
    BY CommandPath, SMTT(60) DEF Distinct, SubscriptionRoutes, Name, Digits
  <2> QED BY <2>1, <2>2 DEF Alone
<1>3. Alone({Alias(<<"source", "srm", "providers", Name>>, "supplier", "update")})
  <2>1. IsTuple(Alias(<<"source", "srm", "providers", Name>>, "supplier", "update").path)
    BY DEF Command, Alias, IsTuple
  <2> QED BY <2>1, OneAlone
<1>4. Before({Command(<<"admin", "dict", "options", Name>>, "admin_dict", "update")},
            SubscriptionRoutes("PATCH"))
  BY SMTT(60) DEF Before, SubscriptionRoutes, Command, Alias, Apart, Spelled, Name, Digits
<1>5. Before({Command(<<"admin", "dict", "options", Name>>, "admin_dict", "update")},
            {Alias(<<"source", "srm", "providers", Name>>, "supplier", "update")})
  BY SMTT(60) DEF Before, Command, Alias, Apart, Spelled, Name, Digits
<1>6. Before(SubscriptionRoutes("PATCH"),
            {Alias(<<"source", "srm", "providers", Name>>, "supplier", "update")})
  BY SMTT(60) DEF Before, SubscriptionRoutes, Command, Alias, Apart, Spelled, Name, Digits
<1> DEFINE order == PatchOrder
<1>7. DOMAIN order = 1..3
  BY DEF PatchOrder
<1>8. /\ order[1] = {Command(<<"admin", "dict", "options", Name>>, "admin_dict", "update")}
      /\ order[2] = SubscriptionRoutes("PATCH")
      /\ order[3] = {Alias(<<"source", "srm", "providers", Name>>, "supplier", "update")}
  BY DEF PatchOrder
<1> HIDE DEF order
<1>9. Ordered(order)
  BY <1>1, <1>2, <1>3, <1>4, <1>5, <1>6, <1>7, <1>8 DEF Ordered
<1> QED BY <1>9 DEF order

LastDeletions ==
  TemplateDeletion \cup InvoiceDeletions \cup PlanDeletions \cup MarketingDeletions

LEMMA DeletesOrdered ==
  Ordered(DeleteOrder)
<1>1. Alone(SubscriptionRoutes("DELETE"))
  <2>1. Parted(SubscriptionRoutes("DELETE"))
    BY SMTT(60) DEF Parted, SubscriptionRoutes, Command, Alias, Apart, Spelled, Name, Digits,
     IsTuple
  <2>2. Distinct(SubscriptionRoutes("DELETE"))
    BY CommandPath, SMTT(60) DEF Distinct, SubscriptionRoutes, Name, Digits
  <2> QED BY <2>1, <2>2 DEF Alone
<1>2. Alone(PairedAliases("DELETE"))
  BY AliasesAlone
<1>3. Alone(LastDeletions)
  <2>1. Parted(LastDeletions)
    BY SMTT(60) DEF Parted, LastDeletions, TemplateDeletion, InvoiceDeletions, PlanDeletions,
     MarketingDeletions, Command, Alias, Apart, Spelled, Name, Digits, IsTuple
  <2>2. Distinct(LastDeletions)
    BY CommandPath, SMTT(60) DEF Distinct, LastDeletions, TemplateDeletion, InvoiceDeletions,
     PlanDeletions, MarketingDeletions, Name, Digits
  <2> QED BY <2>1, <2>2 DEF Alone
<1>4. Before(SubscriptionRoutes("DELETE"),
            PairedAliases("DELETE"))
  BY SMTT(60) DEF Before, SubscriptionRoutes, PairedAliases, DynamicCostAlias, CostAliases,
     PlanningAliases, OwnAliases, LoanAlias, PartyAliases, PreferenceAlias, Command, Alias,
     Apart, Spelled, Name, Digits
<1>5. Before(SubscriptionRoutes("DELETE"),
            LastDeletions)
  BY SMTT(60) DEF Before, SubscriptionRoutes, LastDeletions, TemplateDeletion,
     InvoiceDeletions, PlanDeletions, MarketingDeletions, Command, Alias, Apart, Spelled,
     Name, Digits
<1>6. Before(PairedAliases("DELETE"),
            LastDeletions)
  BY SMTT(60) DEF Before, PairedAliases, DynamicCostAlias, CostAliases, PlanningAliases,
     OwnAliases, LoanAlias, PartyAliases, PreferenceAlias, LastDeletions, TemplateDeletion,
     InvoiceDeletions, PlanDeletions, MarketingDeletions, Command, Alias, Apart, Spelled,
     Name, Digits
<1> DEFINE order == DeleteOrder
<1>7. DOMAIN order = 1..3
  BY DEF DeleteOrder, LastDeletions
<1>8. /\ order[1] = SubscriptionRoutes("DELETE")
      /\ order[2] = PairedAliases("DELETE")
      /\ order[3] = LastDeletions
  BY DEF DeleteOrder, LastDeletions
<1> HIDE DEF order
<1>9. Ordered(order)
  BY <1>1, <1>2, <1>3, <1>4, <1>5, <1>6, <1>7, <1>8 DEF Ordered
<1> QED BY <1>9 DEF order

LEMMA OrdersOrdered ==
  ASSUME NEW m \in Methods
  PROVE  Ordered(Order(m))
BY ReadsOrdered, PostsOrdered, PutsOrdered, PatchesOrdered, DeletesOrdered DEF Methods, Order

-----------------------------------------------------------------------------
(***************************************************************************)
(* Every type of command has a route                                       *)
(***************************************************************************)
\* Some route asks for a type of command of a family.
Asked(f, t) ==
  \E r \in CommandRoutes : r.family = f /\ r.type = t

LEMMA RouteAsks ==
  ASSUME NEW m \in Methods, NEW i \in DOMAIN Order(m), NEW x, NEW f, NEW t,
         Command(x, f, t) \in Order(m)[i] \/ Alias(x, f, t) \in Order(m)[i]
  PROVE  Asked(f, t)
<1>1. PICK r : r \in Order(m)[i] /\ r \in {Command(x, f, t), Alias(x, f, t)}
  OBVIOUS
<1>2. "family" \in DOMAIN r /\ r.family = f /\ r.type = t
  BY <1>1 DEF Command, Alias
<1>3. r \in Routes(m)
  BY <1>1 DEF Routes, ToSet
<1> QED BY <1>2, <1>3 DEF Asked, CommandRoutes

LEMMA PostAsks ==
  ASSUME NEW x, NEW f, NEW t,
         \/ Command(x, f, t) \in MessagePosts \cup Creations \cup MoreCreations \cup Transitions
                                   \cup SalesTransitionRoutes \cup SubscriptionRoutes("POST")
         \/ Alias(x, f, t) \in Creations
  PROVE  Asked(f, t)
<1> DEFINE order == Order("POST")
<1>1. /\ DOMAIN order = 1..7 /\ order[1] = MessagePosts /\ order[2] = SubscriptionRoutes("POST")
      /\ order[4] = Creations /\ order[5] = MoreCreations /\ order[6] = Transitions
      /\ order[7] = SalesTransitionRoutes
  BY DEF Order, PostOrder
<1> HIDE DEF order
<1>2. PICK i \in 1..7 : Command(x, f, t) \in order[i] \/ Alias(x, f, t) \in order[i]
  BY <1>1
<1>3. "POST" \in Methods /\ i \in DOMAIN order
  BY <1>1 DEF Methods
<1> QED BY <1>2, <1>3, RouteAsks DEF order

LEMMA AliasAsks ==
  ASSUME NEW m \in {"PUT", "DELETE"}, NEW x, NEW f, NEW t,
         Command(x, f, t) \in PairedAliases(m) \/ Alias(x, f, t) \in PairedAliases(m)
  PROVE  Asked(f, t)
<1> DEFINE i == IF m = "PUT" THEN 1 ELSE 2
<1>1. m \in Methods /\ i \in DOMAIN Order(m) /\ Order(m)[i] = PairedAliases(m)
  BY DEF Methods, Order, PutOrder, DeleteOrder
<1> HIDE DEF i
<1> QED BY <1>1, RouteAsks

LEMMA PatchAsks ==
  /\ Asked("admin_dict", "update")
  /\ Asked("subscription", "update")
<1> DEFINE order == Order("PATCH")
<1>1. /\ DOMAIN order = 1..3
      /\ Command(<<"admin", "dict", "options", Name>>, "admin_dict", "update") \in order[1]
      /\ Command(<<"source", "notify", "subscriptions", Digits>>, "subscription", "update")
           \in order[2]
  BY DEF Order, PatchOrder, SubscriptionRoutes
<1>2. "PATCH" \in Methods
  BY DEF Methods
<1> HIDE DEF order
<1>3. 1 \in DOMAIN order /\ 2 \in DOMAIN order
  BY <1>1
<1> QED BY <1>1, <1>2, <1>3, RouteAsks DEF order

LEMMA DeleteAsks ==
  /\ Asked("subscription", "delete")
  /\ \A x, f, t :
       Command(x, f, t) \in LastDeletions => Asked(f, t)
<1> DEFINE order == Order("DELETE")
<1>1. /\ DOMAIN order = 1..3 /\ order[1] = SubscriptionRoutes("DELETE")
      /\ order[3] = LastDeletions
  BY DEF Order, DeleteOrder, LastDeletions
<1>2. "DELETE" \in Methods
  BY DEF Methods
<1> HIDE DEF order
<1>3. 1 \in DOMAIN order /\ 3 \in DOMAIN order
  BY <1>1
<1>4. Command(<<"source", "notify", "subscriptions", Digits>>, "subscription", "delete")
        \in order[1]
  BY <1>1 DEF SubscriptionRoutes
<1>5. ASSUME NEW x, NEW f, NEW t,
             Command(x, f, t) \in LastDeletions
      PROVE  Asked(f, t)
  BY <1>1, <1>2, <1>3, <1>5, RouteAsks DEF order
<1> QED BY <1>2, <1>3, <1>4, <1>5, RouteAsks DEF order

\* A verb after a word, or two, asks for its type.
LEMMA VerbAsks ==
  ASSUME NEW words, NEW f, NEW V, NEW v \in V,
         Verbs(words, f, V) \subseteq Transitions \cup SalesTransitionRoutes
  PROVE  Asked(f, TypeOf(v))
<1>1. Command(words \o <<Name, v>>, f, TypeOf(v)) \in Transitions \cup SalesTransitionRoutes
  BY DEF Verbs
<1>2. PICK x : x = words \o <<Name, v>>
  OBVIOUS
<1> QED BY <1>1, <1>2, PostAsks

LEMMA PlainVerb ==
  ASSUME NEW v, v \notin {"submit-for-approval", "sync-from-workflow", "confirm-received"}
  PROVE  TypeOf(v) = v
BY DEF TypeOf

LEMMA CreationsAsked ==
  \A f \in {"expense", "contract", "payment", "dynamic_cost", "tender", "project", "supplier",
            "loan", "fund_plan", "fund_dispatch", "plan_task", "report_template",
            "admin_dict", "split", "invoice", "progress", "output", "campaign", "placement",
            "channel", "material", "subscription", "milestone", "task_report", "receivable",
            "customers", "subscriptions", "sales_contracts", "mortgages", "refunds",
            "revenues"} : Asked(f, "create")
<1>1. /\ Asked("expense", "create") /\ Asked("contract", "create") /\ Asked("payment", "create")
      /\ Asked("dynamic_cost", "create") /\ Asked("tender", "create") /\ Asked("project", "create")
      /\ Asked("supplier", "create") /\ Asked("loan", "create") /\ Asked("fund_plan", "create")
  BY PostAsks DEF Creations
<1>2. /\ Asked("fund_dispatch", "create") /\ Asked("plan_task", "create")
      /\ Asked("report_template", "create") /\ Asked("admin_dict", "create")
      /\ Asked("split", "create")
  BY PostAsks DEF Creations
<1>3. /\ Asked("progress", "create") /\ Asked("output", "create") /\ Asked("campaign", "create")
      /\ Asked("placement", "create") /\ Asked("channel", "create") /\ Asked("material", "create")
  BY PostAsks DEF MoreCreations
<1>4. Asked("invoice", "create")
  BY PostAsks DEF MoreCreations
<1>5. ASSUME NEW w \in SalesWords PROVE Asked(SalesFamily(w), "create")
  <2>1. Command(<<"sales", w>>, SalesFamily(w), "create") \in MoreCreations
    BY DEF MoreCreations
  <2> QED BY <2>1, PostAsks
<1>6. /\ Asked("customers", "create") /\ Asked("subscriptions", "create")
      /\ Asked("sales_contracts", "create") /\ Asked("mortgages", "create")
      /\ Asked("refunds", "create") /\ Asked("revenues", "create")
  BY <1>5 DEF SalesWords, SalesFamily
<1>7. /\ Asked("milestone", "create") /\ Asked("task_report", "create")
  BY PostAsks DEF Transitions
<1>8. Asked("receivable", "create")
  BY PostAsks DEF SalesTransitionRoutes
<1>9. Asked("subscription", "create")
  BY PostAsks DEF SubscriptionRoutes
<1> QED BY <1>1, <1>2, <1>3, <1>4, <1>6, <1>7, <1>8, <1>9

\* The transitions of the families with a word of their own.
LEMMA TransitionsAsked ==
  /\ \A v \in {"submit", "approve", "reject", "resubmit", "void"} : Asked("expense", v)
  /\ \A v \in {"submit", "approve", "reject", "resubmit"} : Asked("contract", v)
  /\ \A v \in {"submit", "approve", "reject", "resubmit", "update", "void"} : Asked("payment", v)
  /\ \A v \in {"publish", "open_bidding", "award", "complete", "cancel"} : Asked("tender", v)
  /\ \A v \in {"update", "submit_review", "review", "blacklist", "void"} : Asked("supplier", v)
  /\ \A v \in {"submit", "offset", "update", "void"} : Asked("loan", v)
  /\ \A v \in {"report", "accept", "reject"} : Asked("progress", v)
<1>1. Verbs(<<"expenses">>, "expense",
            {"submit", "submit-for-approval", "approve", "reject", "resubmit", "void"})
        \subseteq Transitions
  BY Zenon DEF Transitions
<1>2. Verbs(<<"contracts">>, "contract", {"submit", "approve", "reject", "resubmit"})
        \subseteq Transitions
  BY Zenon DEF Transitions
<1>3. Verbs(<<"payment-applies">>, "payment",
            {"submit", "approve", "reject", "resubmit", "update", "void"})
        \subseteq Transitions
  BY Zenon DEF Transitions
<1>4. Verbs(<<"tenders">>, "tender",
            {"publish", "open_bidding", "award", "complete", "cancel"})
        \subseteq Transitions
  BY Zenon DEF Transitions
<1>5. Verbs(<<"suppliers">>, "supplier",
            {"update", "submit_review", "review", "blacklist", "void"})
        \subseteq Transitions
  BY Zenon DEF Transitions
<1>6. Verbs(<<"loans">>, "loan",
            {"submit-for-approval", "offset", "sync-from-workflow", "update", "void"})
        \subseteq Transitions
  BY Zenon DEF Transitions
<1>7. Verbs(<<"delivery", "progress">>, "progress", {"report", "accept", "reject"})
        \subseteq Transitions
  BY Zenon DEF Transitions
<1>8. TypeOf("submit-for-approval") = "submit"
  BY DEF TypeOf
<1>9. ASSUME NEW words, NEW f, NEW V, Verbs(words, f, V) \subseteq Transitions,
             NEW v \in V, v \notin {"submit-for-approval", "sync-from-workflow", "confirm-received"}
      PROVE  Asked(f, v)
  BY <1>9, VerbAsks, PlainVerb
<1>10. ASSUME NEW words, NEW f, NEW V, Verbs(words, f, V) \subseteq Transitions,
              "submit-for-approval" \in V
       PROVE  Asked(f, "submit")
  BY <1>8, <1>10, VerbAsks
<1>11. \A v \in {"submit", "approve", "reject", "resubmit", "void"} : Asked("expense", v)
  BY <1>1, <1>9
<1>12. \A v \in {"submit", "approve", "reject", "resubmit"} : Asked("contract", v)
  BY <1>2, <1>9
<1>13. \A v \in {"submit", "approve", "reject", "resubmit", "update", "void"} : Asked("payment", v)
  BY <1>3, <1>9
<1>14. \A v \in {"publish", "open_bidding", "award", "complete", "cancel"} : Asked("tender", v)
  BY <1>4, <1>9
<1>15. \A v \in {"update", "submit_review", "review", "blacklist", "void"} : Asked("supplier", v)
  BY <1>5, <1>9
<1>16. \A v \in {"offset", "update", "void"} : Asked("loan", v)
  BY <1>6, <1>9
<1>17. Asked("loan", "submit")
  BY <1>6, <1>10
<1>18. \A v \in {"report", "accept", "reject"} : Asked("progress", v)
  BY <1>7, <1>9
<1> QED BY <1>11, <1>12, <1>13, <1>14, <1>15, <1>16, <1>17, <1>18

\* The verbs of sales, but for a revenue's receipt.
LEMMA SalesAsked ==
  /\ \A w \in SalesWords :
       \A v \in {"update", "block", "archive", "convert", "cancel", "fulfill",
                 "approve", "release", "pay", "reject", "delete"} : Asked(SalesFamily(w), v)
  /\ Asked("revenues", "confirm_received")
<1> DEFINE V == {"update", "block", "archive", "convert", "cancel", "fulfill",
                 "approve", "release", "pay", "reject", "delete", "confirm-received"}
<1>1. \A w \in SalesWords :
        Verbs(<<"sales", w>>, SalesFamily(w), V) \subseteq Transitions \cup SalesTransitionRoutes
  BY DEF SalesTransitionRoutes
<1>2. \A w \in SalesWords : \A v \in V : Asked(SalesFamily(w), TypeOf(v))
  <2> HIDE DEF V
  <2> TAKE w \in SalesWords
  <2> TAKE v \in V
  <2>1. PICK words, f : words = <<"sales", w>> /\ f = SalesFamily(w)
    OBVIOUS
  <2>2. Verbs(words, f, V) \subseteq Transitions \cup SalesTransitionRoutes
    BY <1>1, <2>1
  <2> QED BY <2>1, <2>2, VerbAsks
<1>3. SalesFamily("revenues") = "revenues" /\ "revenues" \in SalesWords
  BY DEF SalesFamily, SalesWords
<1>4. TypeOf("confirm-received") = "confirm_received"
  BY DEF TypeOf
<1> QED BY <1>2, <1>3, <1>4, PlainVerb

LEMMA DeeperAsked ==
  /\ Asked("milestone", "trigger_event") /\ Asked("fund_dispatch", "approve")
  /\ Asked("output", "confirm") /\ Asked("placement", "effect")
BY PostAsks DEF Transitions

LEMMA MessagesAsked ==
  /\ \A t \in {"read", "read_all"} : Asked("message", t)
  /\ \A t \in WarningTypes : Asked("warning", t)
<1>1. Asked("message", "read") /\ Asked("message", "read_all")
  BY PostAsks DEF MessagePosts
<1>2. ASSUME NEW t \in WarningTypes PROVE Asked("warning", t)
  <2>1. Command(<<"warning", Name, t>>, "warning", t) \in MoreCreations
    BY DEF MoreCreations
  <2> QED BY <2>1, PostAsks
<1> QED BY <1>1, <1>2

\* What PUT and DELETE stand for.
LEMMA AliasesAsked ==
  /\ \A f \in {"dynamic_cost", "contract", "milestone", "payment", "plan_task", "fund_plan",
               "expense", "revenues", "campaign", "loan", "project", "supplier"} :
       Asked(f, "update")
  /\ \A f \in {"dynamic_cost", "contract", "payment", "expense", "loan", "supplier"} :
       Asked(f, "void")
  /\ \A f \in {"milestone", "plan_task", "fund_plan", "revenues", "campaign", "project"} :
       Asked(f, "delete")
  /\ Asked("preference", "set") /\ Asked("preference", "delete")
<1> DEFINE Puts == PairedAliases("PUT")
           Deletes == PairedAliases("DELETE")
<1>1. \A put, delete : As("PUT", put, delete) = put /\ As("DELETE", put, delete) = delete
  BY DEF As
<1>2. /\ Command(<<"source", "cost", "dynamic-cost", Name>>, "dynamic_cost", "update") \in Puts
      /\ Alias(<<"source", "cost", "contracts", Name>>, "contract", "update") \in Puts
      /\ Command(<<"source", "cost", "milestones", Name>>, "milestone", "update") \in Puts
      /\ Alias(<<"source", "cost", "payment-applies", Name>>, "payment", "update") \in Puts
      /\ Command(<<"plan", "tasks", Name>>, "plan_task", "update") \in Puts
      /\ Command(<<"fund", "plans", Name>>, "fund_plan", "update") \in Puts
      /\ Command(<<"expenses", Name>>, "expense", "update") \in Puts
      /\ Command(<<"sales", "revenues", Name>>, "revenues", "update") \in Puts
      /\ Command(<<"marketing", "campaigns", Name>>, "campaign", "update") \in Puts
      /\ Command(<<"loans", Name>>, "loan", "update") \in Puts
      /\ Alias(<<"source", "mdm", "projects", Name>>, "project", "update") \in Puts
      /\ Alias(<<"source", "srm", "providers", Name>>, "supplier", "update") \in Puts
      /\ Command(<<"source", "auth", "prefs", Name>>, "preference", "set") \in Puts
  BY <1>1 DEF PairedAliases, DynamicCostAlias, CostAliases, PlanningAliases, OwnAliases,
              LoanAlias, PartyAliases, PreferenceAlias
<1>3. /\ Command(<<"source", "cost", "dynamic-cost", Name>>, "dynamic_cost", "void") \in Deletes
      /\ Alias(<<"source", "cost", "contracts", Name>>, "contract", "void") \in Deletes
      /\ Command(<<"source", "cost", "milestones", Name>>, "milestone", "delete") \in Deletes
      /\ Alias(<<"source", "cost", "payment-applies", Name>>, "payment", "void") \in Deletes
      /\ Command(<<"plan", "tasks", Name>>, "plan_task", "delete") \in Deletes
      /\ Command(<<"fund", "plans", Name>>, "fund_plan", "delete") \in Deletes
      /\ Command(<<"expenses", Name>>, "expense", "void") \in Deletes
      /\ Command(<<"sales", "revenues", Name>>, "revenues", "delete") \in Deletes
      /\ Command(<<"marketing", "campaigns", Name>>, "campaign", "delete") \in Deletes
      /\ Command(<<"loans", Name>>, "loan", "void") \in Deletes
      /\ Alias(<<"source", "mdm", "projects", Name>>, "project", "delete") \in Deletes
      /\ Alias(<<"source", "srm", "providers", Name>>, "supplier", "void") \in Deletes
      /\ Command(<<"source", "auth", "prefs", Name>>, "preference", "delete") \in Deletes
  BY <1>1 DEF PairedAliases, DynamicCostAlias, CostAliases, PlanningAliases, OwnAliases,
              LoanAlias, PartyAliases, PreferenceAlias
<1> HIDE DEF Puts, Deletes
<1>4. ASSUME NEW x, NEW f, NEW t,
             Command(x, f, t) \in Puts \cup Deletes \/ Alias(x, f, t) \in Puts \cup Deletes
      PROVE  Asked(f, t)
  BY <1>4, AliasAsks DEF Puts, Deletes
<1>5. /\ Asked("dynamic_cost", "update") /\ Asked("contract", "update")
      /\ Asked("milestone", "update") /\ Asked("payment", "update")
      /\ Asked("plan_task", "update") /\ Asked("fund_plan", "update")
      /\ Asked("expense", "update") /\ Asked("revenues", "update")
      /\ Asked("campaign", "update") /\ Asked("loan", "update")
      /\ Asked("project", "update") /\ Asked("supplier", "update")
      /\ Asked("preference", "set")
  BY <1>2, <1>4
<1>6. /\ Asked("dynamic_cost", "void") /\ Asked("contract", "void")
      /\ Asked("milestone", "delete") /\ Asked("payment", "void")
      /\ Asked("plan_task", "delete") /\ Asked("fund_plan", "delete")
      /\ Asked("expense", "void") /\ Asked("revenues", "delete")
      /\ Asked("campaign", "delete") /\ Asked("loan", "void")
      /\ Asked("project", "delete") /\ Asked("supplier", "void")
      /\ Asked("preference", "delete")
  BY <1>3, <1>4
<1> QED BY <1>5, <1>6

LEMMA DeletionsAsked ==
  \A f \in {"report_template", "invoice", "progress", "tender", "channel", "material"} :
    Asked(f, "delete")
<1>1. /\ Asked("report_template", "delete") /\ Asked("invoice", "delete")
      /\ Asked("progress", "delete") /\ Asked("tender", "delete")
      /\ Asked("channel", "delete") /\ Asked("material", "delete")
  BY DeleteAsks DEF LastDeletions, TemplateDeletion, InvoiceDeletions, PlanDeletions,
     MarketingDeletions
<1> QED BY <1>1

\* The types of the families that have tables of their own.
LEMMA PlainFamilies ==
  /\ Types("expense") = ExpenseTypes /\ Types("contract") = ContractTypes
  /\ Types("payment") = PaymentTypes /\ Types("milestone") = MilestoneTypes
  /\ Types("split") = SplitTypes /\ Types("supplier") = SupplierTypes
  /\ Types("tender") = TenderTypes /\ Types("invoice") = InvoiceTypes
  /\ Types("loan") = LoanTypes /\ Types("plan_task") = PlanTaskTypes
  /\ Types("preference") = PreferenceTypes /\ Types("admin_dict") = AdminDictTypes
  /\ Types("report_template") = ReportTemplateTypes
  /\ Types("dynamic_cost") = DynamicCostTypes /\ Types("project") = ProjectTypes
  /\ Types("warning") = WarningTypes /\ Types("subscription") = SubscriptionTypes
  /\ Types("message") = MessageTypes
BY DEF Types, SalesFamilies, MarketingFamilies, DeliveryFamilies, FundFamilies

LEMMA SharedFamilies ==
  /\ \A f \in SalesFamilies : Types(f) = SalesTypes(f)
  /\ \A f \in MarketingFamilies : Types(f) = MarketingTypes(f)
  /\ \A f \in DeliveryFamilies : Types(f) = DeliveryTypes(f)
  /\ \A f \in FundFamilies : Types(f) = FundTypes(f)
BY DEF Types, SalesFamilies, MarketingFamilies, DeliveryFamilies, FundFamilies

LEMMA SalesTypesAre ==
  /\ SalesTypes("customers") = {"create", "update", "block", "archive"}
  /\ SalesTypes("subscriptions") = {"create", "convert", "cancel"}
  /\ SalesTypes("sales_contracts") = {"create", "fulfill", "cancel"}
  /\ SalesTypes("mortgages") = {"create", "approve", "release"}
  /\ SalesTypes("refunds") = {"create", "approve", "pay", "reject"}
  /\ SalesTypes("revenues") = {"create", "update", "confirm_received", "delete"}
  /\ SalesTypes("receivable") = {"create"}
<1>1. SalesTransitions("receivable") = <<>>
  BY DEF SalesTransitions
<1>2. SalesTypes("receivable") = {"create"}
  BY <1>1 DEF SalesTypes
<1> QED BY <1>2 DEF SalesTypes, SalesTransitions

LEMMA DeliveryTypesAre ==
  /\ DeliveryTypes("progress") = {"create", "report", "accept", "reject", "delete"}
  /\ DeliveryTypes("output") = {"create", "confirm"}
  /\ DeliveryTypes("task_report") = {"create"}
<1>1. DeliveryTransitions("task_report") = <<>>
  BY DEF DeliveryTransitions
<1>2. DeliveryTypes("task_report") = {"create"}
  BY <1>1 DEF DeliveryTypes
<1> QED BY <1>2 DEF DeliveryTypes, DeliveryTransitions

LEMMA SalesRouted ==
  ASSUME NEW f \in SalesFamilies, NEW t \in Types(f)
  PROVE  Asked(f, t)
<1>1. t \in SalesTypes(f)
  BY SharedFamilies
<1>2. CASE t = "create"
  BY <1>2, CreationsAsked DEF SalesFamilies
<1>3. CASE t # "create"
  <2>1. /\ SalesFamily("customers") = "customers" /\ SalesFamily("subscriptions") = "subscriptions"
        /\ SalesFamily("contracts") = "sales_contracts" /\ SalesFamily("mortgages") = "mortgages"
        /\ SalesFamily("refunds") = "refunds" /\ SalesFamily("revenues") = "revenues"
    BY DEF SalesFamily
  <2>2. /\ "customers" \in SalesWords /\ "subscriptions" \in SalesWords
        /\ "contracts" \in SalesWords /\ "mortgages" \in SalesWords
        /\ "refunds" \in SalesWords /\ "revenues" \in SalesWords
    BY DEF SalesWords
  <2>3. CASE t = "confirm_received"
    BY <1>1, <2>3, SalesTypesAre, SalesAsked DEF SalesFamilies
  <2>4. CASE t # "confirm_received"
    <3>1. \E w \in SalesWords : SalesFamily(w) = f
      BY <1>1, <1>3, <2>1, <2>2, SalesTypesAre DEF SalesFamilies
    <3>2. t \in {"update", "block", "archive", "convert", "cancel", "fulfill",
                 "approve", "release", "pay", "reject", "delete"}
      BY <1>1, <1>3, <2>4, SalesTypesAre DEF SalesFamilies
    <3> QED BY <3>1, <3>2, SalesAsked
  <2> QED BY <2>3, <2>4
<1> QED BY <1>2, <1>3

LEMMA SharedRouted ==
  ASSUME NEW f \in MarketingFamilies \cup DeliveryFamilies \cup FundFamilies, NEW t \in Types(f)
  PROVE  Asked(f, t)
<1>1. CASE f \in MarketingFamilies
  <2>1. t \in MarketingTypes(f)
    BY <1>1, SharedFamilies
  <2> QED BY <1>1, <2>1, CreationsAsked, DeeperAsked, AliasesAsked, DeletionsAsked
          DEF MarketingFamilies, MarketingTypes
<1>2. CASE f \in DeliveryFamilies
  <2>1. t \in DeliveryTypes(f)
    BY <1>2, SharedFamilies
  <2> QED BY <1>2, <2>1, DeliveryTypesAre, CreationsAsked, DeeperAsked, TransitionsAsked,
          DeletionsAsked DEF DeliveryFamilies
<1>3. CASE f \in FundFamilies
  <2>1. t \in FundTypes(f)
    BY <1>3, SharedFamilies
  <2> QED BY <1>3, <2>1, CreationsAsked, DeeperAsked, AliasesAsked DEF FundFamilies, FundTypes
<1> QED BY <1>1, <1>2, <1>3

LEMMA OwnRouted ==
  ASSUME NEW f \in {"expense", "contract", "payment", "milestone", "split", "supplier",
                    "tender", "invoice", "loan", "plan_task", "preference", "admin_dict",
                    "report_template", "dynamic_cost", "project", "warning", "subscription",
                    "message"},
         NEW t \in Types(f)
  PROVE  Asked(f, t)
<1>1. CASE f \in {"expense", "contract", "payment", "tender", "supplier", "loan"}
  BY <1>1, PlainFamilies, CreationsAsked, TransitionsAsked, AliasesAsked, DeletionsAsked
     DEF ExpenseTypes, ContractTypes, PaymentTypes, TenderTypes, SupplierTypes, LoanTypes
<1>2. CASE f \in {"milestone", "split", "invoice", "plan_task", "preference"}
  BY <1>2, PlainFamilies, CreationsAsked, DeeperAsked, AliasesAsked, DeletionsAsked
     DEF MilestoneTypes, SplitTypes, InvoiceTypes, PlanTaskTypes, PreferenceTypes
<1>3. CASE f \in {"admin_dict", "report_template", "dynamic_cost", "project"}
  BY <1>3, PlainFamilies, CreationsAsked, AliasesAsked, DeletionsAsked, PatchAsks
     DEF AdminDictTypes, ReportTemplateTypes, DynamicCostTypes, ProjectTypes
<1>4. CASE f \in {"warning", "subscription", "message"}
  BY <1>4, PlainFamilies, CreationsAsked, MessagesAsked, PatchAsks, DeleteAsks
     DEF SubscriptionTypes, MessageTypes
<1> QED BY <1>1, <1>2, <1>3, <1>4

LEMMA FamiliesRouted ==
  \A f \in AllFamilies : \A t \in Types(f) : Asked(f, t)
BY SalesRouted, SharedRouted, OwnRouted DEF AllFamilies

\* The routes have paths that are tuples, and so have the paths made of them.
LEMMA RouteIsTuple ==
  ASSUME NEW m \in Methods, NEW r \in Routes(m)
  PROVE  IsTuple(r.path)
<1>1. PICK i \in DOMAIN Order(m) : r \in Order(m)[i]
  BY DEF Routes, ToSet
<1>2. Alone(Order(m)[i])
  BY OrdersOrdered DEF Ordered
<1> QED BY <1>1, <1>2 DEF Alone, Parted

LEMMA PathIsTuple ==
  ASSUME NEW p \in Paths
  PROVE  IsTuple(p)
<1> DEFINE Made(r, n) ==
             [i \in DOMAIN r.path |->
                IF r.path[i] = Name THEN n ELSE IF r.path[i] = Digits THEN "7" ELSE r.path[i]]
<1>1. PICK m \in Methods : \E r \in Routes(m) : \E n : p = Made(r, n)
  BY DEF Paths
<1>2. PICK r \in Routes(m) : \E n : p = Made(r, n)
  BY <1>1
<1>3. PICK n : p = Made(r, n)
  BY <1>2
<1>4. PICK k \in Nat : DOMAIN r.path = 1..k
  BY RouteIsTuple DEF IsTuple
<1> DEFINE W == {p[i] : i \in 1..k}
<1>5. p \in [1..k -> W]
  BY <1>3, <1>4
<1> HIDE DEF W
<1>6. p \in Seq(W) /\ DOMAIN p = 1..k
  BY <1>5
<1>7. Len(p) = k
  BY <1>5, <1>6
<1> QED BY <1>4, <1>5, <1>6, <1>7 DEF IsTuple

\* Whatever words are tried as identifiers, of two routes that match a path the
\* one that spells it out serves it, and every type of command has a route: the
\* dispatch of do_GET, do_POST, do_PUT, do_PATCH and do_DELETE hides no endpoint.
THEOREM EveryRouteServesHolds ==
  Spec => []EveryRouteServes
<1>1. NoRouteHidden
  <2> SUFFICES ASSUME NEW m \in Methods, NEW p \in Paths, NEW r \in Routes(m), Matches(p, r)
               PROVE  /\ Cardinality(Serving(m, p)) = 1
                      /\ \A s \in Serving(m, p) : s # r => s.path = p
    BY DEF NoRouteHidden
  <2> QED BY OrdersOrdered, PathIsTuple, OrderedServes
<1>2. AllCommandsRouted
  BY FamiliesRouted DEF AllCommandsRouted, Asked
<1>3. EveryRouteServes
  BY <1>1, <1>2 DEF EveryRouteServes
<1> QED BY <1>3, PTL

=============================================================================
