------------------------ MODULE MoonflowAdapterProofs ------------------------
(***************************************************************************)
(* Proofs about the project-plan adapter, for any number of runs, any flow *)
(* requests and any inputs, with runs that stop anywhere and inputs that   *)
(* are edited meanwhile.  Two facts carry the argument.  A file is filled  *)
(* by the run that created it and by nobody else (Owned), so what is       *)
(* written stays; and a run that has passed a file knows what it holds     *)
(* (Reached), so each record is written over a complete trail.             *)
(***************************************************************************)
EXTENDS MoonflowAdapter, TLAPS

Dirty(p) == runs[p].pc \in Writing /\ runs[p].dirty

\* The run that created a file is the one that fills it.
Owned ==
  /\ \A p \in Runs : Dirty(p) => files[Target(p)] = Torn
  /\ \A p, q \in Runs : Dirty(p) /\ Dirty(q) /\ p # q => Target(p) # Target(q)

PastIntent == {"lookup", "build", "artifact", "check", "internal", "validate", "result"}
PastKey == {"intent"} \cup PastIntent
PastRequest == {"evidence", "match", "idempotency"} \cup PastKey

\* A reconciling run that has matched the intent it resumes.
Resuming(p) == runs[p].op = "reconcile" /\ runs[p].pc \in {"idempotency"} \cup PastKey

\* What a run knows of the files it has passed.
Knows(p) ==
  /\ runs[p].pc \in PastRequest => runs[p].request \in Requests
  /\ runs[p].pc \in PastKey => files[IdemRef(Flow(p))] = Text(Identity(Flow(p)))
  /\ runs[p].pc \in PastIntent => files[IntentRef(Flow(p))] = Text(Flow(p))
  /\ Resuming(p) => files[IntentRef(Flow(p))] = Text(Flow(p))
  /\ runs[p].pc \in {"internal", "result"} =>
       files[ArtifactRef(Flow(p))] = Text(Plan(p))
  /\ runs[p].pc = "validate" => files[InternalRef(Flow(p))] \notin {Absent, Torn}
  /\ runs[p].pc = "result" =>
       files[InternalRef(Flow(p))] = Text(Receipt(Flow(p), Plan(p)))

Reached == \A p \in Runs : runs[p] # Idle => Knows(p)

\* A result of flow f whose trail is complete.
Trail(f, result) ==
  /\ f.key = result.key /\ f.attempt = result.attempt
  /\ result.output.digest = f.digest
  /\ files[IdemRef(f)] = Text(Identity(f))
  /\ files[IntentRef(f)].kind = "text"
  /\ files[ArtifactRef(f)] = Text(result.output)

InternalIsBacked ==
  \A f \in Flows : files[InternalRef(f)].kind = "text" =>
    \E g \in Flows : g.attempt = f.attempt /\ Trail(g, files[InternalRef(f)].value)

IInv == TypeOK /\ Owned /\ Reached

-----------------------------------------------------------------------------
(***************************************************************************)
(* Files.                                                                  *)
(***************************************************************************)

LEMMA Kinds ==
  /\ Absent.kind = "absent" /\ Torn.kind = "torn" /\ Absent # Torn
  /\ \A v : Text(v).kind = "text" /\ Text(v).value = v /\ Text(v) # Absent /\ Text(v) # Torn
  /\ \A v, w : Text(v) = Text(w) => v = w
<1>1. \A v : Text(v).kind = "text" /\ Text(v).value = v
  BY DEF Text
<1> QED BY <1>1 DEF Absent, Torn

LEMMA FlowRefs ==
  ASSUME NEW f \in Flows
  PROVE  /\ IdemRef(f) \in Refs /\ IntentRef(f) \in Refs /\ ArtifactRef(f) \in Refs
         /\ InternalRef(f) \in Refs /\ ResultRef(f) \in Refs
BY DEF Refs

\* Where a run writes what, and what it does next.
LEMMA Writes ==
  ASSUME NEW p \in Runs
  PROVE  /\ runs[p].pc = "idempotency" =>
              /\ Target(p) = IdemRef(Flow(p)) /\ AfterWrite(p) = "intent"
              /\ Content(p) = Text(Identity(Flow(p)))
         /\ runs[p].pc = "intent" =>
              /\ Target(p) = IntentRef(Flow(p)) /\ AfterWrite(p) = "lookup"
              /\ Content(p) = Text(Flow(p))
         /\ runs[p].pc = "artifact" =>
              /\ Target(p) = ArtifactRef(Flow(p)) /\ AfterWrite(p) = "check"
              /\ Content(p) = Text(Plan(p))
         /\ runs[p].pc = "internal" =>
              /\ Target(p) = InternalRef(Flow(p)) /\ AfterWrite(p) = "validate"
              /\ Content(p) = Text(Receipt(Flow(p), Plan(p)))
         /\ runs[p].pc = "result" =>
              /\ Target(p) = ResultRef(Flow(p)) /\ AfterWrite(p) = "done"
              /\ Content(p) = files[InternalRef(Flow(p))]
BY DEF Target, AfterWrite, Content

\* A run under way has a flow and an operation.
LEMMA RunType ==
  ASSUME TypeOK, NEW p \in Runs, runs[p].pc # "idle"
  PROVE  /\ runs[p] # Idle /\ Flow(p) \in Flows /\ runs[p].op \in Ops
         /\ runs[p] \in [pc : Active \cup Ended, op : Ops, flow : Flows,
                         request : Requests \cup {None}, dirty : BOOLEAN]
BY DEF TypeOK, Idle, Flow

LEMMA TargetIsRef ==
  ASSUME TypeOK, NEW p \in Runs, runs[p].pc \in Writing
  PROVE  Target(p) \in Refs /\ Flow(p) \in Flows
<1>1. Flow(p) \in Flows
  BY RunType DEF Writing
<1> QED BY <1>1, FlowRefs, Writes DEF Writing

\* Files change only where a run creates one or fills its own.
LEMMA FileChanges ==
  ASSUME Next
  PROVE  \/ UNCHANGED files
         \/ \E p \in Runs : Create(p) \/ Fill(p)
BY DEF Next, Step, Start, CheckDigest, ReadRequest, VerifyEvidence, MatchIntent,
   Compare, Lookup, Build, Check, Validate, Stop, Edit

\* What a file holds stays, and a torn file is filled by the run that owns it.
LEMMA FilesStay ==
  ASSUME TypeOK, Owned, [Next]_vars, NEW r \in Refs
  PROVE  /\ files[r].kind = "text" => files'[r] = files[r]
         /\ files[r] = Torn /\ files'[r] # Torn => \E p \in Runs : Dirty(p) /\ Target(p) = r
<1>1. ASSUME NEW p \in Runs, Create(p)
      PROVE  files'[r] = files[r] \/ files[r] = Absent
  BY <1>1 DEF Create, TypeOK
<1>2. ASSUME NEW p \in Runs, Fill(p)
      PROVE  files'[r] = files[r] \/ (files[r] = Torn /\ Dirty(p) /\ Target(p) = r)
  BY <1>2 DEF Fill, TypeOK, Owned, Dirty
<1>3. UNCHANGED files \/ \E p \in Runs : Create(p) \/ Fill(p)
  BY FileChanges DEF vars
<1> QED BY <1>1, <1>2, <1>3, Kinds

-----------------------------------------------------------------------------
(***************************************************************************)
(* Runs.                                                                   *)
(***************************************************************************)

\* Goto moves one run and leaves it with nothing half written.
LEMMA GotoFacts ==
  ASSUME TypeOK, NEW p \in Runs, runs[p].pc # "idle", NEW pc \in Active \cup Ended, Goto(p, pc)
  PROVE  /\ DOMAIN runs' = Runs
         /\ \A q \in Runs : q # p => runs'[q] = runs[q]
         /\ runs'[p].pc = pc /\ runs'[p].dirty = FALSE
         /\ runs'[p].flow = runs[p].flow /\ runs'[p].op = runs[p].op
         /\ runs'[p].request = runs[p].request
         /\ runs'[p] \in [pc : Active \cup Ended, op : Ops, flow : Flows,
                          request : Requests \cup {None}, dirty : BOOLEAN]
<1>1. DOMAIN runs = Runs
  BY DEF TypeOK
<1>2. runs' = [runs EXCEPT ![p] = [runs[p] EXCEPT !.pc = pc, !.dirty = FALSE]]
  BY <1>1 DEF Goto
<1>3. runs'[p] = [runs[p] EXCEPT !.pc = pc, !.dirty = FALSE]
  BY <1>1, <1>2
<1>4. runs[p] \in [pc : Active \cup Ended, op : Ops, flow : Flows,
                   request : Requests \cup {None}, dirty : BOOLEAN]
  BY RunType
<1> QED BY <1>1, <1>2, <1>3, <1>4

\* A run is under way when it takes a step, and the step is one of these.
MovesTo(p, pc) == runs[p].pc \in Active /\ pc \in Active \cup Ended /\ Goto(p, pc)

LEMMA StepMoves ==
  ASSUME TypeOK, Next
  PROVE  \/ UNCHANGED runs /\ UNCHANGED files
         \/ \E p \in Runs, op \in Ops, f \in Flows : Start(p, op, f)
         \/ \E p \in Runs : ReadRequest(p)
         \/ \E p \in Runs : Create(p)
         \/ \E p \in Runs : Fill(p)
         \/ \E p \in Runs, pc \in Active \cup Ended : MovesTo(p, pc) /\ UNCHANGED files
<1>1. ASSUME NEW p \in Runs, Compare(p)
      PROVE  \E pc \in Active \cup Ended : MovesTo(p, pc) /\ UNCHANGED files
  BY <1>1, Writes DEF Compare, Writing, MovesTo, Active, Ended
<1>2. ASSUME NEW p \in Runs,
             CheckDigest(p) \/ VerifyEvidence(p) \/ MatchIntent(p) \/ Lookup(p)
               \/ Build(p) \/ Check(p) \/ Validate(p)
      PROVE  \E pc \in Active \cup Ended : MovesTo(p, pc) /\ UNCHANGED files
  BY <1>2 DEF CheckDigest, VerifyEvidence, MatchIntent, Lookup, Build, Check,
     Validate, AfterEvidence, Writing, MovesTo, Active, Ended
<1>3. ASSUME NEW p \in Runs, Stop(p)
      PROVE  \E pc \in Active \cup Ended : MovesTo(p, pc) /\ UNCHANGED files
  BY <1>3 DEF Stop, MovesTo, Ended
<1>4. ASSUME Edit PROVE UNCHANGED runs /\ UNCHANGED files
  BY <1>4 DEF Edit
<1> QED BY <1>1, <1>2, <1>3, <1>4 DEF Next, Step

\* Creating and filling leave each run in its place.
LEMMA CreateFacts ==
  ASSUME TypeOK, NEW p \in Runs, Create(p)
  PROVE  /\ runs[p].pc \in Writing /\ ~ Dirty(p)
         /\ DOMAIN runs' = Runs /\ \A q \in Runs : q # p => runs'[q] = runs[q]
         /\ runs'[p].pc = runs[p].pc /\ runs'[p].dirty = TRUE
         /\ runs'[p].flow = runs[p].flow /\ runs'[p].op = runs[p].op
         /\ runs'[p].request = runs[p].request
         /\ runs'[p] \in [pc : Active \cup Ended, op : Ops, flow : Flows,
                          request : Requests \cup {None}, dirty : BOOLEAN]
         /\ files[Target(p)] = Absent
         /\ DOMAIN files' = Refs /\ files'[Target(p)] = Torn
         /\ \A r \in Refs : r # Target(p) => files'[r] = files[r]
<1>1. /\ DOMAIN runs = Runs /\ DOMAIN files = Refs
      /\ runs' = [runs EXCEPT ![p].dirty = TRUE]
      /\ runs[p].pc \in Writing /\ ~ runs[p].dirty
      /\ files[Target(p)] = Absent /\ files' = [files EXCEPT ![Target(p)] = Torn]
  BY DEF Create, TypeOK
<1>2. runs'[p] = [runs[p] EXCEPT !.dirty = TRUE]
  BY <1>1
<1>3. runs[p] \in [pc : Active \cup Ended, op : Ops, flow : Flows,
                   request : Requests \cup {None}, dirty : BOOLEAN]
  BY <1>1, RunType DEF Writing
<1>4. Target(p) \in Refs
  BY <1>1, TargetIsRef
<1> QED BY <1>1, <1>2, <1>3, <1>4 DEF Dirty

LEMMA FillFacts ==
  ASSUME TypeOK, NEW p \in Runs, Fill(p)
  PROVE  /\ Dirty(p) /\ runs[p].pc \in Writing /\ AfterWrite(p) \in Active \cup Ended
         /\ Goto(p, AfterWrite(p))
         /\ DOMAIN files' = Refs /\ files'[Target(p)] = Content(p)
         /\ \A r \in Refs : r # Target(p) => files'[r] = files[r]
<1>1. /\ DOMAIN files = Refs /\ runs[p].pc \in Writing
      /\ files' = [files EXCEPT ![Target(p)] = Content(p)]
  BY DEF Fill, TypeOK
<1>2. Target(p) \in Refs
  BY <1>1, TargetIsRef
<1>3. AfterWrite(p) \in Active \cup Ended
  BY <1>1, Writes DEF Writing, Active, Ended
<1> QED BY <1>1, <1>2, <1>3 DEF Fill, Dirty

\* The run that has read the request knows it; nothing else changed.
LEMMA ReadFacts ==
  ASSUME TypeOK, NEW p \in Runs, ReadRequest(p)
  PROVE  /\ DOMAIN runs' = Runs /\ \A q \in Runs : q # p => runs'[q] = runs[q]
         /\ runs'[p].pc = "evidence" /\ runs'[p].request \in Requests
         /\ runs'[p].flow = runs[p].flow /\ runs'[p].op = runs[p].op
         /\ runs'[p] \in [pc : Active \cup Ended, op : Ops, flow : Flows,
                          request : Requests \cup {None}, dirty : BOOLEAN]
         /\ UNCHANGED files
<1>1. /\ DOMAIN runs = Runs /\ runs[p].pc = "request" /\ inputs.request \in Requests
      /\ runs' = [runs EXCEPT ![p] = [runs[p] EXCEPT !.request = inputs.request,
                                                     !.pc = "evidence"]]
      /\ UNCHANGED files
  BY DEF ReadRequest, TypeOK, Requests
<1>2. runs'[p] = [runs[p] EXCEPT !.request = inputs.request, !.pc = "evidence"]
  BY <1>1
<1>3. runs[p] \in [pc : Active \cup Ended, op : Ops, flow : Flows,
                   request : Requests \cup {None}, dirty : BOOLEAN]
  BY <1>1, RunType
<1> QED BY <1>1, <1>2, <1>3 DEF Active

LEMMA StartFacts ==
  ASSUME TypeOK, NEW p \in Runs, NEW op \in Ops, NEW f \in Flows, Start(p, op, f)
  PROVE  /\ DOMAIN runs' = Runs /\ \A q \in Runs : q # p => runs'[q] = runs[q]
         /\ runs[p] = Idle /\ runs'[p].pc = "digest"
         /\ runs'[p] \in [pc : Active \cup Ended, op : Ops, flow : Flows,
                          request : Requests \cup {None}, dirty : BOOLEAN]
         /\ UNCHANGED files
<1>1. /\ DOMAIN runs = Runs
      /\ runs'[p] = [pc |-> "digest", op |-> op, flow |-> f, request |-> None, dirty |-> FALSE]
  BY DEF Start, TypeOK
<1> QED BY <1>1 DEF Start, Active

-----------------------------------------------------------------------------
(***************************************************************************)
(* One run fills a file.                                                   *)
(***************************************************************************)

\* A run's target depends on where that run is.
LEMMA SameTarget ==
  ASSUME NEW p \in Runs, runs'[p].pc = runs[p].pc, runs'[p].flow = runs[p].flow
  PROVE  Target(p)' = Target(p)
BY DEF Target, Flow

LEMMA OwnedStep == TypeOK /\ Owned /\ [Next]_vars => Owned'
<1> SUFFICES ASSUME TypeOK, Owned, [Next]_vars PROVE Owned'
  OBVIOUS
<1>1. ASSUME NEW p \in Runs, Create(p) PROVE Owned'
  <2>1. Target(p)' = Target(p)
    BY <1>1, CreateFacts, SameTarget
  <2>2. ASSUME NEW q \in Runs, q # p, Dirty(q)'
        PROVE  /\ Dirty(q) /\ Target(q)' = Target(q) /\ Target(q) \in Refs
               /\ files[Target(q)] = Torn /\ Target(q) # Target(p)
    <3>1. runs'[q] = runs[q]
      BY <1>1, <2>2, CreateFacts
    <3>2. Dirty(q) /\ Target(q)' = Target(q)
      BY <2>2, <3>1, SameTarget DEF Dirty
    <3>3. files[Target(q)] = Torn /\ Target(q) \in Refs
      BY <3>2, TargetIsRef DEF Owned, Dirty
    <3>4. files[Target(p)] = Absent
      BY <1>1, CreateFacts
    <3> QED BY <3>2, <3>3, <3>4, Kinds
  <2>3. ASSUME NEW q \in Runs, NEW s \in Runs, Dirty(q)', Dirty(s)', q # s
        PROVE  Target(q)' # Target(s)'
    BY <2>1, <2>2, <2>3 DEF Owned
  <2>4. ASSUME NEW q \in Runs, Dirty(q)' PROVE (files[Target(q)] = Torn)'
    <3>1. CASE q = p
      BY <1>1, <2>1, <3>1, CreateFacts
    <3>2. CASE q # p
      <4>1. /\ Target(q)' = Target(q) /\ Target(q) \in Refs
            /\ files[Target(q)] = Torn /\ Target(q) # Target(p)
        BY <2>2, <2>4, <3>2
      <4>2. files'[Target(q)] = files[Target(q)]
        BY <1>1, <4>1, CreateFacts
      <4> QED BY <4>1, <4>2
    <3> QED BY <3>1, <3>2
  <2> QED BY <2>3, <2>4 DEF Owned
<1>2. ASSUME NEW p \in Runs, Fill(p) PROVE Owned'
  <2>1. ~ Dirty(p)'
    BY <1>2, FillFacts, GotoFacts DEF Dirty, Writing
  <2>2. ASSUME NEW q \in Runs, Dirty(q)'
        PROVE  /\ Dirty(q) /\ Target(q)' = Target(q) /\ Target(q) \in Refs
               /\ files[Target(q)] = Torn /\ Target(q) # Target(p)
    <3>1. runs'[q] = runs[q] /\ q # p
      BY <1>2, <2>1, <2>2, FillFacts, GotoFacts DEF Dirty, Writing
    <3>2. Dirty(q) /\ Target(q)' = Target(q)
      BY <2>2, <3>1, SameTarget DEF Dirty
    <3> QED BY <1>2, <3>1, <3>2, FillFacts, TargetIsRef DEF Owned, Dirty
  <2>3. ASSUME NEW q \in Runs, Dirty(q)' PROVE (files[Target(q)] = Torn)'
    BY <1>2, <2>2, <2>3, FillFacts
  <2> QED BY <2>2, <2>3 DEF Owned
<1>3. ASSUME UNCHANGED files, \A q \in Runs : Dirty(q)' => runs'[q] = runs[q]
      PROVE  Owned'
  <2>1. ASSUME NEW q \in Runs, Dirty(q)' PROVE Dirty(q) /\ Target(q)' = Target(q)
    BY <1>3, <2>1, SameTarget DEF Dirty
  <2> QED BY <1>3, <2>1 DEF Owned
<1>4. ASSUME NEW p \in Runs, NEW pc \in Active \cup Ended, MovesTo(p, pc), UNCHANGED files
      PROVE  Owned'
  <2>1. \A q \in Runs : Dirty(q)' => runs'[q] = runs[q]
    BY <1>4, GotoFacts DEF Dirty, MovesTo, Active, Writing
  <2> QED BY <1>3, <1>4, <2>1
<1>5. ASSUME NEW p \in Runs, ReadRequest(p) PROVE Owned'
  <2>1. \A q \in Runs : Dirty(q)' => runs'[q] = runs[q]
    BY <1>5, ReadFacts DEF Dirty, Writing
  <2> QED BY <1>3, <1>5, <2>1, ReadFacts
<1>6. ASSUME NEW p \in Runs, NEW op \in Ops, NEW f \in Flows, Start(p, op, f) PROVE Owned'
  <2>1. \A q \in Runs : Dirty(q)' => runs'[q] = runs[q]
    BY <1>6, StartFacts DEF Dirty, Writing
  <2> QED BY <1>3, <1>6, <2>1, StartFacts
<1>7. CASE UNCHANGED runs /\ UNCHANGED files
  BY <1>3, <1>7
<1>8. CASE UNCHANGED vars
  BY <1>7, <1>8 DEF vars
<1> QED BY <1>1, <1>2, <1>4, <1>5, <1>6, <1>7, <1>8, StepMoves

-----------------------------------------------------------------------------
(***************************************************************************)
(* What a run knows.                                                       *)
(***************************************************************************)

LEMMA TextStays ==
  ASSUME TypeOK, Owned, [Next]_vars, NEW r \in Refs
  PROVE  /\ \A v : files[r] = Text(v) => files'[r] = Text(v)
         /\ files[r] \notin {Absent, Torn} => files'[r] \notin {Absent, Torn}
<1>1. files[r] \notin {Absent, Torn} => files[r] = Text(files[r].value)
  BY DEF TypeOK
<1> QED BY <1>1, FilesStay, Kinds

\* What a run knew stays true while it moves, as long as it keeps its flow and
\* its request.
LEMMA KnowledgeStays ==
  ASSUME IInv, [Next]_vars, NEW p \in Runs, runs[p].pc # "idle", Knows(p),
         runs'[p].flow = runs[p].flow, runs'[p].request = runs[p].request,
         runs'[p].op = runs[p].op
  PROVE  /\ Flow(p)' = Flow(p) /\ Plan(p)' = Plan(p) /\ Flow(p) \in Flows
         /\ runs[p].pc \in PastKey => files'[IdemRef(Flow(p))] = Text(Identity(Flow(p)))
         /\ runs[p].pc \in PastIntent => files'[IntentRef(Flow(p))] = Text(Flow(p))
         /\ Resuming(p) => files'[IntentRef(Flow(p))] = Text(Flow(p))
         /\ runs[p].pc \in {"internal", "result"} =>
              files'[ArtifactRef(Flow(p))] = Text(Plan(p))
         /\ runs[p].pc = "validate" => files'[InternalRef(Flow(p))] \notin {Absent, Torn}
         /\ runs[p].pc = "result" =>
              files'[InternalRef(Flow(p))] = Text(Receipt(Flow(p), Plan(p)))
<1>1. Flow(p)' = Flow(p) /\ Plan(p)' = Plan(p)
  BY DEF Flow, Plan
<1>2. Flow(p) \in Flows
  BY RunType DEF IInv
<1>3. /\ IdemRef(Flow(p)) \in Refs /\ IntentRef(Flow(p)) \in Refs
      /\ ArtifactRef(Flow(p)) \in Refs /\ InternalRef(Flow(p)) \in Refs
  BY <1>2, FlowRefs
<1> QED BY <1>1, <1>2, <1>3, TextStays DEF IInv, Knows

LEMMA KnowsStays ==
  ASSUME IInv, [Next]_vars, NEW p \in Runs, runs[p].pc # "idle", Knows(p),
         runs'[p].pc = runs[p].pc,
         runs'[p].flow = runs[p].flow, runs'[p].request = runs[p].request,
         runs'[p].op = runs[p].op
  PROVE  Knows(p)'
BY KnowledgeStays DEF Knows, Resuming

\* A run that finds or leaves its own text in a file knows what it holds.
LEMMA WrittenKnows ==
  ASSUME IInv, [Next]_vars, NEW p \in Runs, runs[p].pc \in Writing, Knows(p),
         Goto(p, AfterWrite(p)), files'[Target(p)] = Content(p)
  PROVE  Knows(p)'
<1>1. AfterWrite(p) \in Active \cup Ended /\ runs[p].pc # "idle"
  BY Writes DEF Writing, Active, Ended
<1>2. /\ runs'[p].pc = AfterWrite(p)
      /\ runs'[p].flow = runs[p].flow /\ runs'[p].request = runs[p].request
      /\ runs'[p].op = runs[p].op
  BY <1>1, GotoFacts DEF IInv
<1>3. runs[p].request \in Requests
  BY DEF Knows, Resuming, PastRequest, PastKey, PastIntent, Writing
<1>4. /\ Flow(p)' = Flow(p) /\ Plan(p)' = Plan(p)
      /\ runs[p].pc \in PastKey => files'[IdemRef(Flow(p))] = Text(Identity(Flow(p)))
      /\ runs[p].pc \in PastIntent => files'[IntentRef(Flow(p))] = Text(Flow(p))
      /\ Resuming(p) => files'[IntentRef(Flow(p))] = Text(Flow(p))
  BY <1>1, <1>2, KnowledgeStays
<1>5. CASE runs[p].pc = "idempotency"
  BY <1>2, <1>3, <1>4, <1>5, Writes DEF Knows, Resuming, PastKey, PastIntent
<1>6. CASE runs[p].pc = "intent"
  BY <1>2, <1>3, <1>4, <1>6, Writes DEF Knows, Resuming, PastKey, PastIntent
<1>7. CASE runs[p].pc = "artifact"
  BY <1>2, <1>3, <1>4, <1>7, Writes DEF Knows, Resuming, PastKey, PastIntent
<1>8. CASE runs[p].pc = "internal"
  <2>1. files'[InternalRef(Flow(p))] \notin {Absent, Torn}
    BY <1>8, Writes, Kinds
  <2> QED BY <1>2, <1>3, <1>4, <1>8, <2>1, Writes DEF Knows, Resuming, PastKey, PastIntent
<1>9. CASE runs[p].pc = "result"
  BY <1>2, <1>3, <1>4, <1>9, Writes DEF Knows, Resuming, PastRequest, PastKey, PastIntent
<1> QED BY <1>5, <1>6, <1>7, <1>8, <1>9 DEF Writing

LEMMA ReachedStep == IInv /\ [Next]_vars => Reached'
<1> SUFFICES ASSUME IInv, [Next]_vars, NEW q \in Runs, runs'[q] # Idle PROVE Knows(q)'
  BY DEF Reached
<1> DEFINE Kept == /\ runs'[q].flow = runs[q].flow /\ runs'[q].request = runs[q].request
                   /\ runs'[q].op = runs[q].op
<1>1. ASSUME runs'[q] = runs[q] PROVE Knows(q)'
  <2>1. runs[q] # Idle /\ Knows(q)
    BY <1>1 DEF IInv, Reached
  <2>2. runs[q].pc \in Active \cup Ended
    BY <2>1 DEF IInv, TypeOK
  <2>3. runs[q].pc # "idle"
    BY <2>2 DEF Active, Ended, Writing
  <2> QED BY <1>1, <2>1, <2>3, KnowsStays
<1>2. ASSUME runs[q].pc \in Active PROVE runs[q].pc # "idle" /\ Knows(q)
  BY <1>2 DEF IInv, Reached, Active, Writing, Idle
<1>3. ASSUME NEW pc \in Active \cup Ended, runs[q].pc \in Active, Goto(q, pc)
      PROVE  runs'[q].pc = pc /\ Kept
  BY <1>2, <1>3, GotoFacts DEF IInv
<1>4. ASSUME NEW pc \in Ended \cup {"request"}, runs[q].pc \in Active, Goto(q, pc)
      PROVE  Knows(q)'
  BY <1>3, <1>4 DEF Knows, Resuming, PastRequest, PastKey, PastIntent, Ended, Active
<1>5. ASSUME NEW op \in Ops, NEW f \in Flows, Start(q, op, f) PROVE Knows(q)'
  BY <1>5, StartFacts DEF Knows, Resuming, PastRequest, PastKey, PastIntent, IInv
<1>6. ASSUME CheckDigest(q) PROVE Knows(q)'
  BY <1>4, <1>6 DEF CheckDigest, Active, Ended
<1>7. ASSUME ReadRequest(q) PROVE Knows(q)'
  BY <1>7, ReadFacts DEF Knows, Resuming, PastRequest, PastKey, PastIntent, IInv
<1>8. ASSUME VerifyEvidence(q) PROVE Knows(q)'
  <2>1. runs[q].pc = "evidence" /\ runs[q].pc \in Active
    BY <1>8 DEF VerifyEvidence, Active
  <2>2. /\ runs'[q].pc \in {"match", "idempotency", "failed"} /\ Kept
        /\ runs'[q].pc = "idempotency" => runs[q].op # "reconcile"
    BY <1>3, <1>8, <2>1 DEF VerifyEvidence, AfterEvidence, Active, Ended, Writing
  <2> QED BY <1>2, <2>1, <2>2 DEF Knows, Resuming, PastRequest, PastKey, PastIntent
<1>9. ASSUME MatchIntent(q) PROVE Knows(q)'
  <2>1. runs[q].pc = "match" /\ runs[q].pc \in Active
    BY <1>9 DEF MatchIntent, Active
  <2>2. /\ runs'[q].pc \in {"idempotency", "failed"} /\ Kept
        /\ runs'[q].pc = "idempotency" => files'[IntentRef(Flow(q))] = Text(Flow(q))
        /\ Flow(q)' = Flow(q)
    BY <1>3, <1>9, <2>1 DEF MatchIntent, Flow, Active, Ended, Writing
  <2> QED BY <1>2, <2>1, <2>2 DEF Knows, Resuming, PastRequest, PastKey, PastIntent
<1>10. ASSUME Compare(q) PROVE Knows(q)'
  <2>1. CASE Conflicts(q)
    BY <1>4, <1>10, <2>1 DEF Compare, Active, Ended
  <2>2. CASE ~ Conflicts(q)
    <3>1. files'[Target(q)] = Content(q) /\ runs[q].pc \in Active
      BY <1>10, <2>2 DEF Compare, Conflicts, Active
    <3> QED BY <1>2, <1>10, <2>2, <3>1, WrittenKnows DEF Compare
  <2> QED BY <2>1, <2>2
<1>11. ASSUME Create(q) PROVE Knows(q)'
  <2>1. runs[q].pc \in Active
    BY <1>11 DEF Create, Active
  <2> QED BY <1>2, <1>11, <2>1, CreateFacts, KnowsStays DEF IInv
<1>12. ASSUME Fill(q) PROVE Knows(q)'
  <2>1. runs[q].pc \in Active
    BY <1>12 DEF Fill, Active
  <2> QED BY <1>2, <1>12, <2>1, FillFacts, WrittenKnows DEF IInv
<1>13. ASSUME Lookup(q) PROVE Knows(q)'
  <2>1. runs[q].pc = "lookup" /\ runs[q].pc \in Active
    BY <1>13 DEF Lookup, Active
  <2>2. /\ runs'[q].pc \in {"build", "failed", "validate"} /\ Kept
        /\ runs'[q].pc = "validate" => files[InternalRef(Flow(q))] \notin {Absent, Torn}
        /\ UNCHANGED files
    BY <1>3, <1>13, <2>1 DEF Lookup, Active, Ended
  <2> QED BY <1>2, <2>1, <2>2, KnowledgeStays DEF Knows, Resuming, PastRequest, PastKey, PastIntent
<1>14. ASSUME Build(q) PROVE Knows(q)'
  <2>1. runs[q].pc = "build" /\ runs[q].pc \in Active
    BY <1>14 DEF Build, Active
  <2>2. runs'[q].pc \in {"artifact", "check"} /\ Kept
    BY <1>3, <1>14, <2>1 DEF Build, Active, Writing
  <2> QED BY <1>2, <2>1, <2>2, KnowledgeStays DEF Knows, Resuming, PastRequest, PastKey, PastIntent
<1>15. ASSUME Check(q) PROVE Knows(q)'
  <2>1. runs[q].pc = "check" /\ runs[q].pc \in Active
    BY <1>15 DEF Check, Active
  <2>2. /\ runs'[q].pc \in {"internal", "failed"} /\ Kept
        /\ runs'[q].pc = "internal" => files'[ArtifactRef(Flow(q))] = Text(Plan(q))
    BY <1>3, <1>15, <2>1 DEF Check, Reproduced, Active, Ended, Writing
  <2> QED BY <1>2, <2>1, <2>2, KnowledgeStays DEF Knows, Resuming, PastRequest, PastKey, PastIntent
<1>16. ASSUME Validate(q) PROVE Knows(q)'
  <2> DEFINE result == files[InternalRef(Flow(q))].value
  <2>1. runs[q].pc = "validate" /\ runs[q].pc \in Active
    BY <1>16 DEF Validate, Active
  <2>2. Flow(q) \in Flows /\ InternalRef(Flow(q)) \in Refs
    BY <2>1, RunType, FlowRefs DEF IInv
  <2>3. files[InternalRef(Flow(q))] = Text(result)
    BY <1>2, <2>1, <2>2 DEF Knows, IInv, TypeOK
  <2>4. /\ runs'[q].pc \in {"result", "failed"} /\ Kept /\ UNCHANGED files
        /\ runs'[q].pc = "result" =>
             /\ result = Receipt(Flow(q), result.output)
             /\ files[ArtifactRef(Flow(q))] = Text(result.output)
             /\ files[ArtifactRef(Flow(q))] = Text(Plan(q))
    BY <1>3, <1>16, <2>1 DEF Validate, Reproduced, Active, Ended, Writing
  <2>5. runs'[q].pc = "result" =>
          files'[InternalRef(Flow(q))] = Text(Receipt(Flow(q), Plan(q)))
    BY <2>3, <2>4, Kinds
  <2> QED BY <1>2, <2>1, <2>4, <2>5, KnowledgeStays
     DEF Knows, Resuming, PastRequest, PastKey, PastIntent
<1>17. ASSUME Stop(q) PROVE Knows(q)'
  BY <1>4, <1>17 DEF Stop, Ended
<1>18. ASSUME NEW p \in Runs, p # q, runs'[q] # runs[q],
              (\E op \in Ops, f \in Flows : Start(p, op, f)) \/ Step(p) \/ Stop(p)
       PROVE  FALSE
  BY <1>18 DEF Step, Start, CheckDigest, ReadRequest, VerifyEvidence, MatchIntent,
     Compare, Create, Fill, Lookup, Build, Check, Validate, Stop, Goto, IInv, TypeOK
<1>19. CASE UNCHANGED vars \/ Edit
  BY <1>1, <1>19 DEF vars, Edit
<1> QED BY <1>1, <1>5, <1>6, <1>7, <1>8, <1>9, <1>10, <1>11, <1>12, <1>13, <1>14,
       <1>15, <1>16, <1>17, <1>18, <1>19 DEF Next, Step

-----------------------------------------------------------------------------
(***************************************************************************)
(* Types.                                                                  *)
(***************************************************************************)

\* What a run writes belongs in the file it writes.
LEMMA ContentFits ==
  ASSUME IInv, NEW p \in Runs, runs[p].pc \in Writing
  PROVE  /\ Target(p) \in Refs
         /\ Content(p) = Text(Content(p).value) /\ Holdable(Target(p), Content(p).value)
<1>1. runs[p].pc # "idle" /\ runs[p].pc \in PastRequest
  BY DEF Writing, PastRequest, PastKey, PastIntent
<1>2. Flow(p) \in Flows /\ Knows(p) /\ Target(p) \in Refs
  BY <1>1, RunType, TargetIsRef DEF IInv, Reached
<1>3. runs[p].request \in Requests
  BY <1>1, <1>2 DEF Knows
<1>4. Plan(p) \in Plans /\ Plan(p).attempt = Flow(p).attempt
  BY <1>2, <1>3 DEF Plan, Plans, Prepared
<1>5. Receipt(Flow(p), Plan(p)) \in Receipts
      /\ Receipt(Flow(p), Plan(p)).attempt = Flow(p).attempt
  BY <1>2, <1>4 DEF Receipts, Receipt
<1>6. CASE runs[p].pc = "idempotency"
  <2>1. Holdable(IdemRef(Flow(p)), Identity(Flow(p)))
    BY <1>2 DEF Holdable, IdemRef
  <2> QED BY <1>2, <1>6, <2>1, Writes, Kinds
<1>7. CASE runs[p].pc = "intent"
  <2>1. Holdable(IntentRef(Flow(p)), Flow(p))
    BY <1>2 DEF Holdable, IntentRef
  <2> QED BY <1>2, <1>7, <2>1, Writes, Kinds
<1>8. CASE runs[p].pc = "artifact"
  <2>1. Holdable(ArtifactRef(Flow(p)), Plan(p))
    BY <1>4 DEF Holdable, ArtifactRef
  <2> QED BY <1>2, <1>8, <2>1, Writes, Kinds
<1>9. CASE runs[p].pc = "internal"
  <2>1. Holdable(InternalRef(Flow(p)), Receipt(Flow(p), Plan(p)))
    BY <1>5 DEF Holdable, InternalRef
  <2> QED BY <1>2, <1>9, <2>1, Writes, Kinds
<1>10. CASE runs[p].pc = "result"
  <2>1. Holdable(ResultRef(Flow(p)), Receipt(Flow(p), Plan(p)))
    BY <1>5 DEF Holdable, ResultRef
  <2>2. Content(p) = Text(Receipt(Flow(p), Plan(p)))
    BY <1>2, <1>10, Writes DEF Knows
  <2> QED BY <1>2, <1>10, <2>1, <2>2, Writes, Kinds
<1> QED BY <1>6, <1>7, <1>8, <1>9, <1>10 DEF Writing

LEMMA TypeStep == IInv /\ [Next]_vars => TypeOK'
<1> SUFFICES ASSUME IInv, [Next]_vars PROVE TypeOK'
  OBVIOUS
<1> DEFINE FileOK(r) == \/ files[r] \in {Absent, Torn}
                        \/ files[r] = Text(files[r].value) /\ Holdable(r, files[r].value)
           RunOK(p) == \/ runs[p] = Idle
                       \/ runs[p] \in [pc : Active \cup Ended, op : Ops, flow : Flows,
                                       request : Requests \cup {None}, dirty : BOOLEAN]
<1>1. DOMAIN files' = Refs /\ \A r \in Refs : FileOK(r)'
  <2>1. DOMAIN files = Refs /\ \A r \in Refs : FileOK(r)
    BY DEF IInv, TypeOK
  <2>2. CASE UNCHANGED files
    BY <2>1, <2>2
  <2>3. ASSUME NEW p \in Runs, Create(p) PROVE DOMAIN files' = Refs /\ \A r \in Refs : FileOK(r)'
    BY <2>1, <2>3, CreateFacts DEF IInv
  <2>4. ASSUME NEW p \in Runs, Fill(p) PROVE DOMAIN files' = Refs /\ \A r \in Refs : FileOK(r)'
    <3>1. /\ DOMAIN files' = Refs /\ files'[Target(p)] = Content(p)
          /\ \A r \in Refs : r # Target(p) => files'[r] = files[r]
          /\ runs[p].pc \in Writing
      BY <2>4, FillFacts DEF IInv
    <3>3. Content(p) = Text(Content(p).value) /\ Holdable(Target(p), Content(p).value)
      BY <3>1, ContentFits
    <3>4. ASSUME NEW r \in Refs PROVE FileOK(r)'
      BY <2>1, <3>1, <3>3
    <3> QED BY <3>1, <3>4
  <2> QED BY <2>2, <2>3, <2>4, FileChanges DEF vars
<1>2. DOMAIN runs' = Runs /\ \A p \in Runs : RunOK(p)'
  <2>1. DOMAIN runs = Runs /\ \A p \in Runs : RunOK(p)
    BY DEF IInv, TypeOK
  <2>2. CASE UNCHANGED runs
    BY <2>1, <2>2
  <2>3. ASSUME NEW p \in Runs, NEW op \in Ops, NEW f \in Flows, Start(p, op, f)
        PROVE  DOMAIN runs' = Runs /\ \A q \in Runs : RunOK(q)'
    BY <2>1, <2>3, StartFacts DEF IInv
  <2>4. ASSUME NEW p \in Runs, ReadRequest(p)
        PROVE  DOMAIN runs' = Runs /\ \A q \in Runs : RunOK(q)'
    BY <2>1, <2>4, ReadFacts DEF IInv
  <2>5. ASSUME NEW p \in Runs, Create(p)
        PROVE  DOMAIN runs' = Runs /\ \A q \in Runs : RunOK(q)'
    BY <2>1, <2>5, CreateFacts DEF IInv
  <2>6. ASSUME NEW p \in Runs, NEW pc \in Active \cup Ended, runs[p].pc \in Active, Goto(p, pc)
        PROVE  DOMAIN runs' = Runs /\ \A q \in Runs : RunOK(q)'
    <3>1. runs[p].pc # "idle"
      BY <2>6 DEF Active, Writing
    <3> QED BY <2>1, <2>6, <3>1, GotoFacts DEF IInv
  <2>7. ASSUME NEW p \in Runs, Fill(p)
        PROVE  DOMAIN runs' = Runs /\ \A q \in Runs : RunOK(q)'
    BY <2>6, <2>7, FillFacts DEF IInv, Active
  <2> QED BY <2>2, <2>3, <2>4, <2>5, <2>6, <2>7, StepMoves DEF IInv, MovesTo, vars
<1>3. inputs' \in Inputs /\ stops' \in 0..MaxStops /\ edits' \in 0..MaxEdits
  <2>1. inputs \in Inputs /\ stops \in 0..MaxStops /\ edits \in 0..MaxEdits
    BY DEF IInv, TypeOK
  <2>2. CASE UNCHANGED <<inputs, stops, edits>>
    BY <2>1, <2>2
  <2>3. ASSUME NEW p \in Runs, Stop(p) PROVE inputs' \in Inputs /\ stops' \in 0..MaxStops /\ edits' \in 0..MaxEdits
    BY <2>1, <2>3, BoundAssumption DEF Stop
  <2>4. CASE Edit
    BY <2>1, <2>4, BoundAssumption DEF Edit
  <2>5. ASSUME NEW p \in Runs,
               (\E op \in Ops, f \in Flows : Start(p, op, f)) \/ Step(p)
        PROVE  UNCHANGED <<inputs, stops, edits>>
    BY <2>5 DEF Step, Start, CheckDigest, ReadRequest, VerifyEvidence, MatchIntent,
       Compare, Create, Fill, Lookup, Build, Check, Validate
  <2> QED BY <2>2, <2>3, <2>4, <2>5 DEF Next, vars
<1> QED BY <1>1, <1>2, <1>3 DEF TypeOK

LEMMA InitIInv == Init => IInv
<1> SUFFICES ASSUME Init PROVE IInv
  OBVIOUS
<1>1. \A p \in Runs : runs[p] = Idle /\ runs[p].pc = "idle"
  BY DEF Init, Idle
<1>2. TypeOK
  BY <1>1, BoundAssumption DEF Init, TypeOK
<1>3. Owned
  BY <1>1 DEF Owned, Dirty, Writing
<1> QED BY <1>1, <1>2, <1>3 DEF IInv, Reached

\* The inductive invariant holds of every behaviour of the runs (execute,
\* reconcile), their stops and the edits of their inputs.
THEOREM Inductive == Spec => []IInv
<1>1. IInv /\ [Next]_vars => IInv'
  BY OwnedStep, ReachedStep, TypeStep DEF IInv
<1> QED BY <1>1, InitIInv, PTL DEF Spec

\* Whatever runs stop, race or retry, an output file once written keeps what it
\* holds, and a file that is being written is finished by its own run.
THEOREM ImmutableCorrect == Spec => Immutable
<1>1. IInv /\ [Next]_vars =>
        [\A r \in Refs :
           /\ files[r].kind = "text" => files'[r] = files[r]
           /\ files[r] = Torn /\ files'[r] # Torn =>
                \E p \in Runs : runs[p].pc \in Writing /\ runs[p].dirty
                                /\ Target(p) = r]_vars
  BY FilesStay DEF IInv, Dirty
<1> QED BY <1>1, Inductive, PTL DEF Spec, Immutable

-----------------------------------------------------------------------------
(***************************************************************************)
(* The trail of an attempt.                                                *)
(***************************************************************************)

\* A trail once complete stays complete.
LEMMA TrailStays ==
  ASSUME IInv, [Next]_vars, NEW f \in Flows, NEW result, Trail(f, result)
  PROVE  Trail(f, result)'
BY FilesStay, FlowRefs, Kinds, TextStays DEF Trail, IInv

\* Where the text of a file comes from.
LEMMA TextOrigin ==
  ASSUME IInv, [Next]_vars, NEW r \in Refs, files'[r].kind = "text"
  PROVE  \/ files[r].kind = "text" /\ files'[r] = files[r]
         \/ \E p \in Runs : /\ Fill(p) /\ runs[p].pc \in Writing /\ Flow(p) \in Flows
                            /\ Target(p) = r /\ files'[r] = Content(p) /\ Knows(p)
<1>1. ASSUME NEW p \in Runs, Create(p) PROVE files'[r] = files[r] \/ files'[r] = Torn
  BY <1>1, CreateFacts DEF IInv
<1>2. ASSUME NEW p \in Runs, Fill(p)
      PROVE  /\ runs[p].pc \in Writing /\ Flow(p) \in Flows /\ Knows(p)
             /\ files'[r] = files[r] \/ (Target(p) = r /\ files'[r] = Content(p))
  <2>1. runs[p].pc \in Writing /\ runs[p].pc # "idle"
    BY <1>2 DEF Fill, Writing
  <2> QED BY <1>2, <2>1, RunType, FillFacts DEF IInv, Reached
<1> QED BY <1>1, <1>2, FileChanges, Kinds DEF vars

\* Files of different kinds have different names.
LEMMA RefKinds ==
  ASSUME IInv, NEW p \in Runs, runs[p].pc \in Writing, NEW f \in Flows
  PROVE  /\ Target(p) = ArtifactRef(f) =>
              runs[p].pc = "artifact" /\ f.attempt = Flow(p).attempt
         /\ Target(p) = InternalRef(f) =>
              runs[p].pc = "internal" /\ f.attempt = Flow(p).attempt
         /\ Target(p)[1] = "result" => runs[p].pc = "result"
<1> USE DEF IdemRef, IntentRef, ArtifactRef, InternalRef, ResultRef
<1>1. CASE runs[p].pc = "idempotency"
  <2>1. Target(p) = IdemRef(Flow(p))
    BY <1>1, Writes
  <2> QED BY <2>1
<1>2. CASE runs[p].pc = "intent"
  <2>1. Target(p) = IntentRef(Flow(p))
    BY <1>2, Writes
  <2> QED BY <2>1
<1>3. CASE runs[p].pc = "artifact"
  <2>1. Target(p) = ArtifactRef(Flow(p))
    BY <1>3, Writes
  <2> QED BY <1>3, <2>1
<1>4. CASE runs[p].pc = "internal"
  <2>1. Target(p) = InternalRef(Flow(p))
    BY <1>4, Writes
  <2> QED BY <1>4, <2>1
<1>5. CASE runs[p].pc = "result"
  <2>1. Target(p) = ResultRef(Flow(p))
    BY <1>5, Writes
  <2> QED BY <1>5, <2>1
<1> QED BY <1>1, <1>2, <1>3, <1>4, <1>5 DEF Writing

LEMMA IntentAlone ==
  ASSUME NEW p \in Runs, runs[p].pc \in Writing, runs[p].pc # "intent", NEW f \in Flows
  PROVE  Target(p) # IntentRef(f)
<1>1. Target(p) \in {IdemRef(Flow(p)), ArtifactRef(Flow(p)), InternalRef(Flow(p)),
                     ResultRef(Flow(p))}
  BY Writes DEF Writing
<1> QED BY <1>1 DEF IdemRef, IntentRef, ArtifactRef, InternalRef, ResultRef

LEMMA IntentStep == IInv /\ IntentFirst /\ [Next]_vars => IntentFirst'
<1> SUFFICES ASSUME IInv, IntentFirst, [Next]_vars, NEW f \in Flows,
                    files'[ArtifactRef(f)].kind = "text"
             PROVE  \E g \in Flows :
                      /\ g.attempt = f.attempt
                      /\ files'[IntentRef(f)] = Text(g)
                      /\ files'[IdemRef(g)] = Text(Identity(g))
                      /\ files'[ArtifactRef(f)].value.digest = g.digest
  BY DEF IntentFirst
<1>1. CASE files[ArtifactRef(f)].kind = "text" /\ files'[ArtifactRef(f)] = files[ArtifactRef(f)]
  <2>1. PICK g \in Flows :
          /\ g.attempt = f.attempt
          /\ files[IntentRef(f)] = Text(g)
          /\ files[IdemRef(g)] = Text(Identity(g))
          /\ files[ArtifactRef(f)].value.digest = g.digest
    BY <1>1 DEF IntentFirst
  <2>2. files'[IntentRef(f)] = Text(g) /\ files'[IdemRef(g)] = Text(Identity(g))
    BY <2>1, FlowRefs, TextStays DEF IInv
  <2> QED BY <1>1, <2>1, <2>2
<1>2. CASE files[ArtifactRef(f)].kind # "text" \/ files'[ArtifactRef(f)] # files[ArtifactRef(f)]
  <2>1. PICK p \in Runs :
          /\ runs[p].pc \in Writing /\ Flow(p) \in Flows /\ Knows(p)
          /\ Target(p) = ArtifactRef(f) /\ files'[ArtifactRef(f)] = Content(p)
    BY <1>2, FlowRefs, TextOrigin
  <2>2. runs[p].pc = "artifact" /\ Flow(p).attempt = f.attempt
    BY <2>1, RefKinds
  <2>3. /\ files[IdemRef(Flow(p))] = Text(Identity(Flow(p)))
        /\ files[IntentRef(Flow(p))] = Text(Flow(p))
    BY <2>1, <2>2 DEF Knows, PastKey, PastIntent
  <2>4. IntentRef(f) = IntentRef(Flow(p))
    BY <2>2 DEF IntentRef
  <2>5. /\ files'[IdemRef(Flow(p))] = Text(Identity(Flow(p)))
        /\ files'[IntentRef(f)] = Text(Flow(p))
    BY <2>1, <2>3, <2>4, FlowRefs, TextStays DEF IInv
  <2>6. files'[ArtifactRef(f)].value.digest = Flow(p).digest
    <3>1. files'[ArtifactRef(f)] = Text(Plan(p))
      BY <2>1, <2>2, Writes
    <3>2. Plan(p).digest = Flow(p).digest
      BY DEF Plan, Prepared
    <3> QED BY <3>1, <3>2, Kinds
  <2> QED BY <2>1, <2>2, <2>5, <2>6
<1> QED BY <1>1, <1>2

LEMMA InternalStep == IInv /\ InternalIsBacked /\ [Next]_vars => InternalIsBacked'
<1> SUFFICES ASSUME IInv, InternalIsBacked, [Next]_vars, NEW f \in Flows,
                    files'[InternalRef(f)].kind = "text"
             PROVE  \E g \in Flows : g.attempt = f.attempt
                                     /\ Trail(g, files[InternalRef(f)].value)'
  BY DEF InternalIsBacked
<1>1. CASE files[InternalRef(f)].kind = "text" /\ files'[InternalRef(f)] = files[InternalRef(f)]
  <2>1. PICK g \in Flows : g.attempt = f.attempt /\ Trail(g, files[InternalRef(f)].value)
    BY <1>1 DEF InternalIsBacked
  <2> DEFINE result == files[InternalRef(f)].value
  <2>2. files'[IdemRef(g)] = Text(Identity(g)) /\ files'[IntentRef(g)].kind = "text"
        /\ files'[ArtifactRef(g)] = Text(result.output)
    BY <2>1, FlowRefs, FilesStay, TextStays, Kinds DEF Trail, IInv
  <2> QED BY <1>1, <2>1, <2>2 DEF Trail
<1>2. CASE files[InternalRef(f)].kind # "text" \/ files'[InternalRef(f)] # files[InternalRef(f)]
  <2>1. PICK p \in Runs :
          /\ runs[p].pc \in Writing /\ Flow(p) \in Flows /\ Knows(p)
          /\ Target(p) = InternalRef(f) /\ files'[InternalRef(f)] = Content(p)
    BY <1>2, FlowRefs, TextOrigin
  <2>2. runs[p].pc = "internal" /\ Flow(p).attempt = f.attempt
    BY <2>1, RefKinds
  <2>3. /\ files[IdemRef(Flow(p))] = Text(Identity(Flow(p)))
        /\ files[IntentRef(Flow(p))] = Text(Flow(p))
        /\ files[ArtifactRef(Flow(p))] = Text(Plan(p))
    BY <2>1, <2>2 DEF Knows, PastKey, PastIntent
  <2>4. /\ files'[IdemRef(Flow(p))] = Text(Identity(Flow(p)))
        /\ files'[IntentRef(Flow(p))] = Text(Flow(p))
        /\ files'[ArtifactRef(Flow(p))] = Text(Plan(p))
    BY <2>1, <2>3, FlowRefs, TextStays DEF IInv
  <2>5. files'[InternalRef(f)].value = Receipt(Flow(p), Plan(p))
    BY <2>1, <2>2, Writes, Kinds
  <2>6. Plan(p).digest = Flow(p).digest
    BY DEF Plan, Prepared
  <2>7. PICK g \in Flows : g = Flow(p)
    BY <2>1
  <2>8. Trail(g, files[InternalRef(f)].value)'
    <3> DEFINE result == files'[InternalRef(f)].value
    <3>1. g.key = result.key /\ g.attempt = result.attempt /\ result.output = Plan(p)
      BY <2>5, <2>7 DEF Receipt
    <3> HIDE DEF result
    <3>2. /\ g.key = result.key /\ g.attempt = result.attempt
          /\ result.output.digest = g.digest
          /\ files'[IdemRef(g)] = Text(Identity(g))
          /\ files'[IntentRef(g)].kind = "text"
          /\ files'[ArtifactRef(g)] = Text(result.output)
      BY <2>4, <2>6, <2>7, <3>1, Kinds
    <3> QED BY <3>2 DEF Trail, result
  <2> QED BY <2>2, <2>7, <2>8
<1> QED BY <1>1, <1>2

LEMMA DeliveredStep ==
  IInv /\ InternalIsBacked /\ DeliveredIsBacked /\ [Next]_vars => DeliveredIsBacked'
<1> SUFFICES ASSUME IInv, InternalIsBacked, DeliveredIsBacked, [Next]_vars,
                    NEW r \in Refs, r[1] = "result", files'[r].kind = "text"
             PROVE  \E f \in Flows : Trail(f, files[r].value)'
                                     /\ files'[InternalRef(f)] = files'[r]
  BY DEF DeliveredIsBacked, Delivered, Trail
<1>1. CASE files[r].kind = "text" /\ files'[r] = files[r]
  <2>1. PICK f \in Flows : Trail(f, files[r].value) /\ files[InternalRef(f)] = files[r]
    BY <1>1 DEF DeliveredIsBacked, Delivered, Trail
  <2>2. Trail(f, files[r].value)'
    <3> DEFINE result == files[r].value
    <3>1. Trail(f, result)
      BY <2>1
    <3>2. files'[r].value = result
      BY <1>1
    <3>3. /\ files'[IdemRef(f)] = Text(Identity(f)) /\ files'[IntentRef(f)].kind = "text"
          /\ files'[ArtifactRef(f)] = Text(result.output)
      BY <3>1, FlowRefs, FilesStay, TextStays, Kinds DEF Trail, IInv
    <3> QED BY <3>1, <3>2, <3>3 DEF Trail
  <2>3. files'[InternalRef(f)] = files'[r]
    BY <1>1, <2>1, FlowRefs, FilesStay DEF IInv
  <2> QED BY <2>2, <2>3
<1>2. CASE files[r].kind # "text" \/ files'[r] # files[r]
  <2>1. PICK p \in Runs :
          /\ runs[p].pc \in Writing /\ Flow(p) \in Flows /\ Knows(p)
          /\ Target(p) = r /\ files'[r] = Content(p)
    BY <1>2, TextOrigin
  <2>2. runs[p].pc = "result"
    BY <2>1, RefKinds
  <2>3. PICK f \in Flows : f = Flow(p)
    BY <2>1
  <2>4. /\ files[InternalRef(f)] = Text(Receipt(f, Plan(p)))
        /\ files'[r] = files[InternalRef(f)]
    BY <2>1, <2>2, <2>3, Writes DEF Knows
  <2>5. files[InternalRef(f)].kind = "text" /\ files'[InternalRef(f)] = files'[r]
    BY <2>4, FlowRefs, TextStays, Kinds DEF IInv
  <2>6. PICK g \in Flows : g.attempt = f.attempt /\ Trail(g, files[InternalRef(f)].value)
    BY <2>5 DEF InternalIsBacked
  <2>7. InternalRef(g) = InternalRef(f)
    BY <2>6 DEF InternalRef
  <2>8. Trail(g, files[r].value)'
    <3> DEFINE result == files[InternalRef(f)].value
    <3>1. Trail(g, result) /\ files'[r].value = result
      BY <2>4, <2>6
    <3>2. /\ files'[IdemRef(g)] = Text(Identity(g)) /\ files'[IntentRef(g)].kind = "text"
          /\ files'[ArtifactRef(g)] = Text(result.output)
      BY <3>1, FlowRefs, FilesStay, TextStays, Kinds DEF Trail, IInv
    <3> QED BY <3>1, <3>2 DEF Trail
  <2> QED BY <2>5, <2>7, <2>8
<1> QED BY <1>1, <1>2

\* Every plan has its intent, every result its whole trail (begin_attempt,
\* complete_attempt), in every interleaving of runs, stops and edits.
THEOREM TrailCorrect == Spec => []TrailComplete
<1>1. Init => IntentFirst /\ InternalIsBacked /\ DeliveredIsBacked
  BY FlowRefs, Kinds DEF Init, IntentFirst, InternalIsBacked, DeliveredIsBacked, Delivered
<1> QED BY <1>1, Inductive, IntentStep, InternalStep, DeliveredStep, PTL
        DEF Spec, IInv, TrailComplete

\* Results delivered for one idempotency key are one and the same: two flows
\* with that key would need two identities in its one file.
LEMMA OneKeyOneResult == DeliveredIsBacked => OneResultPerKey
<1> SUFFICES ASSUME DeliveredIsBacked, NEW r \in Delivered, NEW s \in Delivered,
                    files[r].value.key = files[s].value.key
             PROVE  files[r] = files[s]
  BY DEF OneResultPerKey
<1>1. PICK f \in Flows : Trail(f, files[r].value) /\ files[InternalRef(f)] = files[r]
  BY DEF DeliveredIsBacked, Trail
<1>2. PICK g \in Flows : Trail(g, files[s].value) /\ files[InternalRef(g)] = files[s]
  BY DEF DeliveredIsBacked, Trail
<1>3. f.key = g.key /\ IdemRef(f) = IdemRef(g)
  BY <1>1, <1>2 DEF Trail, IdemRef
<1>4. Identity(f) = Identity(g)
  BY <1>1, <1>2, <1>3, Kinds DEF Trail
<1>5. f.attempt = g.attempt
  BY <1>4 DEF Identity
<1> QED BY <1>1, <1>2, <1>5 DEF InternalRef

\* Executing or reconciling under one key, wherever and however often, delivers
\* one result.
THEOREM OneResultCorrect == Spec => []OneResultPerKey
BY TrailCorrect, OneKeyOneResult, PTL DEF TrailComplete

\* A reconciling run never creates an intent: it has found the one it resumes.
LEMMA ReconcileStep ==
  ASSUME IInv, [Next]_vars, NEW p \in Runs, runs[p] # Idle, runs[p].op = "reconcile",
         runs'[p] # runs[p], NEW f \in Flows, files[IntentRef(f)] = Absent
  PROVE  files'[IntentRef(f)] = Absent
<1>1. DOMAIN runs = Runs
  BY DEF IInv, TypeOK
<1>2. ASSUME NEW q \in Runs, Create(q) PROVE files'[IntentRef(f)] = Absent
  <2>1. q = p
    BY <1>2, CreateFacts DEF IInv
  <2>2. runs[p].pc \in Writing /\ ~ Dirty(p) /\ files[Target(p)] = Absent
    BY <1>2, <2>1, CreateFacts DEF IInv
  <2>3. Target(p) # IntentRef(f)
    <3>1. CASE runs[p].pc = "intent"
      <4>1. files[IntentRef(Flow(p))] = Text(Flow(p))
        BY <3>1 DEF IInv, Reached, Knows, Resuming, PastKey
      <4> QED BY <2>2, <3>1, <4>1, Writes, Kinds
    <3>2. CASE runs[p].pc # "intent"
      BY <2>2, <3>2, IntentAlone
    <3> QED BY <3>1, <3>2
  <2> QED BY <1>2, <2>1, <2>3, CreateFacts, FlowRefs DEF IInv
<1>3. ASSUME NEW q \in Runs, Fill(q) PROVE files'[IntentRef(f)] = Absent
  <2>1. Dirty(q) /\ files[Target(q)] = Torn
    BY <1>3, FillFacts DEF IInv, Owned
  <2> QED BY <1>3, <2>1, FillFacts, FlowRefs, Kinds DEF IInv
<1> QED BY <1>2, <1>3, FileChanges DEF vars

\* reconcile resumes an attempt whose intent it has matched and begins none.
THEOREM ReconcileCorrect == Spec => ReconcileBeginsNothing
<1>1. IInv /\ [Next]_vars =>
        [\A p \in Runs :
           runs[p] # Idle /\ runs[p].op = "reconcile" /\ runs'[p] # runs[p] =>
             \A f \in Flows :
               files[IntentRef(f)] = Absent => files'[IntentRef(f)] = Absent]_vars
  BY ReconcileStep
<1> QED BY <1>1, Inductive, PTL DEF Spec, ReconcileBeginsNothing

-----------------------------------------------------------------------------
(***************************************************************************)
(* Runs of one request that race each other.  A run fails only when it     *)
(* meets a file that another is about to fill, and that other run goes on. *)
(***************************************************************************)

\* Only executions of f have run so far, nothing stopped and nothing was edited.
Alone(f) ==
  /\ stops = 0 /\ edits = 0 /\ inputs = f.digest
  /\ \A p \in Runs : runs[p] # Idle => runs[p].op = "execute" /\ runs[p].flow = f

PlanOf(f) == Prepared(f, f.digest.request)

\* Each file of f has one text it may come to hold, and the plan is complete
\* before the internal result is begun.
OneText(f) ==
  /\ files[IdemRef(f)] \in {Absent, Torn, Text(Identity(f))}
  /\ files[IntentRef(f)] \in {Absent, Torn, Text(f)}
  /\ files[ArtifactRef(f)] \in {Absent, Torn, Text(PlanOf(f))}
  /\ files[InternalRef(f)] \in {Absent, Torn, Text(Receipt(f, PlanOf(f)))}
  /\ files[ResultRef(f)] \in {Absent, Torn, Text(Receipt(f, PlanOf(f)))}
  /\ files[InternalRef(f)] # Absent => files[ArtifactRef(f)] = Text(PlanOf(f))

\* Whoever created a file that is not filled yet is still at it.
TornIsOwned == \A r \in Refs : files[r] = Torn => \E p \in Runs : Dirty(p) /\ Target(p) = r

Course(p, f) ==
  /\ runs[p].pc # "match"
  /\ runs[p].pc \in PastRequest => runs[p].request = f.digest.request
  /\ runs[p].pc = "check" => files[ArtifactRef(f)] # Absent

Courses(f) == \A p \in Runs : runs[p] # Idle => Course(p, f)

\* Not all have failed.
Hope == \E p \in Runs : runs[p] = Idle \/ runs[p].pc \in Active \cup {"done"}

Undisturbed(f) == OneText(f) /\ TornIsOwned /\ Courses(f) /\ Hope

OneDelivers == \A f \in Flows : Alone(f) => Undisturbed(f)

LEMMA AloneBefore ==
  ASSUME IInv, [Next]_vars, NEW f \in Flows, Alone(f)'
  PROVE  Alone(f)
<1>1. stops \in Nat /\ edits \in Nat
  BY BoundAssumption DEF IInv, TypeOK
<1>2. stops' = 0 /\ edits' = 0 /\ inputs' = f.digest
      /\ \A p \in Runs : runs'[p] # Idle => runs'[p].op = "execute" /\ runs'[p].flow = f
  BY DEF Alone
<1>3. stops = 0 /\ edits = 0 /\ inputs = f.digest
  <2>1. ASSUME NEW p \in Runs, Stop(p) PROVE FALSE
    BY <1>1, <1>2, <2>1 DEF Stop
  <2>2. ASSUME Edit PROVE FALSE
    BY <1>1, <1>2, <2>2 DEF Edit
  <2>3. UNCHANGED <<inputs, stops, edits>>
    BY <2>1, <2>2 DEF Next, Step, Start, CheckDigest, ReadRequest, VerifyEvidence,
       MatchIntent, Compare, Create, Fill, Lookup, Build, Check, Validate, vars
  <2> QED BY <1>2, <2>3
<1>4. ASSUME NEW p \in Runs, runs[p] # Idle
      PROVE  runs[p].op = "execute" /\ runs[p].flow = f
  <2>1. CASE runs'[p] = runs[p]
    BY <1>2, <1>4, <2>1
  <2>2. CASE runs'[p] # runs[p]
    <3>1. runs[p].pc # "idle"
      BY <1>4 DEF IInv, TypeOK, Active, Ended, Writing
    <3>2. \/ ReadRequest(p) \/ Create(p)
          \/ \E pc \in Active \cup Ended : Goto(p, pc)
      <4>1. ASSUME NEW q \in Runs, NEW pc \in Active \cup Ended, MovesTo(q, pc)
            PROVE  q = p /\ Goto(p, pc)
        BY <2>2, <4>1, GotoFacts DEF MovesTo, IInv, Active, Writing
      <4>2. ASSUME NEW q \in Runs, Fill(q) PROVE \E pc \in Active \cup Ended : Goto(p, pc)
        <5>1. runs[q].pc # "idle" /\ AfterWrite(q) \in Active \cup Ended /\ Goto(q, AfterWrite(q))
          BY <4>2, FillFacts DEF IInv, Writing
        <5>2. q = p
          BY <2>2, <5>1, GotoFacts DEF IInv
        <5> QED BY <5>1, <5>2
      <4>3. ASSUME NEW q \in Runs, ReadRequest(q) PROVE q = p
        BY <2>2, <4>3, ReadFacts DEF IInv
      <4>6. ASSUME NEW q \in Runs, Create(q) PROVE q = p
        BY <2>2, <4>6, CreateFacts DEF IInv
      <4>4. ASSUME NEW q \in Runs, NEW op \in Ops, NEW g \in Flows, Start(q, op, g)
            PROVE  FALSE
        BY <1>4, <2>2, <4>4, StartFacts DEF IInv
      <4>5. Next /\ ~ UNCHANGED runs
        BY <2>2 DEF vars
      <4> QED BY <4>1, <4>2, <4>3, <4>4, <4>5, <4>6, StepMoves DEF IInv
    <3>3. runs'[p].op = runs[p].op /\ runs'[p].flow = runs[p].flow /\ runs'[p] # Idle
      <4>1. /\ runs'[p].op = runs[p].op /\ runs'[p].flow = runs[p].flow
            /\ runs'[p].pc \in Active \cup Ended
        BY <3>1, <3>2, GotoFacts, ReadFacts, CreateFacts DEF IInv, Active, Ended
      <4> QED BY <4>1 DEF Idle, Active, Ended, Writing
    <3> QED BY <1>2, <3>3
  <2> QED BY <2>1, <2>2
<1> QED BY <1>3, <1>4 DEF Alone

\* The five files of a flow are five files.
LEMMA FiveFiles ==
  ASSUME NEW f \in Flows
  PROVE  /\ IdemRef(f) # IntentRef(f) /\ IdemRef(f) # ArtifactRef(f)
         /\ IdemRef(f) # InternalRef(f) /\ IdemRef(f) # ResultRef(f)
         /\ IntentRef(f) # ArtifactRef(f) /\ IntentRef(f) # InternalRef(f)
         /\ IntentRef(f) # ResultRef(f) /\ ArtifactRef(f) # InternalRef(f)
         /\ ArtifactRef(f) # ResultRef(f) /\ InternalRef(f) # ResultRef(f)
BY DEF IdemRef, IntentRef, ArtifactRef, InternalRef, ResultRef

\* A run under way while f is alone is an execution of f, on f's own request.
LEMMA AloneRun ==
  ASSUME IInv, NEW f \in Flows, Alone(f), Undisturbed(f), NEW p \in Runs, runs[p].pc \in Active
  PROVE  /\ runs[p] # Idle /\ runs[p].pc # "idle" /\ Flow(p) = f /\ runs[p].op = "execute"
         /\ Knows(p) /\ Course(p, f)
         /\ runs[p].pc \in PastRequest => Plan(p) = PlanOf(f)
<1>1. runs[p] # Idle /\ runs[p].pc # "idle"
  BY DEF Idle, Active, Writing
<1>2. Flow(p) = f /\ runs[p].op = "execute" /\ Knows(p) /\ Course(p, f)
  BY <1>1 DEF Alone, Flow, IInv, Reached, Undisturbed, Courses
<1> QED BY <1>1, <1>2 DEF Course, Plan, PlanOf

\* What it writes where.
LEMMA AloneWrites ==
  ASSUME IInv, NEW f \in Flows, Alone(f), Undisturbed(f), NEW p \in Runs, runs[p].pc \in Writing
  PROVE  /\ runs[p].pc = "idempotency" =>
              Target(p) = IdemRef(f) /\ Content(p) = Text(Identity(f))
         /\ runs[p].pc = "intent" => Target(p) = IntentRef(f) /\ Content(p) = Text(f)
         /\ runs[p].pc = "artifact" =>
              Target(p) = ArtifactRef(f) /\ Content(p) = Text(PlanOf(f))
         /\ runs[p].pc = "internal" =>
              /\ Target(p) = InternalRef(f) /\ Content(p) = Text(Receipt(f, PlanOf(f)))
              /\ files[ArtifactRef(f)] = Text(PlanOf(f))
         /\ runs[p].pc = "result" =>
              Target(p) = ResultRef(f) /\ Content(p) = Text(Receipt(f, PlanOf(f)))
<1>1. runs[p].pc \in Active /\ runs[p].pc \in PastRequest
  BY DEF Writing, Active, PastRequest, PastKey, PastIntent
<1>2. Flow(p) = f /\ Knows(p) /\ Plan(p) = PlanOf(f)
  BY <1>1, AloneRun
<1> QED BY <1>2, Writes DEF Knows

\* So what it finds in a file it is about to write is no conflict, unless the
\* file is not filled yet.
LEMMA NoConflict ==
  ASSUME IInv, NEW f \in Flows, Alone(f), Undisturbed(f), NEW p \in Runs,
         runs[p].pc \in Writing, Conflicts(p)
  PROVE  Target(p) \in Refs /\ files[Target(p)] = Torn
<1>1. files[Target(p)] \in {Absent, Torn, Content(p)}
  BY AloneWrites DEF Undisturbed, OneText, Writing
<1>2. Target(p) \in Refs
  BY TargetIsRef DEF IInv
<1> QED BY <1>1, <1>2 DEF Conflicts

\* A run that fails has met a file another run is filling.
MeetsTorn == \E r \in Refs : files[r] = Torn

-----------------------------------------------------------------------------
\* A run that moves on past files that stay as they are disturbs nothing; if it
\* fails, the run whose file it met goes on.
LEMMA MoveUndisturbed ==
  ASSUME IInv, NEW f \in Flows, Alone(f), Undisturbed(f), NEW p \in Runs, ~ Dirty(p),
         NEW pc \in Active \cup {"done", "failed"}, MovesTo(p, pc), UNCHANGED files,
         pc # "match",
         pc \in PastRequest => runs[p].pc \in PastRequest,
         pc = "check" => files[ArtifactRef(f)] # Absent,
         pc = "failed" => MeetsTorn
  PROVE  Undisturbed(f)'
<1>1. /\ runs[p].pc \in Active /\ pc \in Active \cup Ended /\ runs[p].pc # "idle"
      /\ Goto(p, pc) /\ Course(p, f)
  BY AloneRun DEF MovesTo
<1>2. /\ \A q \in Runs : q # p => runs'[q] = runs[q]
      /\ runs'[p].pc = pc /\ runs'[p].flow = runs[p].flow
      /\ runs'[p].request = runs[p].request
  BY <1>1, GotoFacts DEF IInv
<1>3. OneText(f)'
  BY DEF Undisturbed, OneText
<1>4. ASSUME NEW q \in Runs, Dirty(q)
      PROVE  q # p /\ Dirty(q)' /\ Target(q)' = Target(q) /\ runs'[q].pc \in Active
  <2>1. q # p /\ runs'[q] = runs[q]
    BY <1>2, <1>4
  <2> QED BY <1>4, <2>1, SameTarget DEF Dirty, Active
<1>5. TornIsOwned'
  <2> SUFFICES ASSUME NEW r \in Refs, files'[r] = Torn
               PROVE  \E q \in Runs : Dirty(q)' /\ Target(q)' = r
    BY DEF TornIsOwned
  <2>1. PICK q \in Runs : Dirty(q) /\ Target(q) = r
    BY DEF Undisturbed, TornIsOwned
  <2> QED BY <1>4, <2>1
<1>6. Courses(f)'
  <2>1. Course(p, f)'
    BY <1>1, <1>2 DEF Course
  <2>2. ASSUME NEW q \in Runs, q # p, runs'[q] # Idle PROVE Course(q, f)'
    BY <1>2, <2>2 DEF Undisturbed, Courses, Course
  <2> QED BY <2>1, <2>2 DEF Courses
<1>7. Hope'
  <2>1. CASE pc = "failed"
    <3>1. PICK q \in Runs : Dirty(q)
      BY <2>1 DEF MeetsTorn, Undisturbed, TornIsOwned
    <3> QED BY <1>4, <3>1 DEF Hope
  <2>2. CASE pc # "failed"
    BY <1>2, <2>2 DEF Hope
  <2> QED BY <2>1, <2>2
<1> QED BY <1>3, <1>5, <1>6, <1>7 DEF Undisturbed

LEMMA CreateUndisturbed ==
  ASSUME IInv, NEW f \in Flows, Alone(f), Undisturbed(f), NEW p \in Runs, Create(p)
  PROVE  Undisturbed(f)'
<1>1. runs[p].pc \in Writing /\ ~ Dirty(p) /\ runs[p].pc \in Active
  BY CreateFacts DEF IInv, Active
<1>2. /\ \A q \in Runs : q # p => runs'[q] = runs[q]
      /\ runs'[p].pc = runs[p].pc /\ runs'[p].dirty = TRUE
      /\ runs'[p].flow = runs[p].flow /\ runs'[p].request = runs[p].request
      /\ files[Target(p)] = Absent /\ files'[Target(p)] = Torn
      /\ \A r \in Refs : r # Target(p) => files'[r] = files[r]
  BY CreateFacts DEF IInv
<1>3. /\ IdemRef(f) \in Refs /\ IntentRef(f) \in Refs /\ ArtifactRef(f) \in Refs
      /\ InternalRef(f) \in Refs /\ ResultRef(f) \in Refs
  BY FlowRefs
<1>4. OneText(f)'
  <2>1. \A r \in Refs : files'[r] = files[r] \/ files'[r] = Torn
    BY <1>2
  <2>2. files'[InternalRef(f)] # Absent => files'[ArtifactRef(f)] = Text(PlanOf(f))
    <3>1. CASE files[InternalRef(f)] # Absent
      BY <1>2, <1>3, <3>1, Kinds DEF Undisturbed, OneText
    <3>2. CASE files[InternalRef(f)] = Absent /\ Target(p) # InternalRef(f)
      BY <1>2, <1>3, <3>2
    <3>3. CASE Target(p) = InternalRef(f)
      <4>1. files[ArtifactRef(f)] = Text(PlanOf(f))
        BY <1>1, <3>3, RefKinds, AloneWrites
      <4> QED BY <1>2, <1>3, <3>3, <4>1, FiveFiles
    <3> QED BY <3>1, <3>2, <3>3
  <2> QED BY <1>3, <2>1, <2>2 DEF Undisturbed, OneText
<1>5. Dirty(p)' /\ Target(p)' = Target(p)
  BY <1>1, <1>2, SameTarget DEF Dirty
<1>6. TornIsOwned'
  <2> SUFFICES ASSUME NEW r \in Refs, files'[r] = Torn
               PROVE  \E q \in Runs : Dirty(q)' /\ Target(q)' = r
    BY DEF TornIsOwned
  <2>1. CASE r = Target(p)
    BY <1>5, <2>1
  <2>2. CASE r # Target(p)
    <3>1. PICK q \in Runs : Dirty(q) /\ Target(q) = r
      BY <1>2, <2>2 DEF Undisturbed, TornIsOwned
    <3>2. runs'[q] = runs[q]
      BY <1>1, <1>2, <3>1
    <3> QED BY <3>1, <3>2, SameTarget DEF Dirty
  <2> QED BY <2>1, <2>2
<1>7. Courses(f)'
  <2>1. files[ArtifactRef(f)] # Absent => files'[ArtifactRef(f)] # Absent
    BY <1>2, <1>3
  <2>2. Course(p, f)'
    BY <1>1, <1>2, <2>1, AloneRun DEF Course
  <2>3. ASSUME NEW q \in Runs, q # p, runs'[q] # Idle PROVE Course(q, f)'
    BY <1>2, <2>1, <2>3 DEF Undisturbed, Courses, Course
  <2> QED BY <2>2, <2>3 DEF Courses
<1>8. Hope'
  BY <1>1, <1>2 DEF Hope
<1> QED BY <1>4, <1>6, <1>7, <1>8 DEF Undisturbed

LEMMA FillUndisturbed ==
  ASSUME IInv, NEW f \in Flows, Alone(f), Undisturbed(f), NEW p \in Runs, Fill(p)
  PROVE  Undisturbed(f)'
<1>1. runs[p].pc \in Writing /\ Dirty(p) /\ runs[p].pc \in Active /\ runs[p].pc # "idle"
  BY FillFacts DEF IInv, Active, Writing
<1>2. /\ files'[Target(p)] = Content(p)
      /\ \A r \in Refs : r # Target(p) => files'[r] = files[r]
      /\ AfterWrite(p) \in Active \cup Ended /\ Goto(p, AfterWrite(p))
  BY FillFacts DEF IInv
<1>3. /\ \A q \in Runs : q # p => runs'[q] = runs[q]
      /\ runs'[p].pc = AfterWrite(p) /\ runs'[p].flow = runs[p].flow
      /\ runs'[p].request = runs[p].request
  BY <1>1, <1>2, GotoFacts DEF IInv
<1>4. /\ IdemRef(f) \in Refs /\ IntentRef(f) \in Refs /\ ArtifactRef(f) \in Refs
      /\ InternalRef(f) \in Refs /\ ResultRef(f) \in Refs
  BY FlowRefs
<1>5. Target(p) \in Refs /\ files[Target(p)] = Torn
  BY <1>1, TargetIsRef DEF IInv, Owned
<1>6. OneText(f)'
  <2>1. CASE runs[p].pc = "idempotency"
    BY <1>1, <1>2, <1>4, <2>1, AloneWrites, FiveFiles DEF Undisturbed, OneText
  <2>2. CASE runs[p].pc = "intent"
    BY <1>1, <1>2, <1>4, <2>2, AloneWrites, FiveFiles DEF Undisturbed, OneText
  <2>3. CASE runs[p].pc = "artifact"
    BY <1>1, <1>2, <1>4, <2>3, AloneWrites, FiveFiles DEF Undisturbed, OneText
  <2>4. CASE runs[p].pc = "internal"
    BY <1>1, <1>2, <1>4, <2>4, AloneWrites, FiveFiles DEF Undisturbed, OneText
  <2>5. CASE runs[p].pc = "result"
    BY <1>1, <1>2, <1>4, <2>5, AloneWrites, FiveFiles DEF Undisturbed, OneText
  <2> QED BY <1>1, <2>1, <2>2, <2>3, <2>4, <2>5 DEF Writing
<1>7. Content(p) # Torn /\ Content(p) # Absent
  BY <1>1, AloneWrites, Kinds DEF Writing
<1>8. TornIsOwned'
  <2> SUFFICES ASSUME NEW r \in Refs, files'[r] = Torn
               PROVE  \E q \in Runs : Dirty(q)' /\ Target(q)' = r
    BY DEF TornIsOwned
  <2>1. r # Target(p) /\ files[r] = Torn
    BY <1>2, <1>7
  <2>2. PICK q \in Runs : Dirty(q) /\ Target(q) = r
    BY <2>1 DEF Undisturbed, TornIsOwned
  <2>3. runs'[q] = runs[q]
    BY <1>3, <2>1, <2>2
  <2> QED BY <2>2, <2>3, SameTarget DEF Dirty
<1>9. Courses(f)'
  <2>1. files[ArtifactRef(f)] # Absent => files'[ArtifactRef(f)] # Absent
    BY <1>2, <1>4, <1>7
  <2>2. Course(p, f)'
    <3>1. AfterWrite(p) \in {"intent", "lookup", "check", "validate", "done"}
      BY <1>1, Writes DEF Writing
    <3>2. runs[p].request = f.digest.request
      BY <1>1, AloneRun DEF Course, Writing, PastRequest, PastKey, PastIntent
    <3>3. AfterWrite(p) = "check" => files'[ArtifactRef(f)] # Absent
      BY <1>1, <1>2, <1>7, Writes, AloneWrites DEF Writing
    <3> QED BY <1>3, <3>1, <3>2, <3>3 DEF Course
  <2>3. ASSUME NEW q \in Runs, q # p, runs'[q] # Idle PROVE Course(q, f)'
    BY <1>3, <2>1, <2>3 DEF Undisturbed, Courses, Course
  <2> QED BY <2>2, <2>3 DEF Courses
<1>10. Hope'
  <2>1. AfterWrite(p) \in Active \cup {"done"}
    BY <1>1, Writes DEF Writing, Active
  <2> QED BY <1>3, <2>1 DEF Hope
<1> QED BY <1>6, <1>8, <1>9, <1>10 DEF Undisturbed

\* Reading, checking and deciding: these steps leave the files as they are, and
\* where one fails the run has met a file that is not filled yet.
LEMMA ReadingUndisturbed ==
  ASSUME IInv, NamesItsEvidence, NEW f \in Flows, Alone(f), Undisturbed(f), NEW p \in Runs,
         CheckDigest(p) \/ VerifyEvidence(p) \/ MatchIntent(p)
  PROVE  Undisturbed(f)'
<1>1. CASE CheckDigest(p)
  <2>1. runs[p].pc = "digest" /\ runs[p].pc \in Active /\ Flow(p) = f /\ ~ Dirty(p)
    BY <1>1, AloneRun DEF CheckDigest, Active, Dirty, Writing
  <2>2. Goto(p, "request") /\ UNCHANGED files
    BY <1>1, <2>1 DEF CheckDigest, Alone
  <2>3. MovesTo(p, "request") /\ "request" \in Active /\ "request" \notin PastRequest
    BY <2>1, <2>2 DEF MovesTo, Active, PastRequest, PastKey, PastIntent
  <2> QED BY <2>1, <2>2, <2>3, MoveUndisturbed
<1>2. CASE VerifyEvidence(p)
  <2>1. runs[p].pc = "evidence" /\ runs[p].pc \in Active /\ ~ Dirty(p)
        /\ runs[p].pc \in PastRequest
    BY <1>2 DEF VerifyEvidence, Active, Dirty, Writing, PastRequest
  <2>2. runs[p].op = "execute" /\ runs[p].request = f.digest.request /\ inputs = f.digest
    BY <2>1, AloneRun DEF Course, Alone
  <2>3. Fresh(p)
    BY <2>2 DEF Fresh, NamesItsEvidence
  <2>4. AfterEvidence(p) = "idempotency"
    BY <2>2 DEF AfterEvidence
  <2>5. Goto(p, "idempotency") /\ UNCHANGED files
    BY <1>2, <2>3, <2>4 DEF VerifyEvidence
  <2>6. MovesTo(p, "idempotency") /\ "idempotency" \in Active
    BY <2>1, <2>5 DEF MovesTo, Active, Writing
  <2> QED BY <2>1, <2>5, <2>6, MoveUndisturbed
<1>3. CASE MatchIntent(p)
  <2>1. runs[p].pc = "match" /\ runs[p].pc \in Active
    BY <1>3 DEF MatchIntent, Active
  <2> QED BY <2>1, AloneRun DEF Course
<1> QED BY <1>1, <1>2, <1>3

LEMMA ReadRequestUndisturbed ==
  ASSUME IInv, NEW f \in Flows, Alone(f), Undisturbed(f), NEW p \in Runs, ReadRequest(p)
  PROVE  Undisturbed(f)'
<1>1. runs[p].pc = "request" /\ ~ Dirty(p)
  BY DEF ReadRequest, Dirty, Writing
<1>2. /\ DOMAIN runs = Runs /\ runs[p].pc # "idle" /\ inputs = f.digest
  BY <1>1 DEF IInv, TypeOK, Alone
<1>3. runs[p] \in [pc : Active \cup Ended, op : Ops, flow : Flows,
                   request : Requests \cup {None}, dirty : BOOLEAN]
  BY <1>2, RunType DEF IInv
<1>4. /\ \A q \in Runs : q # p => runs'[q] = runs[q]
      /\ runs'[p].pc = "evidence" /\ UNCHANGED files
  BY ReadFacts DEF IInv
<1>5. runs'[p].request = f.digest.request
  BY <1>2, <1>3 DEF ReadRequest
<1>6. OneText(f)'
  BY <1>4 DEF Undisturbed, OneText
<1>7. TornIsOwned'
  <2> SUFFICES ASSUME NEW r \in Refs, files'[r] = Torn
               PROVE  \E q \in Runs : Dirty(q)' /\ Target(q)' = r
    BY DEF TornIsOwned
  <2>1. PICK q \in Runs : Dirty(q) /\ Target(q) = r
    BY <1>4 DEF Undisturbed, TornIsOwned
  <2>2. runs'[q] = runs[q]
    BY <1>1, <1>4, <2>1
  <2> QED BY <2>1, <2>2, SameTarget DEF Dirty
<1>8. Courses(f)'
  <2>1. Course(p, f)'
    BY <1>4, <1>5 DEF Course
  <2>2. ASSUME NEW q \in Runs, q # p, runs'[q] # Idle PROVE Course(q, f)'
    BY <1>4, <2>2 DEF Undisturbed, Courses, Course
  <2> QED BY <2>1, <2>2 DEF Courses
<1>9. Hope'
  BY <1>4 DEF Hope, Active
<1> QED BY <1>6, <1>7, <1>8, <1>9 DEF Undisturbed

LEMMA CompareUndisturbed ==
  ASSUME IInv, NEW f \in Flows, Alone(f), Undisturbed(f), NEW p \in Runs, Compare(p)
  PROVE  Undisturbed(f)'
<1>1. /\ runs[p].pc \in Writing /\ ~ Dirty(p) /\ files[Target(p)] # Absent /\ UNCHANGED files
      /\ runs[p].pc \in Active /\ runs[p].pc \in PastRequest
  BY DEF Compare, Dirty, Active, Writing, PastRequest, PastKey, PastIntent
<1>2. CASE Conflicts(p)
  <2>1. MeetsTorn
    BY <1>1, <1>2, NoConflict DEF MeetsTorn
  <2>2. MovesTo(p, "failed")
    BY <1>1, <1>2 DEF Compare, MovesTo, Ended
  <2>3. "failed" \notin PastRequest /\ "failed" # "match" /\ "failed" # "check"
    BY DEF PastRequest, PastKey, PastIntent
  <2> QED BY <1>1, <2>1, <2>2, <2>3, MoveUndisturbed
<1>3. CASE ~ Conflicts(p)
  <2>1. AfterWrite(p) \in {"intent", "lookup", "check", "validate", "done"}
    BY <1>1, Writes DEF Writing
  <2>2. MovesTo(p, AfterWrite(p))
    BY <1>1, <1>3, <2>1 DEF Compare, MovesTo, Active, Ended, Writing
  <2>3. AfterWrite(p) = "check" => files[ArtifactRef(f)] # Absent
    BY <1>1, Writes, AloneWrites DEF Writing
  <2>4. /\ AfterWrite(p) \in Active \cup {"done", "failed"}
        /\ AfterWrite(p) # "match" /\ AfterWrite(p) # "failed"
    BY <2>1 DEF Active, Writing
  <2> QED BY <1>1, <2>2, <2>3, <2>4, MoveUndisturbed
<1> QED BY <1>2, <1>3

\* complete_attempt's steps.
LEMMA CompletingUndisturbed ==
  ASSUME IInv, NamesItsEvidence, NEW f \in Flows, Alone(f), Undisturbed(f), NEW p \in Runs,
         Lookup(p) \/ Build(p) \/ Check(p) \/ Validate(p)
  PROVE  Undisturbed(f)'
<1>1. /\ runs[p].pc \in {"lookup", "build", "check", "validate"}
      /\ runs[p].pc \in Active /\ runs[p].pc \in PastRequest /\ ~ Dirty(p)
  BY DEF Lookup, Build, Check, Validate, Active, PastRequest, PastKey, PastIntent, Dirty, Writing
<1>2. Flow(p) = f /\ Plan(p) = PlanOf(f) /\ Knows(p) /\ Course(p, f)
  BY <1>1, AloneRun
<1>3. Fresh(p)
  BY <1>1, <1>2 DEF Course, Fresh, NamesItsEvidence, Alone
<1>4. /\ InternalRef(f) \in Refs /\ ArtifactRef(f) \in Refs
      /\ files[ArtifactRef(f)] \in {Absent, Torn, Text(PlanOf(f))}
      /\ files[InternalRef(f)] \in {Absent, Torn, Text(Receipt(f, PlanOf(f)))}
      /\ files[InternalRef(f)] # Absent => files[ArtifactRef(f)] = Text(PlanOf(f))
  BY FlowRefs DEF Undisturbed, OneText
<1>5. ASSUME NEW pc \in {"build", "validate", "artifact", "check", "internal", "result"},
             Goto(p, pc), UNCHANGED files,
             pc = "check" => files[ArtifactRef(f)] # Absent
      PROVE  Undisturbed(f)'
  <2>1. MovesTo(p, pc) /\ pc \in Active \cup {"done", "failed"} /\ pc # "match" /\ pc # "failed"
    BY <1>1, <1>5 DEF MovesTo, Active, Writing
  <2> QED BY <1>1, <1>5, <2>1, MoveUndisturbed
<1>6. ASSUME Goto(p, "failed"), UNCHANGED files, MeetsTorn PROVE Undisturbed(f)'
  <2>1. MovesTo(p, "failed")
    BY <1>1, <1>6 DEF MovesTo, Ended
  <2>2. "failed" \notin PastRequest /\ "failed" # "match" /\ "failed" # "check"
    BY DEF PastRequest, PastKey, PastIntent
  <2> QED BY <1>1, <1>6, <2>1, <2>2, MoveUndisturbed
<1>7. CASE Lookup(p)
  <2>1. /\ files[InternalRef(f)] = Absent => Goto(p, "build")
        /\ files[InternalRef(f)] = Torn => Goto(p, "failed")
        /\ files[InternalRef(f)] \notin {Absent, Torn} => Goto(p, "validate")
        /\ UNCHANGED files
    BY <1>2, <1>7, Kinds DEF Lookup
  <2> QED BY <1>4, <1>5, <1>6, <2>1 DEF MeetsTorn
<1>8. CASE Build(p)
  <2>1. /\ files[ArtifactRef(f)] = Absent => Goto(p, "artifact")
        /\ files[ArtifactRef(f)] # Absent => Goto(p, "check")
        /\ UNCHANGED files
    BY <1>2, <1>8 DEF Build
  <2> QED BY <1>5, <2>1
<1>9. CASE Check(p)
  <2>1. /\ files[ArtifactRef(f)] = Text(PlanOf(f)) => Goto(p, "internal")
        /\ files[ArtifactRef(f)] # Text(PlanOf(f)) => Goto(p, "failed")
        /\ UNCHANGED files
    BY <1>2, <1>3, <1>9 DEF Check, Reproduced
  <2>2. files[ArtifactRef(f)] # Absent
    BY <1>2, <1>9 DEF Course, Check
  <2> QED BY <1>4, <1>5, <1>6, <2>1, <2>2 DEF MeetsTorn
<1>10. CASE Validate(p)
  <2>1. files[InternalRef(f)] \notin {Absent, Torn}
    BY <1>2, <1>10 DEF Validate, Knows
  <2>2. /\ files[InternalRef(f)].value = Receipt(f, PlanOf(f))
        /\ files[ArtifactRef(f)] = Text(PlanOf(f))
    BY <1>4, <2>1, Kinds
  <2>3. Receipt(f, PlanOf(f)).output = PlanOf(f)
    BY DEF Receipt
  <2>4. Goto(p, "result") /\ UNCHANGED files
    BY <1>2, <1>3, <1>10, <2>2, <2>3 DEF Validate, Reproduced
  <2> QED BY <1>5, <2>4
<1> QED BY <1>7, <1>8, <1>9, <1>10

LEMMA StartUndisturbed ==
  ASSUME IInv, NEW f \in Flows, Alone(f), Undisturbed(f), NEW p \in Runs,
         NEW op \in Ops, NEW g \in Flows, Start(p, op, g)
  PROVE  Undisturbed(f)'
<1>1. /\ \A q \in Runs : q # p => runs'[q] = runs[q]
      /\ runs[p] = Idle /\ runs'[p].pc = "digest" /\ UNCHANGED files
  BY StartFacts DEF IInv
<1>2. ~ Dirty(p)
  BY <1>1 DEF Dirty, Idle, Writing
<1>3. OneText(f)'
  BY <1>1 DEF Undisturbed, OneText
<1>4. TornIsOwned'
  <2> SUFFICES ASSUME NEW r \in Refs, files'[r] = Torn
               PROVE  \E q \in Runs : Dirty(q)' /\ Target(q)' = r
    BY DEF TornIsOwned
  <2>1. PICK q \in Runs : Dirty(q) /\ Target(q) = r
    BY <1>1 DEF Undisturbed, TornIsOwned
  <2>2. runs'[q] = runs[q]
    BY <1>1, <1>2, <2>1
  <2> QED BY <2>1, <2>2, SameTarget DEF Dirty
<1>5. Courses(f)'
  <2>1. Course(p, f)'
    BY <1>1 DEF Course, PastRequest, PastKey, PastIntent
  <2>2. ASSUME NEW q \in Runs, q # p, runs'[q] # Idle PROVE Course(q, f)'
    BY <1>1, <2>2 DEF Undisturbed, Courses, Course
  <2> QED BY <2>1, <2>2 DEF Courses
<1>6. Hope'
  BY <1>1 DEF Hope, Active
<1> QED BY <1>3, <1>4, <1>5, <1>6 DEF Undisturbed

LEMMA OneDeliversStep == IInv /\ NamesItsEvidence /\ OneDelivers /\ [Next]_vars => OneDelivers'
<1> SUFFICES ASSUME IInv, NamesItsEvidence, OneDelivers, [Next]_vars, NEW f \in Flows, Alone(f)'
             PROVE  Undisturbed(f)'
  BY DEF OneDelivers
<1>1. Alone(f) /\ Undisturbed(f)
  BY AloneBefore DEF OneDelivers
<1>2. ASSUME NEW p \in Runs, Step(p) PROVE Undisturbed(f)'
  BY <1>1, <1>2, ReadingUndisturbed, ReadRequestUndisturbed, CompareUndisturbed,
     CreateUndisturbed, FillUndisturbed, CompletingUndisturbed DEF Step
<1>3. ASSUME NEW p \in Runs, Stop(p) PROVE FALSE
  <2>1. stops = 0 /\ stops' = 0
    BY <1>1 DEF Alone
  <2> QED BY <1>3, <2>1 DEF Stop
<1>4. CASE Edit
  <2>1. edits = 0 /\ edits' = 0
    BY <1>1 DEF Alone
  <2> QED BY <1>4, <2>1 DEF Edit
<1>5. CASE UNCHANGED vars
  <2>1. ASSUME NEW p \in Runs
        PROVE  Target(p)' = Target(p) /\ Dirty(p)' = Dirty(p) /\ Course(p, f)' = Course(p, f)
    BY <1>5, SameTarget DEF vars, Dirty, Course
  <2> QED BY <1>1, <1>5, <2>1 DEF vars, Undisturbed, OneText, TornIsOwned, Courses, Hope
<1> QED BY <1>1, <1>2, <1>3, <1>4, <1>5, StartUndisturbed DEF Next

LEMMA InitOneDelivers == Runs # {} /\ Init => OneDelivers
<1> SUFFICES ASSUME Runs # {}, Init, NEW f \in Flows PROVE Undisturbed(f)
  BY DEF OneDelivers
<1>1. \A r \in Refs : files[r] = Absent
  BY DEF Init
<1>2. \A p \in Runs : runs[p] = Idle
  BY DEF Init
<1>3. OneText(f)
  BY <1>1, FlowRefs DEF OneText
<1>4. TornIsOwned
  BY <1>1, Kinds DEF TornIsOwned
<1> QED BY <1>2, <1>3, <1>4 DEF Undisturbed, Courses, Hope

\* Executions of one request that race each other, in whatever order they create,
\* fill and compare its files, never all fail: where one gave up, another was
\* filling the file it met (execute, immutable_text_ref).
THEOREM SomeoneDeliversHolds ==
  ASSUME Runs # {}, NamesItsEvidence
  PROVE  Spec => []SomeoneDelivers
<1>1. Init => OneDelivers
  BY InitOneDelivers
<1>2. IInv /\ OneDelivers /\ [Next]_vars => OneDelivers'
  BY OneDeliversStep
<1>3. OneDelivers => SomeoneDelivers
  <2> SUFFICES ASSUME OneDelivers, NEW f \in Flows, stops = 0, edits = 0, inputs = f.digest,
                      \A p \in Runs : runs[p].pc \in Ended /\ runs[p].op = "execute"
                                      /\ runs[p].flow = f
               PROVE  \E p \in Runs : runs[p].pc = "done"
    BY DEF SomeoneDelivers
  <2>1. Hope
    BY DEF Alone, OneDelivers, Undisturbed
  <2> QED BY <2>1 DEF Hope, Ended, Active, Writing, Idle
<1> QED BY <1>1, <1>2, <1>3, Inductive, PTL DEF Spec

=============================================================================
