--------------------------- MODULE MoonflowAdapter ---------------------------
(***************************************************************************)
(* The project-plan adapter (integration/moonflow_adapter): processes that *)
(* execute or reconcile flow requests over one workspace.  Every run reads *)
(* its inputs, records an idempotency file and an intent, prepares the     *)
(* plan artifact and writes an internal result and then the delivered one. *)
(* Output files are immutable: created once, and from then on only         *)
(* compared.  Creation and content are two steps, runs stop anywhere, and  *)
(* the input files may be edited while a run is in progress.               *)
(***************************************************************************)
EXTENDS Naturals

CONSTANTS
  Runs,        \* process runs
  Flows,       \* the flow requests: [key, attempt, run, digest, result]
  Ops,         \* the commands in use, of {"execute", "reconcile"}
  Inputs,      \* states of the input artifacts: [request, evidence]
  EvidenceOf,  \* the evidence digest a plan request names
  MaxStops,    \* bounds runs that stop half way
  MaxEdits     \* bounds edits of the input artifacts

ASSUME FlowAssumption == \A f \in Flows : f.digest \in Inputs
ASSUME InputAssumption == \A i \in Inputs : i.request \in Nat \ {0}
ASSUME OpAssumption == Ops \subseteq {"execute", "reconcile"}
ASSUME BoundAssumption == MaxStops \in Nat /\ MaxEdits \in Nat

\* The plan request a flow is bound to names the evidence the flow is bound to:
\* without that no run of it gets past its evidence (load_bound_inputs).
NamesItsEvidence == \A f \in Flows : EvidenceOf[f.digest.request] = f.digest.evidence

VARIABLES
  files,   \* output files, by reference
  inputs,  \* the input artifacts as they are now
  runs,    \* what each run has read and where it is
  stops, edits

vars == <<files, inputs, runs, stops, edits>>

Requests == {i.request : i \in Inputs}

\* What prepare() computes from a request for an attempt.
Prepared(flow, request) ==
  [attempt |-> flow.attempt, digest |-> flow.digest, request |-> request]

\* begin_attempt's idempotency identity; the intent repeats the whole flow.
Identity(flow) ==
  [key |-> flow.key, run |-> flow.run, attempt |-> flow.attempt,
   digest |-> flow.digest]

\* result_json; the output digest stands for the artifact's text.
Receipt(flow, plan) ==
  [key |-> flow.key, run |-> flow.run, attempt |-> flow.attempt, output |-> plan]

IdemRef(flow)     == <<"idempotency", flow.key>>
IntentRef(flow)   == <<"intent", flow.attempt>>
ArtifactRef(flow) == <<"artifact", flow.attempt>>
InternalRef(flow) == <<"internal", flow.attempt>>
ResultRef(flow)   == <<"result", flow.result>>

Refs == UNION {{IdemRef(f), IntentRef(f), ArtifactRef(f), InternalRef(f),
                ResultRef(f)} : f \in Flows}

Absent  == [kind |-> "absent"]
Torn    == [kind |-> "torn"]
Text(v) == [kind |-> "text", value |-> v]

Plans    == {Prepared(f, r) : f \in Flows, r \in Requests}
Receipts == {Receipt(f, p) : f \in Flows, p \in Plans}

\* What each file may hold: a record of its own kind and owner.
Holdable(r, v) ==
  CASE r[1] = "idempotency" -> \E f \in Flows : v = Identity(f) /\ f.key = r[2]
    [] r[1] = "intent"      -> v \in Flows /\ v.attempt = r[2]
    [] r[1] = "artifact"    -> v \in Plans /\ v.attempt = r[2]
    [] r[1] = "internal"    -> v \in Receipts /\ v.attempt = r[2]
    [] r[1] = "result"      -> v \in Receipts

\* Where a run is: reading, writing one of its five files, or ended.
Writing == {"idempotency", "intent", "artifact", "internal", "result"}
Active  == {"digest", "request", "evidence", "match", "lookup", "build",
            "check", "validate"} \cup Writing
Ended   == {"done", "failed", "stopped"}

None == 0     \* no plan request read yet
Idle == [pc |-> "idle"]

TypeOK ==
  /\ DOMAIN files = Refs
  /\ \A r \in Refs :
       \/ files[r] \in {Absent, Torn}
       \/ files[r] = Text(files[r].value) /\ Holdable(r, files[r].value)
  /\ inputs \in Inputs
  /\ DOMAIN runs = Runs
  /\ \A p \in Runs :
       \/ runs[p] = Idle
       \/ runs[p] \in [pc : Active \cup Ended, op : Ops, flow : Flows,
                       request : Requests \cup {None}, dirty : BOOLEAN]
  /\ stops \in 0..MaxStops /\ edits \in 0..MaxEdits

Init ==
  /\ files = [r \in Refs |-> Absent]
  /\ inputs \in Inputs
  /\ runs = [p \in Runs |-> Idle]
  /\ stops = 0 /\ edits = 0

Flow(p) == runs[p].flow
Plan(p) == Prepared(Flow(p), runs[p].request)
Goto(p, pc) == runs' = [runs EXCEPT ![p].pc = pc, ![p].dirty = FALSE]

-----------------------------------------------------------------------------
(***************************************************************************)
(* Reading the inputs: load_bound_inputs.                                  *)
(***************************************************************************)

Start(p, op, flow) ==
  /\ runs[p] = Idle
  /\ runs' = [runs EXCEPT ![p] = [pc |-> "digest", op |-> op, flow |-> flow,
                                  request |-> None, dirty |-> FALSE]]
  /\ UNCHANGED <<files, inputs, stops, edits>>

\* declared_input_digest over the artifacts as they are.
CheckDigest(p) ==
  /\ runs[p].pc = "digest"
  /\ Goto(p, IF inputs = Flow(p).digest THEN "request" ELSE "failed")
  /\ UNCHANGED <<files, inputs, stops, edits>>

\* find_plan_request reads the artifacts again.
ReadRequest(p) ==
  /\ runs[p].pc = "request"
  /\ runs' = [runs EXCEPT ![p].request = inputs.request, ![p].pc = "evidence"]
  /\ UNCHANGED <<files, inputs, stops, edits>>

Fresh(p) == EvidenceOf[runs[p].request] = inputs.evidence

\* Fault: the attempt begins with its intent, without the idempotency record.
AfterEvidence_SkipKey(p) == IF runs[p].op = "reconcile" THEN "match" ELSE "intent"

AfterEvidence(p) == IF runs[p].op = "reconcile" THEN "match" ELSE "idempotency"

VerifyEvidence(p) ==
  /\ runs[p].pc = "evidence"
  /\ Goto(p, IF Fresh(p) THEN AfterEvidence(p) ELSE "failed")
  /\ UNCHANGED <<files, inputs, stops, edits>>

\* reconcile's intent must exist and be this request's.
MatchIntent(p) ==
  /\ runs[p].pc = "match"
  /\ Goto(p, IF files[IntentRef(Flow(p))] = Text(Flow(p))
             THEN "idempotency" ELSE "failed")
  /\ UNCHANGED <<files, inputs, stops, edits>>

-----------------------------------------------------------------------------
(***************************************************************************)
(* Immutable files.                                                        *)
(***************************************************************************)

Target(p) ==
  CASE runs[p].pc = "idempotency" -> IdemRef(Flow(p))
    [] runs[p].pc = "intent"      -> IntentRef(Flow(p))
    [] runs[p].pc = "artifact"    -> ArtifactRef(Flow(p))
    [] runs[p].pc = "internal"    -> InternalRef(Flow(p))
    [] runs[p].pc = "result"      -> ResultRef(Flow(p))

\* The result a run delivers is the one in the internal file once that exists.
Content(p) ==
  CASE runs[p].pc = "idempotency" -> Text(Identity(Flow(p)))
    [] runs[p].pc = "intent"      -> Text(Flow(p))
    [] runs[p].pc = "artifact"    -> Text(Plan(p))
    [] runs[p].pc = "internal"    -> Text(Receipt(Flow(p), Plan(p)))
    [] runs[p].pc = "result"      -> files[InternalRef(Flow(p))]

\* Fault: the plan is prepared without an intent.
AfterWrite_SkipIntent(p) ==
  CASE runs[p].pc = "idempotency" -> "lookup"
    [] runs[p].pc = "artifact"    -> "check"
    [] runs[p].pc = "internal"    -> "validate"
    [] runs[p].pc = "result"      -> "done"

AfterWrite(p) ==
  CASE runs[p].pc = "idempotency" -> "intent"
    [] runs[p].pc = "intent"      -> "lookup"
    [] runs[p].pc = "artifact"    -> "check"
    [] runs[p].pc = "internal"    -> "validate"
    [] runs[p].pc = "result"      -> "done"

\* The file is there and holds something else.
Conflicts(p) == files[Target(p)] \notin {Absent, Content(p)}

\* immutable_text_ref: an existing file must hold the same text ...
Compare(p) ==
  /\ runs[p].pc \in Writing /\ ~ runs[p].dirty
  /\ files[Target(p)] # Absent
  /\ Goto(p, IF Conflicts(p) THEN "failed" ELSE AfterWrite(p))
  /\ UNCHANGED <<files, inputs, stops, edits>>

\* ... an absent one is created ...
Create(p) ==
  /\ runs[p].pc \in Writing /\ ~ runs[p].dirty
  /\ files[Target(p)] = Absent
  /\ files' = [files EXCEPT ![Target(p)] = Torn]
  /\ runs' = [runs EXCEPT ![p].dirty = TRUE]
  /\ UNCHANGED <<inputs, stops, edits>>

\* ... and filled.
Fill(p) ==
  /\ runs[p].pc \in Writing /\ runs[p].dirty
  /\ files' = [files EXCEPT ![Target(p)] = Content(p)]
  /\ Goto(p, AfterWrite(p))
  /\ UNCHANGED <<inputs, stops, edits>>

-----------------------------------------------------------------------------
(***************************************************************************)
(* complete_attempt.                                                       *)
(***************************************************************************)

\* Fault: the internal result is read as if it were always there.
Lookup_Required(p) ==
  /\ runs[p].pc = "lookup"
  /\ LET file == files[InternalRef(Flow(p))]
     IN  Goto(p, IF file \in {Absent, Torn} THEN "failed" ELSE "validate")
  /\ UNCHANGED <<files, inputs, stops, edits>>

\* An optional file that is there but does not parse raises.
Lookup(p) ==
  /\ runs[p].pc = "lookup"
  /\ LET file == files[InternalRef(Flow(p))]
     IN  Goto(p, CASE file = Absent -> "build"
                   [] file = Torn   -> "failed"
                   [] OTHER         -> "validate")
  /\ UNCHANGED <<files, inputs, stops, edits>>

\* build_artifact prepares a plan unless one is there.
Build(p) ==
  /\ runs[p].pc = "build"
  /\ Goto(p, IF files[ArtifactRef(Flow(p))] = Absent THEN "artifact" ELSE "check")
  /\ UNCHANGED <<files, inputs, stops, edits>>

\* validate_artifact_evidence: the artifact is what this run's request
\* prepares ...
Reproduced(p) == files[ArtifactRef(Flow(p))] = Text(Plan(p))

\* ... and its source evidence has not changed.
Check(p) ==
  /\ runs[p].pc = "check"
  /\ Goto(p, IF Reproduced(p) /\ Fresh(p) THEN "internal" ELSE "failed")
  /\ UNCHANGED <<files, inputs, stops, edits>>

\* validate_result: the result is this request's and its digest is the
\* artifact's, which is checked again.
Validate(p) ==
  /\ runs[p].pc = "validate"
  /\ LET result == files[InternalRef(Flow(p))].value
     IN  Goto(p, IF /\ result = Receipt(Flow(p), result.output)
                    /\ files[ArtifactRef(Flow(p))] = Text(result.output)
                    /\ Reproduced(p) /\ Fresh(p)
                 THEN "result" ELSE "failed")
  /\ UNCHANGED <<files, inputs, stops, edits>>

-----------------------------------------------------------------------------
\* The process stops, or a write fails after the file was created.
Stop(p) ==
  /\ runs[p].pc \in Active
  /\ stops < MaxStops
  /\ Goto(p, "stopped")
  /\ stops' = stops + 1
  /\ UNCHANGED <<files, inputs, edits>>

\* Somebody edits the input artifacts.
Edit ==
  /\ edits < MaxEdits
  /\ \E i \in Inputs \ {inputs} : inputs' = i
  /\ edits' = edits + 1
  /\ UNCHANGED <<files, runs, stops>>

Step(p) ==
  \/ CheckDigest(p) \/ ReadRequest(p) \/ VerifyEvidence(p) \/ MatchIntent(p)
  \/ Compare(p) \/ Create(p) \/ Fill(p)
  \/ Lookup(p) \/ Build(p) \/ Check(p) \/ Validate(p)

Next ==
  \/ \E p \in Runs : \/ \E op \in Ops, flow \in Flows : Start(p, op, flow)
                     \/ Step(p)
                     \/ Stop(p)
  \/ Edit

Spec == Init /\ [][Next]_vars

-----------------------------------------------------------------------------
(***************************************************************************)
(* Properties.                                                             *)
(***************************************************************************)

\* Output files are immutable: no run removes one, changes a written one or
\* takes over one another run created, whatever the runs and the stops.
Immutable ==
  [][\A r \in Refs :
       /\ files[r].kind = "text" => files'[r] = files[r]
       /\ files[r] = Torn /\ files'[r] # Torn =>
            \E p \in Runs : runs[p].pc \in Writing /\ runs[p].dirty
                            /\ Target(p) = r]_vars

Delivered == {r \in Refs : r[1] = "result" /\ files[r].kind = "text"}

\* "Duplicate idempotency keys fail closed": whatever is delivered for one key,
\* wherever and however often, is one and the same result.
OneResultPerKey ==
  \A r, s \in Delivered :
    files[r].value.key = files[s].value.key => files[r] = files[s]

\* A delivered result is backed by every record before it: idempotency
\* identity, intent, internal result and the very plan it names.
DeliveredIsBacked ==
  \A r \in Delivered :
    LET result == files[r].value
    IN  \E f \in Flows :
          /\ f.key = result.key /\ f.attempt = result.attempt
          /\ result.output.digest = f.digest
          /\ files[IdemRef(f)] = Text(Identity(f))
          /\ files[IntentRef(f)].kind = "text"
          /\ files[ArtifactRef(f)] = Text(result.output)
          /\ files[InternalRef(f)] = files[r]

\* "The adapter records intent before calculation": no plan without the intent
\* and the idempotency identity of the request it was prepared for.
IntentFirst ==
  \A f \in Flows : files[ArtifactRef(f)].kind = "text" =>
    \E g \in Flows :
      /\ g.attempt = f.attempt
      /\ files[IntentRef(f)] = Text(g)
      /\ files[IdemRef(g)] = Text(Identity(g))
      /\ files[ArtifactRef(f)].value.digest = g.digest

\* Reconciling never begins an attempt: only execute creates intents.
ReconcileBeginsNothing ==
  [][\A p \in Runs :
       runs[p] # Idle /\ runs[p].op = "reconcile" /\ runs'[p] # runs[p] =>
         \A f \in Flows :
           files[IntentRef(f)] = Absent => files'[IntentRef(f)] = Absent]_vars

\* Runs of one request that race each other may fail one another, but not all
\* of them: unless one stops or the inputs change, the plan is delivered by the
\* time they have all ended.
SomeoneDelivers ==
  \A f \in Flows :
    (/\ stops = 0 /\ edits = 0 /\ inputs = f.digest
     /\ \A p \in Runs :
          runs[p].pc \in Ended /\ runs[p].op = "execute" /\ runs[p].flow = f)
    => \E p \in Runs : runs[p].pc = "done"

\* The trail of an attempt is complete: a file is what its place holds, no plan
\* stands without its intent, no result without its plan (execute, reconcile).
TrailComplete == TypeOK /\ IntentFirst /\ DeliveredIsBacked

=============================================================================
