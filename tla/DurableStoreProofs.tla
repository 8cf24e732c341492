--------------------------- MODULE DurableStoreProofs ---------------------------
(***************************************************************************)
(* Proofs about the durable store, for any records, batches and number of  *)
(* crashes and failed writes.  The argument: every snapshot that reaches   *)
(* the live or the pending file extends the value the process held, and    *)
(* that value extends everything acknowledged (Extends); so whichever of   *)
(* the two files still parses, nothing acknowledged is missing from it.    *)
(***************************************************************************)
EXTENDS DurableStore, TLAPS

\* A snapshot on either file, and the value in memory, hold what was
\* acknowledged; with neither file there is nothing to hold.
Kept ==
  /\ mem.kind = "open" => acked \subseteq mem.store.records
  /\ \A p \in {"live", "pending"} :
       files[p].kind = "snapshot" => acked \subseteq files[p].store.records
  /\ files["live"] = NoFile /\ files["pending"] = NoFile => acked = {}

\* The same of the file operation in progress, and how far it got.
Extends ==
  /\ job.op \in {"transact", "remove"} =>
       mem.kind = "open" /\ acked \subseteq job.store.records
  /\ job.op = "remove" \/ (job.op = "transact" /\ job.path = "live")
       => files["pending"] = File(job.store)
  /\ job.op = "remove" => files["live"] = File(job.store)
  /\ job.op = "restore" =>
       mem = Closed /\ (job.dirty => acked \subseteq job.store.records)

IInv == TypeOK /\ Kept /\ Extends

-----------------------------------------------------------------------------
\* Appending an acceptable batch to a store yields a store that extends it.
LEMMA AppendType ==
  ASSUME NEW s \in Stores, NEW batch \in Batches, Appendable(s, batch)
  PROVE  /\ AppendBatch(s, batch) \in Stores
         /\ s.records \subseteq AppendBatch(s, batch).records
<1>1. batch \subseteq Records
  BY BatchAssumption
<1>. QED BY <1>1 DEF AppendBatch, Appendable, Stores

\* An empty store is a store.
LEMMA EmptyType == ASSUME NEW v \in Schemas PROVE EmptyStore(v) \in Stores
BY SchemasAssumption DEF EmptyStore, Stores, Unambiguous

LEMMA InitIInv == Init => IInv
<1>. SUFFICES ASSUME Init PROVE IInv
  OBVIOUS
<1>1. PICK s \in {NoFile} \cup {File(EmptyStore(v)) : v \in Schemas} :
        files = [p \in Paths |-> IF p = "live" THEN s ELSE NoFile]
  BY DEF Init
<1>2. s \in Files
  BY EmptyType DEF File, Files
<1>3. TypeOK
  BY <1>1, <1>2, FaultAssumption DEF Init, TypeOK, Files, Jobs
<1>4. Kept /\ Extends
  BY <1>1 DEF Init, Kept, Extends, Closed, Idle
<1>. QED BY <1>3, <1>4 DEF IInv

LEMMA OpenKeeps == ASSUME IInv, Open PROVE IInv'
<1>1. mem' \in [kind : {"open"}, store : Stores]
  <2>1. CASE files[Chosen].kind = "snapshot" /\ mem' = Opened(files[Chosen].store)
    BY <2>1 DEF IInv, TypeOK, Files, Chosen, Paths, NoFile, Torn, Opened
  <2>2. CASE \E v \in Schemas : mem' = Opened(EmptyStore(v))
    BY <2>2, EmptyType DEF Opened
  <2>. QED BY <2>1, <2>2 DEF Open
<1>2. acked \subseteq mem'.store.records
  BY DEF Open, IInv, Kept, Chosen, Opened, TypeOK, Files, NoFile
<1>. QED BY <1>1, <1>2 DEF Open, IInv, TypeOK, Kept, Extends, Idle

LEMMA TransactKeeps ==
  ASSUME IInv, NEW batch \in Batches, Transact(batch) PROVE IInv'
<1>. DEFINE s == AppendBatch(mem.store, batch)
<1>1. mem.store \in Stores
  BY DEF Transact, IInv, TypeOK, Closed
<1>2. s \in Stores /\ mem.store.records \subseteq s.records
  BY <1>1, AppendType DEF Transact
<1>. HIDE DEF s
<1>3. job' = Writing("transact", "pending", s, FALSE)
  BY DEF Transact, s
<1>4. job' \in Jobs
  BY <1>2, <1>3 DEF Writing, Jobs
<1>. QED BY <1>2, <1>3, <1>4 DEF Transact, IInv, TypeOK, Kept, Extends, Writing

LEMMA BackupKeeps == ASSUME IInv, Backup \/ Restore PROVE IInv'
<1>1. job' \in Jobs
  <2>1. \A p \in Paths : files[p].kind = "snapshot" => files[p].store \in Stores
    BY DEF IInv, TypeOK, Files, NoFile, Torn
  <2>2. \A s \in Stores : /\ Writing("backup", "backup", s, FALSE) \in Jobs
                         /\ Writing("restore", "live", s, FALSE) \in Jobs
    BY DEF Writing, Jobs
  <2>. QED BY <2>1, <2>2 DEF Backup, Restore, Paths
<1>. QED BY <1>1 DEF Backup, Restore, IInv, TypeOK, Kept, Extends, Writing

LEMMA TruncateKeeps == ASSUME IInv, Truncate PROVE IInv'
<1>1. job.path \in Paths /\ job' \in Jobs /\ job'.op = job.op /\ job'.path = job.path
      /\ job'.store = job.store /\ job'.dirty
  <2>1. job \in Jobs /\ job' = [job EXCEPT !.dirty = TRUE]
    BY DEF Truncate, IInv, TypeOK
  <2>2. CASE job.op = "transact"
    <3>1. job \in [op : {"transact"}, path : {"live", "pending"}, store : Stores,
                   dirty : BOOLEAN]
      BY <2>1, <2>2 DEF Jobs, Idle
    <3>2. job' \in [op : {"transact"}, path : {"live", "pending"}, store : Stores,
                    dirty : BOOLEAN]
      BY <2>1, <3>1
    <3>. QED BY <2>1, <3>1, <3>2 DEF Jobs, Paths
  <2>3. CASE job.op = "backup"
    <3>1. job \in [op : {"backup"}, path : {"backup"}, store : Stores, dirty : BOOLEAN]
      BY <2>1, <2>3 DEF Jobs, Idle
    <3>2. job' \in [op : {"backup"}, path : {"backup"}, store : Stores, dirty : BOOLEAN]
      BY <2>1, <3>1
    <3>. QED BY <2>1, <3>1, <3>2 DEF Jobs, Paths
  <2>4. CASE job.op = "restore"
    <3>1. job \in [op : {"restore"}, path : {"live"}, store : Stores, dirty : BOOLEAN]
      BY <2>1, <2>4 DEF Jobs, Idle
    <3>2. job' \in [op : {"restore"}, path : {"live"}, store : Stores, dirty : BOOLEAN]
      BY <2>1, <3>1
    <3>. QED BY <2>1, <3>1, <3>2 DEF Jobs, Paths
  <2>. QED BY <2>2, <2>3, <2>4 DEF Truncate, IsWriting
<1>2. acked' \subseteq acked /\ (job.op = "restore" => acked' \subseteq job.store.records)
      /\ (job.op # "restore" => acked' = acked)
  BY DEF Truncate
<1>3. job.path = "pending" => job.op = "transact"
  BY DEF Truncate, IsWriting, IInv, TypeOK, Jobs, Idle
<1>4. TypeOK'
  BY <1>1, <1>2 DEF Truncate, IInv, TypeOK, Files
<1>5. Kept'
  BY <1>1, <1>2 DEF Truncate, IInv, TypeOK, Kept, Torn, NoFile, Paths
<1>6. Extends'
  BY <1>1, <1>2, <1>3 DEF Truncate, IsWriting, IInv, TypeOK, Extends, Paths
<1>. QED BY <1>4, <1>5, <1>6 DEF IInv

LEMMA FillKeeps == ASSUME IInv, Fill PROVE IInv'
<1>1. job.path \in Paths /\ job.store \in Stores
  BY DEF Fill, IsWriting, IInv, TypeOK, Jobs, Paths, Idle
<1>2. job' \in Jobs
  BY <1>1 DEF Fill, AfterFill, Jobs, Writing, Removing
<1>3. TypeOK'
  BY <1>1, <1>2 DEF Fill, IInv, TypeOK, Files, File
<1>4. Kept'
  <2>1. job.op # "backup" => acked \subseteq job.store.records
    BY DEF Fill, IsWriting, IInv, Extends
  <2>2. job.op = "backup" => job.path = "backup"
    BY DEF Fill, IInv, TypeOK, Jobs, Idle
  <2>. QED BY <1>1, <2>1, <2>2 DEF Fill, IInv, TypeOK, Kept, File, NoFile, Paths
<1>5. Extends'
  <2>1. CASE job.op = "transact" /\ job.path = "pending"
    <3>1. job' = Writing("transact", "live", job.store, FALSE)
      BY <2>1 DEF Fill, AfterFill
    <3>2. files'["pending"] = File(job.store)
      BY <2>1 DEF Fill, IInv, TypeOK, Paths
    <3>. QED BY <2>1, <3>1, <3>2 DEF Fill, IInv, Extends, Writing
  <2>2. CASE job.op = "transact" /\ job.path = "live"
    <3>1. job' = Removing(job.store)
      BY <2>2 DEF Fill, AfterFill
    <3>2. files'["pending"] = File(job.store) /\ files'["live"] = File(job.store)
      BY <2>2 DEF Fill, IInv, TypeOK, Extends, Paths
    <3>. QED BY <2>2, <3>1, <3>2 DEF Fill, IInv, Extends, Removing
  <2>3. CASE job.op # "transact"
    BY <2>3 DEF Fill, AfterFill, Extends, Idle
  <2>4. job.path \in {"live", "pending"} \/ job.op # "transact"
    BY DEF Fill, IInv, TypeOK, Jobs, Idle
  <2>. QED BY <2>1, <2>2, <2>3, <2>4
<1>. QED BY <1>3, <1>4, <1>5 DEF IInv

LEMMA RemoveKeeps == ASSUME IInv, Remove PROVE IInv'
<1>1. job.store \in Stores
  BY DEF Remove, IInv, TypeOK, Jobs, Idle
<1>2. files["live"] = File(job.store) /\ acked \subseteq job.store.records
  BY DEF Remove, IInv, Extends
<1>3. TypeOK'
  BY <1>1 DEF Remove, IInv, TypeOK, Files, Opened, Stores, Jobs
<1>4. Kept'
  BY <1>1, <1>2 DEF Remove, IInv, TypeOK, Kept, Opened, File, NoFile, Paths
<1>5. Extends'
  BY DEF Remove, Extends, Idle
<1>. QED BY <1>3, <1>4, <1>5 DEF IInv

LEMMA NextKeeps == IInv /\ [Next]_vars => IInv'
<1>. SUFFICES ASSUME IInv, [Next]_vars PROVE IInv'
  OBVIOUS
<1>1. CASE UNCHANGED vars
  BY <1>1 DEF vars, IInv, TypeOK, Kept, Extends
<1>2. CASE FileIo \/ Crash
  <2>1. faults' \in 0..MaxFaults
    BY <1>2, FaultAssumption DEF FileIo, Crash, IInv, TypeOK
  <2>. QED BY <1>2, <2>1 DEF FileIo, Crash, IInv, TypeOK, Kept, Extends, Jobs, Idle, Closed
<1>3. CASE Exit
  BY <1>3 DEF Exit, IInv, TypeOK, Kept, Extends, Closed, Idle
<1>. QED BY <1>1, <1>2, <1>3, OpenKeeps, TransactKeeps, BackupKeeps, TruncateKeeps,
            FillKeeps, RemoveKeeps DEF Next

-----------------------------------------------------------------------------
\* The inductive invariant holds of every behaviour.
THEOREM InvariantHolds == Spec => []IInv
BY InitIInv, NextKeeps, PTL DEF Spec

\* Files, memory and the operation in progress hold well-formed stores only.
THEOREM TypeCorrect == Spec => []TypeOK
<1>1. IInv => TypeOK
  BY DEF IInv
<1>. QED BY <1>1, InvariantHolds, PTL

\* However often it crashes or a write fails, a store that opens holds every
\* acknowledged record.
THEOREM NoSilentLossHolds == Spec => []NoSilentLoss
<1>1. IInv => NoSilentLoss
  BY DEF IInv, Kept, NoSilentLoss, Holds, Chosen
<1>. QED BY <1>1, InvariantHolds, PTL

\* Once the pending file is complete, reopening yields the candidate.
THEOREM CommitPointHolds == Spec => []CommitPoint
<1>1. IInv => CommitPoint
  BY DEF IInv, Extends, CommitPoint, Chosen, File, NoFile
<1>. QED BY <1>1, InvariantHolds, PTL

-----------------------------------------------------------------------------
(***************************************************************************)
(* What survives.  Before the first fault only a write of the live file    *)
(* leaves it torn, and then the pending file or the backup has it all; so  *)
(* a first fault, and a process that ends after it, leaves a file that     *)
(* holds what was acknowledged (Spared).  And no step stores a part of a   *)
(* batch (Unsplit).                                                        *)
(***************************************************************************)

\* A file has it all.
OnFile == acked = {} \/ \E p \in Paths : Holds(files[p], acked)

Spared ==
  /\ faults = 0 =>
       \/ files["live"].kind = "snapshot"
       \/ files["live"] = NoFile /\ acked = {}
       \/ job.op \in {"transact", "restore"} /\ job.path = "live" /\ job.dirty
  /\ job.op = "backup" => files["live"].kind = "snapshot"
  /\ job.op = "restore" => files["backup"] = File(job.store)
  /\ faults = 0 \/ (faults = 1 /\ job.op \notin {"transact", "remove"}) => OnFile

LEMMA InitSpared == Init => Spared
<1>. SUFFICES ASSUME Init PROVE Spared
  OBVIOUS
<1>1. PICK s \in {NoFile} \cup {File(EmptyStore(v)) : v \in Schemas} :
        files = [p \in Paths |-> IF p = "live" THEN s ELSE NoFile]
  BY DEF Init
<1>2. files["live"].kind = "snapshot" \/ files["live"] = NoFile
  BY <1>1 DEF Paths, File
<1>. QED BY <1>2 DEF Init, Spared, OnFile, Idle

\* What a job is about.
LEMMA JobKinds ==
  ASSUME TypeOK
  PROVE  /\ job.op \in {"idle", "remove", "transact", "backup", "restore"}
         /\ job.op = "idle" => job = Idle
         /\ job.op = "transact" => job.path \in {"live", "pending"}
         /\ job.op = "backup" => job.path = "backup"
         /\ job.op = "restore" => job.path = "live"
BY DEF TypeOK, Jobs, Idle

LEMMA TruncateSpares == ASSUME IInv, Spared, Truncate PROVE Spared'
<1>1. /\ job'.op = job.op /\ job'.path = job.path /\ job'.store = job.store /\ job'.dirty
      /\ job.path \in Paths
  <2>1. PICK op, path, store, dirty : job = Writing(op, path, store, dirty)
    BY DEF Truncate, IsWriting, IInv, TypeOK, Jobs, Idle, Writing
  <2>2. job' = [job EXCEPT !.dirty = TRUE]
    BY DEF Truncate
  <2>3. job.path \in Paths
    BY JobKinds DEF Truncate, IsWriting, IInv, Paths
  <2>. QED BY <2>1, <2>2, <2>3 DEF Writing
<1>2. /\ files'[job.path] = Torn /\ faults' = faults
      /\ \A p \in Paths \ {job.path} : files'[p] = files[p]
  BY <1>1 DEF Truncate, IInv, TypeOK
<1>3. CASE job.op = "transact"
  <2>1. acked' = acked /\ job.path \in {"live", "pending"}
    BY <1>3, JobKinds DEF Truncate, IInv
  <2>2. CASE job.path = "live"
    <3>1. files'["pending"] = File(job.store) /\ acked' \subseteq job.store.records
      BY <1>2, <1>3, <2>1, <2>2 DEF IInv, Extends, Paths
    <3>2. Holds(files'["pending"], acked')
      BY <3>1 DEF Holds, File
    <3>. QED BY <1>1, <1>2, <1>3, <2>2, <3>2 DEF Spared, OnFile, Paths
  <2>3. CASE job.path = "pending"
    <3>1. files'["live"] = files["live"]
      BY <1>2, <2>3 DEF Paths
    <3>2. faults = 0 => \/ files["live"].kind = "snapshot"
                        \/ files["live"] = NoFile /\ acked = {}
      BY <1>3, <2>3 DEF Spared
    <3>3. faults = 0 => acked' = {} \/ Holds(files'["live"], acked')
      BY <2>1, <3>1, <3>2 DEF Holds, IInv, Kept
    <3>. QED BY <1>1, <1>2, <1>3, <2>1, <3>1, <3>2, <3>3 DEF Spared, OnFile, Paths
  <2>. QED BY <2>1, <2>2, <2>3
<1>4. CASE job.op = "backup"
  <2>1. acked' = acked /\ job.path = "backup"
    BY <1>4, JobKinds DEF Truncate, IInv
  <2>2. files'["live"] = files["live"] /\ files["live"].kind = "snapshot"
    BY <1>2, <1>4, <2>1 DEF Paths, Spared
  <2>3. Holds(files'["live"], acked')
    BY <2>1, <2>2 DEF Holds, IInv, Kept
  <2>. QED BY <1>1, <1>4, <2>2, <2>3 DEF Spared, OnFile, Paths
<1>5. CASE job.op = "restore"
  <2>1. acked' = acked \cap job.store.records /\ job.path = "live"
    BY <1>5, JobKinds DEF Truncate, IInv
  <2>2. files'["backup"] = File(job.store)
    BY <1>2, <1>5, <2>1 DEF Paths, Spared
  <2>3. Holds(files'["backup"], acked')
    BY <2>1, <2>2 DEF Holds, File
  <2>. QED BY <1>1, <1>5, <2>1, <2>2, <2>3 DEF Spared, OnFile, Paths
<1>. QED BY <1>3, <1>4, <1>5 DEF Truncate, IsWriting

LEMMA FillSpares == ASSUME IInv, Spared, Fill PROVE Spared'
<1>1. job.path \in Paths /\ acked' = acked /\ faults' = faults
      /\ files'[job.path] = File(job.store)
      /\ \A p \in Paths \ {job.path} : files'[p] = files[p]
  BY JobKinds DEF Fill, IsWriting, IInv, TypeOK, Paths
<1>2. CASE job.op = "transact"
  <2>1. Holds(files'[job.path], acked')
    BY <1>1, <1>2 DEF Holds, File, IInv, Extends
  <2>2. job'.op \in {"transact", "remove"}
    BY <1>2 DEF Fill, AfterFill, Writing, Removing
  <2>3. CASE job.path = "live"
    BY <1>1, <2>1, <2>2, <2>3 DEF Spared, OnFile, Holds
  <2>4. CASE job.path = "pending"
    <3>1. files'["live"] = files["live"]
      BY <1>1, <2>4 DEF Paths
    <3>. QED BY <1>1, <2>1, <2>2, <2>4, <3>1 DEF Spared, OnFile
  <2>. QED BY <1>2, <2>3, <2>4, JobKinds DEF IInv
<1>3. CASE job.op = "backup"
  <2>1. job' = Idle /\ job.path = "backup"
    BY <1>3, JobKinds DEF Fill, AfterFill, IInv
  <2>2. files'["live"] = files["live"] /\ files["live"].kind = "snapshot"
    BY <1>1, <1>3, <2>1 DEF Paths, Spared
  <2>3. Holds(files'["live"], acked')
    BY <1>1, <2>2 DEF Holds, IInv, Kept
  <2>. QED BY <2>1, <2>2, <2>3 DEF Spared, OnFile, Paths, Idle
<1>4. CASE job.op = "restore"
  <2>1. job' = Idle /\ job.path = "live" /\ acked \subseteq job.store.records
    BY <1>4, JobKinds DEF Fill, AfterFill, IInv, Extends
  <2>2. Holds(files'["live"], acked')
    BY <1>1, <2>1 DEF Holds, File
  <2>. QED BY <2>1, <2>2 DEF Spared, OnFile, Paths, Idle, Holds
<1>. QED BY <1>2, <1>3, <1>4 DEF Fill, IsWriting

LEMMA RemoveSpares == ASSUME IInv, Spared, Remove PROVE Spared'
<1>1. files'["live"] = File(job.store) /\ acked \subseteq job.store.records /\ job' = Idle
      /\ acked' = acked \cup job.store.records /\ faults' = faults
  BY DEF Remove, IInv, TypeOK, Extends, Paths
<1>2. Holds(files'["live"], acked') /\ files'["live"].kind = "snapshot"
  BY <1>1 DEF Holds, File
<1>. QED BY <1>1, <1>2 DEF Spared, OnFile, Paths, Idle

LEMMA NextSpares == IInv /\ Spared /\ [Next]_vars => Spared'
<1>. SUFFICES ASSUME IInv, Spared, [Next]_vars PROVE Spared'
  OBVIOUS
<1>1. CASE UNCHANGED vars
  BY <1>1 DEF vars, Spared, OnFile
<1>2. CASE FileIo \/ Crash
  <2>1. faults' = faults + 1 /\ job' = Idle /\ UNCHANGED <<files, acked>> /\ faults \in Nat
    BY <1>2, FaultAssumption DEF FileIo, Crash, IInv, TypeOK
  <2>2. faults' = 1 => OnFile
    BY <2>1 DEF Spared
  <2>. QED BY <2>1, <2>2 DEF Spared, OnFile, Idle
<1>3. CASE Open \/ Exit
  BY <1>3 DEF Open, Exit, Spared, OnFile
<1>4. ASSUME NEW batch \in Batches, Transact(batch) PROVE Spared'
  BY <1>4 DEF Transact, Spared, OnFile, Writing, Idle
<1>5. CASE Backup
  BY <1>5 DEF Backup, Spared, OnFile, Writing, Idle
<1>6. CASE Restore
  <2>1. files["backup"] = File(files["backup"].store)
    BY <1>6 DEF Restore, IInv, TypeOK, Files, Paths, File, NoFile, Torn
  <2>. QED BY <1>6, <2>1 DEF Restore, Spared, OnFile, Writing, Idle
<1>. QED BY <1>1, <1>2, <1>3, <1>4, <1>5, <1>6, TruncateSpares, FillSpares, RemoveSpares DEF Next

-----------------------------------------------------------------------------
Whole(s) == \A batch \in Batches : batch \cap s.records \in {{}, batch}

Unsplit ==
  /\ mem.kind = "open" => Whole(mem.store)
  /\ \A p \in Paths : files[p].kind = "snapshot" => Whole(files[p].store)
  /\ job # Idle => Whole(job.store)

LEMMA AppendWhole ==
  ASSUME Separate, NEW s \in Stores, NEW batch \in Batches, Whole(s)
  PROVE  Whole(AppendBatch(s, batch))
<1>1. AppendBatch(s, batch).records = s.records \cup batch
  BY DEF AppendBatch, Stores
<1>2. ASSUME NEW c \in Batches PROVE c \cap (s.records \cup batch) \in {{}, c}
  BY DEF Separate, Whole
<1>. QED BY <1>1, <1>2 DEF Whole

LEMMA EmptyWhole == ASSUME NEW v PROVE Whole(EmptyStore(v))
BY DEF Whole, EmptyStore

LEMMA InitUnsplit == Init => Unsplit
<1>. SUFFICES ASSUME Init PROVE Unsplit
  OBVIOUS
<1>1. PICK s \in {NoFile} \cup {File(EmptyStore(v)) : v \in Schemas} :
        files = [p \in Paths |-> IF p = "live" THEN s ELSE NoFile]
  BY DEF Init
<1>2. \A p \in Paths : files[p].kind = "snapshot" => Whole(files[p].store)
  BY <1>1, EmptyWhole DEF File, NoFile
<1>. QED BY <1>2 DEF Init, Unsplit, Closed

LEMMA NextUnsplit == Separate /\ IInv /\ Unsplit /\ [Next]_vars => Unsplit'
<1>. SUFFICES ASSUME Separate, IInv, Unsplit, [Next]_vars PROVE Unsplit'
  OBVIOUS
<1>1. CASE UNCHANGED vars
  BY <1>1 DEF vars, Unsplit
<1>2. CASE FileIo \/ Crash \/ Exit
  BY <1>2 DEF FileIo, Crash, Exit, Unsplit, Closed
<1>3. CASE Open
  <2>1. Chosen \in Paths
    BY DEF Chosen, Paths
  <2>2. mem'.kind = "open" => Whole(mem'.store)
    BY <1>3, <2>1, EmptyWhole DEF Open, Opened, Unsplit
  <2>. QED BY <1>3, <2>2 DEF Open, Unsplit
<1>4. ASSUME NEW batch \in Batches, Transact(batch) PROVE Unsplit'
  <2>1. mem.store \in Stores /\ Whole(mem.store)
    BY <1>4 DEF Transact, IInv, TypeOK, Closed, Unsplit
  <2>2. PICK s : s = AppendBatch(mem.store, batch)
    OBVIOUS
  <2>3. Whole(s)
    BY <2>1, <2>2, AppendWhole
  <2>4. job'.store = s
    BY <1>4, <2>2 DEF Transact, Writing
  <2>. QED BY <1>4, <2>3, <2>4 DEF Transact, Unsplit
<1>5. CASE Backup \/ Restore
  BY <1>5 DEF Backup, Restore, Unsplit, Writing, Paths
<1>6. CASE Truncate
  <2>1. job # Idle /\ job'.store = job.store
    <3>1. PICK op, path, store, dirty : job = Writing(op, path, store, dirty)
      BY <1>6 DEF Truncate, IsWriting, IInv, TypeOK, Jobs, Idle, Writing
    <3>. QED BY <1>6, <3>1 DEF Truncate, IsWriting, Writing, Idle
  <2>2. \A p \in Paths : files'[p] \in {files[p], Torn}
    BY <1>6 DEF Truncate, IInv, TypeOK
  <2>. QED BY <1>6, <2>1, <2>2 DEF Truncate, Unsplit, Torn
<1>7. CASE Fill
  <2>1. job # Idle /\ (job' # Idle => job'.store = job.store)
    BY <1>7 DEF Fill, IsWriting, AfterFill, Writing, Removing, Idle
  <2>2. \A p \in Paths : files'[p] \in {files[p], File(job.store)}
    BY <1>7 DEF Fill, IInv, TypeOK
  <2>. QED BY <1>7, <2>1, <2>2 DEF Fill, Unsplit, File
<1>8. CASE Remove
  <2>1. job # Idle /\ job' = Idle /\ mem' = Opened(job.store)
    BY <1>8 DEF Remove, Idle
  <2>2. \A p \in Paths : files'[p] \in {files[p], NoFile}
    BY <1>8 DEF Remove, IInv, TypeOK
  <2>. QED BY <2>1, <2>2 DEF Unsplit, Opened, NoFile
<1>. QED BY <1>1, <1>2, <1>3, <1>4, <1>5, <1>6, <1>7, <1>8 DEF Next

\* One crash or failed write never takes the last copy of what was
\* acknowledged, and no number of them splits a batch, where the batches of
\* different transactions have no record in common (transact, backup_to,
\* restore_from).
THEOREM DataSurvivesHolds == Separate => (Spec => []DataSurvives)
<1>1. Init => IInv /\ Spared /\ Unsplit
  BY InitIInv, InitSpared, InitUnsplit
<1>2. Separate /\ IInv /\ Spared /\ Unsplit /\ [Next]_vars => (IInv /\ Spared /\ Unsplit)'
  BY NextKeeps, NextSpares, NextUnsplit
<1>3. IInv /\ Spared /\ Unsplit => DataSurvives
  <2>. SUFFICES ASSUME IInv, Spared, Unsplit PROVE DataSurvives
    OBVIOUS
  <2>1. OneFaultLosesNothing
    <3>1. ASSUME faults <= 1, mem.kind # "open" PROVE OnFile
      <4>1. faults \in {0, 1}
        BY <3>1, FaultAssumption DEF IInv, TypeOK
      <4>2. job.op \notin {"transact", "remove"}
        BY <3>1 DEF IInv, Extends
      <4>. QED BY <4>1, <4>2 DEF Spared
    <3>. QED BY <3>1 DEF OneFaultLosesNothing, OnFile, IInv, Kept
  <2>2. BatchesWhole
    BY DEF Unsplit, BatchesWhole, Whole
  <2>. QED BY <2>1, <2>2 DEF DataSurvives
<1>. QED
  <2>. SUFFICES ASSUME Separate PROVE Spec => []DataSurvives
    OBVIOUS
  <2>1. IInv /\ Spared /\ Unsplit /\ [Next]_vars => (IInv /\ Spared /\ Unsplit)'
    BY <1>2
  <2>. QED BY <1>1, <1>3, <2>1, PTL DEF Spec

=============================================================================
