------------------------------ MODULE DurableStore ------------------------------
(***************************************************************************)
(* The file-backed record store (persistence/store/durable.mbt) with its   *)
(* backup and restore functions (file.mbt).  A transaction writes the      *)
(* whole candidate store to <path>.pending, then to <path>, then removes   *)
(* the pending file; opening prefers a pending file.  A write truncates    *)
(* its file before filling it, so a crash or an error in between leaves a  *)
(* torn file that no longer parses.  One process at a time uses the path,  *)
(* and a backup is restored while the store is closed.                     *)
(***************************************************************************)
EXTENDS Naturals

CONSTANTS
  Records,    \* the records a caller may append
  IdOf,       \* (record_type, record_id) of a record
  SourceOf,   \* source_id of a record
  SchemaOf,   \* schema_version of a record
  Batches,    \* the batches callers may append
  Schemas,    \* the schema versions a process may open the store with
  MaxFaults   \* bounds crashes and failed file operations

ASSUME SchemaAssumption == SchemaOf \in [Records -> Nat \ {0}]
ASSUME BatchAssumption == Batches \subseteq SUBSET Records
ASSUME SchemasAssumption == Schemas \subseteq Nat
ASSUME FaultAssumption == MaxFaults \in Nat

\* The batches of different transactions have no record in common.
Separate == \A b, c \in Batches : b = c \/ b \cap c = {}

-----------------------------------------------------------------------------
(***************************************************************************)
(* The persistence-neutral store value (store.mbt, batch.mbt): a schema    *)
(* version and an append-only collection of records, unique by identity    *)
(* and by source.  The value is immutable; a failed append changes         *)
(* nothing.                                                                *)
(***************************************************************************)
\* No two records of the set share an identity or a source.
Unambiguous(set) ==
  \A r, s \in set : IdOf[r] = IdOf[s] \/ SourceOf[r] = SourceOf[s] => r = s

\* RecordStore: what the constructors and from_snapshot let through.
Stores ==
  {s \in [schema : Nat, records : SUBSET Records] :
     /\ Unambiguous(s.records)
     /\ \A r \in s.records : SchemaOf[r] <= s.schema}

EmptyStore(version) == [schema |-> version, records |-> {}]

\* append_batch succeeds: the batch is not empty, and each record is known to
\* the schema and new in identity and source.
Appendable(s, batch) ==
  /\ batch # {}
  /\ batch \cap s.records = {}
  /\ Unambiguous(s.records \cup batch)
  /\ \A r \in batch : SchemaOf[r] <= s.schema

\* Fault: records of another schema version are skipped instead of appended.
AppendBatch_Filters(s, batch) ==
  [s EXCEPT !.records = @ \cup {r \in batch : SchemaOf[r] = s.schema}]

AppendBatch(s, batch) == [s EXCEPT !.records = @ \cup batch]

-----------------------------------------------------------------------------
VARIABLES
  files,   \* what each path holds
  mem,     \* the DurableRecordStore value the process holds
  job,     \* the file operation in progress
  acked,   \* records of transactions that returned (since the last restore)
  faults

vars == <<files, mem, job, acked, faults>>

Paths == {"live", "pending", "backup"}

NoFile == [kind |-> "none"]
Torn   == [kind |-> "torn"]
File(s) == [kind |-> "snapshot", store |-> s]
Files  == {NoFile, Torn} \cup [kind : {"snapshot"}, store : Stores]

Closed == [kind |-> "closed"]
Opened(s) == [kind |-> "open", store |-> s]

\* transact, backup_snapshot and restore_snapshot at their next file write
\* (`dirty': the file is truncated already), or transact about to remove the
\* pending file.
Idle == [op |-> "idle"]
Writing(op, path, s, dirty) ==
  [op |-> op, path |-> path, store |-> s, dirty |-> dirty]
Removing(s) == [op |-> "remove", store |-> s]

Jobs ==
  LET Write(op, paths) ==
        [op : {op}, path : paths, store : Stores, dirty : BOOLEAN]
  IN  {Idle} \cup [op : {"remove"}, store : Stores]
      \cup Write("transact", {"live", "pending"})
      \cup Write("backup", {"backup"}) \cup Write("restore", {"live"})

TypeOK ==
  /\ files \in [Paths -> Files]
  /\ mem \in {Closed} \cup [kind : {"open"}, store : Stores]
  /\ job \in Jobs
  /\ acked \subseteq Records
  /\ faults \in 0..MaxFaults

Init ==
  /\ \E s \in {NoFile} \cup {File(EmptyStore(v)) : v \in Schemas} :
       files = [p \in Paths |-> IF p = "live" THEN s ELSE NoFile]
  /\ mem = Closed /\ job = Idle /\ acked = {} /\ faults = 0

-----------------------------------------------------------------------------
\* Fault: the live file is preferred.
Chosen_Live == IF files["live"] # NoFile THEN "live" ELSE "pending"

\* The file open() reads.
Chosen == IF files["pending"] # NoFile THEN "pending" ELSE "live"

\* DurableRecordStore::open; it raises on a torn file (the path stays closed).
Open ==
  /\ mem = Closed /\ job = Idle
  /\ \/ /\ files[Chosen].kind = "snapshot"
        /\ mem' = Opened(files[Chosen].store)
     \/ /\ files[Chosen] = NoFile
        /\ \E v \in Schemas : mem' = Opened(EmptyStore(v))
  /\ UNCHANGED <<files, job, acked, faults>>

\* transact accepts a batch and starts with the pending file.  A refused batch
\* raises an error and changes nothing.
Transact(batch) ==
  /\ mem.kind = "open" /\ job = Idle
  /\ Appendable(mem.store, batch)
  /\ job' = Writing("transact", "pending", AppendBatch(mem.store, batch), FALSE)
  /\ UNCHANGED <<files, mem, acked, faults>>

\* backup_snapshot(live, backup) parses its source first.
Backup ==
  /\ job = Idle
  /\ files["live"].kind = "snapshot"
  /\ job' = Writing("backup", "backup", files["live"].store, FALSE)
  /\ UNCHANGED <<files, mem, acked, faults>>

\* restore_snapshot(backup, live) parses the backup first.
Restore ==
  /\ job = Idle /\ mem = Closed
  /\ files["backup"].kind = "snapshot"
  /\ job' = Writing("restore", "live", files["backup"].store, FALSE)
  /\ UNCHANGED <<files, mem, acked, faults>>

IsWriting == job.op \in {"transact", "backup", "restore"}

\* write_string_to_file creates or truncates the file ...  Restoring gives up
\* what the backup does not hold.
Truncate ==
  /\ IsWriting /\ ~ job.dirty
  /\ files' = [files EXCEPT ![job.path] = Torn]
  /\ job' = [job EXCEPT !.dirty = TRUE]
  /\ acked' = IF job.op = "restore" THEN acked \cap job.store.records ELSE acked
  /\ UNCHANGED <<mem, faults>>

\* Fault: transact removes the pending file before it writes the live one.
AfterFill_RemoveFirst ==
  IF job.op = "transact" /\ job.path = "pending" THEN Removing(job.store) ELSE Idle

\* What the function does after a completed write.
AfterFill ==
  IF job.op # "transact" THEN Idle
  ELSE IF job.path = "pending" THEN Writing("transact", "live", job.store, FALSE)
  ELSE Removing(job.store)

\* ... and fills it.
Fill ==
  /\ IsWriting /\ job.dirty
  /\ files' = [files EXCEPT ![job.path] = File(job.store)]
  /\ job' = AfterFill
  /\ UNCHANGED <<mem, acked, faults>>

\* transact removes the pending file and returns the new value.
Remove ==
  /\ job.op = "remove"
  /\ files' = [files EXCEPT !["pending"] = NoFile]
  /\ mem' = Opened(job.store)
  /\ acked' = acked \cup job.store.records
  /\ job' = Idle
  /\ UNCHANGED faults

\* A file operation raises FileIo: the caller keeps the value it had.
FileIo ==
  /\ job # Idle
  /\ faults < MaxFaults
  /\ job' = Idle
  /\ faults' = faults + 1
  /\ UNCHANGED <<files, mem, acked>>

\* The process stops in the middle of a file operation.
Crash ==
  /\ job # Idle
  /\ faults < MaxFaults
  /\ mem' = Closed /\ job' = Idle
  /\ faults' = faults + 1
  /\ UNCHANGED <<files, acked>>

\* The process ends between calls.
Exit ==
  /\ mem # Closed /\ job = Idle
  /\ mem' = Closed
  /\ UNCHANGED <<files, job, acked, faults>>

Next ==
  \/ Open \/ Backup \/ Restore \/ Exit
  \/ \E batch \in Batches : Transact(batch)
  \/ Truncate \/ Fill \/ Remove \/ FileIo \/ Crash

Spec == Init /\ [][Next]_vars

-----------------------------------------------------------------------------
(***************************************************************************)
(* Properties.                                                             *)
(***************************************************************************)

Holds(file, set) == file.kind = "snapshot" /\ set \subseteq file.store.records

\* A store that opens never lacks a record of an acknowledged transaction:
\* losses show as an error, never as a shorter history.
NoSilentLoss ==
  /\ mem.kind = "open" => acked \subseteq mem.store.records
  /\ files[Chosen].kind = "snapshot" => Holds(files[Chosen], acked)
  /\ files[Chosen] = NoFile => acked = {}

\* "A process interrupted between those writes can recover the fully validated
\* candidate": from the moment the pending file is complete until transact
\* returns, whatever stops it, opening yields the candidate.
CommitPoint ==
  job.op = "remove" \/ (job.op = "transact" /\ job.path = "live")
    => files[Chosen] = File(job.store)

\* One crash or failed write never takes the last copy of what was
\* acknowledged: memory or one of the three files still has it all.
OneFaultLosesNothing ==
  faults <= 1 =>
    \/ mem.kind = "open" /\ acked \subseteq mem.store.records
    \/ acked = {}
    \/ \E p \in Paths : Holds(files[p], acked)

\* All or nothing: no file and no opened store ever holds a part of a batch.
BatchesWhole ==
  LET Whole(s) == \A batch \in Batches : batch \cap s.records \in {{}, batch}
  IN  /\ mem.kind = "open" => Whole(mem.store)
      /\ \A p \in Paths : files[p].kind = "snapshot" => Whole(files[p].store)

\* What is stored survives as it was: one fault takes nothing acknowledged, and
\* no number of them splits a batch (transact, backup_to, restore_from).
DataSurvives == OneFaultLosesNothing /\ BatchesWhole

=============================================================================
