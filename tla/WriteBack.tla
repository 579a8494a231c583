---- MODULE WriteBack ----
(* Write-back with commit before upload: vfs/io/writer.rs in the mode          *)
(* CommitBeforeUpload, the dirty records of vfs/cache/write_back.rs on local  *)
(* disk, a crash of the mount, and the recovery of vfs/fs/mod.rs.             *)
(*                                                                            *)
(* One chunk, every write over the same bytes and frozen when it is made, so  *)
(* a slice is named by its write order.  Staging a slice on disk, uploading   *)
(* it and the chunk's commit task run side by side; each may publish it.      *)
(* The metadata errors after an upload, the flush gate and several commit     *)
(* tasks are SliceWriter's.                                                   *)
EXTENDS Naturals, Sequences, FiniteSets

CONSTANTS MaxWrites,     \* writes in a behaviour
          MaxEvents,     \* crashes, truncations, failures and metadata errors, together
          RequireStage   \* writeback_require_stage_before_commit

ASSUME WriteBackAssumption ==
    /\ MaxWrites \in Nat /\ MaxEvents \in Nat
    /\ RequireStage \in BOOLEAN

VARIABLES
    slices,   \* the SliceStates of this incarnation of the mount, per write
    queue,    \* ChunkState.slices: what is not yet moved out
    procs,    \* commit_chunk (0) and the stage sub-task of each slice
    upload,   \* the upload task of each slice
    disk,     \* the dirty record of each slice
    objects,  \* the slice ids whose blocks are in the object store
    meta,     \* the chunk's list: the slice id, and whose data it is
    recovery, \* recover_dirty_slices
    mount,    \* the counters and the writer's error
    hist      \* what callers know, for the properties alone

vars == <<slices, queue, procs, upload, disk, objects, meta, recovery, mount, hist>>

Slices == 1 .. MaxWrites
Committer == 0
Procs == {Committer} \cup Slices
NoSlice == 0

NewSlice == [state |-> "none", staged |-> FALSE, seal |-> "no", claimed |-> FALSE, landed |-> FALSE]
NoProc == [pc |-> "none", slice |-> NoSlice]
Idle == [pc |-> "idle", todo |-> {}, slice |-> NoSlice, id |-> 0]

Init ==
    /\ slices = [s \in Slices |-> NewSlice]
    /\ queue = <<>>
    /\ procs = [p \in Procs |-> NoProc]
    /\ upload = [s \in Slices |-> "none"]
    /\ disk = [s \in Slices |-> "none"]
    /\ objects = {}
    /\ meta = <<>>
    /\ recovery = Idle
    /\ mount = [order |-> 0, nextid |-> MaxWrites + 1, events |-> 0, error |-> FALSE]
    /\ hist = [flushed |-> {}, cut |-> {}]

IsFront(s) == queue # <<>> /\ Head(queue) = s
UploadDone(s) == slices[s].state \in {"Uploaded", "Committed"}
Entry(s, id) == [write |-> s, id |-> id]
At(p, pc) == procs[p].pc = pc
Goto(p, pc) == procs' = [procs EXCEPT ![p].pc = pc]
Failed(s) == [slices EXCEPT ![s].state = "Failed"]
WithError == [mount EXCEPT !.error = TRUE]

\* Room for one more of the events that MaxEvents bounds, and the count of it.
Room == mount.events < MaxEvents
Counted == [mount EXCEPT !.events = @ + 1]

\* FsWriteBackCache::remove takes whatever there is of the record.
Removed(s) == [disk EXCEPT ![s] = "none"]

----
(* A write, and the batch its upload task starts: staging, and the blocks. *)

\* A cached write is staged before its upload starts; any other one meanwhile.
Write(stage_first) ==
    /\ mount.order < MaxWrites
    /\ ~ mount.error
    /\ LET s == mount.order + 1
       IN  /\ slices' = [slices EXCEPT ![s].state = "Readonly"]
           /\ queue' = Append(queue, s)
           /\ upload' = [upload EXCEPT ![s] = IF stage_first THEN "after" ELSE "put"]
           /\ procs' = [procs EXCEPT ![s] = [pc |-> "persist", slice |-> s],
                                     ![Committer].pc = IF @ = "none" THEN "top" ELSE @]
           /\ mount' = [mount EXCEPT !.order = s]
    /\ UNCHANGED <<disk, objects, meta, recovery, hist>>

\* persist_slice_data and mark_writeback_persisted.
StagePersist(s) ==
    /\ At(s, "persist")
    /\ \/ /\ disk' = [disk EXCEPT ![s] = "staged"]
          /\ slices' = [slices EXCEPT ![s].staged = TRUE]
          /\ Goto(s, "seal")
          /\ UNCHANGED <<upload, mount>>
       \/ /\ Room
          /\ slices' = Failed(s)
          /\ mount' = [Counted EXCEPT !.error = TRUE]
          /\ Goto(s, "failed")
          /\ UNCHANGED <<disk, upload>>
    /\ UNCHANGED <<queue, objects, meta, recovery, hist>>

\* The blocks of the slice.
UploadPut(s) ==
    /\ upload[s] = "put" \/ (upload[s] = "after" /\ procs[s].pc \in {"done", "failed"})
    /\ objects' = objects \cup {s}
    /\ upload' = [upload EXCEPT ![s] = "join"]
    /\ UNCHANGED <<slices, queue, procs, disk, meta, recovery, mount, hist>>

\* The upload gave up, or staging failed: the batch fails and the task ends.
UploadFails(s) ==
    /\ \/ /\ Room
          /\ upload[s] \in {"put", "after"} /\ procs[s].pc \in {"done", "failed"}
          /\ mount' = [Counted EXCEPT !.error = TRUE]
       \/ /\ upload[s] = "join" /\ At(s, "failed")
          /\ mount' = WithError
    /\ slices' = Failed(s)
    /\ upload' = [upload EXCEPT ![s] = "none"]
    /\ UNCHANGED <<queue, procs, disk, objects, meta, recovery, hist>>

\* Both parts of the batch have ended: advance_upload_range.
UploadLands(s) ==
    /\ upload[s] = "join"
    /\ At(s, "done")
    /\ slices' = [slices EXCEPT ![s].landed = TRUE,
                                ![s].state = IF @ \in {"Readonly", "Failed"} THEN "Uploaded" ELSE @]
    /\ upload' = [upload EXCEPT ![s] = "remove"]
    /\ UNCHANGED <<queue, procs, disk, objects, meta, recovery, mount, hist>>

\* remove_writeback_record_if_uploaded_committed, the one look the upload task takes.
UploadRemove(s) ==
    /\ upload[s] = "remove"
    /\ disk' = IF slices[s].state = "Committed" THEN Removed(s) ELSE disk
    /\ upload' = [upload EXCEPT ![s] = "try"]
    /\ UNCHANGED <<slices, queue, procs, objects, meta, recovery, mount, hist>>

\* try_commit: the claim and the check of the front, then the metadata, then the record.
TryClaim(s) ==
    /\ upload[s] = "try"
    /\ IF slices[s].state = "Uploaded" /\ ~ slices[s].claimed /\ IsFront(s)
       THEN /\ slices' = [slices EXCEPT ![s].claimed = TRUE]
            /\ upload' = [upload EXCEPT ![s] = "write"]
       ELSE /\ upload' = [upload EXCEPT ![s] = "none"]
            /\ UNCHANGED slices
    /\ UNCHANGED <<queue, procs, disk, objects, meta, recovery, mount, hist>>

TryWrite(s) ==
    /\ upload[s] = "write"
    /\ meta' = Append(meta, Entry(s, s))
    /\ slices' = [slices EXCEPT ![s].state = "Committed"]
    /\ upload' = [upload EXCEPT ![s] = "clean"]
    /\ UNCHANGED <<queue, procs, disk, objects, recovery, mount, hist>>

TryClean(s) ==
    /\ upload[s] = "clean"
    /\ disk' = Removed(s)
    /\ upload' = [upload EXCEPT ![s] = "none"]
    /\ UNCHANGED <<slices, queue, procs, objects, meta, recovery, mount, hist>>

----
(* seal_writeback_record_if_ready and try_commit_before_upload_front, which   *)
(* the stage sub-task and commit_chunk run.  For the stage sub-task "seal"    *)
(* comes twice: on its own, and inside the attempt to commit.                 *)

\* One task may seal a record, once all of it is staged.
Sealable(s) == slices[s].staged /\ slices[s].seal = "no"

Seal(p) ==
    LET s == procs[p].slice
    IN  /\ procs[p].pc \in {"seal", "reseal"}
        /\ IF Sealable(s)
           THEN /\ slices' = [slices EXCEPT ![s].seal = "sealing"]
                /\ Goto(p, IF At(p, "seal") THEN "sealing" ELSE "resealing")
           ELSE /\ UNCHANGED slices
                /\ Goto(p, IF At(p, "seal") THEN "front" ELSE "claim")
        /\ UNCHANGED <<queue, upload, disk, objects, meta, recovery, mount, hist>>

\* Where a routine that returns false leaves its caller.
Return(p) == IF p = Committer THEN "top" ELSE "done"

\* seal_slice_record renames the staged file, which must still be there.
SealEnds(p) ==
    LET s == procs[p].slice
    IN  /\ procs[p].pc \in {"sealing", "resealing"}
        /\ IF disk[s] = "staged"
           THEN /\ disk' = [disk EXCEPT ![s] = "sealed"]
                /\ slices' = [slices EXCEPT ![s].seal = "sealed"]
                /\ Goto(p, IF At(p, "sealing") THEN "front" ELSE "claim")
                /\ UNCHANGED mount
           ELSE /\ slices' = Failed(s)
                /\ mount' = WithError
                /\ Goto(p, IF At(p, "sealing") THEN "failed" ELSE Return(p))
                /\ UNCHANGED disk
        /\ UNCHANGED <<queue, upload, objects, meta, recovery, hist>>

\* A bug to compare with: a staged slice looks for no predecessor.
StageFrontUnchecked(s) ==
    /\ At(s, "front")
    /\ Goto(s, "enter")
    /\ UNCHANGED <<slices, queue, upload, disk, objects, meta, recovery, mount, hist>>

\* try_commit_before_upload_if_front.
StageFront(s) ==
    /\ At(s, "front")
    /\ Goto(s, IF IsFront(s) THEN "enter" ELSE "done")
    /\ UNCHANGED <<slices, queue, upload, disk, objects, meta, recovery, mount, hist>>

\* A frozen slice whose upload has not ended (Failed counts as frozen).
Enter(p) ==
    /\ At(p, "enter")
    /\ Goto(p, IF UploadDone(procs[p].slice) THEN Return(p) ELSE "reseal")
    /\ UNCHANGED <<slices, queue, upload, disk, objects, meta, recovery, mount, hist>>

\* A bug to compare with: staged data is enough, sealed or not.
StagedOnly(s) == slices[s].staged

\* stage_ready: the data is staged and the record sealed, where that is required.
StageReady(s) == ~ RequireStage \/ (slices[s].staged /\ slices[s].seal = "sealed")

Claim(p) ==
    LET s == procs[p].slice
    IN  /\ At(p, "claim")
        /\ IF StageReady(s) /\ ~ slices[s].claimed
           THEN /\ slices' = [slices EXCEPT ![s].claimed = TRUE]
                /\ Goto(p, "write")
           ELSE /\ UNCHANGED slices
                /\ Goto(p, Return(p))
        /\ UNCHANGED <<queue, upload, disk, objects, meta, recovery, mount, hist>>

\* The metadata before the upload.  An error, done or not, gives the claim back.
EarlyWrite(p) ==
    LET s == procs[p].slice
    IN  /\ At(p, "write")
        /\ \/ /\ meta' = Append(meta, Entry(s, s))
              /\ slices' = [slices EXCEPT ![s].state = "Committed"]
              /\ Goto(p, IF p = Committer THEN "move" ELSE "done")
              /\ UNCHANGED mount
           \/ /\ Room
              /\ mount' = Counted
              /\ meta' \in {meta, Append(meta, Entry(s, s))}
              /\ slices' = [slices EXCEPT ![s].claimed = FALSE]
              /\ Goto(p, Return(p))
        /\ UNCHANGED <<queue, upload, disk, objects, recovery, hist>>

----
(* commit_chunk. *)

\* The front slice: dropped, moved out, committed after its upload, or before.
CommitTop ==
    /\ At(Committer, "top")
    /\ queue # <<>>
    /\ LET s == Head(queue)
           to(pc) == procs' = [procs EXCEPT ![Committer] = [pc |-> pc, slice |-> s]]
       IN  CASE slices[s].state = "Failed" ->
                  queue' = Tail(queue) /\ UNCHANGED <<slices, procs>>
             [] slices[s].state = "Committed" ->
                  to("move") /\ UNCHANGED <<slices, queue>>
             [] slices[s].state = "Uploaded" /\ slices[s].claimed ->
                  UNCHANGED <<slices, queue, procs>>
             [] slices[s].state = "Uploaded" /\ ~ slices[s].claimed ->
                  /\ slices' = [slices EXCEPT ![s].claimed = TRUE]
                  /\ to("late")
                  /\ UNCHANGED queue
             [] slices[s].state = "Readonly" ->
                  to("enter") /\ UNCHANGED <<slices, queue>>
    /\ UNCHANGED <<upload, disk, objects, meta, recovery, mount, hist>>

\* The metadata after the upload; the record is removed before the slice is marked.
CommitLate ==
    /\ At(Committer, "late")
    /\ meta' = Append(meta, Entry(procs[Committer].slice, procs[Committer].slice))
    /\ Goto(Committer, "clean")
    /\ UNCHANGED <<slices, queue, upload, disk, objects, recovery, mount, hist>>

CommitClean ==
    /\ At(Committer, "clean")
    /\ disk' = Removed(procs[Committer].slice)
    /\ slices' = [slices EXCEPT ![procs[Committer].slice].state = "Committed"]
    /\ Goto(Committer, "move")
    /\ UNCHANGED <<queue, upload, objects, meta, recovery, mount, hist>>

CommitMove ==
    /\ At(Committer, "move")
    /\ queue' = IF IsFront(procs[Committer].slice) THEN Tail(queue) ELSE queue
    /\ Goto(Committer, "top")
    /\ UNCHANGED <<slices, upload, disk, objects, meta, recovery, mount, hist>>

----
(* The callers, the crash, the recovery. *)

\* flush: every slice there is has been committed.
Fsync ==
    /\ ~ mount.error
    /\ \A i \in DOMAIN queue : slices[queue[i]].state = "Committed"
    /\ hist' = [hist EXCEPT !.flushed = @ \cup {s \in Slices : slices[s].state = "Committed"}]
    /\ UNCHANGED <<slices, queue, procs, upload, disk, objects, meta, recovery, mount>>

\* A bug to compare with: the truncation does not wait for the flush.
TruncateUnflushed ==
    /\ Room
    /\ ~ mount.error
    /\ meta' = <<>>
    /\ queue' = <<>>
    /\ mount' = Counted
    /\ hist' = [hist EXCEPT !.cut = 1 .. mount.order]
    /\ UNCHANGED <<slices, procs, upload, disk, objects, recovery>>

\* truncate_inode, as one step: flushed, the metadata cut, the writer cleared.
Truncate ==
    /\ Room
    /\ ~ mount.error
    /\ \A i \in DOMAIN queue : slices[queue[i]].state = "Committed"
    /\ meta' = <<>>
    /\ queue' = <<>>
    /\ mount' = Counted
    /\ hist' = [hist EXCEPT !.cut = 1 .. mount.order]
    /\ UNCHANGED <<slices, procs, upload, disk, objects, recovery>>

\* The mount dies: memory is gone, the disk, the objects and the metadata stay.
\* The next mount serves requests while recovery runs in a task of its own.
Crash ==
    /\ Room
    /\ slices' = [s \in Slices |-> NewSlice]
    /\ queue' = <<>>
    /\ procs' = [p \in Procs |-> NoProc]
    /\ upload' = [s \in Slices |-> "none"]
    /\ recovery' = [Idle EXCEPT !.pc = "scan"]
    /\ mount' = [Counted EXCEPT !.error = FALSE]
    /\ UNCHANGED <<disk, objects, meta, hist>>

\* The sealed records there are when the directory is read, in any order.
RecoverScan ==
    /\ recovery.pc = "scan"
    /\ recovery' = [Idle EXCEPT !.pc = "next", !.todo = {s \in Slices : disk[s] = "sealed"}]
    /\ UNCHANGED <<slices, queue, procs, upload, disk, objects, meta, mount, hist>>

\* A record that is gone is skipped; else its data goes up under a new slice id.
RecoverUpload ==
    /\ recovery.pc = "next"
    /\ \E s \in recovery.todo :
       IF disk[s] = "none"
       THEN /\ recovery' = [recovery EXCEPT !.todo = @ \ {s}]
            /\ UNCHANGED <<objects, mount>>
       ELSE /\ recovery' = [pc |-> "write", todo |-> recovery.todo \ {s}, slice |-> s, id |-> mount.nextid]
            /\ objects' = objects \cup {mount.nextid}
            /\ mount' = [mount EXCEPT !.nextid = @ + 1]
    /\ UNCHANGED <<slices, queue, procs, upload, disk, meta, hist>>

\* A bug to compare with: the record is removed when its upload is done.
RecoverWriteRemoves ==
    /\ recovery.pc = "write"
    /\ disk' = Removed(recovery.slice)
    /\ recovery' = [recovery EXCEPT !.pc = "next"]
    /\ UNCHANGED <<slices, queue, procs, upload, objects, meta, mount, hist>>

RecoverWrite ==
    /\ recovery.pc = "write"
    /\ meta' = Append(meta, Entry(recovery.slice, recovery.id))
    /\ recovery' = [recovery EXCEPT !.pc = "remove"]
    /\ UNCHANGED <<slices, queue, procs, upload, disk, objects, mount, hist>>

RecoverRemove ==
    /\ recovery.pc = "remove"
    /\ disk' = Removed(recovery.slice)
    /\ recovery' = [recovery EXCEPT !.pc = "next"]
    /\ UNCHANGED <<slices, queue, procs, upload, objects, meta, mount, hist>>

UploadStep(s) == UploadPut(s) \/ UploadFails(s) \/ UploadLands(s) \/ UploadRemove(s)
                 \/ TryClaim(s) \/ TryWrite(s) \/ TryClean(s)
ProcStep(p) == Seal(p) \/ SealEnds(p) \/ Enter(p) \/ Claim(p) \/ EarlyWrite(p)
StageStep(s) == StagePersist(s) \/ StageFront(s) \/ ProcStep(s)
CommitStep == CommitTop \/ CommitLate \/ CommitClean \/ CommitMove \/ ProcStep(Committer)
RecoverStep == RecoverScan \/ RecoverUpload \/ RecoverWrite \/ RecoverRemove

Next ==
    \/ \E stage_first \in BOOLEAN : Write(stage_first)
    \/ \E s \in Slices : UploadStep(s) \/ StageStep(s)
    \/ CommitStep
    \/ Fsync \/ Truncate \/ Crash \/ RecoverStep

Spec == Init /\ [][Next]_vars

\* Every task that can take a step takes it.
Fairness ==
    /\ \A s \in Slices : WF_vars(UploadStep(s)) /\ WF_vars(StageStep(s))
    /\ WF_vars(CommitStep) /\ WF_vars(RecoverStep)

----
(* Properties. *)

\* Every part of the state has its type.
TypeOK ==
    /\ \A s \in Slices :
          /\ slices[s].state \in {"none", "Readonly", "Uploaded", "Committed", "Failed"}
          /\ slices[s].seal \in {"no", "sealing", "sealed"}
          /\ disk[s] \in {"none", "staged", "sealed"}
          /\ upload[s] \in {"none", "after", "put", "join", "remove", "try", "write", "clean"}
    /\ \A p \in Procs : procs[p].pc \in {"none", "persist", "seal", "sealing", "reseal", "resealing",
           "front", "enter", "claim", "write", "done", "failed", "top", "late", "clean", "move"}
    /\ \A i \in DOMAIN meta : meta[i].write \in Slices
    /\ recovery.pc \in {"idle", "scan", "next", "write", "remove"}
    /\ mount.nextid \in Nat \ Slices

Stored(s) == \E i \in DOMAIN meta : meta[i].write = s /\ meta[i].id \in objects

\* What the metadata shows can be read, or will be after a restart: its blocks
\* are stored, or it is in memory with its record sealed on disk, or only
\* there.  A crash between any two steps of staging, sealing, publishing,
\* uploading, removing and replaying leaves no dangling entry.
PublishedIsRecoverable ==
    \A i \in DOMAIN meta : Stored(meta[i].write) \/ disk[meta[i].write] = "sealed"

\* An entry the mount published itself, under the write's own slice id; the
\* others are replays of recovery, in any order.
Own(i) == meta[i].id \in Slices

\* Overlapping writes are published in the order they were made, whichever of
\* the three tasks publishes each, and through a failed attempt, a truncation
\* and a restart.  A replay keeps no order: it may put an old write on top.
NewestWins == \A i, j \in DOMAIN meta : i < j /\ Own(i) /\ Own(j) => meta[i].write <= meta[j].write

\* Data written before a truncation is not published after it, except by a
\* replay, which knows of no truncation.
TruncatedStaysGone == \A i \in DOMAIN meta : Own(i) => meta[i].write \notin hist.cut

\* A write that fsync reported durable reaches the object store, through any
\* crash, unless a truncation removed it or the writer reported an error, after
\* which only a restart uploads what is still on disk.
FlushedReachesStore ==
    \A s \in Slices : (s \in hist.flushed) ~> (s \in hist.cut \/ Stored(s) \/ mount.error)

\* A crash at any moment leaves a state that recovery can mend.
Recoverable == TypeOK /\ PublishedIsRecoverable
====
