---- MODULE SliceWriter ----
(* The writer of one file, one chunk of it: vfs/io/writer.rs with upload      *)
(* before commit, on a flat volume.  Writes fill slices that wait in the      *)
(* chunk's deque; an upload task per slice puts the blocks and tries to       *)
(* commit; a commit_chunk task per chunk commits the front slice and pops it; *)
(* flush freezes what is there and waits; truncate (vfs/fs/mod.rs) flushes    *)
(* under the inode's mutation lock, cuts the metadata and clears the writer.  *)
(*                                                                            *)
(* Every write overlaps every other (the case in which order matters), so     *)
(* each one has a slice of its own, named by its write_order.  One action is  *)
(* what happens under one lock, or one call to the metadata store.            *)
EXTENDS Naturals, Sequences, FiniteSets, SequencesExt

CONSTANTS MaxWrites,     \* writes admitted in a behaviour
          MaxCalls,      \* fsync calls and truncations in a behaviour
          Tasks,         \* commit_chunk tasks that may be alive at once
          MaxRetries,    \* COMMIT_META_MAX_RETRIES
          MaxFaults      \* errors, stalls and deadlines that run out, in a behaviour

ASSUME SliceWriterAssumption ==
    /\ MaxWrites \in Nat /\ MaxCalls \in Nat
    /\ MaxRetries \in Nat \ {0} /\ MaxFaults \in Nat
    /\ IsFiniteSet(Tasks)

VARIABLES
    slices,   \* per write: its SliceState and the pc of its upload task
    chunk,    \* the entry of Inner.chunks for this chunk
    tasks,    \* the commit_chunk tasks
    flushes,  \* the two callers of flush_with_deadline_inner
    shared,   \* the rest of Shared and Inner, the inode's data_epoch and mutation lock
    meta,     \* the chunk's list in the metadata store
    hist      \* what the callers know, for the properties alone

vars == <<slices, chunk, tasks, flushes, shared, meta, hist>>

Slices == 1 .. MaxWrites
NoSlice == 0
FlushCallers == {"fsync", "truncate"}

\* A chunk that is not in the map.
Absent == [present |-> FALSE, deque |-> <<>>, recent |-> {}, commit_started |-> FALSE]
NewSlice == [state |-> "none", frozen_epoch |-> 0, meta_write_started |-> FALSE,
             upload |-> "none", attempts |-> 0]
NoTask == [pc |-> "none", slice |-> NoSlice, failures |-> 0]
NoFlush == [pc |-> "none", slices |-> {}, gen |-> 0, known |-> {}, ok |-> TRUE]

Init ==
    /\ slices = [s \in Slices |-> NewSlice]
    /\ chunk = Absent
    /\ tasks = [t \in Tasks |-> NoTask]
    /\ flushes = [c \in FlushCallers |-> NoFlush]
    /\ shared = [order |-> 0, write_gen |-> 0, last_flushed_gen |-> 0, error |-> FALSE,
                 flush_waiting |-> 0, parked |-> NoSlice, woken |-> "no",
                 epoch |-> 0, lock |-> "free", faults |-> 0]
    /\ meta = <<>>
    /\ hist = [acked |-> {}, before |-> [s \in Slices |-> {}], flushed |-> {},
               calls |-> 0, cut |-> {}, concurrent |-> {}, evicted |-> {},
               late |-> {}, again |-> {}]

----
(* Writes. *)

\* find_slice_or_create: the slice goes where its write_order says, the chunk
\* is created when it is missing, and a commit task is started when none is.
Place(s) ==
    LET d   == chunk.deque
        at  == Cardinality({i \in DOMAIN d : d[i] < s})
        pos == SubSeq(d, 1, at) \o <<s>> \o SubSeq(d, at + 1, Len(d))
    IN  /\ chunk' = [chunk EXCEPT !.present = TRUE, !.deque = pos, !.commit_started = TRUE]
        /\ slices' = [slices EXCEPT ![s].state = "Writable"]
        /\ IF chunk.commit_started
           THEN UNCHANGED tasks
           ELSE \E t \in Tasks : /\ tasks[t].pc = "none"
                                 /\ tasks' = [tasks EXCEPT ![t] = [NoTask EXCEPT !.pc = "top"]]

\* The call begins: it knows every write acknowledged so far.
Begin(s) == [hist EXCEPT !.before[s] = hist.acked]

\* A kernel write-back write: it passes the flush gate and takes no lock of the inode.
WriteCached ==
    /\ shared.order < MaxWrites
    /\ ~ shared.error
    /\ LET s == shared.order + 1
       IN  /\ Place(s)
           /\ shared' = [shared EXCEPT !.order = s, !.write_gen = @ + 1]
           /\ hist' = [Begin(s) EXCEPT !.acked = @ \cup {s}]
    /\ UNCHANGED <<flushes, meta>>

\* An ordinary write holds the inode's mutation lock; with a flush under way it
\* has its write_order, and drops the guard to wait.
WriteNormal ==
    /\ shared.order < MaxWrites
    /\ ~ shared.error
    /\ shared.lock = "free"
    /\ LET s == shared.order + 1
       IN  IF shared.flush_waiting = 0
           THEN /\ Place(s)
                /\ shared' = [shared EXCEPT !.order = s, !.write_gen = @ + 1]
                /\ hist' = [Begin(s) EXCEPT !.acked = @ \cup {s}]
           ELSE /\ shared' = [shared EXCEPT !.order = s, !.parked = s, !.woken = "no",
                                            !.lock = "write"]
                /\ hist' = Begin(s)
                /\ UNCHANGED <<slices, chunk, tasks>>
    /\ UNCHANGED <<flushes, meta>>

\* write_notify.notified() is called after the guard is dropped.
WriteWait ==
    /\ shared.parked # NoSlice
    /\ shared.woken = "no"
    /\ shared' = [shared EXCEPT !.woken = "waiting"]
    /\ UNCHANGED <<slices, chunk, tasks, flushes, meta, hist>>

\* A woken write looks at the gate again.
WriteResume ==
    /\ shared.parked # NoSlice
    /\ shared.woken = "woken"
    /\ IF shared.flush_waiting > 0
       THEN /\ shared' = [shared EXCEPT !.woken = "no"]
            /\ UNCHANGED <<slices, chunk, tasks, hist>>
       ELSE /\ Place(shared.parked)
            /\ shared' = [shared EXCEPT !.parked = NoSlice, !.woken = "no", !.lock = "free",
                                        !.write_gen = @ + 1]
            /\ hist' = [hist EXCEPT !.acked = @ \cup {shared.parked}]
    /\ UNCHANGED <<flushes, meta>>

----
(* Slices: freezing, failing, uploading. *)

\* freeze_with_reason_and_auto_trigger, and the upload task it spawns.
Frozen(s) == [slices[s] EXCEPT !.state = "Readonly", !.frozen_epoch = shared.epoch,
                               !.upload = "id"]

\* mark_failed, and the error every later write and flush reports.
Failed(s) == [slices[s] EXCEPT !.state = "Failed"]
WithError == [shared EXCEPT !.error = TRUE]

\* Room for one more fault, and the count of it.
Room == shared.faults < MaxFaults
Counted == [shared EXCEPT !.faults = @ + 1]

\* auto_flush, a full slice, or commit_chunk's age limit freezes a slice.
Freeze(s) ==
    /\ s \in ToSet(chunk.deque)
    /\ slices[s].state = "Writable"
    /\ slices' = [slices EXCEPT ![s] = Frozen(s)]
    /\ UNCHANGED <<chunk, tasks, flushes, shared, meta, hist>>

\* The upload task: the slice id, then the blocks.  A slice given up while its
\* blocks were on the way is Uploaded all the same when they land.
Upload(s) ==
    /\ slices[s].upload \in {"id", "put"}
    /\ \/ /\ slices' = [slices EXCEPT ![s] =
                 IF @.upload = "id" THEN [@ EXCEPT !.upload = "put"]
                                    ELSE [@ EXCEPT !.state = "Uploaded", !.upload = "try"]]
          /\ UNCHANGED shared
       \/ /\ Room
          /\ slices' = [slices EXCEPT ![s] = [Failed(s) EXCEPT !.upload = "none"]]
          /\ shared' = [Counted EXCEPT !.error = TRUE]
    /\ UNCHANGED <<chunk, tasks, flushes, meta, hist>>

\* A slice frozen before the last change of the file's data; epoch 0 is never stale.
Stale(s) == slices[s].frozen_epoch # 0 /\ slices[s].frozen_epoch # shared.epoch

\* The metadata write of a slice is under way, by its upload task or a commit task.
Writing(s) ==
    \/ slices[s].upload \in {"front", "write"}
    \/ \E t \in Tasks : tasks[t].pc = "write" /\ tasks[t].slice = s

\* A stale slice counts as committed, also while somebody is writing it.
FoundStale(s) ==
    IF Writing(s) THEN [hist EXCEPT !.late = @ \cup {s}] ELSE hist

\* try_commit up to the claim of the metadata write.
TryClaim(s) ==
    /\ slices[s].upload = "try"
    /\ slices' = [slices EXCEPT ![s] =
           IF @.state # "Uploaded" THEN [@ EXCEPT !.upload = "none"]
           ELSE IF Stale(s) THEN [@ EXCEPT !.state = "Committed", !.upload = "none"]
           ELSE IF @.meta_write_started THEN [@ EXCEPT !.upload = "none"]
           ELSE [@ EXCEPT !.meta_write_started = TRUE, !.upload = "front"]]
    /\ hist' = IF slices[s].state = "Uploaded" /\ Stale(s) THEN FoundStale(s) ELSE hist
    /\ UNCHANGED <<chunk, tasks, flushes, shared, meta>>

IsFront(s) == chunk.deque # <<>> /\ Head(chunk.deque) = s

\* A bug to compare with: the slice commits wherever it is in the deque.
TryFrontUnchecked(s) ==
    /\ slices[s].upload = "front"
    /\ slices' = [slices EXCEPT ![s].upload = "write"]
    /\ UNCHANGED <<chunk, tasks, flushes, shared, meta, hist>>

\* A bug to compare with: the claim is kept when the slice is not the front one.
TryFrontKeepsClaim(s) ==
    /\ slices[s].upload = "front"
    /\ slices' = [slices EXCEPT ![s].upload = IF IsFront(s) THEN "write" ELSE "none"]
    /\ UNCHANGED <<chunk, tasks, flushes, shared, meta, hist>>

\* Only the front slice commits from its upload task; another gives its claim back.
TryFront(s) ==
    /\ slices[s].upload = "front"
    /\ slices' = [slices EXCEPT ![s] =
           IF IsFront(s) THEN [@ EXCEPT !.upload = "write"]
                         ELSE [@ EXCEPT !.upload = "none", !.meta_write_started = FALSE]]
    /\ UNCHANGED <<chunk, tasks, flushes, shared, meta, hist>>

\* The answers of the metadata store to a write: done, or an error of a kind
\* that should_retry_meta_write tells apart, after which the write may have been
\* done all the same.
Answers == {"ok"} \cup (IF Room THEN {"retry", "fatal"} ELSE {})
Applied(answer, s) ==
    IF answer = "ok" THEN meta' = Append(meta, s) /\ UNCHANGED hist
    ELSE \/ UNCHANGED <<meta, hist>>
         \/ /\ meta' = Append(meta, s)
            /\ hist' = [hist EXCEPT !.again = @ \cup {s}]
After(answer) ==
    CASE answer = "ok" -> shared
      [] answer = "retry" -> Counted
      [] answer = "fatal" -> [Counted EXCEPT !.error = TRUE]

\* try_commit's loop over the metadata write.
TryWrite(s) ==
    /\ slices[s].upload = "write"
    /\ \E answer \in Answers :
       /\ Applied(answer, s)
       /\ slices' = [slices EXCEPT ![s] =
            CASE answer = "ok"    -> [@ EXCEPT !.state = "Committed", !.upload = "none", !.attempts = 0]
              [] answer = "fatal" -> [@ EXCEPT !.state = "Failed", !.upload = "none", !.attempts = 0]
              [] answer = "retry" ->
                   IF @.attempts + 1 < MaxRetries
                   THEN [@ EXCEPT !.attempts = slices[s].attempts + 1]
                   ELSE [@ EXCEPT !.upload = "none", !.meta_write_started = FALSE, !.attempts = 0]]
       /\ shared' = After(answer)
    /\ UNCHANGED <<chunk, tasks, flushes>>

----
(* The commit task of a chunk: commit_chunk. *)

At(t, pc) == tasks[t].pc = pc
Goto(t, pc) ==
    LET on == IF pc \in {"top", "pop", "move"} THEN NoSlice ELSE tasks[t].slice
    IN  tasks' = [tasks EXCEPT ![t] = [pc |-> pc, slice |-> on, failures |-> @.failures]]
End(t) == tasks' = [tasks EXCEPT ![t] = NoTask]

\* The front slice, under the lock.
CommitTop(t) ==
    /\ At(t, "top")
    /\ IF ~ chunk.present THEN End(t)
       ELSE IF chunk.deque = <<>> THEN Goto(t, "empty")
       ELSE tasks' = [tasks EXCEPT ![t].pc = "look", ![t].slice = Head(chunk.deque)]
    /\ UNCHANGED <<slices, chunk, flushes, shared, meta, hist>>

\* What leaves the writer without having been committed.
Evicted(gone) == [hist EXCEPT !.evicted = @ \cup {s \in gone : slices[s].state # "Committed"}]

\* There was no front slice: under a second acquisition of the lock the chunk is
\* removed, or kept for the slices readers still overlay.
CommitEmpty(t) ==
    /\ At(t, "empty")
    /\ IF chunk.recent = {}
       THEN /\ chunk' = Absent
            /\ hist' = Evicted(ToSet(chunk.deque))
            /\ End(t)
       ELSE /\ IF chunk.deque # <<>>
               THEN Goto(t, "top") /\ UNCHANGED chunk
               ELSE End(t) /\ chunk' = [chunk EXCEPT !.commit_started = FALSE]
            /\ UNCHANGED hist
    /\ UNCHANGED <<slices, flushes, shared, meta>>

\* The slice's state as a snapshot: a failed slice is dropped, a committed one
\* moved out, an uploaded one claimed unless it is stale or its upload task has
\* it, and any other waited for, up to COMMIT_UPLOAD_MAX_WAIT.
CommitLook(t) ==
    /\ At(t, "look")
    /\ LET s == tasks[t].slice
           x == slices[s]
       IN  /\ hist' = IF x.state = "Uploaded" /\ Stale(s) THEN FoundStale(s) ELSE hist
           /\ CASE x.state = "Failed"    -> Goto(t, "pop") /\ UNCHANGED slices
                [] x.state = "Committed" -> Goto(t, "move") /\ UNCHANGED slices
                [] x.state = "Uploaded" /\ Stale(s) ->
                     Goto(t, "move") /\ slices' = [slices EXCEPT ![s].state = "Committed"]
                [] x.state = "Uploaded" /\ ~ Stale(s) /\ x.meta_write_started ->
                     Goto(t, "top") /\ UNCHANGED slices
                [] x.state = "Uploaded" /\ ~ Stale(s) /\ ~ x.meta_write_started ->
                     Goto(t, "write") /\ slices' = [slices EXCEPT ![s].meta_write_started = TRUE]
                [] OTHER ->
                     /\ \/ Goto(t, "top")
                        \/ Room /\ x.state = "Readonly" /\ Goto(t, "stalled")
                     /\ UNCHANGED slices
    /\ UNCHANGED <<chunk, flushes, shared, meta>>

\* The wait ran out: the slice is given up, whatever became of it meanwhile.
CommitStalled(t) ==
    /\ At(t, "stalled")
    /\ slices' = [slices EXCEPT ![tasks[t].slice] = Failed(tasks[t].slice)]
    /\ shared' = [Counted EXCEPT !.error = TRUE]
    /\ hist' = [hist EXCEPT !.late = @ \cup {tasks[t].slice}]
    /\ Goto(t, "pop")
    /\ UNCHANGED <<chunk, flushes, meta>>

\* The metadata write of the commit task.  After an error worth a retry the
\* loop starts over and the claim stays.
CommitWrite(t) ==
    /\ At(t, "write")
    /\ LET s == tasks[t].slice
           n == tasks[t].failures + 1
       IN \E answer \in Answers :
          /\ Applied(answer, s)
          /\ CASE answer = "ok" ->
                    /\ slices' = [slices EXCEPT ![s].state = "Committed"]
                    /\ tasks' = [tasks EXCEPT ![t] = [NoTask EXCEPT !.pc = "move"]]
                    /\ shared' = After(answer)
               [] answer = "retry" /\ n < MaxRetries ->
                    /\ tasks' = [tasks EXCEPT ![t] = [NoTask EXCEPT !.pc = "top", !.failures = n]]
                    /\ shared' = After(answer)
                    /\ UNCHANGED slices
               [] OTHER ->
                    /\ slices' = [slices EXCEPT ![s] = Failed(s)]
                    /\ shared' = After("fatal")
                    /\ tasks' = [tasks EXCEPT ![t] = [NoTask EXCEPT !.pc = "pop"]]
    /\ UNCHANGED <<chunk, flushes>>

Popped == IF chunk.deque = <<>> THEN {} ELSE {Head(chunk.deque)}
Rest == IF chunk.deque = <<>> THEN <<>> ELSE Tail(chunk.deque)

\* The committed slice leaves the deque: the front one, whichever it is, kept
\* for readers while its blocks are not all uploaded.
CommitMove(t) ==
    /\ At(t, "move")
    /\ chunk' = [chunk EXCEPT !.deque = Rest,
                              !.recent = @ \cup {s \in Popped : slices[s].state # "Committed"}]
    /\ hist' = Evicted(Popped)
    /\ Goto(t, "top")
    /\ UNCHANGED <<slices, flushes, shared, meta>>

\* A bug to compare with: the task ends with its failed slice, whatever is left.
CommitPopEnds(t) ==
    /\ At(t, "pop")
    /\ hist' = Evicted({s \in Popped : slices[s].state # "Failed"})
    /\ chunk' = IF Rest = <<>> /\ chunk.recent = {} THEN Absent ELSE [chunk EXCEPT !.deque = Rest]
    /\ End(t)
    /\ UNCHANGED <<slices, flushes, shared, meta>>

\* pop_front_slice, for a slice that failed.
CommitPop(t) ==
    /\ At(t, "pop")
    /\ hist' = Evicted({s \in Popped : slices[s].state # "Failed"})
    /\ IF Rest = <<>> /\ chunk.recent = {}
       THEN chunk' = Absent /\ End(t)
       ELSE chunk' = [chunk EXCEPT !.deque = Rest] /\ Goto(t, "top")
    /\ UNCHANGED <<slices, flushes, shared, meta>>

Commit(t) == CommitTop(t) \/ CommitEmpty(t) \/ CommitLook(t) \/ CommitStalled(t)
             \/ CommitWrite(t) \/ CommitMove(t) \/ CommitPop(t)

\* auto_flush drops the slices kept for readers after two seconds, and a chunk
\* with nothing left in it.
Drain ==
    /\ chunk.present
    /\ chunk.recent # {} \/ chunk.deque = <<>>
    /\ chunk' = IF chunk.deque = <<>> THEN Absent ELSE [chunk EXCEPT !.recent = {}]
    /\ UNCHANGED <<slices, tasks, flushes, shared, meta, hist>>

----
(* flush_with_deadline_inner, for fsync and for truncate. *)

FAt(c, pc) == flushes[c].pc = pc

\* The error is reported first; with nothing written since the last flush, or
\* nothing in the writer, there is nothing to wait for.
FlushBegin(c) ==
    /\ FAt(c, "begin")
    /\ IF shared.error \/ ~ chunk.present \/ shared.write_gen = shared.last_flushed_gen
       THEN /\ flushes' = [flushes EXCEPT ![c].pc = "done", ![c].ok = ~ shared.error]
            /\ UNCHANGED shared
       ELSE /\ flushes' = [flushes EXCEPT ![c].pc = "freeze", ![c].gen = shared.write_gen]
            /\ shared' = [shared EXCEPT !.flush_waiting = @ + 1]
    /\ UNCHANGED <<slices, chunk, tasks, meta, hist>>

\* The slices there are now; the writable ones are frozen and sent off.
FlushFreeze(c) ==
    /\ FAt(c, "freeze")
    /\ LET now == ToSet(chunk.deque)
       IN  /\ flushes' = [flushes EXCEPT ![c].pc = "wait", ![c].slices = now]
           /\ slices' = [s \in Slices |-> IF s \in now /\ slices[s].state = "Writable"
                                          THEN Frozen(s) ELSE slices[s]]
    /\ UNCHANGED <<chunk, tasks, shared, meta, hist>>

\* A bug to compare with: a slice counts as flushed once its blocks are uploaded.
FlushWaitUploaded(c) ==
    /\ FAt(c, "wait")
    /\ ~ shared.error
    /\ \A s \in flushes[c].slices : slices[s].state \in {"Uploaded", "Committed"}
    /\ flushes' = [flushes EXCEPT ![c] =
           IF shared.write_gen = @.gen THEN [@ EXCEPT !.pc = "release", !.ok = TRUE]
           ELSE [@ EXCEPT !.pc = "freeze", !.gen = shared.write_gen]]
    /\ UNCHANGED <<slices, chunk, tasks, shared, meta, hist>>

\* The error, or every slice committed: done, or once more for what was written meanwhile.
FlushWait(c) ==
    /\ FAt(c, "wait")
    /\ \/ /\ shared.error
          /\ flushes' = [flushes EXCEPT ![c].pc = "release", ![c].ok = FALSE]
       \/ /\ ~ shared.error
          /\ \A s \in flushes[c].slices : slices[s].state = "Committed"
          /\ flushes' = [flushes EXCEPT ![c] =
                 IF shared.write_gen = @.gen THEN [@ EXCEPT !.pc = "release", !.ok = TRUE]
                 ELSE [@ EXCEPT !.pc = "freeze", !.gen = shared.write_gen]]
    /\ UNCHANGED <<slices, chunk, tasks, shared, meta, hist>>

FlushDeadline(c) ==
    /\ Room
    /\ FAt(c, "wait")
    /\ flushes' = [flushes EXCEPT ![c].pc = "release", ![c].ok = FALSE]
    /\ shared' = Counted
    /\ UNCHANGED <<slices, chunk, tasks, meta, hist>>

\* FlushGateGuard::release wakes the writes that wait, those registered by now;
\* a good flush records the generation it covered.
FlushRelease(c) ==
    /\ FAt(c, "release")
    /\ flushes' = [flushes EXCEPT ![c].pc = "done"]
    /\ shared' = [shared EXCEPT
           !.flush_waiting = @ - 1,
           !.woken = IF shared.flush_waiting = 1 /\ @ = "waiting" THEN "woken" ELSE @,
           !.last_flushed_gen = IF flushes[c].ok THEN flushes[c].gen ELSE @]
    /\ UNCHANGED <<slices, chunk, tasks, meta, hist>>

Fsync ==
    /\ FAt("fsync", "none")
    /\ hist.calls < MaxCalls
    /\ hist' = [hist EXCEPT !.calls = @ + 1]
    /\ flushes' = [flushes EXCEPT !["fsync"] = [NoFlush EXCEPT !.pc = "begin", !.known = hist.acked]]
    /\ UNCHANGED <<slices, chunk, tasks, shared, meta>>

FsyncReturn ==
    /\ FAt("fsync", "done")
    /\ hist' = [hist EXCEPT !.flushed = @ \cup IF flushes["fsync"].ok THEN flushes["fsync"].known ELSE {}]
    /\ flushes' = [flushes EXCEPT !["fsync"] = NoFlush]
    /\ UNCHANGED <<slices, chunk, tasks, shared, meta>>

Flush(c) == FlushBegin(c) \/ FlushFreeze(c) \/ FlushWait(c) \/ FlushDeadline(c) \/ FlushRelease(c)

----
(* truncate_inode, to a size below this chunk. *)

\* With the mutation lock held the writer is flushed (the earlier flush, without
\* the lock, is an Fsync).
Truncate ==
    /\ FAt("truncate", "none")
    /\ hist.calls < MaxCalls
    /\ shared.lock = "free"
    /\ hist' = [hist EXCEPT !.calls = @ + 1]
    /\ shared' = [shared EXCEPT !.lock = "truncate"]
    /\ flushes' = [flushes EXCEPT !["truncate"] = [NoFlush EXCEPT !.pc = "begin", !.known = hist.acked]]
    /\ UNCHANGED <<slices, chunk, tasks, meta>>

TruncateFails ==
    /\ FAt("truncate", "done")
    /\ ~ flushes["truncate"].ok
    /\ shared' = [shared EXCEPT !.lock = "free"]
    /\ flushes' = [flushes EXCEPT !["truncate"] = NoFlush]
    /\ UNCHANGED <<slices, chunk, tasks, meta, hist>>

\* A write acknowledged before the truncation returns may count as before it.
Meanwhile == [hist EXCEPT !.concurrent = @ \cup hist.acked]

TruncateMeta ==
    /\ FAt("truncate", "done")
    /\ flushes["truncate"].ok
    /\ meta' = <<>>
    /\ hist' = [Meanwhile EXCEPT !.cut = @ \cup (flushes["truncate"].known \ hist.late)]
    /\ flushes' = [flushes EXCEPT !["truncate"].pc = "clear"]
    /\ UNCHANGED <<slices, chunk, tasks, shared>>

\* FileWriter::clear drops the chunk; the tasks go on.
TruncateClear ==
    /\ FAt("truncate", "clear")
    /\ chunk' = Absent
    /\ hist' = [Meanwhile EXCEPT !.late = @ \cup {s \in ToSet(chunk.deque) : slices[s].state # "Committed"}]
    /\ flushes' = [flushes EXCEPT !["truncate"].pc = "bump"]
    /\ UNCHANGED <<slices, tasks, shared, meta>>

\* bump_data_epoch and return.
TruncateBump ==
    /\ FAt("truncate", "bump")
    /\ shared' = [shared EXCEPT !.epoch = @ + 1, !.lock = "free"]
    /\ hist' = Meanwhile
    /\ flushes' = [flushes EXCEPT !["truncate"] = NoFlush]
    /\ UNCHANGED <<slices, chunk, tasks, meta>>

Write == WriteCached \/ WriteNormal
UploadStep(s) == Upload(s) \/ TryClaim(s) \/ TryFront(s) \/ TryWrite(s)
TruncateStep == TruncateFails \/ TruncateMeta \/ TruncateClear \/ TruncateBump

Next ==
    \/ Write \/ WriteWait \/ WriteResume
    \/ \E s \in Slices : Freeze(s) \/ UploadStep(s)
    \/ \E t \in Tasks : Commit(t)
    \/ Drain
    \/ Fsync \/ FsyncReturn \/ Truncate \/ TruncateStep
    \/ \E c \in FlushCallers : Flush(c)

Spec == Init /\ [][Next]_vars

\* Every task that can take a step takes it, and auto_flush and commit_chunk
\* freeze what has waited long enough; callers need not call.
Fairness ==
    /\ WF_vars(WriteWait) /\ WF_vars(WriteResume) /\ WF_vars(FsyncReturn) /\ WF_vars(TruncateStep)
    /\ \A s \in Slices : WF_vars(UploadStep(s)) /\ WF_vars(Freeze(s))
    /\ \A t \in Tasks : WF_vars(Commit(t))
    /\ \A c \in FlushCallers : WF_vars(Flush(c))

----
(* Properties. *)

\* Every part of the state has its type.
TypeOK ==
    /\ \A s \in Slices :
          /\ slices[s].state \in {"none", "Writable", "Readonly", "Uploaded", "Failed", "Committed"}
          /\ slices[s].frozen_epoch \in 0 .. MaxCalls
          /\ slices[s].meta_write_started \in BOOLEAN
          /\ slices[s].upload \in {"none", "id", "put", "try", "front", "write"}
          /\ slices[s].attempts \in 0 .. MaxRetries
    /\ chunk.present \in BOOLEAN /\ chunk.commit_started \in BOOLEAN
    /\ ToSet(chunk.deque) \subseteq Slices /\ chunk.recent \subseteq Slices
    /\ \A t \in Tasks :
          /\ tasks[t].pc \in {"none", "top", "empty", "look", "stalled", "write", "move", "pop"}
          /\ tasks[t].slice \in Slices \cup {NoSlice}
          /\ tasks[t].failures \in 0 .. MaxRetries
    /\ \A c \in FlushCallers :
          /\ flushes[c].pc \in {"none", "begin", "freeze", "wait", "release", "done", "clear", "bump"}
          /\ flushes[c].slices \cup flushes[c].known \subseteq Slices
    /\ shared.flush_waiting \in 0 .. 2
    /\ ToSet(meta) \subseteq Slices

\* The metadata list orders two overlapping writes as their callers saw them: a
\* write acknowledged before another began comes first.  Upload tasks, commit
\* tasks and their retries race to append.  The exceptions are a slice evicted
\* before it was committed and one given up, cleared, or found stale while it was
\* on the way.
PublishedInOrder ==
    \A i, j \in DOMAIN meta :
        i < j => meta[j] \notin hist.before[meta[i]] \ (hist.evicted \cup hist.late)

\* No slice is appended to the metadata list twice, unless the store did a write
\* it answered with an error: meta_write_started is claimed by the upload task or
\* by one commit task, never by two.
PublishedOnce ==
    \A i, j \in DOMAIN meta : i # j /\ meta[i] = meta[j] => meta[i] \in hist.again

\* No data acknowledged before a truncation began comes back after its metadata
\* cut, whatever uploads, commits and retries were under way.  The exceptions are
\* an evicted slice whose upload task has passed its last check, and one that was
\* given up, cleared or found stale on the way before this truncation's cut.
TruncatedStaysGone == hist.cut \cap ToSet(meta) \subseteq hist.evicted

\* A slice in the deque always has a task that will commit it, so the safety
\* net in flush that starts another has nothing to do.
SomeoneCommits ==
    chunk.deque # <<>> => chunk.commit_started /\ \E t \in Tasks : tasks[t].pc # "none"

\* When fsync reports success every write acknowledged before the call is in the
\* metadata, unless a truncation was under way or the slice was evicted.
FlushAccountsForAll ==
    hist.flushed \subseteq ToSet(meta) \cup hist.concurrent \cup hist.evicted

\* A frozen slice leaves the deque in the end, committed or failed, unless a
\* commit task has had an error worth a retry: it keeps the slice's claim, and
\* then waits for whoever it thinks has it.
FrozenLeaves ==
    \A s \in Slices : (s \in ToSet(chunk.deque) /\ slices[s].state # "Writable")
                         ~> (s \notin ToSet(chunk.deque) \/ \E t \in Tasks : tasks[t].failures > 0)

\* What the metadata list says is what the callers did: every slice once, in
\* order, and nothing a truncation has cut.
ListSound == PublishedInOrder /\ PublishedOnce /\ TruncatedStaysGone

\* The deque never waits for nobody.
ChunkTended == TypeOK /\ SomeoneCommits
====
