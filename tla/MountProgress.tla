---- MODULE MountProgress ----
(* What must eventually happen in a mount, checked for five of its parts side  *)
(* by side: the writer with upload before commit (SliceWriter), the writer     *)
(* with commit before upload (WriteBack), which a mount runs instead of it,    *)
(* the cached slice lists (ReadPath), the single flight of block reads         *)
(* (SingleFlight) and the gate of an open file (HandleGate).  A behaviour is   *)
(* one of one part; the others keep their initial values.                      *)
EXTENDS ReadPath

CONSTANTS MaxWrites, MaxCalls, Tasks, MaxRetries, MaxFaults,  \* SliceWriter's
          EarlyWrites, EarlyEvents, RequireStage,             \* WriteBack's
          Callers, Keys, MaxFlights,                          \* SingleFlight's
          GateTasks, MaxLocks                                 \* HandleGate's

VARIABLES
    part,
    slices, chunk, tasks, flushes, shared, meta, hist,        \* SliceWriter's
    w_slices, w_queue, w_procs, w_upload, w_disk, w_objects,  \* WriteBack's
    w_meta, w_recovery, w_mount, w_hist,
    in_flight, f_state, created, f_pc, entry, result, f_notified, key,  \* SingleFlight's
    readers, writers_waiting, h_writing, h_pc, h_notified, calls        \* HandleGate's

S == INSTANCE SliceWriter

W == INSTANCE WriteBack WITH
        MaxWrites <- EarlyWrites, MaxEvents <- EarlyEvents,
        slices <- w_slices, queue <- w_queue, procs <- w_procs, upload <- w_upload,
        disk <- w_disk, objects <- w_objects, meta <- w_meta, recovery <- w_recovery,
        mount <- w_mount, hist <- w_hist

F == INSTANCE SingleFlight WITH state <- f_state, pc <- f_pc, notified <- f_notified

H == INSTANCE HandleGate WITH Tasks <- GateTasks, writing <- h_writing, pc <- h_pc, notified <- h_notified

lateVars == <<slices, chunk, tasks, flushes, shared, meta, hist>>
earlyVars == <<w_slices, w_queue, w_procs, w_upload, w_disk, w_objects,
               w_meta, w_recovery, w_mount, w_hist>>
flightVars == <<in_flight, f_state, created, f_pc, entry, result, f_notified, key>>
gateVars == <<readers, writers_waiting, h_writing, h_pc, h_notified, calls>>
mountVars == <<part, lateVars, earlyVars, flightVars, gateVars, vars>>

MountInit ==
    /\ part \in {"late", "early", "read", "flight", "gate"}
    /\ S!Init /\ W!Init /\ F!Init /\ H!Init /\ Init

MountNext ==
    \/ part = "late" /\ S!Next /\ UNCHANGED <<part, earlyVars, flightVars, gateVars, vars>>
    \/ part = "early" /\ W!Next /\ UNCHANGED <<part, lateVars, flightVars, gateVars, vars>>
    \/ part = "read" /\ Next /\ UNCHANGED <<part, lateVars, earlyVars, flightVars, gateVars>>
    \/ part = "flight" /\ F!Next /\ UNCHANGED <<part, lateVars, earlyVars, gateVars, vars>>
    \/ part = "gate" /\ H!Next /\ UNCHANGED <<part, lateVars, earlyVars, flightVars, vars>>

\* The fairness of each part.  In their initial states no fair step of a part is
\* enabled, but for a task that looks for slices, which can always start.
MountFairness ==
    /\ S!Fairness /\ W!Fairness /\ F!Fairness /\ H!Fairness
    /\ WF_vars(part = "read" /\ ~overtaken /\ Expire)
    /\ \A p \in Probers : WF_vars(part = "read" /\ ~overtaken /\ ProbeStep(p))

MountSpec == MountInit /\ [][MountNext]_mountVars /\ MountFairness

----
(* Properties. *)

\* Upload before commit: a frozen slice leaves the deque in the end, committed
\* or failed, unless a commit task has had an error worth a retry
\* (commit_chunk, try_commit).
FrozenLeaves == S!FrozenLeaves

\* Commit before upload: a write that fsync reported durable reaches the object
\* store, through any crash, unless a truncation removed it or the writer
\* reported an error (recover_dirty_slices).
FlushedReachesStore == W!FlushedReachesStore

\* Once the writes have stopped, a task that keeps calling get_slices gets the
\* store's list again and again: no stale list outlives the recheck interval
\* (get_slices, invalidate_slices_if_version).
ListsBecomeCurrent == part = "read" => EventuallyCurrent

\* Every caller that waits for a block another task reads gets an answer, also
\* when that task is cancelled: no wake-up is lost between the look at the state
\* and the await (wait_for_result).
WaitersReturn == F!WaitersReturn

\* With finitely many lock calls, every call for the gate of an open file ends:
\* neither a cancelled writer nor a release between the check and the await
\* strands a task (HandleGate, HandleWriteWaiter).
LocksGranted == H!LocksGranted

====
