----------------------------- MODULE HandleGate -----------------------------
(* The reader/writer gate of an open file (src/vfs/handles.rs): reads share  *)
(* it, a write or a truncate holds it alone, and a waiting writer keeps new  *)
(* readers out.  Tasks wait on one Notify and may be dropped while they wait *)
(* (a FUSE interrupt), which for a writer runs HandleWriteWaiter::drop.      *)
EXTENDS Naturals, FiniteSets

CONSTANTS Tasks,
          MaxLocks      \* bound: lock calls in all

ASSUME GateAssumption == IsFiniteSet(Tasks) /\ MaxLocks \in Nat

VARIABLES readers, writers_waiting, writing,    \* GateState
          pc,           \* where each task is
          notified,     \* tasks whose Notified future has been completed
          calls         \* lock calls made so far

vars == <<readers, writers_waiting, writing, pc, notified, calls>>

ReadWait  == {"read", "readEnabled", "readParked"}
WriteWait == {"write", "writeEnabled", "writeParked"}

TypeOK ==
    /\ readers \in Nat /\ writers_waiting \in Nat /\ writing \in BOOLEAN
    /\ pc \in [Tasks -> ReadWait \cup WriteWait \cup {"idle", "reading", "writing"}]
    /\ notified \subseteq Tasks
    /\ calls \in 0..MaxLocks

Init ==
    /\ readers = 0 /\ writers_waiting = 0 /\ writing = FALSE
    /\ pc = [t \in Tasks |-> "idle"]
    /\ notified = {}
    /\ calls = 0

Goto(t, label) == pc' = [pc EXCEPT ![t] = label]

Listeners == {t \in Tasks : pc[t] \in {"readEnabled", "readParked", "writeEnabled", "writeParked"}}

NotifyWaiters == notified' = notified \cup Listeners

\* read_lock is called; write_lock is called and counts itself as waiting.
ReadLock(t) ==
    /\ pc[t] = "idle" /\ calls < MaxLocks
    /\ Goto(t, "read")
    /\ calls' = calls + 1
    /\ UNCHANGED <<readers, writers_waiting, writing, notified>>

WriteLock(t) ==
    /\ pc[t] = "idle" /\ calls < MaxLocks
    /\ Goto(t, "write")
    /\ writers_waiting' = writers_waiting + 1
    /\ calls' = calls + 1
    /\ UNCHANGED <<readers, writing, notified>>

\* Top of the loop: a new Notified, put in the queue by enable().
Enable(t) ==
    /\ pc[t] \in {"read", "write"}
    /\ Goto(t, IF pc[t] = "read" THEN "readEnabled" ELSE "writeEnabled")
    /\ notified' = notified \ {t}
    /\ UNCHANGED <<readers, writers_waiting, writing, calls>>

\* A mutant lets readers in while somebody writes.
ReaderMayEnterEarly == writers_waiting = 0

ReaderMayEnter == ~writing /\ writers_waiting = 0

ReadCheck(t) ==
    /\ pc[t] = "readEnabled"
    /\ IF ReaderMayEnter
       THEN readers' = readers + 1 /\ Goto(t, "reading")
       ELSE Goto(t, "readParked") /\ UNCHANGED readers
    /\ UNCHANGED <<writers_waiting, writing, notified, calls>>

WriteCheck(t) ==
    /\ pc[t] = "writeEnabled"
    /\ IF readers = 0 /\ ~writing
       THEN /\ writing' = TRUE
            /\ writers_waiting' = writers_waiting - 1
            /\ Goto(t, "writing")
       ELSE Goto(t, "writeParked") /\ UNCHANGED <<writing, writers_waiting>>
    /\ UNCHANGED <<readers, notified, calls>>

\* The await returns and the loop starts again.
Wake(t) ==
    /\ pc[t] \in {"readParked", "writeParked"} /\ t \in notified
    /\ Goto(t, IF pc[t] = "readParked" THEN "read" ELSE "write")
    /\ UNCHANGED <<readers, writers_waiting, writing, notified, calls>>

\* Drop of HandleReadGuard: only the last reader wakes the others.
ReadUnlock(t) ==
    /\ pc[t] = "reading"
    /\ readers' = readers - 1
    /\ IF readers = 1 THEN NotifyWaiters ELSE UNCHANGED notified
    /\ Goto(t, "idle")
    /\ UNCHANGED <<writers_waiting, writing, calls>>

\* Drop of HandleWriteGuard.
WriteUnlock(t) ==
    /\ pc[t] = "writing"
    /\ writing' = FALSE
    /\ NotifyWaiters
    /\ Goto(t, "idle")
    /\ UNCHANGED <<readers, writers_waiting, calls>>

\* A mutant of the cancellation below: the readers that the departed writer
\* kept out are not woken.
CancelWriteSilent(t) ==
    /\ pc[t] = "writeParked"
    /\ writers_waiting' = writers_waiting - 1
    /\ notified' = notified \ {t}
    /\ Goto(t, "idle")
    /\ UNCHANGED <<readers, writing, calls>>

\* The task is dropped at its await.  Drop of HandleWriteWaiter stops counting
\* it and wakes the readers it kept out.
CancelWrite(t) ==
    /\ pc[t] = "writeParked"
    /\ writers_waiting' = writers_waiting - 1
    /\ notified' = (notified \cup Listeners) \ {t}
    /\ Goto(t, "idle")
    /\ UNCHANGED <<readers, writing, calls>>

CancelRead(t) ==
    /\ pc[t] = "readParked"
    /\ notified' = notified \ {t}
    /\ Goto(t, "idle")
    /\ UNCHANGED <<readers, writers_waiting, writing, calls>>

Step(t) ==
    \/ Enable(t) \/ ReadCheck(t) \/ WriteCheck(t) \/ Wake(t)
    \/ ReadUnlock(t) \/ WriteUnlock(t)

Next ==
    \E t \in Tasks :
        ReadLock(t) \/ WriteLock(t) \/ Step(t) \/ CancelWrite(t) \/ CancelRead(t)

Spec == Init /\ [][Next]_vars

\* The runtime polls a task that can run, and an operation under the gate ends.
Fairness == \A t \in Tasks : WF_vars(Step(t))

-----------------------------------------------------------------------------
Reading == {t \in Tasks : pc[t] = "reading"}
Writing == {t \in Tasks : pc[t] = "writing"}

(* A write or truncate never overlaps a read or another write of the handle  *)
(* (HandleGate::read_lock, write_lock).                                      *)
Exclusion ==
    /\ Cardinality(Writing) <= 1
    /\ Writing # {} => Reading = {}

(* writers_waiting counts exactly the writers that wait: one left over after *)
(* a cancellation would keep every reader out for the life of the handle.    *)
WaitersCounted ==
    /\ writers_waiting = Cardinality({t \in Tasks : pc[t] \in WriteWait})
    /\ readers = Cardinality(Reading)

(* With finitely many lock calls, every call ends: neither a cancelled       *)
(* writer nor a release between the check and the await strands a task.      *)
LocksGranted == \A t \in Tasks : pc[t] \in ReadWait \cup WriteWait ~> pc[t] \notin ReadWait \cup WriteWait

\* The gate admits what its counters say, and its counters are right.
GateSound == TypeOK /\ Exclusion /\ WaitersCounted
=============================================================================
