---------------------------- MODULE SingleFlight ----------------------------
(* One operation per key for all the callers that ask while it runs          *)
(* (src/chunk/singleflight.rs).  The block store runs object reads, page     *)
(* ranges and layout probes through it, so a key that is never released, or  *)
(* a waiter that is never woken, hangs every later read of that block.       *)
(*                                                                           *)
(* A flight is an Arc<FlightEntry>; callers hold it after it has left the    *)
(* map.  A caller is a task: the runtime may drop it at any await, which for *)
(* the leader runs LeaderGuard::drop.                                        *)
EXTENDS Naturals, FiniteSets

CONSTANTS Callers,      \* tasks that call execute_with_status or try_piggyback
          Keys,
          MaxFlights    \* bound: flights ever created

NoFlight == 0           \* neither a flight nor a key

VARIABLES in_flight,    \* [Keys -> flight in the map, or NoFlight]
          state,        \* [flight -> "Running" or the published result]
          created,      \* flights created so far
          pc,           \* where each caller is
          entry,        \* [Callers -> the flight it leads or joined]
          result,       \* what the leader will publish, or what a caller got
          notified,     \* callers whose Notified future has been completed
          key           \* [Callers -> LeaderGuard::key while it leads]

vars == <<in_flight, state, created, pc, entry, result, notified, key>>

Flights == 1..MaxFlights
Results == {"ok", "error", "dropped"}
Waiting == {"wait", "armed", "looked", "parked"}

TypeOK ==
    /\ in_flight \in [Keys -> Flights \cup {NoFlight}]
    /\ state \in [Flights -> Results \cup {"Running"}]
    /\ created \in 0..MaxFlights
    /\ pc \in [Callers -> Waiting \cup {"idle", "run", "removed", "done"}]
    /\ entry \in [Callers -> Flights \cup {NoFlight}]
    /\ result \in [Callers -> Results \cup {"none"}]
    /\ notified \subseteq Callers
    /\ key \in [Callers -> Keys \cup {NoFlight}]

Init ==
    /\ in_flight = [k \in Keys |-> NoFlight]
    /\ state = [f \in Flights |-> "Running"]
    /\ created = 0
    /\ pc = [c \in Callers |-> "idle"]
    /\ entry = [c \in Callers |-> NoFlight]
    /\ result = [c \in Callers |-> "none"]
    /\ notified = {}
    /\ key = [c \in Callers |-> NoFlight]

Goto(c, label) == pc' = [pc EXCEPT ![c] = label]

StartFlight(c, k) ==
    /\ pc[c] = "idle" /\ created < MaxFlights
    /\ created' = created + 1
    /\ in_flight' = [in_flight EXCEPT ![k] = created + 1]
    /\ entry' = [entry EXCEPT ![c] = created + 1]
    /\ key' = [key EXCEPT ![c] = k]
    /\ Goto(c, "run")
    /\ UNCHANGED <<state, result, notified>>

\* execute_with_status finds no entry: this caller inserts one and leads.
Lead(c, k) == in_flight[k] = NoFlight /\ StartFlight(c, k)

\* execute_with_status, or try_piggyback, finds a flight and waits for it.
\* (A piggyback that finds none returns None and changes nothing.)
Join(c, k) ==
    /\ pc[c] = "idle" /\ in_flight[k] # NoFlight
    /\ entry' = [entry EXCEPT ![c] = in_flight[k]]
    /\ Goto(c, "wait")
    /\ UNCHANGED <<in_flight, state, created, result, notified, key>>

(***************************************************************************)
(* The leader's closure returns, or the leader is dropped while it runs:   *)
(* complete and LeaderGuard::drop both take the key out of the map first   *)
(* and publish afterwards.  remove_entry only removes its own flight.      *)
(***************************************************************************)
RemoveEntry(k, f) ==
    IF in_flight[k] = f THEN [in_flight EXCEPT ![k] = NoFlight] ELSE in_flight

EndRun(c, how) ==
    /\ pc[c] = "run"
    /\ in_flight' = RemoveEntry(key[c], entry[c])
    /\ result' = [result EXCEPT ![c] = how]
    /\ Goto(c, "removed")
    /\ UNCHANGED <<state, created, entry, notified, key>>

\* A mutant publishes while the key is still in the map.
CompleteEarly(c) ==
    /\ pc[c] = "run" /\ state[entry[c]] = "Running"
    /\ \E how \in {"ok", "error"} : state' = [state EXCEPT ![entry[c]] = how]
    /\ UNCHANGED <<in_flight, created, pc, entry, result, notified, key>>

Complete(c) == \E how \in {"ok", "error"} : EndRun(c, how)

\* A mutant forgets the key when the leader is dropped.
DropSilently(c) ==
    /\ pc[c] = "run"
    /\ Goto(c, "idle")
    /\ entry' = [entry EXCEPT ![c] = NoFlight]
    /\ UNCHANGED <<in_flight, state, created, result, notified, key>>

DropLeader(c) == EndRun(c, "dropped")

\* notify_waiters completes every Notified future that exists at the call,
\* polled or not; the mutant reaches only the tasks already parked on one.
Listeners(f) == {c \in Callers : entry[c] = f /\ pc[c] \in {"armed", "looked", "parked"}}
ParkedOnly(f) == {c \in Callers : entry[c] = f /\ pc[c] = "parked"}

NotifyWaiters(f) == Listeners(f)

\* FlightEntry::finish: the first result wins, then everyone is woken.
Finish(c) ==
    /\ pc[c] = "removed"
    /\ IF state[entry[c]] = "Running"
       THEN /\ state' = [state EXCEPT ![entry[c]] = result[c]]
            /\ notified' = notified \cup NotifyWaiters(entry[c])
       ELSE UNCHANGED <<state, notified>>
    /\ Goto(c, "done")
    /\ UNCHANGED <<in_flight, created, entry, result, key>>

\* wait_for_result: a fresh Notified, then a look at the state, then the await.
Arm(c) ==
    /\ pc[c] = "wait"
    /\ notified' = notified \ {c}
    /\ Goto(c, "armed")
    /\ UNCHANGED <<in_flight, state, created, entry, result, key>>

Look(c) ==
    /\ pc[c] = "armed"
    /\ IF state[entry[c]] = "Running"
       THEN Goto(c, "looked") /\ UNCHANGED result
       ELSE /\ result' = [result EXCEPT ![c] = state[entry[c]]]
            /\ Goto(c, "done")
    /\ UNCHANGED <<in_flight, state, created, entry, notified, key>>

Park(c) ==
    /\ pc[c] = "looked"
    /\ Goto(c, "parked")
    /\ UNCHANGED <<in_flight, state, created, entry, result, notified, key>>

Wake(c) ==
    /\ pc[c] = "parked" /\ c \in notified
    /\ Goto(c, "wait")
    /\ UNCHANGED <<in_flight, state, created, entry, result, notified, key>>

\* A waiting caller is dropped, or a finished one takes its result away.
Leave(c) ==
    /\ pc[c] \in Waiting \cup {"done"}
    /\ Goto(c, "idle")
    /\ entry' = [entry EXCEPT ![c] = NoFlight]
    /\ result' = [result EXCEPT ![c] = "none"]
    /\ notified' = notified \ {c}
    /\ key' = [key EXCEPT ![c] = NoFlight]
    /\ UNCHANGED <<in_flight, state, created>>

Next ==
    \E c \in Callers :
        \/ \E k \in Keys : Lead(c, k) \/ Join(c, k)
        \/ Complete(c) \/ DropLeader(c) \/ Finish(c)
        \/ Arm(c) \/ Look(c) \/ Park(c) \/ Wake(c) \/ Leave(c)

\* A task that can run is run; an object request ends (the client has a
\* timeout and a retry limit) or its task is dropped.
Fairness ==
    \A c \in Callers :
        /\ WF_vars(Complete(c) \/ DropLeader(c))
        /\ WF_vars(Finish(c))
        /\ WF_vars(Arm(c) \/ Look(c) \/ Park(c) \/ Wake(c))

Spec == Init /\ [][Next]_vars

-----------------------------------------------------------------------------
(* At most one task runs the operation of a key, however leaders finish or   *)
(* are cancelled (execute_with_status, LeaderGuard).                         *)
OneRunner ==
    \A c, d \in Callers : (pc[c] = "run" /\ pc[d] = "run" /\ key[c] = key[d]) => c = d

(* A key in the map has a live leader: otherwise every later caller of the   *)
(* key would join a flight nobody ends (Drop for LeaderGuard).               *)
KeyHasLeader ==
    \A k \in Keys : in_flight[k] # NoFlight =>
        \E c \in Callers : pc[c] = "run" /\ entry[c] = in_flight[k]

(* A caller that joins gets a result published after it joined, never the    *)
(* replay of a finished flight: the key leaves the map before the result is  *)
(* published (complete).                                                     *)
NoReplay ==
    [][\A c \in Callers : (pc[c] = "idle" /\ pc'[c] = "wait")
            => state[entry'[c]] = "Running"]_vars

(* Every waiter gets an answer, also when the leader is cancelled: no        *)
(* wake-up is lost between the look at the state and the await.              *)
WaitersReturn == \A c \in Callers : pc[c] \in Waiting ~> pc[c] \in {"done", "idle"}

\* One task per key runs the operation, and a key in the map has that task.
FlightsSound == TypeOK /\ OneRunner /\ KeyHasLeader
=============================================================================
