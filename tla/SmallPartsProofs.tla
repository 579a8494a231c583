-------------------------- MODULE SmallPartsProofs --------------------------
(* Proofs about the parts that SmallParts puts side by side: the gate of an  *)
(* open file, the single flight of block reads, the cached children of a     *)
(* directory and coalesced objects.  Each theorem is of the part's own       *)
(* specification.                                                            *)
EXTENDS SmallParts, FiniteSetTheorems, TLAPS

-----------------------------------------------------------------------------
(* HandleGate: any finite set of tasks.                                      *)

WritersWaiting == {t \in Tasks : pc[t] \in WriteWait}

\* The flag is set exactly while one task writes, and then nobody reads.
FlagMeansWriter ==
    /\ writing <=> Writing # {}
    /\ \A t, u \in Writing : t = u
    /\ writing => Reading = {}

GateInv == TypeOK /\ WaitersCounted /\ FlagMeansWriter

-----------------------------------------------------------------------------

\* One more or one fewer: what happens to the count of a finite set of tasks
\* when one task moves.
LEMMA Counts ==
    ASSUME NEW S \in SUBSET Tasks, NEW t \in Tasks
    PROVE  /\ IsFiniteSet(S) /\ Cardinality(S) \in Nat
           /\ Cardinality(S) = 0 <=> S = {}
           /\ t \notin S => Cardinality(S \cup {t}) = Cardinality(S) + 1
           /\ t \in S => Cardinality(S \ {t}) = Cardinality(S) - 1
<1>1. IsFiniteSet(S)
    BY GateAssumption, FS_Subset
<1>2. Cardinality(S) \in Nat /\ (Cardinality(S) = 0 <=> S = {})
    BY <1>1, FS_CardinalityType, FS_EmptySet
<1>3. t \notin S => Cardinality(S \cup {t}) = Cardinality(S) + 1
    BY <1>1, FS_AddElement
<1>4. t \in S => Cardinality(S \ {t}) = Cardinality(S) - 1
    BY <1>1, FS_RemoveElement
<1> QED
    BY <1>1, <1>2, <1>3, <1>4

\* A task that moves joins the set of its new label and leaves the others.
LEMMA Moves ==
    ASSUME TypeOK, NEW t \in Tasks, NEW label,
           label \in ReadWait \cup WriteWait \cup {"idle", "reading", "writing"}, Goto(t, label)
    PROVE  /\ pc' \in [Tasks -> ReadWait \cup WriteWait \cup {"idle", "reading", "writing"}]
           /\ Reading' = IF label = "reading" THEN Reading \cup {t} ELSE Reading \ {t}
           /\ Writing' = IF label = "writing" THEN Writing \cup {t} ELSE Writing \ {t}
           /\ WritersWaiting' = IF label \in WriteWait THEN WritersWaiting \cup {t}
                                ELSE WritersWaiting \ {t}
           /\ t \in Reading <=> pc[t] = "reading"
           /\ t \in Writing <=> pc[t] = "writing"
           /\ t \in WritersWaiting <=> pc[t] \in WriteWait
BY DEF TypeOK, Goto, Reading, Writing, WritersWaiting

\* A step that moves a task among labels outside the three sets, or within
\* one, and leaves the counters alone.
LEMMA Stays ==
    ASSUME GateInv, NEW t \in Tasks, NEW label,
           label \in ReadWait \cup WriteWait \cup {"idle"}, Goto(t, label),
           pc[t] \in ReadWait \cup WriteWait \cup {"idle"},
           pc[t] \in WriteWait <=> label \in WriteWait,
           UNCHANGED <<readers, writers_waiting, writing>>,
           notified' \subseteq Tasks, calls' \in 0 .. MaxLocks
    PROVE  GateInv'
<1>1. /\ pc' \in [Tasks -> ReadWait \cup WriteWait \cup {"idle", "reading", "writing"}]
      /\ Reading' = Reading /\ Writing' = Writing /\ WritersWaiting' = WritersWaiting
    BY Moves DEF GateInv, ReadWait, WriteWait
<1> QED
    BY <1>1 DEF GateInv, TypeOK, WaitersCounted, FlagMeansWriter, WritersWaiting

\* At the start no task is at the gate.
LEMMA GateInit == Init => GateInv
<1> SUFFICES ASSUME Init PROVE GateInv
    OBVIOUS
<1>1. TypeOK
    <2>1. pc \in [Tasks -> ReadWait \cup WriteWait \cup {"idle", "reading", "writing"}]
        BY DEF Init
    <2>2. calls \in 0 .. MaxLocks
        BY GateAssumption DEF Init
    <2>3. writing \in BOOLEAN /\ notified \subseteq Tasks
        BY Zenon DEF Init
    <2> QED
        BY <2>1, <2>2, <2>3 DEF Init, TypeOK
<1>2. Reading = {} /\ Writing = {} /\ WritersWaiting = {}
    BY DEF Init, Reading, Writing, WritersWaiting, WriteWait
<1>3. Cardinality(Reading) = 0 /\ Cardinality(WritersWaiting) = 0
    BY <1>2, FS_EmptySet
<1>4. WaitersCounted
    BY <1>3 DEF Init, WaitersCounted, WritersWaiting
<1>5. FlagMeansWriter
    BY <1>2 DEF Init, FlagMeansWriter
<1> QED
    BY <1>1, <1>4, <1>5 DEF GateInv

\* Every step of a task keeps the counts.
LEMMA GateStep == GateInv /\ [Next]_vars => GateInv'
<1> SUFFICES ASSUME GateInv, [Next]_vars PROVE GateInv'
    OBVIOUS
<1>0. CASE UNCHANGED vars
    BY <1>0 DEF vars, GateInv, TypeOK, WaitersCounted, FlagMeansWriter, Reading, Writing
<1> SUFFICES ASSUME NEW t \in Tasks,
                    ReadLock(t) \/ WriteLock(t) \/ Step(t) \/ CancelWrite(t) \/ CancelRead(t)
             PROVE  GateInv'
    BY <1>0 DEF Next
<1> USE GateAssumption
<1>a. /\ Reading \in SUBSET Tasks /\ Writing \in SUBSET Tasks /\ WritersWaiting \in SUBSET Tasks
      /\ readers = Cardinality(Reading) /\ writers_waiting = Cardinality(WritersWaiting)
      /\ TypeOK /\ Listeners \subseteq Tasks
    BY DEF GateInv, WaitersCounted, Reading, Writing, WritersWaiting, Listeners
<1>1. CASE ReadLock(t)
    BY <1>1, Stays DEF ReadLock, GateInv, TypeOK, ReadWait, WriteWait
<1>2. CASE WriteLock(t)
    <2>1. /\ pc' \in [Tasks -> ReadWait \cup WriteWait \cup {"idle", "reading", "writing"}]
          /\ Reading' = Reading /\ Writing' = Writing
          /\ WritersWaiting' = WritersWaiting \cup {t} /\ t \notin WritersWaiting
        BY <1>2, <1>a, Moves DEF WriteLock, ReadWait, WriteWait
    <2>2. Cardinality(WritersWaiting') = writers_waiting'
        BY <1>2, <1>a, <2>1, Counts DEF WriteLock
    <2> QED
        BY <1>2, <2>1, <2>2 DEF WriteLock, GateInv, TypeOK, WaitersCounted, FlagMeansWriter, WritersWaiting
<1>3. CASE Enable(t)
    <2>1. notified' \subseteq Tasks /\ calls' \in 0 .. MaxLocks
        BY <1>3, <1>a DEF Enable, TypeOK
    <2> QED
        BY <1>3, <2>1, Stays DEF Enable, ReadWait, WriteWait
<1>4. CASE ReadCheck(t)
    <2>1. CASE ReaderMayEnter
        <3>1. /\ pc' \in [Tasks -> ReadWait \cup WriteWait \cup {"idle", "reading", "writing"}]
              /\ Reading' = Reading \cup {t} /\ t \notin Reading
              /\ Writing' = Writing /\ WritersWaiting' = WritersWaiting
            BY <1>4, <2>1, <1>a, Moves DEF ReadCheck, ReadWait, WriteWait
        <3>2. Cardinality(Reading') = readers' /\ ~writing
            BY <1>4, <2>1, <1>a, <3>1, Counts DEF ReadCheck, ReaderMayEnter
        <3> QED
            BY <1>4, <2>1, <3>1, <3>2 DEF ReadCheck, GateInv, TypeOK, WaitersCounted, FlagMeansWriter,
                 WritersWaiting
    <2>2. CASE ~ReaderMayEnter
        BY <1>4, <2>2, Stays DEF ReadCheck, GateInv, TypeOK, ReadWait, WriteWait
    <2> QED
        BY <2>1, <2>2
<1>5. CASE WriteCheck(t)
    <2>1. CASE readers = 0 /\ ~writing
        <3>1. /\ pc' \in [Tasks -> ReadWait \cup WriteWait \cup {"idle", "reading", "writing"}]
              /\ WritersWaiting' = WritersWaiting \ {t} /\ t \in WritersWaiting
              /\ Reading' = Reading /\ Writing' = Writing \cup {t}
            BY <1>5, <2>1, <1>a, Moves DEF WriteCheck, ReadWait, WriteWait
        <3>2. Cardinality(WritersWaiting') = writers_waiting' /\ writers_waiting' \in Nat
            BY <1>5, <2>1, <1>a, <3>1, Counts DEF WriteCheck
        <3>3. Reading = {} /\ Writing = {}
            BY <2>1, <1>a, Counts DEF GateInv, FlagMeansWriter
        <3> QED
            BY <1>5, <2>1, <3>1, <3>2, <3>3 DEF WriteCheck, GateInv, TypeOK, WaitersCounted,
                 FlagMeansWriter, WritersWaiting
    <2>2. CASE ~(readers = 0 /\ ~writing)
        BY <1>5, <2>2, Stays DEF WriteCheck, GateInv, TypeOK, ReadWait, WriteWait
    <2> QED
        BY <2>1, <2>2
<1>6. CASE Wake(t)
    <2>1. notified' \subseteq Tasks /\ calls' \in 0 .. MaxLocks
        BY <1>6, <1>a DEF Wake, TypeOK
    <2> QED
        BY <1>6, <2>1, Stays DEF Wake, ReadWait, WriteWait
<1>7. CASE ReadUnlock(t)
    <2>1. /\ pc' \in [Tasks -> ReadWait \cup WriteWait \cup {"idle", "reading", "writing"}]
          /\ Reading' = Reading \ {t} /\ t \in Reading
          /\ Writing' = Writing /\ WritersWaiting' = WritersWaiting
        BY <1>7, <1>a, Moves DEF ReadUnlock, ReadWait, WriteWait
    <2>2. Cardinality(Reading') = readers' /\ readers' \in Nat /\ ~writing
        BY <1>7, <1>a, <2>1, Counts DEF ReadUnlock, GateInv, FlagMeansWriter
    <2>3. notified' \subseteq Tasks
        BY <1>7, <1>a DEF ReadUnlock, NotifyWaiters, TypeOK
    <2> QED
        BY <1>7, <2>1, <2>2, <2>3 DEF ReadUnlock, GateInv, TypeOK, WaitersCounted, FlagMeansWriter,
             WritersWaiting
<1>8. CASE WriteUnlock(t)
    <2>1. /\ pc' \in [Tasks -> ReadWait \cup WriteWait \cup {"idle", "reading", "writing"}]
          /\ Writing' = Writing \ {t} /\ t \in Writing
          /\ Reading' = Reading /\ WritersWaiting' = WritersWaiting
        BY <1>8, <1>a, Moves DEF WriteUnlock, ReadWait, WriteWait
    <2>2. Writing' = {}
        BY <2>1 DEF GateInv, FlagMeansWriter
    <2>3. notified' \subseteq Tasks
        BY <1>8, <1>a DEF WriteUnlock, NotifyWaiters, TypeOK
    <2> QED
        BY <1>8, <2>1, <2>2, <2>3 DEF WriteUnlock, GateInv, TypeOK, WaitersCounted, FlagMeansWriter,
             WritersWaiting
<1>9. CASE CancelWrite(t)
    <2>1. /\ pc' \in [Tasks -> ReadWait \cup WriteWait \cup {"idle", "reading", "writing"}]
          /\ WritersWaiting' = WritersWaiting \ {t} /\ t \in WritersWaiting
          /\ Reading' = Reading /\ Writing' = Writing
        <3>1. pc[t] = "writeParked" /\ Goto(t, "idle")
            BY <1>9 DEF CancelWrite
        <3> QED
            BY <1>a, <3>1, Moves DEF ReadWait, WriteWait
    <2>2. Cardinality(WritersWaiting') = writers_waiting' /\ writers_waiting' \in Nat
        BY <1>9, <1>a, <2>1, Counts DEF CancelWrite
    <2>3. notified' \subseteq Tasks
        BY <1>9, <1>a DEF CancelWrite, TypeOK
    <2> QED
        BY <1>9, <2>1, <2>2, <2>3 DEF CancelWrite, GateInv, TypeOK, WaitersCounted, FlagMeansWriter,
             WritersWaiting
<1>10. CASE CancelRead(t)
    <2>1. notified' \subseteq Tasks /\ calls' \in 0 .. MaxLocks
        BY <1>10, <1>a DEF CancelRead, TypeOK
    <2> QED
        BY <1>10, <2>1, Stays DEF CancelRead, ReadWait, WriteWait
<1> QED
    BY <1>1, <1>2, <1>3, <1>4, <1>5, <1>6, <1>7, <1>8, <1>9, <1>10 DEF Step

(* For any number of tasks that lock, wait, are woken, unlock and are        *)
(* dropped while they wait: a write excludes reads and other writes, and the *)
(* counters that admit readers and writers are exact (HandleGate).           *)
THEOREM GateHolds == Spec => []GateSound
<1>1. GateInv => GateSound
    <2> SUFFICES ASSUME GateInv PROVE Exclusion
        BY DEF GateInv, GateSound
    <2>1. Cardinality(Writing) <= 1
        <3>1. CASE Writing = {}
            BY <3>1, FS_EmptySet
        <3>2. CASE Writing # {}
            <4>1. \A t, u \in Writing : t = u
                BY DEF GateInv, FlagMeansWriter
            <4>2. PICK t : t \in Writing
                BY <3>2
            <4>3. Writing = {t}
                BY <4>1, <4>2
            <4>4. Cardinality(Writing) = 1
                BY <4>3, FS_Singleton
            <4> QED
                BY <4>4
        <3> QED
            BY <3>1, <3>2
    <2> QED
        BY <2>1 DEF GateInv, FlagMeansWriter, Exclusion
<1> QED
    BY <1>1, GateInit, GateStep, PTL DEF Spec

-----------------------------------------------------------------------------
(* SingleFlight: any callers, any keys, any number of flights.               *)

\* A running leader is the one its key leads to, and flights are numbered in
\* the order they were made.
LeadersKnown ==
    /\ \A c \in Callers : f_pc[c] = "run" =>
          key[c] \in Keys /\ in_flight[key[c]] = entry[c] /\ entry[c] # F!NoFlight
    /\ \A c \in Callers : f_pc[c] # "idle" => entry[c] \in F!Flights
    /\ \A c \in Callers : entry[c] <= created
    /\ \A k \in Keys : in_flight[k] <= created

\* A flight has one leader until it is published.
OneLeader ==
    \A c, d \in Callers :
        (f_pc[c] \in {"run", "removed"} /\ f_pc[d] \in {"run", "removed"} /\ entry[c] = entry[d])
        => c = d

\* Nothing is published for a flight that is still in the map.
MappedRunning ==
    /\ \A k \in Keys : in_flight[k] # F!NoFlight => f_state[in_flight[k]] = "Running"
    /\ \A f \in F!Flights : f > created => f_state[f] = "Running"

\* A leader that has left the map knows what it will publish.
ResultKnown ==
    \A c \in Callers : f_pc[c] = "removed" => result[c] \in F!Results

\* A key names one flight, and a flight one key.
KeysApart ==
    \A k, j \in Keys : (in_flight[k] # F!NoFlight /\ in_flight[k] = in_flight[j]) => k = j

FlightInv ==
    F!TypeOK /\ F!KeyHasLeader /\ LeadersKnown /\ OneLeader /\ MappedRunning /\ ResultKnown
    /\ KeysApart

-----------------------------------------------------------------------------

\* At the start no caller has a flight.
LEMMA FlightInit == F!Init => FlightInv
<1> SUFFICES ASSUME F!Init PROVE FlightInv
    OBVIOUS
<1>1. F!TypeOK
    BY PartsAssumption DEF F!Init, F!TypeOK, F!Flights, F!NoFlight, F!Results, F!Waiting
<1> QED
    BY <1>1 DEF F!Init, FlightInv, F!KeyHasLeader, LeadersKnown, OneLeader, MappedRunning,
         ResultKnown, KeysApart, F!NoFlight, F!Flights, F!Results

\* The first caller of a key: a new flight, of which it is the only leader.
LEMMA LeadKeeps ==
    ASSUME FlightInv, NEW c \in Callers, NEW k \in Keys, F!Lead(c, k)
    PROVE  FlightInv'
<1> USE DEF F!Lead, F!StartFlight, F!Goto
<1>0. created + 1 \in F!Flights /\ created \in Nat /\ created + 1 # F!NoFlight
    BY PartsAssumption DEF FlightInv, F!TypeOK, F!Flights, F!NoFlight
<1>1. F!TypeOK'
    BY <1>0, PartsAssumption DEF FlightInv, F!TypeOK, F!Flights
<1>2. F!KeyHasLeader'
    BY <1>0 DEF FlightInv, F!TypeOK, F!KeyHasLeader
<1>3. LeadersKnown'
    BY <1>0 DEF FlightInv, F!TypeOK, LeadersKnown, F!Flights, F!NoFlight
<1>4. OneLeader'
    BY <1>0 DEF FlightInv, F!TypeOK, LeadersKnown, OneLeader, F!Flights, F!NoFlight
<1>5. MappedRunning'
    BY <1>0 DEF FlightInv, F!TypeOK, MappedRunning, F!Flights, F!NoFlight
<1>6. ResultKnown'
    BY <1>0 DEF FlightInv, F!TypeOK, ResultKnown
<1>7. KeysApart'
    BY <1>0 DEF FlightInv, F!TypeOK, KeysApart, LeadersKnown, F!Flights, F!NoFlight
<1> QED
    BY <1>1, <1>2, <1>3, <1>4, <1>5, <1>6, <1>7 DEF FlightInv

\* A leader leaves the map: its key leads nowhere, the other keys to their
\* own leaders.
LEMMA EndRunKeeps ==
    ASSUME FlightInv, NEW c \in Callers, NEW how \in F!Results, F!EndRun(c, how)
    PROVE  FlightInv'
<1> USE DEF F!EndRun, F!Goto
<1>0. /\ key[c] \in Keys /\ in_flight[key[c]] = entry[c] /\ entry[c] # F!NoFlight
      /\ in_flight' = [in_flight EXCEPT ![key[c]] = F!NoFlight]
    BY DEF FlightInv, LeadersKnown, F!RemoveEntry
<1>1. F!TypeOK'
    BY <1>0 DEF FlightInv, F!TypeOK
<1>2. F!KeyHasLeader'
    <2> SUFFICES ASSUME NEW k \in Keys, in_flight'[k] # F!NoFlight
                 PROVE  \E d \in Callers : f_pc'[d] = "run" /\ entry'[d] = in_flight'[k]
        BY DEF F!KeyHasLeader
    <2>1. k # key[c] /\ in_flight'[k] = in_flight[k]
        BY <1>0 DEF FlightInv, F!TypeOK
    <2>2. PICK d \in Callers : f_pc[d] = "run" /\ entry[d] = in_flight[k]
        BY <2>1 DEF FlightInv, F!KeyHasLeader
    <2>3. d # c
        BY <1>0, <2>1, <2>2 DEF FlightInv, KeysApart
    <2> QED
        BY <2>1, <2>2, <2>3 DEF FlightInv, F!TypeOK
<1>3. LeadersKnown'
    BY <1>0 DEF FlightInv, F!TypeOK, LeadersKnown, OneLeader, F!NoFlight, F!Flights
<1>4. OneLeader'
    BY DEF FlightInv, F!TypeOK, OneLeader
<1>5. MappedRunning'
    BY <1>0 DEF FlightInv, F!TypeOK, MappedRunning
<1>6. ResultKnown'
    BY DEF FlightInv, F!TypeOK, ResultKnown
<1>7. KeysApart'
    BY <1>0 DEF FlightInv, F!TypeOK, KeysApart
<1> QED
    BY <1>1, <1>2, <1>3, <1>4, <1>5, <1>6, <1>7 DEF FlightInv

\* The result is published: of a flight that is in nobody's way any more.
LEMMA FinishKeeps ==
    ASSUME FlightInv, NEW c \in Callers, F!Finish(c)
    PROVE  FlightInv'
<1> USE DEF F!Finish, F!Goto
<1>0. /\ entry[c] \in F!Flights /\ result[c] \in F!Results /\ f_pc[c] = "removed"
      /\ \A k \in Keys : in_flight[k] # F!NoFlight => in_flight[k] # entry[c]
    BY DEF FlightInv, LeadersKnown, ResultKnown, F!KeyHasLeader, OneLeader
<1>1. F!TypeOK'
    <2>1. f_state' \in [F!Flights -> F!Results \cup {"Running"}]
        BY <1>0 DEF FlightInv, F!TypeOK
    <2>3. f_notified' \subseteq Callers
        BY DEF FlightInv, F!TypeOK, F!NotifyWaiters, F!Listeners
    <2> QED
        BY <2>1, <2>3 DEF FlightInv, F!TypeOK
<1>2. F!KeyHasLeader'
    BY DEF FlightInv, F!TypeOK, F!KeyHasLeader
<1>3. LeadersKnown'
    BY DEF FlightInv, F!TypeOK, LeadersKnown
<1>4. OneLeader'
    BY DEF FlightInv, F!TypeOK, OneLeader
<1>5. MappedRunning'
    <2>1. entry[c] <= created
        BY DEF FlightInv, LeadersKnown
    <2>2. \A f \in F!Flights : f # entry[c] => f_state'[f] = f_state[f]
        BY <1>0 DEF FlightInv, F!TypeOK
    <2>3. \A k \in Keys : in_flight[k] # F!NoFlight => in_flight[k] \in F!Flights
        BY DEF FlightInv, F!TypeOK
    <2>4. \A f \in F!Flights : f > created => f # entry[c]
        BY <2>1, PartsAssumption DEF FlightInv, F!TypeOK, F!Flights
    <2> QED
        BY <1>0, <2>2, <2>3, <2>4 DEF FlightInv, MappedRunning
<1>6. ResultKnown'
    BY DEF FlightInv, F!TypeOK, ResultKnown
<1>7. KeysApart'
    BY DEF FlightInv, KeysApart
<1> QED
    BY <1>1, <1>2, <1>3, <1>4, <1>5, <1>6, <1>7 DEF FlightInv

\* A caller that leads nothing, before or after, disturbs nobody.
LEMMA AsideKeeps ==
    ASSUME FlightInv, NEW c \in Callers,
           F!TypeOK', UNCHANGED <<in_flight, f_state, created>>,
           f_pc[c] \notin {"run", "removed"}, f_pc'[c] \notin {"run", "removed"},
           entry'[c] <= created, f_pc'[c] # "idle" => entry'[c] \in F!Flights,
           \A d \in Callers \ {c} :
               f_pc'[d] = f_pc[d] /\ entry'[d] = entry[d] /\ result'[d] = result[d]
               /\ key'[d] = key[d]
    PROVE  FlightInv'
<1>1. \A d \in Callers : f_pc'[d] \in {"run", "removed"} => d # c
    OBVIOUS
<1>1a. \A d \in Callers : f_pc[d] \in {"run", "removed"} => d # c
    OBVIOUS
<1>2. F!KeyHasLeader'
    BY <1>1a DEF FlightInv, F!KeyHasLeader
<1>3. LeadersKnown'
    BY <1>1 DEF FlightInv, LeadersKnown
<1>4. OneLeader'
    BY <1>1 DEF FlightInv, OneLeader
<1>5. MappedRunning' /\ KeysApart'
    BY DEF FlightInv, MappedRunning, KeysApart
<1>6. ResultKnown'
    BY <1>1 DEF FlightInv, ResultKnown
<1> QED
    BY <1>2, <1>3, <1>4, <1>5, <1>6 DEF FlightInv

\* Every step of a caller keeps the flights in order.
LEMMA FlightStep == FlightInv /\ [F!Next]_F!vars => FlightInv'
<1> SUFFICES ASSUME FlightInv, [F!Next]_F!vars PROVE FlightInv'
    OBVIOUS
<1>0. CASE UNCHANGED F!vars
    BY <1>0 DEF F!vars, FlightInv, F!TypeOK, F!KeyHasLeader, LeadersKnown, OneLeader,
         MappedRunning, ResultKnown, KeysApart
<1>1. ASSUME NEW c \in Callers, NEW k \in Keys, F!Lead(c, k) PROVE FlightInv'
    BY <1>1, LeadKeeps
<1>2. ASSUME NEW c \in Callers, NEW k \in Keys, F!Join(c, k) PROVE FlightInv'
    <2> USE <1>2 DEF F!Join, F!Goto
    <2>1. F!TypeOK'
        BY DEF FlightInv, F!TypeOK, F!Waiting
    <2>2. f_pc[c] = "idle" /\ f_pc'[c] = "wait" /\ entry'[c] <= created
        BY DEF FlightInv, F!TypeOK, LeadersKnown
    <2> QED
        BY <2>1, <2>2, AsideKeeps DEF FlightInv, F!TypeOK
<1>3. ASSUME NEW c \in Callers, F!Complete(c) \/ F!DropLeader(c) PROVE FlightInv'
    BY <1>3, EndRunKeeps DEF F!Complete, F!DropLeader, F!Results
<1>4. ASSUME NEW c \in Callers, F!Finish(c) PROVE FlightInv'
    BY <1>4, FinishKeeps
<1>5. ASSUME NEW c \in Callers, F!Arm(c) PROVE FlightInv'
    <2> USE <1>5 DEF F!Arm, F!Goto
    <2>1. F!TypeOK'
        BY DEF FlightInv, F!TypeOK, F!Waiting
    <2> QED
        BY <2>1, AsideKeeps DEF FlightInv, F!TypeOK, LeadersKnown
<1>6. ASSUME NEW c \in Callers, F!Look(c) PROVE FlightInv'
    <2> USE <1>6 DEF F!Look, F!Goto
    <2>1. entry[c] \in F!Flights
        BY DEF FlightInv, LeadersKnown
    <2>2. F!TypeOK'
        BY <2>1 DEF FlightInv, F!TypeOK, F!Waiting
    <2> QED
        BY <2>1, <2>2, AsideKeeps DEF FlightInv, F!TypeOK, LeadersKnown
<1>7. ASSUME NEW c \in Callers, F!Park(c) \/ F!Wake(c) PROVE FlightInv'
    <2> USE <1>7 DEF F!Park, F!Wake, F!Goto
    <2>1. F!TypeOK'
        BY DEF FlightInv, F!TypeOK, F!Waiting
    <2> QED
        BY <2>1, AsideKeeps DEF FlightInv, F!TypeOK, LeadersKnown
<1>8. ASSUME NEW c \in Callers, F!Leave(c) PROVE FlightInv'
    <2> USE <1>8 DEF F!Leave, F!Goto
    <2>1. F!TypeOK'
        BY DEF FlightInv, F!TypeOK
    <2>2. f_pc[c] \notin {"run", "removed"} /\ f_pc'[c] = "idle" /\ entry'[c] <= created
        BY DEF FlightInv, F!TypeOK, F!Waiting, F!NoFlight
    <2> QED
        BY <2>1, <2>2, AsideKeeps DEF FlightInv, F!TypeOK
<1> QED
    BY <1>0, <1>1, <1>2, <1>3, <1>4, <1>5, <1>6, <1>7, <1>8 DEF F!Next

(* For any callers that lead, join, finish, wait and are dropped at any      *)
(* await: one task at a time runs the operation of a key, and a key in the   *)
(* map has the task that will take it out (execute_with_status,              *)
(* LeaderGuard::drop).                                                       *)
THEOREM FlightsHold == F!Spec => []FlightsSound
<1>1. FlightInv => FlightsSound
    BY DEF FlightInv, FlightsSound, F!FlightsSound, F!OneRunner, LeadersKnown, OneLeader
<1> QED
    BY <1>1, FlightInit, FlightStep, PTL DEF F!Spec

(* A caller that joins a flight waits for a result that is not there yet,    *)
(* never for that of an operation that ended before it asked (complete       *)
(* takes the key out of the map before FlightEntry::finish publishes).       *)
THEOREM NobodyReplays == F!Spec => NoReplay
<1>1. FlightInv /\ [F!Next]_F!vars =>
        [\A c \in Callers : (f_pc[c] = "idle" /\ f_pc'[c] = "wait")
            => f_state[entry'[c]] = "Running"]_F!vars
    <2> SUFFICES ASSUME FlightInv, F!Next, NEW c \in Callers,
                        f_pc[c] = "idle", f_pc'[c] = "wait"
                 PROVE  f_state[entry'[c]] = "Running"
        OBVIOUS
    <2>1. PICK d \in Callers :
             \/ \E k \in Keys : F!Lead(d, k) \/ F!Join(d, k)
             \/ F!Complete(d) \/ F!DropLeader(d) \/ F!Finish(d)
             \/ F!Arm(d) \/ F!Look(d) \/ F!Park(d) \/ F!Wake(d) \/ F!Leave(d)
        BY DEF F!Next
    <2>2. c = d /\ \E k \in Keys : F!Join(c, k)
        BY <2>1 DEF FlightInv, F!TypeOK, F!Lead, F!StartFlight, F!Join, F!Complete,
             F!DropLeader, F!EndRun, F!Finish, F!Arm, F!Look, F!Park, F!Wake, F!Leave, F!Goto
    <2>3. PICK k \in Keys : F!Join(c, k)
        BY <2>2
    <2>4. entry'[c] = in_flight[k] /\ in_flight[k] # F!NoFlight
        BY <2>3 DEF F!Join, FlightInv, F!TypeOK
    <2> QED
        BY <2>4 DEF FlightInv, MappedRunning
<1> QED
    BY <1>1, FlightInit, FlightStep, PTL DEF F!Spec, NoReplay, F!NoReplay

-----------------------------------------------------------------------------
(* CoalescedGroups: any groups with finitely many members, any collectors.   *)

\* A member that is out of its chunk list and has no reservation that could
\* bring it back.  It stays so: a group is registered once.
Gone(m) == m \notin list /\ uc[m] # "pending" /\ up[m[1]] # "idle"

GroupGone(g) == \A s \in Slots : Gone(<<g, s>>)

LedgerType == [n : {0, Cardinality(Slots)}, d : SUBSET Slots, dead : Nat, p : SUBSET Slots]
GcType == [pc : {"idle", "claim", "retire", "fallback", "delete", "forget", "confirm"},
           kind : {"none", "delayed", "orphan"}, m : G!Members \cup {<<>>},
           ver : Nat, found : BOOLEAN]

GroupShapes ==
    /\ G!TypeOK
    /\ ledger \in [Groups -> LedgerType]
    /\ gc \in [Collectors -> GcType]

\* A group that is not registered has nothing; a reservation that is still
\* there has not been used.
Reserved ==
    \A m \in G!Members :
        /\ up[m[1]] = "idle" => uc[m] = "none" /\ m \notin list
        /\ uc[m] # "none" => m \notin list

\* What is recorded as dead, or handled as such by a collector, is gone.
DeadGone ==
    /\ \A g \in Groups : \A s \in ledger[g].d : Gone(<<g, s>>)
    /\ \A m \in delayed : Gone(m)
    /\ \A c \in Collectors :
          /\ gc[c].pc \in {"retire", "fallback", "delete", "forget", "confirm"} => Gone(gc[c].m)
          /\ gc[c].pc = "delete" => GroupGone(gc[c].m[1])

\* An object that was put is there until all of its members are gone.
ObjectStays == \A g \in Groups : up[g] = "done" => g \in object \/ GroupGone(g)

\* A listed member was published from an object that was put.
ListedPut == \A m \in list : up[m[1]] = "done"

GroupInv == GroupShapes /\ Reserved /\ DeadGone /\ ObjectStays /\ ListedPut

-----------------------------------------------------------------------------

\* A member and its parts.
LEMMA MemberParts ==
    ASSUME NEW m \in G!Members
    PROVE  m[1] \in Groups /\ m[2] \in Slots /\ m = <<m[1], m[2]>>
BY DEF G!Members

\* What is gone stays gone as long as nothing pending is made or published.
LEMMA GoneStays ==
    ASSUME NEW m \in G!Members, Gone(m),
           m \in list' => m \in list,
           uc'[m] = "pending" => uc[m] = "pending",
           up'[m[1]] = "idle" => up[m[1]] = "idle"
    PROVE  Gone(m)'
BY DEF Gone

\* CoalescedGroups counts members with the Cardinality that is used here.
LEMMA SameCount == \A S : G!Cardinality(S) = Cardinality(S)
BY DEF G!Cardinality, Cardinality

\* At the start no group exists.
LEMMA GroupInit == G!Init => GroupInv
<1> SUFFICES ASSUME G!Init PROVE GroupInv
    OBVIOUS
<1> USE DEF G!Init, G!NoLedger, G!CollectorIdle
<1>0. Cardinality({}) = 0 /\ Cardinality(Slots) \in Nat
    BY FS_EmptySet, PartsAssumption, FS_CardinalityType
<1>1. G!TypeOK
    <2>1. \A g \in Groups : /\ ledger[g].n \in {0, Cardinality(Slots)}
                            /\ ledger[g].d \subseteq Slots /\ ledger[g].p \subseteq Slots
                            /\ ledger[g].dead = Cardinality(ledger[g].d)
        BY <1>0
    <2>2. \A c \in Collectors :
            /\ gc[c].pc \in {"idle", "claim", "retire", "fallback", "delete", "forget", "confirm"}
            /\ gc[c].pc # "idle" => gc[c].m \in G!Members /\ gc[c].kind \in {"delayed", "orphan"}
        OBVIOUS
    <2>3. uc \in [G!Members -> {"none", "pending", "orphan"}]
          /\ up \in [Groups -> {"idle", "put", "late", "done", "failed"}]
          /\ wr \in [G!Members -> {"ready", "unsure", "done", "failed"}]
        OBVIOUS
    <2>4. list \subseteq G!Members /\ delayed \subseteq G!Members /\ version \in Nat
          /\ object \subseteq Groups /\ strayed \subseteq Groups
        OBVIOUS
    <2> QED
        BY <2>1, <2>2, <2>3, <2>4, SameCount DEF G!TypeOK
<1>2. ledger \in [Groups -> LedgerType] /\ gc \in [Collectors -> GcType]
    BY <1>0 DEF LedgerType, GcType
<1>3. Reserved /\ ObjectStays /\ ListedPut
    BY MemberParts DEF Reserved, ObjectStays, ListedPut
<1>4. DeadGone
    BY DEF DeadGone
<1> QED
    BY <1>1, <1>2, <1>3, <1>4 DEF GroupInv, GroupShapes

\* A step that neither registers nor publishes: what it must respect.
LEMMA Calm ==
    ASSUME GroupInv, GroupShapes',
           \A g \in Groups : /\ up'[g] = "idle" => up[g] = "idle"
                             /\ up[g] = "done" => up'[g] = "done"
                             /\ up'[g] = "done" => up[g] = "done" \/ g \in object',
           list' \subseteq list,
           \A m \in G!Members : /\ uc'[m] = "pending" => uc[m] = "pending"
                                /\ uc'[m] # "none" => uc[m] # "none",
           \A g \in Groups : g \in object /\ g \notin object' => GroupGone(g),
           \A g \in Groups : \A s \in ledger'[g].d : s \in ledger[g].d \/ Gone(<<g, s>>)',
           \A m \in delayed' : m \in delayed \/ Gone(m)',
           \A c \in Collectors :
              /\ gc'[c].pc \in {"retire", "fallback", "delete", "forget", "confirm"}
                    => \/ Gone(gc'[c].m)
                       \/ uc'[gc'[c].m] # "pending" /\ gc'[c].m \notin list
                          /\ up'[gc'[c].m[1]] # "idle"
              /\ gc'[c].pc = "delete" => GroupGone(gc'[c].m[1])
                    \/ \A s \in Slots : s \in ledger'[gc'[c].m[1]].d
    PROVE  GroupInv'
<1>0. list \subseteq G!Members
    BY DEF GroupInv, GroupShapes, G!TypeOK
<1>1. \A m \in G!Members : Gone(m) => Gone(m)'
    BY GoneStays, MemberParts
<1>2. \A g \in Groups : GroupGone(g) => GroupGone(g)'
    <2> SUFFICES ASSUME NEW g \in Groups, GroupGone(g), NEW s \in Slots PROVE Gone(<<g, s>>)'
        BY DEF GroupGone
    <2> QED
        BY <1>1 DEF GroupGone, G!Members
<1>3. Reserved'
    BY MemberParts DEF GroupInv, Reserved
<1>4. ObjectStays'
    BY <1>2 DEF GroupInv, ObjectStays
<1>5. ListedPut'
    BY <1>0, MemberParts DEF GroupInv, ListedPut
<1>6. DeadGone'
    <2>1. ASSUME NEW g \in Groups, NEW s \in ledger'[g].d PROVE Gone(<<g, s>>)'
        <3>1. CASE s \in ledger[g].d
            <4>1. s \in Slots /\ <<g, s>> \in G!Members
                BY <3>1 DEF GroupInv, GroupShapes, LedgerType, G!Members
            <4>2. Gone(<<g, s>>)
                BY <3>1 DEF GroupInv, DeadGone
            <4> QED
                BY <1>1, <4>1, <4>2
        <3> QED
            BY <2>1, <3>1
    <2>2. ASSUME NEW m \in delayed' PROVE Gone(m)'
        <3>1. CASE m \in delayed
            <4>1. m \in G!Members /\ Gone(m)
                BY <3>1 DEF GroupInv, DeadGone, GroupShapes, G!TypeOK
            <4> QED
                BY <1>1, <4>1
        <3> QED
            BY <3>1
    <2>3. ASSUME NEW c \in Collectors,
                 gc'[c].pc \in {"retire", "fallback", "delete", "forget", "confirm"}
          PROVE  gc'[c].m \in G!Members /\ Gone(gc[c].m)'
        <3>1. gc'[c].m \in G!Members
            BY <2>3 DEF GroupShapes, G!TypeOK
        <3>2. PICK m : m = gc'[c].m
            OBVIOUS
        <3>3. m \in G!Members /\ Gone(m)'
            BY <1>1, <2>3, <3>1, <3>2 DEF Gone
        <3> QED
            BY <3>2, <3>3 DEF Gone
    <2>4. ASSUME NEW c \in Collectors, gc'[c].pc = "delete" PROVE GroupGone(gc[c].m[1])'
        <3>1. PICK g : g = gc'[c].m[1]
            OBVIOUS
        <3>2. g \in Groups
            BY <2>3, <2>4, <3>1, MemberParts
        <3>3. GroupGone(g)'
            <4>1. CASE GroupGone(g)
                BY <1>2, <3>2, <4>1
            <4>2. CASE \A s \in Slots : s \in ledger'[g].d
                BY <2>1, <3>2, <4>2 DEF GroupGone
            <4> QED
                BY <2>4, <3>1, <4>1, <4>2
        <3> QED
            BY <3>1, <3>3 DEF GroupGone, Gone
    <2> QED
        BY <2>1, <2>2, <2>3, <2>4 DEF DeadGone
<1> QED
    BY <1>3, <1>4, <1>5, <1>6 DEF GroupInv

-----------------------------------------------------------------------------
(* What the collectors hold. *)

GcOK ==
    /\ gc \in [Collectors -> GcType]
    /\ \A c \in Collectors : gc[c].pc # "idle" => gc[c].m \in G!Members
                                                  /\ gc[c].kind \in {"delayed", "orphan"}

\* The records, apart from the collectors'.
StoreOK ==
    /\ ledger \in [Groups -> LedgerType]
    /\ \A g \in Groups : ledger[g].dead = Cardinality(ledger[g].d)
    /\ uc \in [G!Members -> {"none", "pending", "orphan"}]
    /\ list \subseteq G!Members /\ delayed \subseteq G!Members /\ version \in Nat
    /\ object \subseteq Groups /\ strayed \subseteq Groups
    /\ up \in [Groups -> {"idle", "put", "late", "done", "failed"}]
    /\ wr \in [G!Members -> {"ready", "unsure", "done", "failed"}]

\* The types of the collectors and of the rest, one by one.
LEMMA ShapesSplit == GroupShapes <=> GcOK /\ StoreOK
<1>1. GroupShapes => GcOK
    BY DEF GroupShapes, GcOK, G!TypeOK
<1>2. GroupShapes => StoreOK
    BY SameCount DEF GroupShapes, StoreOK, G!TypeOK
<1>3. ASSUME GcOK, StoreOK PROVE GroupShapes
    <2>1. \A c \in Collectors :
            /\ gc[c].pc \in {"idle", "claim", "retire", "fallback", "delete", "forget", "confirm"}
            /\ gc[c].pc # "idle" => gc[c].m \in G!Members /\ gc[c].kind \in {"delayed", "orphan"}
        BY <1>3 DEF GcOK, GcType
    <2>2. \A g \in Groups : /\ ledger[g].n \in {0, Cardinality(Slots)}
                            /\ ledger[g].d \subseteq Slots /\ ledger[g].p \subseteq Slots
        BY <1>3 DEF StoreOK, LedgerType
    <2> QED
        BY <1>3, <2>1, <2>2, SameCount DEF StoreOK, GcOK, GroupShapes, G!TypeOK
<1> QED
    BY <1>1, <1>2, <1>3

\* The same after a step, for what a step leaves to show.
LEMMA ShapesJoin == GcOK' /\ StoreOK' => GroupShapes'
BY ShapesSplit, PTL

\* A collector takes up a record.
LEMMA GcTakes ==
    ASSUME GcOK, NEW c \in Collectors, NEW r \in GcType, gc' = [gc EXCEPT ![c] = r],
           r.pc # "idle" => r.m \in G!Members /\ r.kind \in {"delayed", "orphan"}
    PROVE  GcOK' /\ gc'[c] = r /\ \A d \in Collectors : d # c => gc'[d] = gc[d]
BY DEF GcOK

\* It goes on with it.
LEMMA GcGoes ==
    ASSUME GcOK, NEW c \in Collectors, gc[c].pc # "idle", NEW l,
           l \in {"claim", "retire", "fallback", "delete", "forget", "confirm"}, G!Goto(c, l)
    PROVE  /\ GcOK' /\ gc'[c].pc = l /\ gc'[c].m = gc[c].m
           /\ \A d \in Collectors : d # c => gc'[d] = gc[d]
<1> DEFINE r == [gc[c] EXCEPT !.pc = l]
<1>1. gc[c] \in GcType
    BY DEF GcOK
<1>2. r \in GcType /\ r.pc = l /\ r.m = gc[c].m /\ r.kind = gc[c].kind
    BY <1>1 DEF GcType
<1>3. gc' = [gc EXCEPT ![c] = r]
    BY DEF G!Goto
<1>4. gc[c].m \in G!Members /\ gc[c].kind \in {"delayed", "orphan"}
    BY DEF GcOK
<1> HIDE DEF r
<1> QED
    BY <1>2, <1>3, <1>4, GcTakes

\* It is done with it, or stops.
LEMMA GcStops ==
    ASSUME GcOK, NEW c \in Collectors, G!Stop(c)
    PROVE  /\ GcOK' /\ gc'[c].pc = "idle"
           /\ \A d \in Collectors : d # c => gc'[d] = gc[d]
<1>1. G!CollectorIdle \in GcType /\ G!CollectorIdle.pc = "idle"
    BY DEF GcType, G!CollectorIdle
<1> QED
    BY <1>1, GcTakes DEF G!Stop

\* The member a collector works on is a member of its group.
LEMMA MemberWorked ==
    ASSUME GcOK, NEW c \in Collectors, gc[c].pc # "idle"
    PROVE  gc[c].m \in G!Members /\ gc[c].m[1] \in Groups /\ gc[c].m[2] \in Slots
BY MemberParts DEF GcOK

-----------------------------------------------------------------------------

\* The upload of a group.
LEMMA UploadKeeps ==
    ASSUME GroupInv, NEW g \in Groups, G!Upload(g)
    PROVE  GroupInv'
<1>0. Cardinality({}) = 0 /\ Cardinality(Slots) \in Nat
    BY FS_EmptySet, PartsAssumption, FS_CardinalityType
<1>1. GcOK /\ StoreOK
    BY ShapesSplit DEF GroupInv
<1>2. UNCHANGED <<gc, list, delayed>>
    BY DEF G!Upload, G!Register, G!PutObject, G!PutFail, G!PutLate
<1>3. GcOK'
    BY <1>1, <1>2 DEF GcOK
<1>4. CASE G!Register(g)
    <2> USE <1>4 DEF G!Register
    <2>1. StoreOK'
        <3>1. /\ ledger' \in [Groups -> LedgerType]
              /\ \A h \in Groups : ledger'[h].dead = Cardinality(ledger'[h].d)
            BY <1>0, <1>1, SameCount DEF StoreOK, LedgerType, G!NoLedger
        <3>2. uc' \in [G!Members -> {"none", "pending", "orphan"}]
            BY <1>1 DEF StoreOK
        <3> QED
            BY <1>1, <3>1, <3>2 DEF StoreOK
    <2>2. \A m \in G!Members : Gone(m) => Gone(m)'
        BY <1>1, MemberParts DEF Gone, StoreOK
    <2>3. \A h \in Groups : GroupGone(h) => GroupGone(h)'
        <3> SUFFICES ASSUME NEW h \in Groups, GroupGone(h), NEW s \in Slots PROVE Gone(<<h, s>>)'
            BY DEF GroupGone
        <3> QED
            BY <2>2 DEF GroupGone, G!Members
    <2>4. Reserved'
        BY <1>1, MemberParts DEF GroupInv, Reserved, StoreOK
    <2>5. ListedPut' /\ ObjectStays'
        BY <1>1, <2>3, MemberParts DEF GroupInv, ListedPut, ObjectStays, StoreOK
    <2>6. DeadGone'
        <3>1. ASSUME NEW h \in Groups, NEW s \in ledger'[h].d PROVE Gone(<<h, s>>)'
            <4>1. h # g /\ s \in ledger[h].d
                BY <1>1 DEF StoreOK, G!NoLedger
            <4>2. s \in Slots
                BY <1>1, <4>1 DEF StoreOK, LedgerType
            <4> QED
                BY <2>2, <4>1, <4>2 DEF GroupInv, DeadGone, G!Members
        <3>2. \A m \in delayed' : Gone(m)'
            BY <1>1, <2>2 DEF GroupInv, DeadGone, StoreOK
        <3>3. ASSUME NEW c \in Collectors,
                     gc[c].pc \in {"retire", "fallback", "delete", "forget", "confirm"}
              PROVE  Gone(gc[c].m)' /\ (gc[c].pc = "delete" => GroupGone(gc[c].m[1])')
            <4>1. PICK m : m = gc[c].m
                OBVIOUS
            <4>2. m \in G!Members /\ m[1] \in Groups
                BY <1>1, <3>3, <4>1, MemberWorked
            <4>3. Gone(m) /\ (gc[c].pc = "delete" => GroupGone(m[1]))
                BY <3>3, <4>1 DEF GroupInv, DeadGone
            <4>4. Gone(m)' /\ (gc[c].pc = "delete" => GroupGone(m[1])')
                BY <2>2, <2>3, <4>2, <4>3
            <4> QED
                BY <1>2, <4>1, <4>4 DEF Gone, GroupGone
        <3> QED
            BY <1>2, <3>1, <3>2, <3>3 DEF DeadGone
    <2> QED
        BY <1>3, <2>1, <2>4, <2>5, <2>6, ShapesJoin DEF GroupInv
<1>5. CASE ~G!Register(g)
    <2>0. UNCHANGED <<ledger, uc>> /\ up[g] # "idle" /\ up'[g] # "idle" /\ up[g] # "done"
          /\ (up'[g] = "done" => g \in object') /\ object \subseteq object'
          /\ \A h \in Groups : h # g => up'[h] = up[h]
        BY <1>1, <1>5 DEF G!Upload, G!PutObject, G!PutFail, G!PutLate, G!Arrives, StoreOK
    <2>1. StoreOK'
        BY <1>1, <1>5 DEF G!Upload, G!PutObject, G!PutFail, G!PutLate, G!Arrives, StoreOK
    <2>2. GroupShapes'
        BY <1>3, <2>1, ShapesJoin
    <2>3. \A c \in Collectors :
              /\ gc'[c].pc \in {"retire", "fallback", "delete", "forget", "confirm"}
                    => Gone(gc'[c].m)
              /\ gc'[c].pc = "delete" => GroupGone(gc'[c].m[1])
        BY <1>2 DEF GroupInv, DeadGone
    <2> QED
        BY <1>2, <2>0, <2>2, <2>3, Calm
<1> QED
    BY <1>4, <1>5

\* A member is published, given up by its writer, or dropped from its list.
LEMMA UseKeeps ==
    ASSUME GroupInv, NEW m \in G!Members, G!Use(m)
    PROVE  GroupInv'
<1>0. m[1] \in Groups /\ m[2] \in Slots /\ m = <<m[1], m[2]>>
    BY MemberParts
<1>1. GcOK /\ StoreOK
    BY ShapesSplit DEF GroupInv
<1>2. UNCHANGED <<gc, object, up>>
    BY DEF G!Use, G!Publish, G!PublishFails, G!Supersede
<1>3. GcOK'
    BY <1>1, <1>2 DEF GcOK
<1>4. ASSUME NEW a \in {"done", "unsure"}, G!Publish(m, a), m[2] \notin ledger[m[1]].p
      PROVE  GroupInv'
    <2> USE <1>0, <1>1, <1>2, <1>4 DEF G!Publish
    <2>0. G!ReservationHeld(m) /\ up[m[1]] = "done"
        OBVIOUS
    <2>1. StoreOK'
        <3>1. /\ ledger' \in [Groups -> LedgerType]
              /\ \A h \in Groups : ledger'[h].d = ledger[h].d /\ ledger'[h].dead = ledger[h].dead
            <4> DEFINE q == [ledger[m[1]] EXCEPT !.p = @ \cup {m[2]}]
            <4>1. ledger[m[1]] \in LedgerType /\ ledger \in [Groups -> LedgerType]
                BY DEF StoreOK
            <4>2. q \in LedgerType /\ q.d = ledger[m[1]].d /\ q.dead = ledger[m[1]].dead
                BY <4>1 DEF LedgerType
            <4>3. ledger' = [ledger EXCEPT ![m[1]] = q]
                OBVIOUS
            <4> HIDE DEF q
            <4> QED
                BY <4>1, <4>2, <4>3
        <3>2. uc' \in [G!Members -> {"none", "pending", "orphan"}]
            BY DEF StoreOK
        <3> QED
            BY <3>1, <3>2 DEF StoreOK
    <2>2. \A k \in G!Members : Gone(k) => k # m /\ Gone(k)'
        BY <2>0 DEF Gone, StoreOK, G!ReservationHeld
    <2>3. \A h \in Groups : GroupGone(h) => h # m[1] /\ GroupGone(h)'
        <3> SUFFICES ASSUME NEW h \in Groups, GroupGone(h)
                     PROVE  h # m[1] /\ \A s \in Slots : Gone(<<h, s>>)'
            BY DEF GroupGone
        <3>1. \A s \in Slots : <<h, s>> \in G!Members /\ Gone(<<h, s>>)
            BY DEF GroupGone, G!Members
        <3> QED
            BY <2>2, <3>1
    <2>4. Reserved'
        BY <2>0, MemberParts DEF GroupInv, Reserved, StoreOK
    <2>5. ListedPut'
        BY <2>0 DEF GroupInv, ListedPut
    <2>6. ObjectStays'
        BY <2>3 DEF GroupInv, ObjectStays
    <2>7. DeadGone'
        <3>1. ASSUME NEW h \in Groups, NEW s \in ledger'[h].d PROVE Gone(<<h, s>>)'
            <4>1. s \in ledger[h].d
                BY DEF StoreOK, LedgerType
            <4>2. s \in Slots
                BY <4>1 DEF StoreOK, LedgerType
            <4> QED
                BY <2>2, <4>1, <4>2 DEF GroupInv, DeadGone, G!Members
        <3>2. \A k \in delayed' : Gone(k)'
            BY <2>2 DEF GroupInv, DeadGone, StoreOK
        <3>3. ASSUME NEW c \in Collectors,
                     gc[c].pc \in {"retire", "fallback", "delete", "forget", "confirm"}
              PROVE  Gone(gc[c].m)' /\ (gc[c].pc = "delete" => GroupGone(gc[c].m[1])')
            <4>1. PICK k : k = gc[c].m
                OBVIOUS
            <4>2. k \in G!Members /\ k[1] \in Groups
                BY <3>3, <4>1, MemberWorked
            <4>3. Gone(k) /\ (gc[c].pc = "delete" => GroupGone(k[1]))
                BY <3>3, <4>1 DEF GroupInv, DeadGone
            <4>4. Gone(k)' /\ (gc[c].pc = "delete" => GroupGone(k[1])')
                BY <2>2, <2>3, <4>2, <4>3
            <4> QED
                BY <4>1, <4>4 DEF Gone, GroupGone
        <3> QED
            BY <3>1, <3>2, <3>3 DEF DeadGone
    <2> QED
        BY <1>3, <2>1, <2>4, <2>5, <2>6, <2>7, ShapesJoin DEF GroupInv
<1>5. CASE \/ \E a \in {"done", "unsure"} : G!Publish(m, a) /\ m[2] \in ledger[m[1]].p
           \/ G!PublishFails(m) \/ G!Supersede(m)
    <2>0. UNCHANGED <<ledger, uc>> /\ list' \subseteq list
        BY <1>5 DEF G!Publish, G!PublishFails, G!Supersede
    <2>1. StoreOK'
        BY <1>1, <1>5 DEF G!Publish, G!PublishFails, G!Supersede, StoreOK
    <2>2. GroupShapes'
        BY <1>3, <2>1, ShapesJoin
    <2>3. \A c \in Collectors :
              /\ gc'[c].pc \in {"retire", "fallback", "delete", "forget", "confirm"}
                    => Gone(gc'[c].m)
              /\ gc'[c].pc = "delete" => GroupGone(gc'[c].m[1])
        BY <1>2 DEF GroupInv, DeadGone
    <2>4. \A k \in delayed' : k \in delayed \/ Gone(k)'
        <3>1. CASE G!Supersede(m)
            <4>1. Gone(m)'
                BY <1>1, <1>2, <2>0, <3>1 DEF G!Supersede, Gone, GroupInv, Reserved, ListedPut
            <4> QED
                BY <3>1, <4>1 DEF G!Supersede
        <3> QED
            BY <1>5, <3>1 DEF G!Publish, G!PublishFails
    <2> QED
        BY <1>2, <2>0, <2>2, <2>3, <2>4, Calm
<1> QED
    BY <1>4, <1>5 DEF G!Use

\* A collector takes up a member: one that is dead already, or a pending one
\* that it has still to claim.
LEMMA PickKeeps ==
    ASSUME GroupInv, NEW c \in Collectors, NEW m \in G!Members, G!Pick(c, m)
    PROVE  GroupInv'
<1>1. GcOK /\ StoreOK
    BY ShapesSplit DEF GroupInv
<1>2. UNCHANGED <<ledger, uc, list, version, delayed, object, up, wr, strayed>>
    BY DEF G!Pick, G!PickDelayed, G!PickUncommitted
<1>3. PICK r \in GcType : /\ gc' = [gc EXCEPT ![c] = r] /\ r.m = m
                          /\ r.kind \in {"delayed", "orphan"}
                          /\ \/ r.pc = "claim"
                             \/ r.pc = "retire" /\ (m \in delayed \/ uc[m] = "orphan")
    <2>0. gc[c] \in GcType
        BY <1>1 DEF GcOK
    <2>1. CASE G!PickDelayed(c, m)
        <3> DEFINE r == [gc[c] EXCEPT !.pc = "retire", !.kind = "delayed", !.m = m]
        <3>1. r \in GcType /\ r.m = m /\ r.kind = "delayed" /\ r.pc = "retire"
            BY <2>0 DEF GcType
        <3>2. gc' = [gc EXCEPT ![c] = r] /\ m \in delayed
            BY <2>1 DEF G!PickDelayed
        <3> HIDE DEF r
        <3> QED
            BY <3>1, <3>2
    <2>2. CASE G!PickUncommitted(c, m)
        <3> DEFINE q == [G!CollectorIdle EXCEPT
                           !.pc = IF uc[m] = "orphan" THEN "retire" ELSE "claim",
                           !.kind = "orphan", !.m = m,
                           !.ver = IF uc[m] = "orphan" THEN 0 ELSE version,
                           !.found = uc[m] # "orphan" /\ m \in list]
        <3>1. q \in GcType /\ q.m = m /\ q.kind = "orphan"
              /\ q.pc = (IF uc[m] = "orphan" THEN "retire" ELSE "claim")
            BY <1>1 DEF GcType, G!CollectorIdle, StoreOK
        <3>2. gc' = [gc EXCEPT ![c] = q]
            BY <2>2 DEF G!PickUncommitted
        <3> HIDE DEF q
        <3>3. CASE uc[m] = "orphan"
            BY <3>1, <3>2, <3>3
        <3>4. CASE uc[m] # "orphan"
            BY <3>1, <3>2, <3>4
        <3> QED
            BY <3>3, <3>4
    <2> QED
        BY <2>1, <2>2 DEF G!Pick
<1>4. GcOK' /\ gc'[c] = r /\ \A d \in Collectors : d # c => gc'[d] = gc[d]
    BY <1>1, <1>3, GcTakes
<1>5. GroupShapes'
    BY <1>1, <1>2, <1>4, ShapesJoin DEF StoreOK
<1>6. \A d \in Collectors :
          /\ gc'[d].pc \in {"retire", "fallback", "delete", "forget", "confirm"}
                => Gone(gc'[d].m)
          /\ gc'[d].pc = "delete" => GroupGone(gc'[d].m[1])
    <2>1. r.pc = "retire" => Gone(m)
        BY <1>3, MemberParts DEF GroupInv, DeadGone, Reserved, Gone
    <2> QED
        BY <1>3, <1>4, <2>1 DEF GroupInv, DeadGone
<1> QED
    BY <1>2, <1>5, <1>6, Calm

\* What a collector does with the member it has taken up.
LEMMA HandleKeeps ==
    ASSUME GroupInv, NEW c \in Collectors, G!Handle(c) \/ G!CollectorStops(c)
    PROVE  GroupInv'
<1>1. GcOK /\ StoreOK
    BY ShapesSplit DEF GroupInv
<1>2. UNCHANGED <<list, version, up, wr, strayed>>
    BY DEF G!Handle, G!Claim, G!Retire, G!DeleteRange, G!DeleteGroup, G!Forget, G!Confirm,
         G!CollectorStops
<1>3. gc[c].pc # "idle"
    BY DEF G!Handle, G!Claim, G!Retire, G!DeleteRange, G!DeleteGroup, G!Forget, G!Confirm,
         G!CollectorStops, G!Works
<1>4. PICK m : m = gc[c].m
    OBVIOUS
<1>5. m \in G!Members /\ m[1] \in Groups /\ m[2] \in Slots /\ m = <<m[1], m[2]>>
    BY <1>1, <1>3, <1>4, MemberWorked, MemberParts
<1>6. gc[c].pc \in {"retire", "fallback", "delete", "forget", "confirm"} => Gone(m)
    BY <1>4 DEF GroupInv, DeadGone
<1>7. \A d \in Collectors :
          /\ gc[d].pc \in {"retire", "fallback", "delete", "forget", "confirm"}
                => Gone(gc[d].m)
          /\ gc[d].pc = "delete" => GroupGone(gc[d].m[1])
    BY DEF GroupInv, DeadGone
<1>8. CASE G!Claim(c)
    <2> USE <1>4, <1>8 DEF G!Claim
    <2>1. CASE version = gc[c].ver /\ uc[m] = "pending" /\ ~gc[c].found
        <3>1. uc' = [uc EXCEPT ![m] = "orphan"] /\ UNCHANGED <<ledger, delayed, object>>
            BY <2>1
        <3>2. GcOK' /\ gc'[c].m = m /\ gc'[c].pc = "retire"
              /\ \A d \in Collectors : d # c => gc'[d] = gc[d]
            <4> DEFINE q == [gc[c] EXCEPT !.pc = "retire", !.ver = 0]
            <4>1. gc[c] \in GcType
                BY <1>1 DEF GcOK
            <4>2. q \in GcType /\ q.pc = "retire" /\ q.m = m /\ q.kind = gc[c].kind
                BY <4>1 DEF GcType
            <4>3. gc' = [gc EXCEPT ![c] = q]
                BY <2>1
            <4>4. m \in G!Members /\ gc[c].kind \in {"delayed", "orphan"}
                BY <1>1, <1>3 DEF GcOK
            <4> HIDE DEF q
            <4> QED
                BY <1>1, <4>2, <4>3, <4>4, GcTakes
        <3>3. StoreOK'
            BY <1>1, <1>2, <1>5, <3>1 DEF StoreOK
        <3>4. GroupShapes'
            BY <3>2, <3>3, ShapesJoin
        <3>5. uc'[m] # "pending" /\ m \notin list /\ up'[m[1]] # "idle"
            BY <1>1, <1>2, <1>5, <2>1, <3>1 DEF StoreOK, GroupInv, Reserved
        <3>6. \A k \in G!Members : /\ uc'[k] = "pending" => uc[k] = "pending"
                                   /\ uc'[k] # "none" => uc[k] # "none"
            BY <1>1, <1>5, <2>1, <3>1 DEF StoreOK
        <3>7. \A d \in Collectors :
                 /\ gc'[d].pc \in {"retire", "fallback", "delete", "forget", "confirm"}
                     => \/ Gone(gc'[d].m)
                        \/ uc'[gc'[d].m] # "pending" /\ gc'[d].m \notin list
                           /\ up'[gc'[d].m[1]] # "idle"
                 /\ gc'[d].pc = "delete" => GroupGone(gc'[d].m[1])
            BY ONLY <1>7, <3>2, <3>5
        <3> QED
            BY ONLY GroupInv, <1>2, <3>1, <3>4, <3>6, <3>7, Calm
    <2>2. CASE ~(version = gc[c].ver /\ uc[m] = "pending" /\ ~gc[c].found)
        <3>1. G!Stop(c) /\ UNCHANGED <<ledger, delayed, object>>
              /\ (uc' = uc \/ uc' = [uc EXCEPT ![m] = "none"])
            BY <2>2
        <3>2. GcOK' /\ gc'[c].pc = "idle" /\ \A d \in Collectors : d # c => gc'[d] = gc[d]
            BY <1>1, <3>1, GcStops
        <3>3. StoreOK'
            BY <1>1, <1>2, <1>5, <3>1 DEF StoreOK
        <3>4. GroupShapes'
            BY <3>2, <3>3, ShapesJoin
        <3>5. \A k \in G!Members : /\ uc'[k] = "pending" => uc[k] = "pending"
                                   /\ uc'[k] # "none" => uc[k] # "none"
            BY <1>1, <1>5, <3>1 DEF StoreOK
        <3>6. \A d \in Collectors :
                 /\ gc'[d].pc \in {"retire", "fallback", "delete", "forget", "confirm"}
                     => Gone(gc'[d].m)
                 /\ gc'[d].pc = "delete" => GroupGone(gc'[d].m[1])
            BY ONLY <1>7, <3>2
        <3> QED
            BY ONLY GroupInv, <1>2, <3>1, <3>4, <3>5, <3>6, Calm
    <2> QED
        BY <2>1, <2>2
<1>9. CASE G!Retire(c)
    <2> USE <1>4, <1>9 DEF G!Retire, G!Works
    <2>1. CASE ledger[m[1]].n = 0
        <3>1. UNCHANGED <<ledger, uc, delayed, object>> /\ G!Goto(c, "fallback")
            BY <2>1
        <3>2. GcOK' /\ gc'[c].m = m /\ gc'[c].pc = "fallback"
              /\ \A d \in Collectors : d # c => gc'[d] = gc[d]
            BY <1>1, <1>3, <3>1, GcGoes
        <3>3. GroupShapes'
            BY <1>1, <1>2, <3>1, <3>2, ShapesJoin DEF StoreOK
        <3>4. \A d \in Collectors :
                 /\ gc'[d].pc \in {"retire", "fallback", "delete", "forget", "confirm"}
                     => Gone(gc'[d].m)
                 /\ gc'[d].pc = "delete" => GroupGone(gc'[d].m[1])
            BY <1>6, <1>7, <3>2
        <3> QED
            BY ONLY GroupInv, <1>2, <3>1, <3>3, <3>4, Calm
    <2>2. CASE ledger[m[1]].n # 0
        <3> DEFINE q == G!Retired(ledger[m[1]], m[2])
        <3>0. ledger[m[1]] \in LedgerType /\ ledger[m[1]].dead = Cardinality(ledger[m[1]].d)
              /\ ledger \in [Groups -> LedgerType]
            BY <1>1, <1>5 DEF StoreOK
        <3>1. /\ q \in LedgerType /\ q.n = ledger[m[1]].n /\ q.d = ledger[m[1]].d \cup {m[2]}
              /\ q.dead = Cardinality(q.d)
            <4>1. CASE m[2] \in ledger[m[1]].d
                BY <3>0, <4>1 DEF G!Retired
            <4>2. CASE m[2] \notin ledger[m[1]].d
                <5>2. ledger[m[1]].d \subseteq Slots
                    BY <3>0 DEF LedgerType
                <5>3. IsFiniteSet(ledger[m[1]].d)
                    BY <5>2, PartsAssumption, FS_Subset
                <5>4. Cardinality(ledger[m[1]].d \cup {m[2]}) = Cardinality(ledger[m[1]].d) + 1
                    BY <4>2, <5>3, FS_AddElement
                <5> HIDE DEF q
                <5>6. ledger[m[1]].d \cup {m[2]} \in SUBSET Slots
                    BY <1>5, <5>2
                <5>7. ledger[m[1]].dead \in Nat
                    BY <3>0 DEF LedgerType
                <5>5. q.n = ledger[m[1]].n /\ q.d = ledger[m[1]].d \cup {m[2]}
                      /\ q.dead = ledger[m[1]].dead + 1 /\ q.p = ledger[m[1]].p
                      /\ q \in LedgerType
                    <6>1. PICK l : l = ledger[m[1]]
                        OBVIOUS
                    <6>2. q = [l EXCEPT !.d = l.d \cup {m[2]}, !.dead = l.dead + 1]
                        BY <4>2, <6>1 DEF q, G!Retired
                    <6>3. l \in [n : {0, Cardinality(Slots)}, d : SUBSET Slots, dead : Nat,
                                p : SUBSET Slots]
                        BY <3>0, <6>1 DEF LedgerType
                    <6>4. l.d \cup {m[2]} \in SUBSET Slots /\ l.dead + 1 \in Nat
                        BY <5>6, <5>7, <6>1
                    <6> QED
                        BY ONLY <6>1, <6>2, <6>3, <6>4 DEF LedgerType
                <5> QED
                    BY <3>0, <5>4, <5>5
            <4> QED
                BY <4>1, <4>2
        <3>2. /\ ledger' = [ledger EXCEPT ![m[1]] = q] /\ UNCHANGED <<uc, delayed, object>>
              /\ G!Goto(c, IF G!AllDead(c, q) THEN "delete" ELSE "confirm")
            BY <2>2
        <3>3. G!AllDead(c, q) <=> q.dead = q.n
            BY DEF G!AllDead
        <3> HIDE DEF q
        <3>4. GcOK' /\ gc'[c].m = m
              /\ gc'[c].pc = (IF q.dead = q.n THEN "delete" ELSE "confirm")
              /\ \A d \in Collectors : d # c => gc'[d] = gc[d]
            BY <1>1, <1>3, <3>2, <3>3, GcGoes
        <3>5. /\ ledger' \in [Groups -> LedgerType] /\ ledger'[m[1]] = q
              /\ \A h \in Groups : h # m[1] => ledger'[h] = ledger[h]
            BY <1>5, <3>0, <3>1, <3>2
        <3>6. StoreOK'
            BY <1>1, <1>2, <3>1, <3>2, <3>5 DEF StoreOK
        <3>7. GroupShapes'
            BY <3>4, <3>6, ShapesJoin
        <3>8. Gone(m)'
            BY <1>2, <1>6, <3>2 DEF Gone
        <3>9. \A h \in Groups : \A s \in ledger'[h].d : s \in ledger[h].d \/ Gone(<<h, s>>)'
            BY <1>5, <3>1, <3>5, <3>8
        <3>10. q.dead = q.n => q.d = Slots
            <4> SUFFICES ASSUME q.dead = q.n PROVE q.d = Slots
                OBVIOUS
            <4>1. q.n = Cardinality(Slots)
                BY <2>2, <3>0, <3>1 DEF LedgerType
            <4>2. q.d \subseteq Slots
                BY <3>1 DEF LedgerType
            <4> QED
                BY <3>1, <4>1, <4>2, PartsAssumption, FS_Subset
        <3>11. \A d \in Collectors :
                 /\ gc'[d].pc \in {"retire", "fallback", "delete", "forget", "confirm"}
                     => Gone(gc'[d].m)
                 /\ gc'[d].pc = "delete" => (GroupGone(gc'[d].m[1])
                     \/ \A s \in Slots : s \in ledger'[gc'[d].m[1]].d)
            BY <1>6, <1>7, <3>4, <3>5, <3>10
        <3> QED
            BY ONLY GroupInv, <1>2, <3>2, <3>7, <3>9, <3>11, Calm
    <2> QED
        BY <2>1, <2>2
<1>10. CASE G!DeleteRange(c) \/ G!CollectorStops(c)
    <2>1. /\ UNCHANGED <<ledger, uc, delayed, object>>
          /\ \/ G!Stop(c)
             \/ gc[c].pc = "fallback" /\ G!Goto(c, "confirm")
        <3>1. CASE G!DeleteRange(c)
            <4>1. CASE gc[c].m[1] \in object
                BY <3>1, <4>1 DEF G!DeleteRange
            <4>2. CASE gc[c].m[1] \notin object
                BY <3>1, <4>2 DEF G!DeleteRange, G!Works
            <4> QED
                BY <4>1, <4>2
        <3>2. CASE G!CollectorStops(c)
            BY <3>2 DEF G!CollectorStops
        <3> QED
            BY <1>10, <3>1, <3>2
    <2>2. /\ GcOK'
          /\ \/ gc'[c].pc = "idle"
             \/ gc[c].pc = "fallback" /\ gc'[c].pc = "confirm" /\ gc'[c].m = m
          /\ \A d \in Collectors : d # c => gc'[d] = gc[d]
        <3>1. CASE gc[c].pc = "fallback" /\ G!Goto(c, "confirm")
            BY <1>1, <1>3, <1>4, <3>1, GcGoes
        <3>2. CASE G!Stop(c)
            BY <1>1, <3>2, GcStops
        <3> QED
            BY <2>1, <3>1, <3>2
    <2>3. GroupShapes'
        BY <1>1, <1>2, <2>1, <2>2, ShapesJoin DEF StoreOK
    <2>4. \A d \in Collectors :
             /\ gc'[d].pc \in {"retire", "fallback", "delete", "forget", "confirm"}
                 => Gone(gc'[d].m)
             /\ gc'[d].pc = "delete" => GroupGone(gc'[d].m[1])
        BY <1>6, <1>7, <2>2
    <2> QED
        BY ONLY GroupInv, <1>2, <2>1, <2>3, <2>4, Calm
<1>11. CASE G!DeleteGroup(c)
    <2>1. /\ UNCHANGED <<ledger, uc, delayed>> /\ object' = object \ {m[1]}
          /\ gc[c].pc = "delete" /\ G!Goto(c, "forget")
        BY <1>4, <1>11 DEF G!DeleteGroup, G!Works
    <2>2. GcOK' /\ gc'[c].pc = "forget" /\ gc'[c].m = m
          /\ \A d \in Collectors : d # c => gc'[d] = gc[d]
        BY <1>1, <1>3, <1>4, <2>1, GcGoes
    <2>3. GroupShapes'
        BY <1>1, <1>2, <2>1, <2>2, ShapesJoin DEF StoreOK
    <2>4. \A d \in Collectors :
             /\ gc'[d].pc \in {"retire", "fallback", "delete", "forget", "confirm"}
                 => Gone(gc'[d].m)
             /\ gc'[d].pc = "delete" => GroupGone(gc'[d].m[1])
        BY <1>6, <1>7, <2>1, <2>2
    <2>5. \A g \in Groups : g \in object /\ g \notin object' => GroupGone(g)
        BY <1>4, <1>7, <2>1
    <2> QED
        BY ONLY GroupInv, <1>2, <2>1, <2>3, <2>4, <2>5, Calm
<1>12. CASE G!Forget(c)
    <2>1. /\ UNCHANGED <<uc, delayed, object>> /\ gc[c].pc = "forget"
          /\ \/ ledger' = [ledger EXCEPT ![m[1]] = G!NoLedger] /\ G!Goto(c, "confirm")
             \/ G!Stop(c) /\ UNCHANGED ledger
        BY <1>4, <1>12 DEF G!Forget, G!Works
    <2>2. /\ GcOK'
          /\ \/ gc'[c].pc = "idle"
             \/ gc'[c].pc = "confirm" /\ gc'[c].m = m
          /\ \A d \in Collectors : d # c => gc'[d] = gc[d]
        <3>1. CASE G!Goto(c, "confirm")
            BY <1>1, <1>3, <1>4, <3>1, GcGoes
        <3>2. CASE G!Stop(c)
            BY <1>1, <3>2, GcStops
        <3> QED
            BY <2>1, <3>1, <3>2
    <2>3. StoreOK' /\ \A h \in Groups : ledger'[h].d \subseteq ledger[h].d
        <3>1. G!NoLedger \in LedgerType /\ G!NoLedger.d = {} /\ G!NoLedger.dead = 0
            BY DEF G!NoLedger, LedgerType
        <3>2. Cardinality({}) = 0
            BY FS_EmptySet
        <3>3. /\ ledger' \in [Groups -> LedgerType]
              /\ \A h \in Groups : ledger'[h] = ledger[h] \/ ledger'[h] = G!NoLedger
            BY <1>1, <1>5, <2>1, <3>1 DEF StoreOK
        <3>4. \A h \in Groups : /\ ledger'[h].dead = Cardinality(ledger'[h].d)
                                /\ ledger'[h].d \subseteq ledger[h].d
            BY <1>1, <3>1, <3>2, <3>3 DEF StoreOK
        <3> QED
            BY <1>1, <1>2, <2>1, <3>3, <3>4 DEF StoreOK
    <2>4. GroupShapes'
        BY <2>2, <2>3, ShapesJoin
    <2>5. \A d \in Collectors :
             /\ gc'[d].pc \in {"retire", "fallback", "delete", "forget", "confirm"}
                 => Gone(gc'[d].m)
             /\ gc'[d].pc = "delete" => GroupGone(gc'[d].m[1])
        BY <1>6, <1>7, <2>1, <2>2
    <2> QED
        BY ONLY GroupInv, <1>2, <2>1, <2>3, <2>4, <2>5, Calm
<1>13. CASE G!Confirm(c)
    <2>1. /\ UNCHANGED <<ledger, object>> /\ delayed' \subseteq delayed
          /\ (uc' = uc \/ uc' = [uc EXCEPT ![m] = "none"]) /\ G!Stop(c)
        BY <1>4, <1>13 DEF G!Confirm
    <2>2. GcOK' /\ gc'[c].pc = "idle" /\ \A d \in Collectors : d # c => gc'[d] = gc[d]
        BY <1>1, <2>1, GcStops
    <2>3. StoreOK'
        BY <1>1, <1>2, <1>5, <2>1 DEF StoreOK
    <2>4. GroupShapes'
        BY <2>2, <2>3, ShapesJoin
    <2>5. \A k \in G!Members : /\ uc'[k] = "pending" => uc[k] = "pending"
                               /\ uc'[k] # "none" => uc[k] # "none"
        BY <1>1, <1>5, <2>1 DEF StoreOK
    <2>6. \A d \in Collectors :
             /\ gc'[d].pc \in {"retire", "fallback", "delete", "forget", "confirm"}
                 => Gone(gc'[d].m)
             /\ gc'[d].pc = "delete" => GroupGone(gc'[d].m[1])
        BY <1>7, <2>2
    <2> QED
        BY ONLY GroupInv, <1>2, <2>1, <2>4, <2>5, <2>6, Calm
<1> QED
    BY <1>8, <1>9, <1>10, <1>11, <1>12, <1>13 DEF G!Handle

\* Every step of an uploader, a chunk list or a collector keeps GroupInv.
LEMMA GroupStep == GroupInv /\ [G!Next]_G!vars => GroupInv'
<1> SUFFICES ASSUME GroupInv, [G!Next]_G!vars PROVE GroupInv'
    OBVIOUS
<1>1. CASE UNCHANGED G!vars
    BY <1>1 DEF G!vars, GroupInv, GroupShapes, G!TypeOK, Reserved, DeadGone, ObjectStays,
         ListedPut, Gone, GroupGone
<1>2. CASE G!Next
    BY <1>2, UploadKeeps, UseKeeps, PickKeeps, HandleKeeps DEF G!Next
<1> QED
    BY <1>1, <1>2

(* For any number of groups, members and collectors, any of which may stop   *)
(* between two steps and work on the same members: a member in a chunk list  *)
(* has its shared object (WRITE_SLICE_LUA, CLAIM_UNCOMMITTED_LUA,            *)
(* retire_coalesced_member, delete_coalesced_group).                         *)
THEOREM MembersReadable == G!Spec => []LiveMemberReadable
<1>1. GroupInv => LiveMemberReadable
    <2> SUFFICES ASSUME GroupInv, NEW m \in list PROVE m[1] \in object
        BY DEF LiveMemberReadable, G!LiveMemberReadable, GroupInv, GroupShapes
    <2>1. m \in G!Members
        BY DEF GroupInv, GroupShapes, G!TypeOK
    <2>2. m[1] \in Groups /\ m[2] \in Slots /\ m = <<m[1], m[2]>>
        BY <2>1, MemberParts
    <2>3. up[m[1]] = "done" /\ ~GroupGone(m[1])
        BY <2>2 DEF GroupInv, ListedPut, GroupGone, Gone
    <2> QED
        BY <2>2, <2>3 DEF GroupInv, ObjectStays
<1> QED
    BY <1>1, GroupInit, GroupStep, PTL DEF G!Spec

-----------------------------------------------------------------------------
(* DirCache: any names, mutators, lookers and listers.                       *)

ListLabels == {"generation", "scan", "reensure", "load"}
DueLabels == {"created", "removed", "renamed", "moved", "ensure", "link"}

\* The names that a mutation has changed in the store and not in the cache.
Due(t) ==
    IF d_pc[t] \in {"created", "removed"} THEN {name[t]}
    ELSE IF d_pc[t] = "renamed" THEN {name[t], to[t]}
    ELSE IF d_pc[t] \in {"moved", "ensure", "link"} THEN {to[t]} ELSE {}

Clean(n) == \A t \in Mutators : n \notin Due(t)

\* A task carries what the store holds, and only mutators owe anything.
Carries(t) ==
    /\ d_pc[t] \in {"keep", "created"} => held[t] = dir[name[t]]
    /\ d_pc[t] \in {"removed", "renamed"} => dir[name[t]] = None
    /\ d_pc[t] \in {"renamed", "moved", "ensure", "link"} => to[t] \in Names /\ held[t] = dir[to[t]]
    /\ d_pc[t] = "rename" => to[t] \in Names /\ to[t] # name[t] /\ t \in Mutators
    /\ d_pc[t] = "remove" => t \in Mutators
    /\ d_pc[t] \in {"lookup", "ask", "keep"} =>
          \/ t \in Lookers
          \/ t \in Mutators /\ (to[t] = None \/ (to[t] \in Names /\ to[t] # name[t]))
    /\ d_pc[t] \in DueLabels => t \in Mutators
    /\ d_pc[t] \in ListLabels => t \in Listers /\ node

Carried == \A t \in D!Actors : Carries(t)

\* The cache agrees with the store on every name that nobody owes.
Agree ==
    \A n \in Names : Clean(n) =>
        /\ children[n] # None => children[n] = dir[n]
        /\ d_state = "Complete" => children[n] = dir[n]

\* A listing that the generation still admits has the store's names.
Admitted(l) ==
    /\ d_pc[l] \in {"scan", "reensure", "load"} => expected[l] <= generation
    /\ d_pc[l] \in {"reensure", "load"} /\ expected[l] = generation
          => \A n \in Names : Clean(n) => listing[l][n] = dir[n]

DirStory == Carried /\ Agree /\ \A l \in Listers : Admitted(l)

DirInv == D!TypeOK /\ (~overtaken => DirStory)

-----------------------------------------------------------------------------

\* At the start the cache knows no children.
LEMMA DirInit == D!Init => DirInv
<1> SUFFICES ASSUME D!Init PROVE DirInv
    OBVIOUS
<1> USE DEF D!Init
<1>1. D!TypeOK
    <2>1. 0 \in D!Inodes /\ D!Empty \in D!Maps
        BY PartsAssumption DEF D!Inodes, D!Empty, D!Maps
    <2>2. dir \in D!Maps /\ children \in D!Maps
        BY <2>1 DEF D!Maps
    <2>3. (CHOOSE n \in Names : TRUE) \in Names
        BY PartsAssumption
    <2>4. name \in [D!Actors -> Names]
        BY <2>3
    <2>5. count \in [ops : 0..MaxOps, losses : 0..MaxLosses]
        BY PartsAssumption
    <2>6. listing \in [Listers -> D!Maps] /\ expected \in [Listers -> Nat]
        BY <2>1
    <2>7. node \in BOOLEAN /\ overtaken \in BOOLEAN
        BY Zenon
    <2> QED
        BY <2>2, <2>4, <2>5, <2>6, <2>7 DEF D!TypeOK
<1>2. DirStory
    BY DEF DirStory, Carried, Carries, Agree, Admitted, D!Empty, D!Actors, DueLabels, ListLabels
<1> QED
    BY <1>1, <1>2 DEF DirInv

\* The other tasks still carry what the store holds, as long as the store
\* keeps the names they are about to copy and no listing loses its node.
LEMMA OthersCarry ==
    ASSUME D!TypeOK, DirStory, NEW t \in D!Actors, NEW u \in D!Actors, u # t,
           d_pc'[u] = d_pc[u], name'[u] = name[u], to'[u] = to[u], held'[u] = held[u],
           \A n \in D!Pending(u) : dir'[n] = dir[n],
           node => node' \/ d_pc[u] \notin ListLabels
    PROVE  Carries(u)'
<1>1. Carries(u)
    BY DEF DirStory, Carried
<1> QED
    BY <1>1 DEF Carries, D!Pending

\* Goto and Step, told by their labels.
LEMMA Moved ==
    ASSUME D!TypeOK, NEW t \in D!Actors, NEW l, D!Goto(t, l)
    PROVE  d_pc'[t] = l /\ \A u \in D!Actors : u # t => d_pc'[u] = d_pc[u]
BY DEF D!TypeOK, D!Goto

\* The names that nobody owes stay so, apart from what task t owes now.
LEMMA CleanStep ==
    ASSUME NEW t \in D!Actors, NEW n,
           \A u \in D!Actors : u # t => d_pc'[u] = d_pc[u] /\ name'[u] = name[u] /\ to'[u] = to[u],
           Clean(n)', t \in Mutators => n \notin Due(t)
    PROVE  Clean(n)
BY DEF Clean, Due, D!Actors

-----------------------------------------------------------------------------

\* A step of task t: the other tasks keep what they have.
OnlyMoves(t) ==
    /\ \A u \in D!Actors : u # t => /\ d_pc'[u] = d_pc[u] /\ name'[u] = name[u]
                                   /\ to'[u] = to[u] /\ held'[u] = held[u]
    /\ \A l \in Listers : l # t => listing'[l] = listing[l] /\ expected'[l] = expected[l]

\* What a step of t leaves for the others to show.
Settled(t) == Agree' /\ \A l \in Listers : l # t => Admitted(l)'

\* A step that leaves the children alone: what it changes in the store, the
\* task owes afterwards.
LEMMA KeptSettles ==
    ASSUME D!TypeOK, DirStory, NEW t \in D!Actors, OnlyMoves(t),
           UNCHANGED <<d_state, children, generation>>,
           \A n \in Names : dir'[n] = dir[n] \/ (t \in Mutators /\ n \in Due(t)'),
           \A n \in Names : n \in Due(t) => n \in Due(t)'
    PROVE  Settled(t)
<1>1. ASSUME NEW n \in Names, Clean(n)' PROVE Clean(n) /\ dir'[n] = dir[n]
    <2>1. t \in Mutators => n \notin Due(t)'
        BY <1>1 DEF Clean
    <2> QED
        BY <1>1, <2>1, CleanStep DEF OnlyMoves
<1>2. Agree'
    BY <1>1 DEF DirStory, Agree
<1>3. ASSUME NEW l \in Listers, l # t PROVE Admitted(l)'
    <2>1. Admitted(l) /\ l \in D!Actors
        BY DEF DirStory, D!Actors
    <2>2. d_pc'[l] = d_pc[l] /\ listing'[l] = listing[l] /\ expected'[l] = expected[l]
        BY <1>3, <2>1 DEF OnlyMoves
    <2> QED
        BY <1>1, <2>1, <2>2 DEF Admitted
<1> QED
    BY <1>2, <1>3 DEF Settled

\* While there is no node, nobody is listing.
LEMMA NoNodeNoList ==
    ASSUME DirStory, ~node, NEW l \in Listers PROVE d_pc[l] \notin ListLabels
BY DEF DirStory, Carried, Carries, D!Actors

\* add_child of what the store holds.
LEMMA AddedSettles ==
    ASSUME D!TypeOK, DirStory, NEW t \in D!Actors, OnlyMoves(t), UNCHANGED dir,
           NEW k \in Names, NEW ino, ino = dir[k], D!AddChild(k, ino),
           \A n \in Names : n \in Due(t) => n = k \/ n \in Due(t)'
    PROVE  Settled(t)
<1>1. ASSUME NEW n \in Names, Clean(n)', n # k PROVE Clean(n)
    <2>1. t \in Mutators => n \notin Due(t)
        BY <1>1 DEF Clean
    <2> QED
        BY <1>1, <2>1, CleanStep DEF OnlyMoves
<1>2. CASE node
    <2>1. /\ children' = [children EXCEPT ![k] = dir[k]] /\ generation' = generation + 1
          /\ (d_state' = "Complete" => d_state = "Complete")
        BY <1>2 DEF D!AddChild, D!TypeOK
    <2>2. Agree'
        BY <1>1, <2>1 DEF DirStory, Agree, D!TypeOK, D!Maps
    <2>3. ASSUME NEW l \in Listers, l # t PROVE Admitted(l)'
        <3>1. Admitted(l) /\ l \in D!Actors
            BY DEF DirStory, D!Actors
        <3>2. d_pc'[l] = d_pc[l] /\ expected'[l] = expected[l]
            BY <2>3, <3>1 DEF OnlyMoves
        <3>3. expected[l] \in Nat /\ generation \in Nat
            BY DEF D!TypeOK
        <3> QED
            BY <2>1, <3>1, <3>2, <3>3 DEF Admitted
    <2> QED
        BY <2>2, <2>3 DEF Settled
<1>3. CASE ~node
    <2>1. UNCHANGED <<d_state, children, generation>> /\ d_state = "NotLoaded" /\ children = D!Empty
        BY <1>3 DEF D!AddChild, D!CacheKept, D!TypeOK
    <2>2. Agree'
        BY <2>1 DEF Agree, D!Empty
    <2>3. ASSUME NEW l \in Listers, l # t PROVE Admitted(l)'
        BY <1>3, <2>3, NoNodeNoList DEF Admitted, ListLabels, OnlyMoves, D!Actors
    <2> QED
        BY <2>2, <2>3 DEF Settled
<1> QED
    BY <1>2, <1>3

\* remove_child of a name the store does not hold, or that will be added.
LEMMA RemovedSettles ==
    ASSUME D!TypeOK, DirStory, NEW t \in D!Actors, OnlyMoves(t), UNCHANGED dir,
           NEW k \in Names, D!RemoveChild(k),
           dir[k] = None \/ (t \in Mutators /\ k \in Due(t)'),
           children[k] = None => \A l \in Listers : listing[l][k] = None,
           \A n \in Names : n \in Due(t) => n = k \/ n \in Due(t)'
    PROVE  Settled(t)
<1>1. ASSUME NEW n \in Names, Clean(n)', n # k PROVE Clean(n)
    <2>1. t \in Mutators => n \notin Due(t)
        BY <1>1 DEF Clean
    <2> QED
        BY <1>1, <2>1, CleanStep DEF OnlyMoves
<1>2. Clean(k)' => dir[k] = None
    BY DEF Clean
<1>3. children'[k] = None /\ (\A n \in Names : n # k => children'[n] = children[n])
      /\ UNCHANGED d_state
    BY DEF D!RemoveChild, D!CacheKept, D!TypeOK, D!Maps
<1>4. Agree'
    BY <1>1, <1>2, <1>3 DEF DirStory, Agree
<1>5. ASSUME NEW l \in Listers, l # t PROVE Admitted(l)'
    <2>1. Admitted(l) /\ l \in D!Actors
        BY DEF DirStory, D!Actors
    <2>2. d_pc'[l] = d_pc[l] /\ expected'[l] = expected[l] /\ listing'[l] = listing[l]
        BY <1>5, <2>1 DEF OnlyMoves
    <2>3. expected[l] \in Nat /\ generation \in Nat
        BY DEF D!TypeOK
    <2>4. CASE children[k] # None
        <3>1. generation' = generation + 1
            BY <2>4 DEF D!RemoveChild
        <3> QED
            BY <2>1, <2>2, <2>3, <3>1 DEF Admitted
    <2>5. CASE children[k] = None
        <3>1. generation' = generation
            BY <2>5 DEF D!RemoveChild, D!CacheKept
        <3> QED
            BY <1>1, <1>2, <2>1, <2>2, <2>5, <3>1 DEF Admitted
    <2> QED
        BY <2>4, <2>5
<1> QED
    BY <1>4, <1>5 DEF Settled

\* The story after a step of t, from its parts.
LEMMA StoryFrom ==
    ASSUME D!TypeOK, DirStory, NEW t \in D!Actors, OnlyMoves(t), ~D!Outruns, node => node',
           Settled(t), Carries(t)', t \in Listers => Admitted(t)'
    PROVE  DirStory'
<1>1. ASSUME NEW u \in D!Actors, u # t PROVE Carries(u)'
    <2>1. \A n \in D!Pending(u) : dir'[n] = dir[n]
        BY DEF D!Outruns
    <2> QED
        BY <1>1, <2>1, OthersCarry DEF OnlyMoves
<1>2. Carried'
    BY <1>1 DEF Carried
<1> QED
    BY <1>2 DEF Settled, DirStory

-----------------------------------------------------------------------------

TaskLabels == {"idle", "lookup", "ask", "keep", "remove", "created", "removed",
               "rename", "renamed", "moved", "ensure", "link",
               "generation", "scan", "reensure", "load"}

\* The cache's part of the type, and the tasks'.
CacheType ==
    /\ node \in BOOLEAN
    /\ d_state \in {"NotLoaded", "Partial", "Complete"}
    /\ children \in D!Maps /\ generation \in Nat
    /\ d_state = "NotLoaded" => children = D!Empty
    /\ ~node => d_state = "NotLoaded" /\ generation = 0

TaskType ==
    /\ dir \in D!Maps
    /\ d_pc \in [D!Actors -> TaskLabels]
    /\ name \in [D!Actors -> Names] /\ to \in [D!Actors -> Names \cup {None}]
    /\ held \in [D!Actors -> D!Inodes \cup {None}]
    /\ listing \in [Listers -> D!Maps] /\ expected \in [Listers -> Nat]
    /\ count \in [ops : 0..MaxOps, losses : 0..MaxLosses]

\* The types of the cache and of the tasks, one by one.
LEMMA TypeSplit == D!TypeOK <=> CacheType /\ TaskType /\ overtaken \in BOOLEAN
BY DEF D!TypeOK, CacheType, TaskType, TaskLabels

\* The same after a step, for what a step leaves to show.
LEMMA TypeJoin == CacheType' /\ TaskType' /\ overtaken' \in BOOLEAN => D!TypeOK'
BY DEF D!TypeOK, CacheType, TaskType, TaskLabels

\* Adding a child keeps the types of the cache.
LEMMA AddedType ==
    ASSUME CacheType, NEW k \in Names, NEW ino \in D!Inodes \cup {None}, D!AddChild(k, ino)
    PROVE  CacheType' /\ (node => node')
<1>1. CASE node
    <2>1. children' \in D!Maps
        BY <1>1 DEF CacheType, D!AddChild, D!Maps
    <2>2. d_state' \in {"Partial", "Complete"} /\ generation' \in Nat /\ node' = TRUE
        BY <1>1 DEF CacheType, D!AddChild
    <2> QED
        BY <2>1, <2>2 DEF CacheType
<1>2. CASE ~node
    BY <1>2 DEF CacheType, D!AddChild, D!CacheKept
<1> QED
    BY <1>1, <1>2

\* Removing a child keeps the types of the cache.
LEMMA RemovedType ==
    ASSUME CacheType, NEW k \in Names, D!RemoveChild(k)
    PROVE  CacheType' /\ (node => node')
<1>1. CASE children[k] # None
    <2>1. children' \in D!Maps
        BY <1>1 DEF CacheType, D!RemoveChild, D!Maps
    <2>2. d_state # "NotLoaded" /\ node
        BY <1>1 DEF CacheType, D!Empty
    <2> QED
        BY <1>1, <2>1, <2>2 DEF CacheType, D!RemoveChild
<1>2. CASE children[k] = None
    BY <1>2 DEF CacheType, D!RemoveChild, D!CacheKept
<1> QED
    BY <1>1, <1>2

\* Where a task may be, from the labels of its steps.
LEMMA Stepped ==
    ASSUME TaskType, NEW t \in D!Actors, NEW l \in TaskLabels, D!Goto(t, l)
    PROVE  /\ d_pc' \in [D!Actors -> TaskLabels] /\ d_pc'[t] = l
           /\ \A u \in D!Actors : u # t => d_pc'[u] = d_pc[u]
BY DEF TaskType, D!Goto

\* A lookup by a looker, or before an unlink or a rename.
LEMMA LookupStory ==
    ASSUME D!TypeOK, DirStory, overtaken' \in BOOLEAN,
           NEW t \in D!Actors, t \in Mutators \cup Lookers,
           D!Lookup(t) \/ (t \in Lookers /\ \E n \in Names : D!StartLookup(t, n))
    PROVE  D!TypeOK' /\ (~D!Outruns => DirStory')
<1>0. CacheType /\ TaskType /\ Carries(t)
    BY TypeSplit DEF DirStory, Carried
<1>1. CASE \E n \in Names : D!StartLookup(t, n) /\ t \in Lookers
    <2>1. PICK n \in Names : D!StartLookup(t, n) /\ t \in Lookers
        BY <1>1
    <2>2. /\ d_pc[t] = "idle" /\ D!Goto(t, "lookup")
          /\ name' = [name EXCEPT ![t] = n]
          /\ UNCHANGED <<dir, node, d_state, children, generation, to, held, listing, expected, count>>
        BY <2>1 DEF D!StartLookup, D!Step, D!CacheKept
    <2>3. /\ d_pc' \in [D!Actors -> TaskLabels] /\ d_pc'[t] = "lookup"
          /\ \A u \in D!Actors : u # t => d_pc'[u] = d_pc[u]
        BY <1>0, <2>2, Stepped DEF TaskLabels
    <2>4. CacheType' /\ TaskType'
        BY <1>0, <2>2, <2>3 DEF CacheType, TaskType
    <2>5. OnlyMoves(t)
        BY <1>0, <2>2, <2>3 DEF OnlyMoves, TaskType
    <2>6. Due(t) = {}
        BY <2>2 DEF Due
    <2>7. Settled(t)
        BY <2>2, <2>5, <2>6, KeptSettles
    <2>8. Carries(t)' /\ Admitted(t)'
        BY <2>1, <2>3 DEF Carries, Admitted, DueLabels, ListLabels
    <2> QED
        BY <2>2, <2>4, <2>5, <2>7, <2>8, StoryFrom, TypeJoin
<1>2. CASE D!LookupCache(t)
    <2>1. PICK l \in TaskLabels : /\ d_pc[t] = "lookup" /\ D!Goto(t, l)
                                  /\ l \in {D!After(t), "idle", "ask"}
        BY <1>2 DEF D!LookupCache, D!Step, D!After, TaskLabels
    <2>2. UNCHANGED <<dir, node, d_state, children, generation, name, to, held, listing, expected, count>>
        BY <1>2 DEF D!LookupCache, D!CacheKept
    <2>3. /\ d_pc' \in [D!Actors -> TaskLabels] /\ d_pc'[t] = l
          /\ \A u \in D!Actors : u # t => d_pc'[u] = d_pc[u]
        BY <1>0, <2>1, Stepped
    <2>4. CacheType' /\ TaskType'
        BY <1>0, <2>2, <2>3 DEF CacheType, TaskType
    <2>5. OnlyMoves(t)
        BY <2>2, <2>3 DEF OnlyMoves
    <2>6. Due(t) = {}
        BY <2>1 DEF Due
    <2>7. Settled(t)
        BY <2>2, <2>5, <2>6, KeptSettles
    <2>8. Carries(t)' /\ Admitted(t)'
        BY <1>0, <2>1, <2>2, <2>3 DEF Carries, Admitted, DueLabels, ListLabels, D!After
    <2> QED
        BY <2>2, <2>4, <2>5, <2>7, <2>8, StoryFrom, TypeJoin
<1>3. CASE D!LookupStore(t)
    <2>1. PICK l \in {"idle", "keep"} : d_pc[t] = "ask" /\ D!Goto(t, l)
        BY <1>3 DEF D!LookupStore, D!Step
    <2>2. /\ UNCHANGED <<dir, node, d_state, children, generation, name, to, listing, expected, count>>
          /\ held' = [held EXCEPT ![t] = dir[name[t]]]
        BY <1>3 DEF D!LookupStore, D!CacheKept
    <2>3. /\ d_pc' \in [D!Actors -> TaskLabels] /\ d_pc'[t] = l
          /\ \A u \in D!Actors : u # t => d_pc'[u] = d_pc[u]
        BY <1>0, <2>1, Stepped DEF TaskLabels
    <2>4. CacheType' /\ TaskType' /\ held'[t] = dir[name[t]]
        BY <1>0, <2>2, <2>3 DEF CacheType, TaskType, D!Maps
    <2>5. OnlyMoves(t)
        BY <1>0, <2>2, <2>3 DEF OnlyMoves, TaskType
    <2>6. Due(t) = {}
        BY <2>1 DEF Due
    <2>7. Settled(t)
        BY <2>2, <2>5, <2>6, KeptSettles
    <2>8. Carries(t)' /\ Admitted(t)'
        BY <1>0, <2>1, <2>2, <2>3, <2>4 DEF Carries, Admitted, DueLabels, ListLabels
    <2> QED
        BY <2>2, <2>4, <2>5, <2>7, <2>8, StoryFrom, TypeJoin
<1>4. CASE D!CacheLookup(t)
    <2>1. PICK l \in TaskLabels : l = D!After(t)
        BY DEF D!After, TaskLabels
    <2>2. /\ UNCHANGED <<dir, name, to, listing, expected, count>>
          /\ held' = [held EXCEPT ![t] = None]
          /\ D!AddChild(name[t], held[t]) /\ d_pc[t] = "keep" /\ D!Goto(t, l)
        BY <1>4, <2>1 DEF D!CacheLookup, D!Step
    <2>3. /\ d_pc' \in [D!Actors -> TaskLabels] /\ d_pc'[t] = l
          /\ \A u \in D!Actors : u # t => d_pc'[u] = d_pc[u]
        BY <1>0, <2>2, Stepped
    <2>4. TaskType'
        BY <1>0, <2>2, <2>3 DEF TaskType
    <2>5. OnlyMoves(t)
        BY <1>0, <2>2, <2>3 DEF OnlyMoves, TaskType
    <2>6. Due(t) = {} /\ name[t] \in Names /\ held[t] = dir[name[t]]
          /\ held[t] \in D!Inodes \cup {None}
        BY <1>0, <2>2 DEF Due, TaskType, Carries
    <2>7. Settled(t) /\ CacheType' /\ (node => node')
        BY <1>0, <2>2, <2>5, <2>6, AddedSettles, AddedType
    <2>8. Carries(t)' /\ Admitted(t)'
        BY <1>0, <2>1, <2>2, <2>3 DEF Carries, Admitted, DueLabels, ListLabels, D!After
    <2> QED
        BY <2>2, <2>4, <2>5, <2>7, <2>8, StoryFrom, TypeJoin
<1> QED
    BY <1>1, <1>2, <1>3, <1>4 DEF D!Lookup

\* A mutation begins: the counter has room.
LEMMA Begun ==
    ASSUME TaskType, NEW t \in D!Actors, NEW op \in {"create", "remove", "rename"}, NEW n \in Names,
           NEW m \in Names \cup {None}, D!Begin(t, op, n, m)
    PROVE  /\ d_pc[t] = "idle" /\ count' \in [ops : 0..MaxOps, losses : 0..MaxLosses]
           /\ count.ops + 1 \in D!Inodes
           /\ name' \in [D!Actors -> Names] /\ to' \in [D!Actors -> Names \cup {None}]
           /\ name'[t] = n /\ to'[t] = m
           /\ \A u \in D!Actors : u # t => name'[u] = name[u] /\ to'[u] = to[u]
<1>1. count.ops \in 0..MaxOps /\ count.ops < MaxOps
    BY DEF TaskType, D!Begin
<1>2. count.ops + 1 \in 0..MaxOps
    BY <1>1, PartsAssumption
<1>3. count' \in [ops : 0..MaxOps, losses : 0..MaxLosses]
    BY <1>2 DEF TaskType, D!Begin
<1> QED
    BY <1>2, <1>3 DEF TaskType, D!Begin, D!Inodes

\* A mutation: the store first, then the cache.
LEMMA MutateStory ==
    ASSUME D!TypeOK, DirStory, overtaken' \in BOOLEAN,
           NEW t \in D!Actors, t \in Mutators, D!Mutate(t)
    PROVE  D!TypeOK' /\ (~D!Outruns => DirStory')
<1>0. CacheType /\ TaskType /\ Carries(t)
    BY TypeSplit DEF DirStory, Carried
<1>1. CASE \E n \in Names : D!Create(t, n)
    <2>1. PICK n \in Names : D!Create(t, n)
        BY <1>1
    <2>2. /\ D!Begin(t, "create", n, None) /\ D!Goto(t, "created")
          /\ dir' = [dir EXCEPT ![n] = count.ops + 1]
          /\ held' = [held EXCEPT ![t] = count.ops + 1]
          /\ UNCHANGED <<node, d_state, children, generation, listing, expected>>
        BY <2>1 DEF D!Create, D!CacheKept
    <2>3. /\ d_pc' \in [D!Actors -> TaskLabels] /\ d_pc'[t] = "created"
          /\ \A u \in D!Actors : u # t => d_pc'[u] = d_pc[u]
        BY <1>0, <2>2, Stepped DEF TaskLabels
    <2>b. /\ d_pc[t] = "idle" /\ count' \in [ops : 0..MaxOps, losses : 0..MaxLosses]
          /\ count.ops + 1 \in D!Inodes
          /\ name' \in [D!Actors -> Names] /\ to' \in [D!Actors -> Names \cup {None}]
          /\ name'[t] = n
          /\ \A u \in D!Actors : u # t => name'[u] = name[u] /\ to'[u] = to[u]
        BY <1>0, <2>2, Begun
    <2>4. CacheType' /\ TaskType'
        BY <1>0, <2>2, <2>3, <2>b DEF CacheType, TaskType, D!Maps
    <2>5. OnlyMoves(t)
        BY <1>0, <2>2, <2>3, <2>b DEF OnlyMoves, TaskType
    <2>6. Due(t) = {} /\ Due(t)' = {n}
        BY <2>3, <2>b DEF Due
    <2>7. \A k \in Names : dir'[k] = dir[k] \/ k = n
        BY <1>0, <2>2 DEF TaskType, D!Maps
    <2>8. Settled(t)
        BY <2>2, <2>5, <2>6, <2>7, KeptSettles
    <2>9. held'[t] = dir'[n]
        BY <1>0, <2>2 DEF TaskType, D!Maps
    <2>10. Carries(t)' /\ Admitted(t)'
        BY <2>3, <2>9, <2>b DEF Carries, Admitted, DueLabels, ListLabels
    <2> QED
        BY <2>2, <2>4, <2>5, <2>8, <2>10, StoryFrom, TypeJoin
<1>2. CASE \E n \in Names : D!Remove(t, n) \/ \E m \in Names : D!Rename(t, n, m)
    <2>1. PICK n \in Names, m \in Names \cup {None}, op \in {"remove", "rename"} :
             /\ D!Begin(t, op, n, m) /\ D!Goto(t, "lookup")
             /\ m = None \/ m # n
             /\ UNCHANGED <<dir, held, node, d_state, children, generation, listing, expected>>
        BY <1>2 DEF D!Remove, D!Rename, D!CacheKept
    <2>3. /\ d_pc' \in [D!Actors -> TaskLabels] /\ d_pc'[t] = "lookup"
          /\ \A u \in D!Actors : u # t => d_pc'[u] = d_pc[u]
        BY <1>0, <2>1, Stepped DEF TaskLabels
    <2>b. /\ d_pc[t] = "idle" /\ count' \in [ops : 0..MaxOps, losses : 0..MaxLosses]
          /\ name' \in [D!Actors -> Names] /\ to' \in [D!Actors -> Names \cup {None}]
          /\ name'[t] = n /\ to'[t] = m
          /\ \A u \in D!Actors : u # t => name'[u] = name[u] /\ to'[u] = to[u]
        <3>1. TaskType /\ D!Begin(t, op, n, m)
            BY <1>0, <2>1
        <3>2. t \in D!Actors /\ n \in Names /\ m \in Names \cup {None}
            BY <2>1
        <3> QED
            BY <2>1, <3>1, <3>2, Begun
    <2>4. CacheType' /\ TaskType'
        BY <1>0, <2>1, <2>3, <2>b DEF CacheType, TaskType
    <2>5. OnlyMoves(t)
        BY <2>1, <2>3, <2>b DEF OnlyMoves
    <2>6. Due(t) = {}
        BY <2>b DEF Due
    <2>7. Settled(t)
        BY <2>1, <2>5, <2>6, KeptSettles
    <2>8. Carries(t)' /\ Admitted(t)'
        BY <2>1, <2>3, <2>b DEF Carries, Admitted, DueLabels, ListLabels
    <2> QED
        BY <2>1, <2>4, <2>5, <2>7, <2>8, StoryFrom, TypeJoin
<1>3. CASE D!AddCreated(t)
    <2>1. PICK k : k = IF d_pc[t] = "link" THEN to[t] ELSE name[t]
        OBVIOUS
    <2>2. /\ UNCHANGED <<dir, name, to, listing, expected, count>>
          /\ held' = [held EXCEPT ![t] = None]
          /\ D!AddChild(k, held[t]) /\ d_pc[t] \in {"created", "link"} /\ D!Goto(t, "idle")
        BY <1>3, <2>1 DEF D!AddCreated
    <2>3. /\ d_pc' \in [D!Actors -> TaskLabels] /\ d_pc'[t] = "idle"
          /\ \A u \in D!Actors : u # t => d_pc'[u] = d_pc[u]
        BY <1>0, <2>2, Stepped DEF TaskLabels
    <2>4. TaskType'
        BY <1>0, <2>2, <2>3 DEF TaskType
    <2>5. OnlyMoves(t)
        BY <1>0, <2>2, <2>3 DEF OnlyMoves, TaskType
    <2>6. Due(t) = {k} /\ k \in Names /\ held[t] = dir[k] /\ held[t] \in D!Inodes \cup {None}
        BY <1>0, <2>1, <2>2 DEF Due, TaskType, Carries
    <2>7. Settled(t) /\ CacheType' /\ (node => node')
        BY <1>0, <2>2, <2>5, <2>6, AddedSettles, AddedType
    <2>8. Carries(t)' /\ Admitted(t)'
        BY <2>3 DEF Carries, Admitted, DueLabels, ListLabels
    <2> QED
        BY <2>2, <2>4, <2>5, <2>7, <2>8, StoryFrom, TypeJoin
<1>4. CASE D!StoreRemove(t)
    <2>1. PICK l \in {"idle", "removed"} :
             D!Goto(t, l) /\ d_pc[t] = "remove" /\ (l = "idle" => dir[name[t]] = None)
        BY <1>4 DEF D!StoreRemove, D!Step
    <2>2. /\ UNCHANGED <<node, d_state, children, generation, name, to, held, listing, expected, count>>
          /\ dir' = [dir EXCEPT ![name[t]] = None]
        BY <1>4 DEF D!StoreRemove, D!CacheKept
    <2>3. /\ d_pc' \in [D!Actors -> TaskLabels] /\ d_pc'[t] = l
          /\ \A u \in D!Actors : u # t => d_pc'[u] = d_pc[u]
        BY <1>0, <2>1, Stepped DEF TaskLabels
    <2>4. CacheType' /\ TaskType' /\ name[t] \in Names /\ dir'[name[t]] = None
          /\ \A k \in Names : k # name[t] => dir'[k] = dir[k]
        BY <1>0, <2>2, <2>3 DEF CacheType, TaskType, D!Maps
    <2>5. OnlyMoves(t)
        BY <2>2, <2>3 DEF OnlyMoves
    <2>6. Due(t) = {} /\ (l = "removed" => Due(t)' = {name[t]})
        BY <2>1, <2>2, <2>3 DEF Due
    <2>7. \A k \in Names : dir'[k] = dir[k] \/ k \in Due(t)'
        BY <2>1, <2>4, <2>6
    <2>8. Settled(t)
        BY <2>2, <2>5, <2>6, <2>7, KeptSettles
    <2>9. Carries(t)' /\ Admitted(t)'
        BY <2>1, <2>2, <2>3, <2>4 DEF Carries, Admitted, DueLabels, ListLabels
    <2> QED
        BY <2>2, <2>4, <2>5, <2>8, <2>9, StoryFrom, TypeJoin
<1>5. CASE D!RemoveRemoved(t) \/ D!RenameForget(t)
    <2>1. PICK k \in {name[t], to[t]}, l \in {"idle", "moved", "ensure"} :
             /\ D!Goto(t, l) /\ D!RemoveChild(k)
             /\ \/ d_pc[t] = "removed" /\ l = "idle" /\ k = name[t]
                \/ d_pc[t] = "renamed" /\ l = "moved" /\ k = name[t]
                \/ d_pc[t] = "moved" /\ l = "ensure" /\ k = to[t]
             /\ UNCHANGED <<dir, name, to, held, listing, expected, count>>
        BY <1>5 DEF D!RemoveRemoved, D!RenameForget, D!Step
    <2>3. /\ d_pc' \in [D!Actors -> TaskLabels] /\ d_pc'[t] = l
          /\ \A u \in D!Actors : u # t => d_pc'[u] = d_pc[u]
        BY <1>0, <2>1, Stepped DEF TaskLabels
    <2>4. TaskType' /\ k \in Names
        BY <1>0, <2>1, <2>3 DEF TaskType, Carries
    <2>5. OnlyMoves(t)
        BY <2>1, <2>3 DEF OnlyMoves
    <2>6. /\ dir[k] = None \/ k \in Due(t)'
          /\ \A n \in Names : n \in Due(t) => n = k \/ n \in Due(t)'
        BY <1>0, <2>1, <2>3 DEF Due, Carries
    <2>7. ~D!Outruns /\ children[k] = None => \A j \in Listers : listing[j][k] = None
        BY <2>1, <2>3 DEF D!Outruns
    <2>8. CacheType' /\ (node => node')
        BY <1>0, <2>1, <2>4, RemovedType
    <2>10. ~D!Outruns => Settled(t)
        BY <2>1, <2>4, <2>5, <2>6, <2>7, RemovedSettles
    <2>9. Carries(t)' /\ Admitted(t)'
        BY <1>0, <2>1, <2>3 DEF Carries, Admitted, DueLabels, ListLabels
    <2> QED
        BY <2>4, <2>5, <2>8, <2>9, <2>10, StoryFrom, TypeJoin
<1>6. CASE D!StoreRename(t)
    <2>1. /\ UNCHANGED <<node, d_state, children, generation, name, to, listing, expected, count>>
          /\ d_pc[t] = "rename"
        BY <1>6 DEF D!StoreRename, D!CacheKept
    <2>2. to[t] \in Names /\ to[t] # name[t] /\ name[t] \in Names /\ t \in Mutators
        BY <1>0, <2>1 DEF Carries, TaskType
    <2>3. PICK l \in {"idle", "renamed"} : D!Goto(t, l) /\ (l = "renamed" <=> dir[name[t]] # None)
        BY <1>6 DEF D!StoreRename
    <2>4. /\ d_pc' \in [D!Actors -> TaskLabels] /\ d_pc'[t] = l
          /\ \A u \in D!Actors : u # t => d_pc'[u] = d_pc[u]
        BY <1>0, <2>3, Stepped DEF TaskLabels
    <2>5. /\ l = "idle" => UNCHANGED <<dir, held>>
          /\ l = "renamed" => /\ held' = [held EXCEPT ![t] = dir[name[t]]]
                              /\ dir' = [dir EXCEPT ![to[t]] = dir[name[t]], ![name[t]] = None]
        BY <1>6, <2>3 DEF D!StoreRename
    <2>6. TaskType' /\ CacheType'
        BY <1>0, <2>1, <2>2, <2>4, <2>5 DEF TaskType, CacheType, D!Maps
    <2>7. OnlyMoves(t)
        BY <1>0, <2>1, <2>4, <2>5 DEF OnlyMoves, TaskType
    <2>8. Due(t) = {} /\ (l = "renamed" => Due(t)' = {name[t], to[t]})
        BY <2>1, <2>4 DEF Due
    <2>9. \A k \in Names : dir'[k] = dir[k] \/ k \in Due(t)'
        BY <1>0, <2>3, <2>5, <2>8 DEF TaskType, D!Maps
    <2>10. Settled(t)
        BY <2>1, <2>2, <2>7, <2>8, <2>9, KeptSettles
    <2>11. l = "renamed" => dir'[name[t]] = None /\ held'[t] = dir'[to[t]]
        BY <1>0, <2>2, <2>5 DEF TaskType, D!Maps
    <2>12. Carries(t)' /\ Admitted(t)'
        BY <2>1, <2>2, <2>4, <2>11 DEF Carries, Admitted, DueLabels, ListLabels
    <2> QED
        BY <2>1, <2>6, <2>7, <2>10, <2>12, StoryFrom, TypeJoin
<1>7. CASE D!RenameEnsure(t)
    <2>1. /\ UNCHANGED <<dir, d_state, children, generation, name, to, held, listing, expected, count>>
          /\ node' = TRUE /\ d_pc[t] = "ensure" /\ D!Goto(t, "link")
        BY <1>7 DEF D!RenameEnsure, D!EnsureNode, D!Step
    <2>2. /\ d_pc' \in [D!Actors -> TaskLabels] /\ d_pc'[t] = "link"
          /\ \A u \in D!Actors : u # t => d_pc'[u] = d_pc[u]
        BY <1>0, <2>1, Stepped DEF TaskLabels
    <2>3. TaskType' /\ CacheType'
        BY <1>0, <2>1, <2>2 DEF TaskType, CacheType
    <2>4. OnlyMoves(t)
        BY <2>1, <2>2 DEF OnlyMoves
    <2>5. Due(t) = {to[t]} /\ Due(t)' = {to[t]}
        BY <2>1, <2>2 DEF Due
    <2>6. Settled(t)
        BY <2>1, <2>4, <2>5, KeptSettles
    <2>7. Carries(t)' /\ Admitted(t)'
        BY <1>0, <2>1, <2>2 DEF Carries, Admitted, DueLabels, ListLabels
    <2> QED
        BY <2>1, <2>3, <2>4, <2>6, <2>7, StoryFrom, TypeJoin
<1> QED
    BY <1>1, <1>2, <1>3, <1>4, <1>5, <1>6, <1>7 DEF D!Mutate

\* readdir.
LEMMA ListStory ==
    ASSUME D!TypeOK, DirStory, overtaken' \in BOOLEAN,
           NEW t \in D!Actors, t \in Listers, D!List(t)
    PROVE  D!TypeOK' /\ (~D!Outruns => DirStory')
<1>0. CacheType /\ TaskType /\ Carries(t) /\ Admitted(t)
    BY TypeSplit DEF DirStory, Carried
<1>1. CASE D!ListEnsure(t) \/ D!ListGeneration(t) \/ D!ListScan(t) \/ D!ListReensure(t)
    <2>1. PICK l \in {"generation", "scan", "reensure", "load"} :
             /\ D!Goto(t, l) /\ (node => node')
             /\ \/ d_pc[t] = "idle" /\ l = "generation" /\ node' = TRUE /\ UNCHANGED <<listing, expected>>
                \/ /\ d_pc[t] = "generation" /\ l = "scan" /\ UNCHANGED listing
                   /\ expected' = [expected EXCEPT ![t] = generation]
                \/ /\ d_pc[t] = "scan" /\ l = "reensure" /\ UNCHANGED expected
                   /\ listing' = [listing EXCEPT ![t] = dir]
                \/ d_pc[t] = "reensure" /\ l = "load" /\ UNCHANGED <<listing, expected>>
        BY <1>1 DEF D!ListEnsure, D!ListGeneration, D!ListScan, D!ListReensure, D!EnsureNode,
             D!CacheKept, D!Step
    <2>2. /\ UNCHANGED <<dir, d_state, children, generation, name, to, held, count>>
          /\ node' = TRUE \/ node' = node
        BY <1>1 DEF D!ListEnsure, D!ListGeneration, D!ListScan, D!ListReensure, D!EnsureNode,
             D!CacheKept
    <2>3. /\ d_pc' \in [D!Actors -> TaskLabels] /\ d_pc'[t] = l
          /\ \A u \in D!Actors : u # t => d_pc'[u] = d_pc[u]
        BY <1>0, <2>1, Stepped DEF TaskLabels
    <2>4. TaskType' /\ CacheType'
        BY <1>0, <2>1, <2>2, <2>3 DEF TaskType, CacheType
    <2>5. OnlyMoves(t)
        BY <1>0, <2>1, <2>2, <2>3 DEF OnlyMoves, TaskType
    <2>6. Due(t) = {}
        BY <2>1 DEF Due
    <2>7. Settled(t)
        BY <2>2, <2>5, <2>6, KeptSettles
    <2>8. Carries(t)'
        BY <1>0, <2>1, <2>2, <2>3 DEF Carries, DueLabels, ListLabels
    <2>9. \A n : Clean(n)' => Clean(n)
        BY <2>5, <2>6, CleanStep DEF OnlyMoves
    <2>10. Admitted(t)'
        BY <1>0, <2>1, <2>2, <2>3, <2>9 DEF Admitted, TaskType, CacheType
    <2> QED
        BY <2>1, <2>4, <2>5, <2>7, <2>8, <2>10, StoryFrom, TypeJoin
<1>2. CASE D!ListLoad(t)
    <2>1. /\ d_pc[t] = "load" /\ D!Goto(t, "idle")
          /\ UNCHANGED <<dir, name, to, held, count, generation, node>>
          /\ listing' = [listing EXCEPT ![t] = D!Empty] /\ expected' = [expected EXCEPT ![t] = 0]
        BY <1>2 DEF D!ListLoad, D!Step, D!CacheKept
    <2>2. \/ UNCHANGED <<d_state, children>>
          \/ /\ node /\ generation = expected[t]
             /\ d_state' = "Complete" /\ children' = listing[t]
        BY <1>2 DEF D!ListLoad, D!CacheKept
    <2>3. /\ d_pc' \in [D!Actors -> TaskLabels] /\ d_pc'[t] = "idle"
          /\ \A u \in D!Actors : u # t => d_pc'[u] = d_pc[u]
        BY <1>0, <2>1, Stepped DEF TaskLabels
    <2>4. TaskType' /\ CacheType'
        <3>1. D!Empty \in D!Maps
            BY DEF D!Empty, D!Maps
        <3> QED
            BY <1>0, <2>1, <2>2, <2>3, <3>1 DEF TaskType, CacheType
    <2>5. OnlyMoves(t)
        BY <1>0, <2>1, <2>3 DEF OnlyMoves, TaskType
    <2>6. Due(t) = {}
        BY <2>1 DEF Due
    <2>7. \A n : Clean(n)' => Clean(n)
        BY <2>5, <2>6, CleanStep DEF OnlyMoves
    <2>8. Carries(t)' /\ Admitted(t)'
        BY <2>3 DEF Carries, Admitted, DueLabels, ListLabels
    <2>9. Agree'
        BY <1>0, <2>1, <2>2, <2>7 DEF DirStory, Agree, Admitted
    <2>10. ASSUME NEW l \in Listers, l # t PROVE Admitted(l)'
        <3>1. Admitted(l) /\ l \in D!Actors
            BY DEF DirStory, D!Actors
        <3>2. d_pc'[l] = d_pc[l] /\ listing'[l] = listing[l] /\ expected'[l] = expected[l]
            BY <2>5, <2>10, <3>1 DEF OnlyMoves
        <3> QED
            BY <2>1, <2>7, <3>1, <3>2 DEF Admitted
    <2>11. Settled(t)
        BY <2>9, <2>10 DEF Settled
    <2> QED
        BY <2>1, <2>4, <2>5, <2>8, <2>11, StoryFrom, TypeJoin
<1> QED
    BY <1>1, <1>2 DEF D!List

\* The cache forgets the directory's children, or the directory.
LEMMA LossStory ==
    ASSUME D!TypeOK, DirStory, overtaken' \in BOOLEAN, D!FreshStat \/ D!Evict
    PROVE  D!TypeOK' /\ (~D!Outruns => DirStory')
<1>0. CacheType /\ TaskType
    BY TypeSplit
<1>1. UNCHANGED <<dir, d_pc, name, to, held, listing, expected>>
    BY DEF D!FreshStat, D!Evict
<1>2. TaskType'
    <2>1. count.losses \in 0..MaxLosses /\ count.losses < MaxLosses
        BY <1>0 DEF TaskType, D!FreshStat, D!Evict
    <2>2. count.losses + 1 \in 0..MaxLosses
        BY <2>1, PartsAssumption
    <2>3. count' \in [ops : 0..MaxOps, losses : 0..MaxLosses]
        BY <1>0, <2>2 DEF TaskType, D!FreshStat, D!Evict
    <2> QED
        BY <1>0, <1>1, <2>3 DEF TaskType
<1>3. D!Empty \in D!Maps
    BY DEF D!Empty, D!Maps
<1>4. d_state' = "NotLoaded" /\ children' = D!Empty
    BY <1>0 DEF D!FreshStat, D!Evict, D!EnsureNode, CacheType
<1>5. CacheType'
    <2>1. node' \in BOOLEAN /\ generation' \in Nat /\ (~node' => generation' = 0)
        <3>1. CASE D!FreshStat /\ node
            <4>1. node' = node /\ generation' = generation + 1
                BY <3>1 DEF D!FreshStat
            <4> QED
                BY <1>0, <3>1, <4>1 DEF CacheType
        <3>2. CASE D!FreshStat /\ ~node
            <4>1. node' = TRUE /\ generation' = generation
                BY <3>2 DEF D!FreshStat, D!EnsureNode
            <4> QED
                BY <1>0, <4>1 DEF CacheType
        <3>3. CASE D!Evict
            <4>1. node' = FALSE /\ generation' = 0
                BY <3>3 DEF D!Evict
            <4> QED
                BY <4>1
        <3> QED
            BY <3>1, <3>2, <3>3
    <2> QED
        BY <1>3, <1>4, <2>1 DEF CacheType
<1>6. Agree'
    BY <1>4 DEF Agree, D!Empty
<1>7. ~D!Outruns => Carried' /\ \A l \in Listers : Admitted(l)'
    <2> SUFFICES ASSUME ~D!Outruns PROVE Carried' /\ \A l \in Listers : Admitted(l)'
        OBVIOUS
    <2>1. CASE node /\ D!FreshStat
        <3>1. generation' = generation + 1 /\ node' = node
            BY <2>1 DEF D!FreshStat
        <3>2. Carried'
            BY <1>1, <3>1 DEF DirStory, Carried, Carries
        <3>3. ASSUME NEW l \in Listers PROVE Admitted(l)'
            <4>1. Admitted(l) /\ expected[l] \in Nat /\ generation \in Nat
                BY <1>0 DEF DirStory, TaskType, CacheType
            <4> QED
                BY <1>1, <3>1, <4>1 DEF Admitted
        <3> QED
            BY <3>2, <3>3
    <2>2. CASE ~node
        <3>1. \A l \in Listers : d_pc[l] \notin ListLabels
            BY <2>2, NoNodeNoList
        <3>2. \A t \in D!Actors : d_pc[t] \notin ListLabels
            BY <2>2 DEF DirStory, Carried, Carries
        <3> QED
            BY <1>1, <3>1, <3>2 DEF DirStory, Carried, Carries, Admitted, ListLabels
    <2>3. CASE node /\ D!Evict
        <3>1. \A l \in Listers : d_pc[l] = "idle"
            BY <2>3 DEF D!Outruns, D!Evict
        <3>2. \A t \in D!Actors : d_pc[t] \notin ListLabels
            BY <3>1 DEF DirStory, Carried, Carries, ListLabels
        <3> QED
            BY <1>1, <3>1, <3>2 DEF DirStory, Carried, Carries, Admitted, ListLabels
    <2> QED
        BY <2>1, <2>2, <2>3
<1> QED
    BY <1>2, <1>5, <1>6, <1>7, TypeJoin DEF DirStory

\* Every step of a task, and every loss of cached state, keeps DirInv.
LEMMA DirStep == DirInv /\ [D!Next]_D!vars => DirInv'
<1> SUFFICES ASSUME DirInv, [D!Next]_D!vars PROVE DirInv'
    OBVIOUS
<1>1. CASE UNCHANGED D!vars
    BY <1>1 DEF D!vars, DirInv, D!TypeOK, DirStory, Carried, Carries, Agree, Admitted, Clean, Due
<1>2. CASE D!Next
    <2>1. ~overtaken /\ D!Act /\ overtaken' = D!Outruns /\ D!TypeOK /\ DirStory
        BY <1>2 DEF D!Next, DirInv
    <2>2. overtaken' \in BOOLEAN
        BY <2>1 DEF D!Outruns
    <2>3. D!TypeOK' /\ (~D!Outruns => DirStory')
        BY <2>1, <2>2, LookupStory, MutateStory, ListStory, LossStory DEF D!Act, D!Actors
    <2> QED
        BY <2>1, <2>3 DEF DirInv
<1> QED
    BY <1>1, <1>2

(* For any mutators, lookers and listers of one directory, with fresh stats  *)
(* and evictions: while no mutation is between the store and the cache, the  *)
(* cached children agree with the store, as long as no step has outrun the   *)
(* generation number (add_child, remove_child, load_children_if_fresh).      *)
THEOREM ChildrenAgree == D!Spec => []CacheAgrees
<1>1. DirInv => CacheAgrees
    <2> SUFFICES ASSUME DirInv, D!Quiet, ~overtaken, NEW n \in Names
                 PROVE  /\ children[n] # None => children[n] = dir[n]
                        /\ d_state = "Complete" => children[n] = dir[n]
        BY DEF CacheAgrees, D!CacheAgrees, DirInv
    <2>1. Clean(n)
        BY DEF Clean, Due, D!Quiet
    <2> QED
        BY <2>1 DEF DirInv, DirStory, Agree
<1> QED
    BY <1>1, DirInit, DirStep, PTL DEF D!Spec
=============================================================================
