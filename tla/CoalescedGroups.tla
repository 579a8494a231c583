-------------------------- MODULE CoalescedGroups --------------------------
(***************************************************************************)
(* Small slices that share one object.  A group is registered (a ledger    *)
(* and one pending reservation per member), its object is put, each member *)
(* is published on its own, and collectors retire the members one by one;  *)
(* the collector that finds them all dead deletes the object and forgets   *)
(* the ledger.  Any of them may stop between two steps, and two collectors *)
(* may work on the same member.                                            *)
(***************************************************************************)
EXTENDS Naturals, FiniteSets

CONSTANTS
    Groups,      \* groups, each with a seed of its own
    Slots,       \* the members of a group
    Collectors   \* block collectors, one per node

VARIABLES
    ledger,   \* write_coalesce/{group}: n, d<slot>, dead, p<slot>; or NoLedger
    uc,       \* the uncommitted record of each member
    list,     \* members in a chunk list
    version,  \* the version of the chunk
    delayed,  \* members with a delayed record
    object,   \* groups whose object exists
    up,       \* the upload of each group
    wr,       \* the publication of each member by its writer
    gc,       \* what each collector is doing
    strayed   \* history: groups whose put took effect when all members were dead
vars == <<ledger, uc, list, version, delayed, object, up, wr, gc, strayed>>

Members == Groups \X Slots
NoLedger == [n |-> 0, d |-> {}, dead |-> 0, p |-> {}]
CollectorIdle == [pc |-> "idle", kind |-> "none", m |-> <<>>, ver |-> 0, found |-> FALSE]

(* The fields of the records and the steps of the actors.                   *)
TypeOK ==
    /\ \A g \in Groups : /\ ledger[g].n \in {0, Cardinality(Slots)}
                         /\ ledger[g].d \subseteq Slots /\ ledger[g].p \subseteq Slots
                         /\ ledger[g].dead = Cardinality(ledger[g].d)
    /\ uc \in [Members -> {"none", "pending", "orphan"}]
    /\ list \subseteq Members /\ delayed \subseteq Members /\ version \in Nat
    /\ object \subseteq Groups /\ strayed \subseteq Groups
    /\ up \in [Groups -> {"idle", "put", "late", "done", "failed"}]
    /\ wr \in [Members -> {"ready", "unsure", "done", "failed"}]
    /\ \A c \in Collectors :
          /\ gc[c].pc \in {"idle", "claim", "retire", "fallback", "delete", "forget", "confirm"}
          /\ gc[c].pc # "idle" => gc[c].m \in Members /\ gc[c].kind \in {"delayed", "orphan"}

Init ==
    /\ ledger = [g \in Groups |-> NoLedger]
    /\ uc = [m \in Members |-> "none"]
    /\ list = {} /\ version = 0 /\ delayed = {} /\ object = {}
    /\ up = [g \in Groups |-> "idle"]
    /\ wr = [m \in Members |-> "ready"]
    /\ gc = [c \in Collectors |-> CollectorIdle]
    /\ strayed = {}
-----------------------------------------------------------------------------
(* upload_group.                                                            *)

(* register_coalesced_group: ledger and reservations in one script.         *)
Register(g) ==
    /\ up[g] = "idle"
    /\ ledger' = [ledger EXCEPT ![g] = [NoLedger EXCEPT !.n = Cardinality(Slots)]]
    /\ uc' = [m \in Members |-> IF m[1] = g THEN "pending" ELSE uc[m]]
    /\ up' = [up EXCEPT ![g] = "put"]
    /\ UNCHANGED <<list, version, delayed, object, wr, gc, strayed>>

(* The object is there.                                                     *)
Arrives(g) ==
    /\ object' = object \cup {g}
    /\ strayed' = IF ledger[g].dead = ledger[g].n THEN strayed \cup {g} ELSE strayed

PutObject(g) ==
    /\ up[g] = "put"
    /\ Arrives(g)
    /\ up' = [up EXCEPT ![g] = "done"]
    /\ UNCHANGED <<ledger, uc, list, version, delayed, wr, gc>>

(* The last attempt fails, or the process dies: every member's write fails. *)
(* The request may still be under way.                                      *)
PutFail(g, pc) ==
    /\ up[g] = "put"
    /\ up' = [up EXCEPT ![g] = pc]
    /\ wr' = [m \in Members |-> IF m[1] = g THEN "failed" ELSE wr[m]]
    /\ UNCHANGED <<ledger, uc, list, version, delayed, object, gc, strayed>>

(* A put that was given up takes effect after all, or is lost.              *)
PutLate(g, arrives) ==
    /\ up[g] = "late"
    /\ IF arrives THEN Arrives(g) ELSE UNCHANGED <<object, strayed>>
    /\ up' = [up EXCEPT ![g] = "failed"]
    /\ UNCHANGED <<ledger, uc, list, version, delayed, wr, gc>>
-----------------------------------------------------------------------------
(* WRITE_SLICE_LUA with a coalesced reservation.                            *)

(* A bug to compare with: the reservation may have been claimed.            *)
LedgerPresent(m) == ledger[m[1]].n # 0

(* The reservation is pending, the ledger there, and the member not dead.   *)
ReservationHeld(m) ==
    /\ uc[m] = "pending"
    /\ ledger[m[1]].n # 0
    /\ m[2] \notin ledger[m[1]].d

(* The script publishes the member once and consumes its reservation; a     *)
(* second call of a writer that lost the answer changes nothing.            *)
Publish(m, answer) ==
    /\ up[m[1]] = "done" /\ wr[m] \in {"ready", "unsure"}
    /\ m[2] \in ledger[m[1]].p \/ ReservationHeld(m)
    /\ IF m[2] \in ledger[m[1]].p
       THEN UNCHANGED <<ledger, uc, list, version, delayed>>
       ELSE /\ ledger' = [ledger EXCEPT ![m[1]].p = @ \cup {m[2]}]
            /\ uc' = [uc EXCEPT ![m] = "none"]
            /\ list' = list \cup {m}
            /\ version' = version + 1
            /\ UNCHANGED delayed
    /\ wr' = [wr EXCEPT ![m] = answer]
    /\ UNCHANGED <<object, up, gc, strayed>>

(* coalesced_reservation_lost; or the inode is gone, and nothing is written; *)
(* or the writer stops.                                                      *)
PublishFails(m) ==
    /\ up[m[1]] = "done" /\ wr[m] \in {"ready", "unsure"}
    /\ wr' = [wr EXCEPT ![m] = "failed"]
    /\ UNCHANGED <<ledger, uc, list, version, delayed, object, up, gc, strayed>>

(* A compaction or a truncation drops the slice from its list and records   *)
(* it as delayed in the same script.                                        *)
Supersede(m) ==
    /\ m \in list
    /\ list' = list \ {m}
    /\ version' = version + 1
    /\ delayed' = delayed \cup {m}
    /\ UNCHANGED <<ledger, uc, object, up, wr, gc, strayed>>
-----------------------------------------------------------------------------
(* BlockStoreGC::run_gc_cycle, one record at a time.                        *)

Goto(c, pc) == gc' = [gc EXCEPT ![c].pc = pc]
Stop(c) == gc' = [gc EXCEPT ![c] = CollectorIdle]
Works(c, pc) == gc[c].pc = pc

PickDelayed(c, m) ==
    /\ Works(c, "idle") /\ m \in delayed
    /\ gc' = [gc EXCEPT ![c] = [@ EXCEPT !.pc = "retire", !.kind = "delayed", !.m = m]]
    /\ UNCHANGED <<ledger, uc, list, version, delayed, object, up, wr, strayed>>

(* An orphan of an earlier cycle, or a pending record old enough: its chunk *)
(* is read first.                                                           *)
PickUncommitted(c, m) ==
    /\ Works(c, "idle") /\ uc[m] # "none"
    /\ gc' = [gc EXCEPT ![c] =
          [CollectorIdle EXCEPT !.pc = IF uc[m] = "orphan" THEN "retire" ELSE "claim",
                                !.kind = "orphan", !.m = m,
                                !.ver = IF uc[m] = "orphan" THEN 0 ELSE version,
                                !.found = uc[m] # "orphan" /\ m \in list]]
    /\ UNCHANGED <<ledger, uc, list, version, delayed, object, up, wr, strayed>>

(* CLAIM_UNCOMMITTED_LUA.                                                   *)
Claim(c) ==
    LET m == gc[c].m
        current == version = gc[c].ver /\ uc[m] = "pending"
    IN /\ Works(c, "claim")
       /\ IF current /\ ~gc[c].found
          THEN /\ uc' = [uc EXCEPT ![m] = "orphan"]
               /\ gc' = [gc EXCEPT ![c].pc = "retire", ![c].ver = 0]
          ELSE /\ uc' = IF current THEN [uc EXCEPT ![m] = "none"] ELSE uc
               /\ Stop(c)
       /\ UNCHANGED <<ledger, list, version, delayed, object, up, wr, strayed>>

(* HSETNX of d<slot>, and HINCRBY of dead when it was not there.            *)
Retired(l, s) == IF s \in l.d THEN l ELSE [l EXCEPT !.d = @ \cup {s}, !.dead = @ + 1]

(* A bug to compare with: only the retirement that completes the group asks *)
(* for the deletion.                                                        *)
CompletedNow(c, l) == l.dead = l.n /\ gc[c].m[2] \notin ledger[gc[c].m[1]].d

(* retire_coalesced_member answers that the whole group is dead.            *)
AllDead(c, l) == l.dead = l.n

(* retire_coalesced_member; a missing ledger sends the caller to            *)
(* delete_range.                                                            *)
Retire(c) ==
    LET g == gc[c].m[1]
        l == Retired(ledger[g], gc[c].m[2])
    IN /\ Works(c, "retire")
       /\ IF ledger[g].n = 0
          THEN Goto(c, "fallback") /\ UNCHANGED ledger
          ELSE /\ ledger' = [ledger EXCEPT ![g] = l]
               /\ Goto(c, IF AllDead(c, l) THEN "delete" ELSE "confirm")
       /\ UNCHANGED <<uc, list, version, delayed, object, up, wr, strayed>>

(* delete_range refuses while the shared object exists.                     *)
DeleteRange(c) ==
    /\ Works(c, "fallback")
    /\ IF gc[c].m[1] \in object THEN Stop(c) ELSE Goto(c, "confirm")
    /\ UNCHANGED <<ledger, uc, list, version, delayed, object, up, wr, strayed>>

(* delete_coalesced_group.                                                  *)
DeleteGroup(c) ==
    /\ Works(c, "delete")
    /\ object' = object \ {gc[c].m[1]}
    /\ Goto(c, "forget")
    /\ UNCHANGED <<ledger, uc, list, version, delayed, up, wr, strayed>>

(* forget_coalesced_group deletes a ledger whose members are all dead.      *)
Forgettable(l) == l.dead = l.n

Forget(c) ==
    LET g == gc[c].m[1]
    IN /\ Works(c, "forget")
       /\ IF Forgettable(ledger[g])
          THEN ledger' = [ledger EXCEPT ![g] = NoLedger] /\ Goto(c, "confirm")
          ELSE Stop(c) /\ UNCHANGED ledger
       /\ UNCHANGED <<uc, list, version, delayed, object, up, wr, strayed>>

(* confirm_delayed_deleted and delete_uncommitted_slices.                   *)
Confirm(c) ==
    LET m == gc[c].m
    IN /\ Works(c, "confirm")
       /\ delayed' = IF gc[c].kind = "delayed" THEN delayed \ {m} ELSE delayed
       /\ uc' = IF gc[c].kind = "orphan" THEN [uc EXCEPT ![m] = "none"] ELSE uc
       /\ Stop(c)
       /\ UNCHANGED <<ledger, list, version, object, up, wr, strayed>>

(* A step fails, or the node dies: the record is found again.               *)
CollectorStops(c) ==
    /\ ~Works(c, "idle")
    /\ Stop(c)
    /\ UNCHANGED <<ledger, uc, list, version, delayed, object, up, wr, strayed>>
-----------------------------------------------------------------------------
Upload(g) ==
    \/ Register(g) \/ PutObject(g)
    \/ \E pc \in {"late", "failed"} : PutFail(g, pc)
    \/ \E arrives \in BOOLEAN : PutLate(g, arrives)

Pick(c, m) == PickDelayed(c, m) \/ PickUncommitted(c, m)

(* What a collector does with the record it has picked.                     *)
Handle(c) ==
    Claim(c) \/ Retire(c) \/ DeleteRange(c) \/ DeleteGroup(c) \/ Forget(c) \/ Confirm(c)

Use(m) ==
    \/ \E answer \in {"done", "unsure"} : Publish(m, answer)
    \/ PublishFails(m) \/ Supersede(m)

Next ==
    \/ \E g \in Groups : Upload(g)
    \/ \E m \in Members : Use(m)
    \/ \E c \in Collectors :
          \/ \E m \in Members : Pick(c, m)
          \/ Handle(c) \/ CollectorStops(c)

Spec == Init /\ [][Next]_vars
-----------------------------------------------------------------------------
(* A published slice that is still in its chunk list has its object: the    *)
(* group outlives its last live member, however often members are retired.  *)
LiveMemberReadable == \A m \in list : m[1] \in object

(* A group nobody will publish from any more and none of whose members is   *)
(* in use loses its object and its ledger, though collectors stop between   *)
(* deleting the one and forgetting the other.  The exception is an object   *)
(* whose put took effect after its last member was retired.                 *)
Unused(g) ==
    /\ up[g] \in {"done", "failed"} /\ g \notin strayed
    /\ \A m \in Members : m[1] = g => m \notin list /\ wr[m] \in {"done", "failed"}
GroupReclaimed ==
    \A g \in Groups : Unused(g) ~> (g \notin object /\ ledger[g].n = 0)
=============================================================================
