---------------------------- MODULE StoreProgress ----------------------------
(***************************************************************************)
(* What the metadata store's background jobs must eventually do, checked   *)
(* for three of them side by side: the block collectors on the slices of a *)
(* chunk (ChunkSlices, once with truncations and once with compactions),   *)
(* the clean-up of dead sessions (SessionLocks), and the collectors of     *)
(* coalesced objects (CoalescedGroups).  They share no state: a behaviour  *)
(* is one of one part, and the others keep their initial values.           *)
(***************************************************************************)
EXTENDS ChunkSlices

CONSTANTS
  Nodes, Owners, Inodes, Size, SessionTtl, LockTtl, MaxSessions, MaxClock,
  Horizon, Kinds, Asked,                         \* SessionLocks'
  Groups, Slots, GroupCollectors,                \* CoalescedGroups'
  MaxStops,                                      \* bound: failed passes
  TruncatedSlices                                \* bound: slices written beside truncations

VARIABLES
  part,        \* the job at work
  stops,       \* passes of collectors that failed or died half-way
  clock, allsessions, locked, plock, flock, cleanLock, node, beat, reaper,
  waiting, nextSid,                                       \* SessionLocks'
  g_ledger, g_uc, g_list, g_version, g_delayed, g_object, g_up, g_wr, g_gc,
  g_strayed                                               \* CoalescedGroups'

L == INSTANCE SessionLocks

G == INSTANCE CoalescedGroups WITH
       Collectors <- GroupCollectors,
       ledger <- g_ledger, uc <- g_uc, list <- g_list, version <- g_version,
       delayed <- g_delayed, object <- g_object, up <- g_up, wr <- g_wr,
       gc <- g_gc, strayed <- g_strayed

lockVars == <<clock, allsessions, locked, plock, flock, cleanLock, node, beat,
              reaper, waiting, nextSid>>
groupVars == <<g_ledger, g_uc, g_list, g_version, g_delayed, g_object, g_up,
               g_wr, g_gc, g_strayed>>
storeVars == <<part, stops, vars, lockVars, groupVars>>

StoreInit ==
  /\ part \in {"truncate", "compact", "locks", "groups"}
  /\ stops = 0
  /\ Init /\ L!Init /\ G!Init

(* The collector's passes of ChunkSlices that do not fail.                 *)
GcTakes(g, s) == GcInspect(g, s) \/ \E d \in delayed : d.sid = s /\ GcPick(g, d)
GcWorks(g) ==
  \/ GcMark(g) \/ GcErase(g, gc[g].sz) \/ GcConfirm(g)
  \/ GcOrphanList(g) \/ GcClaim(g) \/ GcForget(g)
GcStops(g) == GcCrash(g) \/ \E n \in 0 .. gc[g].sz - 1 : GcErase(g, n)

(* A failed pass, of which there are finitely many.                        *)
Stops(A) == stops < MaxStops /\ A /\ stops' = stops + 1

ChunkStep ==
  \/ /\ \/ /\ \E w \in Writers : WriterNext(w)
           /\ part = "truncate" => nextId' <= TruncatedSlices + 1
        \/ part = "truncate" /\ \E t \in Truncaters : TruncaterNext(t)
        \/ part = "compact" /\ (LockExpire \/ \E c \in Compactors : CompactorNext(c))
        \/ \E g \in Collectors : GcWorks(g) \/ \E s \in SliceIds : GcTakes(g, s)
     /\ UNCHANGED stops
  \/ \E g \in Collectors : Stops(GcStops(g))

GroupStep ==
  \/ /\ \/ \E g \in Groups : G!Upload(g)
        \/ \E m \in G!Members : G!Use(m)
        \/ \E c \in GroupCollectors : G!Handle(c) \/ \E m \in G!Members : G!Pick(c, m)
     /\ UNCHANGED stops
  \/ \E c \in GroupCollectors : Stops(G!CollectorStops(c))

StoreNext ==
  \/ part \in {"truncate", "compact"} /\ ChunkStep /\ UNCHANGED <<part, lockVars, groupVars>>
  \/ part = "locks" /\ L!Next /\ UNCHANGED <<part, stops, vars, groupVars>>
  \/ part = "groups" /\ GroupStep /\ UNCHANGED <<part, vars, lockVars>>

(* A collector runs a cycle per interval for as long as its node is up,    *)
(* lists every record again each time and carries on past a record that    *)
(* fails: no record is overlooked for ever, and a pass that does not fail  *)
(* goes on.  Nothing is assumed of writers, truncations, compactions and   *)
(* uploads.  Time passes, and every node keeps up its sessions.  No fair   *)
(* step but the passing of time is enabled in the initial states.          *)
StoreFairness ==
  /\ \A g \in Collectors :
       WF_vars(GcWorks(g)) /\ \A s \in SliceIds : SF_vars(GcTakes(g, s))
  /\ \A c \in GroupCollectors :
       WF_groupVars(G!Handle(c)) /\ \A m \in G!Members : SF_groupVars(G!Pick(c, m))
  /\ WF_lockVars(part = "locks" /\ L!Tick)
  /\ \A n \in Nodes : L!Upkeep(n)

StoreSpec == StoreInit /\ [][StoreNext]_storeVars /\ StoreFairness

-----------------------------------------------------------------------------
(* Properties: DelayedReclaimed and ReservationsSettle of ChunkSlices, and *)

(* While some node keeps running, the record locks of a node that died are *)
(* released (clean_sessions_circle, CLEANUP_SESSION_LUA).                  *)
DeadReleased == L!DeadReleased

(* A group nobody uses any more loses its object and its ledger, though a  *)
(* collector stops between deleting the one and forgetting the other       *)
(* (run_gc_cycle, delete_coalesced_group, forget_coalesced_group).         *)
GroupReclaimed == G!GroupReclaimed
=============================================================================
