---------------------------- MODULE SessionLocks -----------------------------
(***************************************************************************)
(* Sessions of the Redis metadata store and the advisory locks they own:   *)
(* POSIX record locks, BSD flocks, the inventory of inodes a session has   *)
(* locks on, heartbeats, expiry and clean-up by other nodes.               *)
(*                                                                         *)
(* A step is one script, transaction or command at Redis.  The bytes of    *)
(* an inode stand for the lists of records (PlockTable shows the lists     *)
(* behave so).  A session's identifier (a UUID) and its fencing epoch are  *)
(* both taken once per start, so one number stands for the two; a lock's   *)
(* field names the session, so the epoch stored in it is that session's.   *)
(***************************************************************************)
EXTENDS Integers, FiniteSets

CONSTANTS
  Nodes,        \* mounted clients
  Owners,       \* lock owners on a node
  Inodes,
  Size,         \* bytes 0 .. Size-1 of an inode
  SessionTtl,   \* lifetime a start or a heartbeat gives a session
  LockTtl,      \* lifetime of CleanupSessionsLock
  MaxSessions,  \* bound: sessions ever started
  MaxClock,     \* bound: last instant
  Horizon,      \* bound: last instant of a start or a heartbeat
  Kinds,        \* bound: the kinds of locks callers ask for
  Asked         \* bound: the modes callers ask for

ASSUME SessionAssumption ==
  /\ Size \in Nat /\ SessionTtl \in Nat \ {0} /\ LockTtl \in Nat \ {0}
  /\ MaxSessions \in Nat /\ MaxClock \in Nat /\ Horizon \in 0 .. MaxClock
  /\ Kinds \subseteq {"plock", "flock"} /\ Asked \subseteq {"R", "W"}

VARIABLES
  clock,       \* wall clock, taken as common to all nodes
  allsessions, \* sorted set of sessions: expiry, 0 when not a member
  locked,      \* locked:<sid>: inodes the session has locks on
  plock,       \* plock[i][s][o][b]: mode of byte b
  flock,       \* flock[i][s][o]: mode of the whole file
  cleanLock,   \* CleanupSessionsLock: what is left of its lifetime
  node,        \* [pc, sid]; life: is the life_cycle task running
  beat,        \* expiry a heartbeat under way will set, 0 when there is none
  reaper,      \* [cutoff, todo] of a cleanup_sessions under way
  waiting,     \* blocking requests that keep polling
  nextSid      \* number of sessions started, plus one

vars == <<clock, allsessions, locked, plock, flock, cleanLock, node, beat, reaper, waiting, nextSid>>

Sids == 1 .. MaxSessions
Bytes == 0 .. Size - 1
Modes == {"R", "W"}
Held == Modes \cup {"U"}
Extents == {e \in (0 .. Size) \X (0 .. Size) : e[1] < e[2]}
BytesOf(e) == {b \in Bytes : e[1] <= b /\ b < e[2]}
NoRequest == [kind |-> "none", mode |-> "U"]
Request == {NoRequest} \cup
           [kind: {"plock"}, inode: Inodes, mode: Modes, ext: Extents] \cup
           [kind: {"flock"}, inode: Inodes, mode: Modes]
Excludes(m, n) == m \in Modes /\ n \in Modes /\ (m = "W" \/ n = "W")

TypeOK ==
  /\ clock \in 0 .. MaxClock
  /\ allsessions \in [Sids -> 0 .. MaxClock + SessionTtl]
  /\ locked \in [Sids -> SUBSET Inodes]
  /\ plock \in [Inodes -> [Sids -> [Owners -> [Bytes -> Held]]]]
  /\ flock \in [Inodes -> [Sids -> [Owners -> Held]]]
  /\ cleanLock \in 0 .. LockTtl
  /\ node \in [Nodes -> [pc: {"down", "up"}, sid: {0} \cup Sids, life: BOOLEAN]]
  /\ beat \in [Nodes -> 0 .. MaxClock + SessionTtl]
  /\ reaper \in [Nodes -> [cutoff: 0 .. MaxClock, todo: SUBSET Sids]]
  /\ waiting \in [Nodes -> [Owners -> Request]]
  /\ nextSid \in 1 .. MaxSessions + 1

Idle == [cutoff |-> 0, todo |-> {}]
NodeDown == [pc |-> "down", sid |-> 0, life |-> FALSE]

Init ==
  /\ clock = 0
  /\ allsessions = [s \in Sids |-> 0]
  /\ locked = [s \in Sids |-> {}]
  /\ plock = [i \in Inodes |-> [s \in Sids |-> [o \in Owners |-> [b \in Bytes |-> "U"]]]]
  /\ flock = [i \in Inodes |-> [s \in Sids |-> [o \in Owners |-> "U"]]]
  /\ cleanLock = 0
  /\ node = [n \in Nodes |-> NodeDown]
  /\ beat = [n \in Nodes |-> 0]
  /\ reaper = [n \in Nodes |-> Idle]
  /\ waiting = [n \in Nodes |-> [o \in Owners |-> NoRequest]]
  /\ nextSid = 1

(* Time passes; MaxClock stands for every later instant too. *)
Tick ==
  /\ clock < MaxClock \/ cleanLock > 0
  /\ clock' = IF clock < MaxClock THEN clock + 1 ELSE clock
  /\ cleanLock' = IF cleanLock > 0 THEN cleanLock - 1 ELSE 0
  /\ UNCHANGED <<allsessions, locked, plock, flock, node, beat, reaper, waiting, nextSid>>

-----------------------------------------------------------------------------
(* Sessions *)

(* Five minutes from now. *)
NewExpiry == clock + SessionTtl

(* start_session: a fresh epoch and identifier, then the session and its   *)
(* description in one transaction; life_cycle is spawned.                  *)
StartSession(n) ==
  /\ node[n].pc = "down" /\ nextSid <= MaxSessions /\ clock <= Horizon
  /\ allsessions' = [allsessions EXCEPT ![nextSid] = NewExpiry]
  /\ node' = [node EXCEPT ![n] = [pc |-> "up", sid |-> nextSid, life |-> TRUE]]
  /\ nextSid' = nextSid + 1
  /\ UNCHANGED <<clock, locked, plock, flock, cleanLock, beat, reaper, waiting>>

(* refresh_session computes the new expiry before it calls Redis. *)
HeartbeatSend(n) ==
  /\ node[n].life /\ beat[n] = 0 /\ clock <= Horizon
  /\ beat' = [beat EXCEPT ![n] = NewExpiry]
  /\ UNCHANGED <<clock, allsessions, locked, plock, flock, cleanLock, node, reaper, waiting, nextSid>>

(* A bug to compare with: the script renews whatever it is given. *)
Renewable(s) == TRUE

(* REFRESH_SESSION_LUA's condition. *)
Registered(s) == allsessions[s] # 0

(* REFRESH_SESSION_LUA, and life_cycle, which ends when the session is gone. *)
HeartbeatApply(n) ==
  LET s == node[n].sid IN
  /\ beat[n] # 0
  /\ beat' = [beat EXCEPT ![n] = 0]
  /\ IF Registered(s)
     THEN allsessions' = [allsessions EXCEPT ![s] = beat[n]] /\ UNCHANGED node
     ELSE node' = [node EXCEPT ![n].life = FALSE] /\ UNCHANGED allsessions
  /\ UNCHANGED <<clock, locked, plock, flock, cleanLock, reaper, waiting, nextSid>>

(* A bug to compare with: the bookkeeping goes, the locks stay. *)
BookkeepingRemoved(s) ==
  /\ locked' = [locked EXCEPT ![s] = {}]
  /\ allsessions' = [allsessions EXCEPT ![s] = 0]
  /\ UNCHANGED <<plock, flock>>

(* CLEANUP_SESSION_LUA once it decided to go ahead: the record locks of    *)
(* every inode in the inventory, then the bookkeeping.                     *)
Removed(s) ==
  /\ plock' = [i \in Inodes |->
       IF i \in locked[s]
       THEN [plock[i] EXCEPT ![s] = [o \in Owners |-> [b \in Bytes |-> "U"]]]
       ELSE plock[i]]
  /\ locked' = [locked EXCEPT ![s] = {}]
  /\ allsessions' = [allsessions EXCEPT ![s] = 0]
  /\ UNCHANGED flock

(* shutdown: the token stops life_cycle, and the session is removed        *)
(* without a cutoff; the process ends.                                     *)
ShutdownSession(n) ==
  /\ node[n].pc = "up"
  /\ Removed(node[n].sid)
  /\ node' = [node EXCEPT ![n] = NodeDown]
  /\ beat' = [beat EXCEPT ![n] = 0]
  /\ reaper' = [reaper EXCEPT ![n] = Idle]
  /\ waiting' = [waiting EXCEPT ![n] = [o \in Owners |-> NoRequest]]
  /\ UNCHANGED <<clock, cleanLock, nextSid>>

(* The process dies; Redis knows nothing of it. *)
Crash(n) ==
  /\ node[n].pc = "up"
  /\ node' = [node EXCEPT ![n] = NodeDown]
  /\ beat' = [beat EXCEPT ![n] = 0]
  /\ reaper' = [reaper EXCEPT ![n] = Idle]
  /\ waiting' = [waiting EXCEPT ![n] = [o \in Owners |-> NoRequest]]
  /\ UNCHANGED <<clock, allsessions, locked, plock, flock, cleanLock, nextSid>>

(* get_global_lock: granted when nobody has it or its time is up. *)
CleanLockFree == cleanLock = 0

(* clean_sessions_circle takes the lock, which it leaves to expire, and    *)
(* cleanup_sessions lists the sessions whose expiry is at most now.        *)
CleanupScan(n) ==
  /\ node[n].pc = "up" /\ reaper[n].todo = {}
  /\ CleanLockFree
  /\ cleanLock' = LockTtl
  /\ reaper' = [reaper EXCEPT ![n] =
       [cutoff |-> clock,
        todo |-> {s \in Sids : allsessions[s] # 0 /\ allsessions[s] <= clock}]]
  /\ UNCHANGED <<clock, allsessions, locked, plock, flock, node, beat, waiting, nextSid>>

(* A bug to compare with: what the scan listed is removed. *)
Listed(s, cutoff) == TRUE

(* CLEANUP_SESSION_LUA's recheck. *)
StillExpired(s, cutoff) == allsessions[s] # 0 /\ allsessions[s] <= cutoff

(* CLEANUP_SESSION_LUA for a session of the scan. *)
CleanupOne(n, s) ==
  /\ s \in reaper[n].todo
  /\ reaper' = [reaper EXCEPT ![n].todo = @ \ {s}]
  /\ IF StillExpired(s, reaper[n].cutoff) THEN Removed(s) ELSE UNCHANGED <<allsessions, locked, plock, flock>>
  /\ UNCHANGED <<clock, cleanLock, node, beat, waiting, nextSid>>

-----------------------------------------------------------------------------
(* Locks *)

(* The scripts' condition for an acquisition. *)
MayAcquire(s) == allsessions[s] # 0

Fields == Sids \X Owners

(* SET_PLOCK_LUA's check_conflict against all other fields. *)
PlockConflict(i, s, o, mode, B) ==
  \E f \in Fields \ {<<s, o>>} : \E b \in B :
     Excludes(mode, plock[i][f[1]][f[2]][b])

(* A bug to compare with: a shared request does not look for a writer. *)
SharedAlwaysGranted(i, s, o, mode) ==
  \E f \in Fields \ {<<s, o>>} : mode = "W" /\ flock[i][f[1]][f[2]] # "U"

(* flock_lua's check against all other fields. *)
FlockConflict(i, s, o, mode) ==
  \E f \in Fields \ {<<s, o>>} : Excludes(mode, flock[i][f[1]][f[2]])

(* A bug to compare with: only the lock kind being released is looked at. *)
OwnsSameKind(pl, fl, s) == \E o \in Owners : \E b \in Bytes : pl[s][o][b] # "U"

(* Does the session own anything else on inode i after a change? *)
OwnsAny(pl, fl, s) ==
  \E o \in Owners : fl[s][o] # "U" \/ \E b \in Bytes : pl[s][o][b] # "U"

(* The grant of a record lock. *)
GrantPlock(s, o, i, mode, e) ==
  /\ plock' = [plock EXCEPT ![i][s][o] =
       [b \in Bytes |-> IF b \in BytesOf(e) THEN mode ELSE @[b]]]
  /\ locked' = [locked EXCEPT ![s] = @ \cup {i}]
  /\ UNCHANGED <<allsessions, flock>>

GrantFlock(s, o, i, mode) ==
  /\ flock' = [flock EXCEPT ![i][s][o] = mode]
  /\ locked' = [locked EXCEPT ![s] = @ \cup {i}]
  /\ UNCHANGED <<allsessions, plock>>

(* One attempt of a request: granted, refused for good, or, when it may    *)
(* block, left waiting for the next attempt.                               *)
Attempt(n, o, r) ==
  LET s == node[n].sid
      conflict == IF r.kind = "plock"
                  THEN PlockConflict(r.inode, s, o, r.mode, BytesOf(r.ext))
                  ELSE FlockConflict(r.inode, s, o, r.mode)
  IN  \/ /\ ~MayAcquire(s)
         /\ waiting' = [waiting EXCEPT ![n][o] = NoRequest]
         /\ UNCHANGED <<allsessions, locked, plock, flock>>
      \/ /\ MayAcquire(s) /\ ~conflict
         /\ waiting' = [waiting EXCEPT ![n][o] = NoRequest]
         /\ IF r.kind = "plock" THEN GrantPlock(s, o, r.inode, r.mode, r.ext)
            ELSE GrantFlock(s, o, r.inode, r.mode)
      \/ /\ MayAcquire(s) /\ conflict
         /\ waiting' = [waiting EXCEPT ![n][o] = r]
         /\ UNCHANGED <<allsessions, locked, plock, flock>>

(* set_plock and set_flock with block: the first attempt.  Without block   *)
(* a refused request changes nothing, and a granted one is granted here.   *)
SetLock(n, o, r) ==
  /\ node[n].pc = "up" /\ waiting[n][o] = NoRequest
  /\ Attempt(n, o, r)
  /\ UNCHANGED <<clock, cleanLock, node, beat, reaper, nextSid>>

(* The loop's next attempt. *)
RetryLock(n, o) ==
  /\ waiting[n][o] # NoRequest
  /\ Attempt(n, o, waiting[n][o])
  /\ UNCHANGED <<clock, cleanLock, node, beat, reaper, nextSid>>

(* The caller of a blocking request gives up: the future is dropped. *)
CancelLock(n, o) ==
  /\ waiting[n][o] # NoRequest
  /\ waiting' = [waiting EXCEPT ![n][o] = NoRequest]
  /\ UNCHANGED <<clock, allsessions, locked, plock, flock, cleanLock, node, beat, reaper, nextSid>>

(* SET_PLOCK_LUA with UnLock: an owner without a field changes nothing.    *)
(* When its last record goes, the inode leaves the inventory unless the    *)
(* session still has a field of either kind on it.                         *)
UnlockPlock(n, o, i, e) ==
  LET s == node[n].sid
      left == [b \in Bytes |-> IF b \in BytesOf(e) THEN "U" ELSE plock[i][s][o][b]]
      after == [plock[i] EXCEPT ![s][o] = left]
  IN  /\ node[n].pc = "up" /\ waiting[n][o] = NoRequest
      /\ \E b \in Bytes : plock[i][s][o][b] # "U"
      /\ plock' = [plock EXCEPT ![i] = after]
      /\ locked' = IF OwnsAny(after, flock[i], s) THEN locked
                   ELSE [locked EXCEPT ![s] = @ \ {i}]
      /\ UNCHANGED <<clock, allsessions, flock, cleanLock, node, beat, reaper,
                     waiting, nextSid>>

(* flock_lua with UnLock. *)
UnlockFlock(n, o, i) ==
  LET s == node[n].sid
      after == [flock[i] EXCEPT ![s][o] = "U"]
  IN  /\ node[n].pc = "up" /\ waiting[n][o] = NoRequest
      /\ flock[i][s][o] # "U"
      /\ flock' = [flock EXCEPT ![i] = after]
      /\ locked' = IF OwnsAny(plock[i], after, s) THEN locked
                   ELSE [locked EXCEPT ![s] = @ \ {i}]
      /\ UNCHANGED <<clock, allsessions, plock, cleanLock, node, beat, reaper,
                     waiting, nextSid>>

-----------------------------------------------------------------------------

Asks == {r \in Request : r.kind \in Kinds /\ r.mode \in Asked}

NodeStep(n) ==
  \/ StartSession(n) \/ HeartbeatSend(n) \/ HeartbeatApply(n)
  \/ ShutdownSession(n) \/ Crash(n)
  \/ CleanupScan(n) \/ \E s \in Sids : CleanupOne(n, s)
  \/ \E o \in Owners :
       \/ \E r \in Asks : SetLock(n, o, r)
       \/ RetryLock(n, o) \/ CancelLock(n, o)
       \/ \E i \in Inodes : \/ \E e \in Extents : UnlockPlock(n, o, i, e)
                            \/ UnlockFlock(n, o, i)

Next == Tick \/ \E n \in Nodes : NodeStep(n)

Spec == Init /\ [][Next]_vars

(* Every node's life_cycle and cleanup circle tick and their scripts       *)
(* return, and the polling loops go on.                                    *)
Upkeep(n) ==
  /\ WF_vars(CleanupScan(n))
  /\ \A s \in Sids : WF_vars(CleanupOne(n, s))
  /\ WF_vars(HeartbeatSend(n)) /\ WF_vars(HeartbeatApply(n))
  /\ \A o \in Owners : WF_vars(RetryLock(n, o))

-----------------------------------------------------------------------------
(* Properties *)

HoldsPlock(s) == \E i \in Inodes, o \in Owners, b \in Bytes : plock[i][s][o][b] # "U"

(* A session that has been removed owns no record lock: clean-up finds     *)
(* them all, and a node that has not noticed acquires none afterwards.     *)
RemovedHoldsNothing == \A s \in Sids : allsessions[s] = 0 => ~HoldsPlock(s)

(* The inventory covers every lock of a registered session, of either      *)
(* kind: an unlock never takes out an inode the session still locks.       *)
InventoryCovers ==
  \A s \in Sids, i \in Inodes :
    allsessions[s] # 0 /\ i \notin locked[s] =>
      \A o \in Owners : flock[i][s][o] = "U" /\ \A b \in Bytes : plock[i][s][o][b] = "U"

(* So the clean-up of a session finds every lock there is to find, and     *)
(* after it there is none: whatever unlocks, late requests of a node that  *)
(* has not noticed, heartbeats and clean-ups come between.                 *)
LocksAccounted == RemovedHoldsNothing /\ InventoryCovers

(* Two sessions or owners never hold one byte, or one file, in modes that  *)
(* exclude each other.                                                     *)
LocksExclude ==
  \A i \in Inodes : \A f, g \in Fields : f # g =>
    /\ ~Excludes(flock[i][f[1]][f[2]], flock[i][g[1]][g[2]])
    /\ \A b \in Bytes : ~Excludes(plock[i][f[1]][f[2]][b], plock[i][g[1]][g[2]][b])

(* A session renewed between the expiry scan and its clean-up survives:    *)
(* what removes it is its own node, or its expiry has passed.              *)
RenewedSurvives ==
  [][\A s \in Sids : allsessions[s] > clock /\ allsessions'[s] = 0 =>
       \E n \in Nodes : node[n].sid = s /\ node'[n].pc = "down"]_vars

(* A late heartbeat does not bring a removed session back. *)
NoResurrection ==
  [][\A s \in Sids : s < nextSid /\ allsessions[s] = 0 => allsessions'[s] = 0]_vars

SomeNodeStaysUp == \E n \in Nodes : <>[](node[n].pc = "up")

(* While some node keeps running, the record locks of a node that died     *)
(* are released.                                                           *)
DeadReleased ==
  SomeNodeStaysUp =>
    \A s \in Sids :
      (s < nextSid /\ (\A n \in Nodes : node[n].sid # s)) ~> ~HoldsPlock(s)
=============================================================================
