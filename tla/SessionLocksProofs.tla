------------------------- MODULE SessionLocksProofs -------------------------
(***************************************************************************)
(* Proofs about SessionLocks for any number of nodes, owners, inodes and   *)
(* sessions, and any lifetimes.                                            *)
(***************************************************************************)
EXTENDS SessionLocks, TLAPS

----------------------------------------------------------------------------
(* The inductive invariant. *)

\* A process that is not running has nothing under way, and a running one
\* has a session that was started.
NodesCoherent ==
  \A n \in Nodes :
    /\ node[n].pc = "up" => node[n].sid \in Sids /\ node[n].sid < nextSid
    /\ node[n].pc = "down" =>
         /\ ~node[n].life /\ beat[n] = 0 /\ reaper[n].todo = {}
         /\ \A o \in Owners : waiting[n][o] = NoRequest

\* A scan looks at a moment that has passed.
ScansPast == \A n \in Nodes : reaper[n].cutoff <= clock

\* An identifier that no start has taken was never registered and owns
\* nothing, so that a new session begins with an inventory that covers it.
FreshOwnsNothing ==
  \A s \in Sids : s >= nextSid =>
    /\ allsessions[s] = 0
    /\ \A i \in Inodes, o \in Owners : flock[i][s][o] = "U"

SessionInv == TypeOK /\ NodesCoherent /\ ScansPast /\ FreshOwnsNothing
IInv == SessionInv /\ LocksAccounted /\ LocksExclude

----------------------------------------------------------------------------
(* Facts about the steps' common parts. *)

PlockType == [Inodes -> [Sids -> [Owners -> [Bytes -> Held]]]]
FlockType == [Inodes -> [Sids -> [Owners -> Held]]]

\* A request other than NoRequest is complete.
LEMMA RequestForms ==
  ASSUME NEW r \in Request, r # NoRequest
  PROVE  /\ r.inode \in Inodes /\ r.mode \in Modes
         /\ r.kind = "plock" => r.ext \in Extents
         /\ r.kind = "plock" \/ r.kind = "flock"
BY DEF Request

\* Callers ask for record locks and flocks only.
LEMMA AsksAreRequests ==
  ASSUME NEW r \in Asks
  PROVE  r \in Request /\ r # NoRequest
BY SessionAssumption DEF Asks, NoRequest

\* Clearing a session: its record locks go, those of others stay.
LEMMA RemovedClears ==
  ASSUME plock \in PlockType, LocksAccounted, NEW s \in Sids, Removed(s)
  PROVE  /\ plock' \in PlockType
         /\ \A i \in Inodes, o \in Owners, b \in Bytes : plock'[i][s][o][b] = "U"
         /\ \A i \in Inodes : \A t \in Sids \ {s} : plock'[i][t] = plock[i][t]
<1> DEFINE Free == [o \in Owners |-> [b \in Bytes |-> "U"]]
<1> DEFINE Table == [Owners -> [Bytes -> Held]]
<1>1. Free \in Table
  BY DEF Held
<1>2. /\ \A o \in Owners, b \in Bytes : Free[o][b] = "U"
      /\ DOMAIN plock' = Inodes
      /\ plock' = [i \in Inodes |-> IF i \in locked[s] THEN [plock[i] EXCEPT ![s] = Free] ELSE plock[i]]
  BY DEF Removed
<1>3. plock \in [Inodes -> [Sids -> Table]]
  BY DEF PlockType
<1>4. \A i \in Inodes : i \notin locked[s] => \A o \in Owners, b \in Bytes : plock[i][s][o][b] = "U"
  BY DEF LocksAccounted, RemovedHoldsNothing, InventoryCovers, HoldsPlock
<1> HIDE DEF Free, Table
<1>5. plock' \in [Inodes -> [Sids -> Table]]
  BY <1>1, <1>2, <1>3
<1>6. \A i \in Inodes : \A t \in Sids \ {s} : plock'[i][t] = plock[i][t]
  BY <1>2, <1>3
<1>7. \A i \in Inodes : plock'[i][s] = IF i \in locked[s] THEN Free ELSE plock[i][s]
  BY <1>2, <1>3
<1>8. \A i \in Inodes, o \in Owners, b \in Bytes : plock'[i][s][o][b] = "U"
  BY <1>2, <1>4, <1>7
<1> QED
  BY <1>5, <1>6, <1>8 DEF PlockType, Table

\* The effect of a removal on the invariants about locks.
LEMMA RemovedKeeps ==
  ASSUME TypeOK, FreshOwnsNothing, LocksAccounted, LocksExclude,
         NEW s \in Sids, Removed(s), nextSid' = nextSid
  PROVE  /\ allsessions' \in [Sids -> 0 .. MaxClock + SessionTtl]
         /\ locked' \in [Sids -> SUBSET Inodes]
         /\ plock' \in PlockType /\ flock' \in FlockType
         /\ FreshOwnsNothing' /\ LocksAccounted' /\ LocksExclude'
<1>0. /\ plock \in PlockType /\ flock \in FlockType
      /\ allsessions \in [Sids -> 0 .. MaxClock + SessionTtl]
      /\ locked \in [Sids -> SUBSET Inodes]
  BY DEF TypeOK, PlockType, FlockType
<1>1. /\ plock' \in PlockType
      /\ \A i \in Inodes, o \in Owners, b \in Bytes : plock'[i][s][o][b] = "U"
      /\ \A i \in Inodes : \A t \in Sids \ {s} : plock'[i][t] = plock[i][t]
  BY <1>0, RemovedClears
<1>2. /\ flock' = flock
      /\ locked' = [locked EXCEPT ![s] = {}]
      /\ allsessions' = [allsessions EXCEPT ![s] = 0]
  BY DEF Removed
<1>3. /\ allsessions' \in [Sids -> 0 .. MaxClock + SessionTtl]
      /\ locked' \in [Sids -> SUBSET Inodes]
  BY <1>0, <1>2, SessionAssumption
<1>4. FreshOwnsNothing'
  BY <1>0, <1>2 DEF FreshOwnsNothing
<1>5. RemovedHoldsNothing'
  BY <1>0, <1>1, <1>2 DEF LocksAccounted, RemovedHoldsNothing, HoldsPlock
<1>6. InventoryCovers'
  BY <1>0, <1>1, <1>2 DEF LocksAccounted, InventoryCovers
<1>7. LocksExclude'
  <2> SUFFICES ASSUME NEW i \in Inodes, NEW f \in Fields, NEW g \in Fields, f # g,
                      NEW b \in Bytes
               PROVE  /\ ~Excludes(flock'[i][f[1]][f[2]], flock'[i][g[1]][g[2]])
                      /\ ~Excludes(plock'[i][f[1]][f[2]][b], plock'[i][g[1]][g[2]][b])
    BY <1>2 DEF LocksExclude
  <2> QED
    BY <1>1, <1>2 DEF LocksExclude, Excludes, Modes, Fields
<1> QED
  BY <1>0, <1>1, <1>2, <1>3, <1>4, <1>5, <1>6, <1>7 DEF LocksAccounted

\* The grant of a record lock that conflicts with nothing, to a registered
\* session.
LEMMA GrantPlockKeeps ==
  ASSUME TypeOK, FreshOwnsNothing, LocksAccounted, LocksExclude,
         NEW s \in Sids, NEW o \in Owners, NEW i \in Inodes, NEW mode \in Modes,
         NEW e \in Extents, MayAcquire(s), ~PlockConflict(i, s, o, mode, BytesOf(e)),
         GrantPlock(s, o, i, mode, e), nextSid' = nextSid
  PROVE  /\ allsessions' \in [Sids -> 0 .. MaxClock + SessionTtl]
         /\ locked' \in [Sids -> SUBSET Inodes]
         /\ plock' \in PlockType /\ flock' \in FlockType
         /\ FreshOwnsNothing' /\ LocksAccounted' /\ LocksExclude'
<1>0. /\ plock \in PlockType /\ flock \in FlockType
      /\ allsessions \in [Sids -> 0 .. MaxClock + SessionTtl]
      /\ locked \in [Sids -> SUBSET Inodes]
  BY DEF TypeOK, PlockType, FlockType
<1> DEFINE new == [b \in Bytes |-> IF b \in BytesOf(e) THEN mode ELSE plock[i][s][o][b]]
<1> DEFINE Map == [Bytes -> Held]
<1>1. /\ plock' = [plock EXCEPT ![i][s][o] = new]
      /\ plock \in [Inodes -> [Sids -> [Owners -> Map]]]
      /\ new \in Map
      /\ \A b \in Bytes : new[b] = IF b \in BytesOf(e) THEN mode ELSE plock[i][s][o][b]
  BY <1>0 DEF GrantPlock, PlockType, Held
<1>2. /\ plock' \in PlockType
      /\ \A j \in Inodes, t \in Sids, p \in Owners, b \in Bytes :
           plock'[j][t][p][b] = IF j = i /\ t = s /\ p = o /\ b \in BytesOf(e)
                                THEN mode ELSE plock[j][t][p][b]
  <2> HIDE DEF new, Map
  <2>1. plock' \in [Inodes -> [Sids -> [Owners -> Map]]]
    BY <1>1
  <2>2. \A j \in Inodes, t \in Sids, p \in Owners :
          plock'[j][t][p] = IF j = i /\ t = s /\ p = o THEN new ELSE plock[j][t][p]
    BY <1>1
  <2> QED
    BY <1>1, <2>1, <2>2 DEF PlockType, Map
<1>3. /\ flock' = flock /\ allsessions' = allsessions
      /\ locked' = [locked EXCEPT ![s] = @ \cup {i}]
      /\ allsessions[s] # 0
  BY DEF GrantPlock, MayAcquire
<1>4. locked' \in [Sids -> SUBSET Inodes]
  BY <1>0, <1>3
<1>5. FreshOwnsNothing'
  BY <1>3 DEF FreshOwnsNothing
<1>6. RemovedHoldsNothing'
  BY <1>0, <1>2, <1>3 DEF LocksAccounted, RemovedHoldsNothing, HoldsPlock
<1>7. InventoryCovers'
  BY <1>0, <1>2, <1>3 DEF LocksAccounted, InventoryCovers
<1>8. LocksExclude'
  <2> SUFFICES ASSUME NEW j \in Inodes, NEW f \in Fields, NEW g \in Fields, f # g
               PROVE  \A b \in Bytes : ~Excludes(plock'[j][f[1]][f[2]][b], plock'[j][g[1]][g[2]][b])
    BY <1>3 DEF LocksExclude
  <2>0. /\ f[1] \in Sids /\ f[2] \in Owners /\ g[1] \in Sids /\ g[2] \in Owners
        /\ f = <<f[1], f[2]>> /\ g = <<g[1], g[2]>>
    BY DEF Fields
  <2> TAKE b \in Bytes
  <2>1. ~Excludes(plock[j][f[1]][f[2]][b], plock[j][g[1]][g[2]][b])
    BY DEF LocksExclude
  <2>2. \A h \in Fields \ {<<s, o>>} : b \in BytesOf(e) => ~Excludes(mode, plock[i][h[1]][h[2]][b])
    BY DEF PlockConflict
  <2>3. CASE j = i /\ b \in BytesOf(e) /\ f = <<s, o>>
    <3>1. plock'[j][f[1]][f[2]][b] = mode /\ plock'[j][g[1]][g[2]][b] = plock[i][g[1]][g[2]][b]
      BY <2>0, <2>3, <1>2
    <3> QED
      BY <2>2, <2>3, <3>1
  <2>4. CASE j = i /\ b \in BytesOf(e) /\ g = <<s, o>>
    <3>1. plock'[j][g[1]][g[2]][b] = mode /\ plock'[j][f[1]][f[2]][b] = plock[i][f[1]][f[2]][b]
      BY <2>0, <2>4, <1>2
    <3> QED
      BY <2>2, <2>4, <3>1 DEF Excludes
  <2>5. CASE ~(j = i /\ b \in BytesOf(e) /\ (f = <<s, o>> \/ g = <<s, o>>))
    <3>1. /\ plock'[j][f[1]][f[2]][b] = plock[j][f[1]][f[2]][b]
          /\ plock'[j][g[1]][g[2]][b] = plock[j][g[1]][g[2]][b]
      BY <2>0, <2>5, <1>2
    <3> QED
      BY <2>1, <3>1
  <2> QED
    BY <2>3, <2>4, <2>5
<1> QED
  BY <1>0, <1>2, <1>3, <1>4, <1>5, <1>6, <1>7, <1>8 DEF LocksAccounted

\* The grant of a flock that conflicts with nothing, to a registered session.
LEMMA GrantFlockKeeps ==
  ASSUME TypeOK, FreshOwnsNothing, LocksAccounted, LocksExclude,
         NEW s \in Sids, s < nextSid, NEW o \in Owners, NEW i \in Inodes, NEW mode \in Modes,
         MayAcquire(s), ~FlockConflict(i, s, o, mode),
         GrantFlock(s, o, i, mode), nextSid' = nextSid
  PROVE  /\ allsessions' \in [Sids -> 0 .. MaxClock + SessionTtl]
         /\ locked' \in [Sids -> SUBSET Inodes]
         /\ plock' \in PlockType /\ flock' \in FlockType
         /\ FreshOwnsNothing' /\ LocksAccounted' /\ LocksExclude'
<1>0. /\ plock \in PlockType /\ flock \in FlockType /\ nextSid \in Nat
      /\ allsessions \in [Sids -> 0 .. MaxClock + SessionTtl]
      /\ locked \in [Sids -> SUBSET Inodes]
  BY DEF TypeOK, PlockType, FlockType
<1>2. /\ flock' \in FlockType
      /\ \A j \in Inodes, t \in Sids, p \in Owners :
           flock'[j][t][p] = IF j = i /\ t = s /\ p = o THEN mode ELSE flock[j][t][p]
  <2>1. mode \in Held
    BY DEF Held
  <2> QED
    BY <1>0, <2>1 DEF GrantFlock, FlockType
<1>3. /\ plock' = plock /\ allsessions' = allsessions
      /\ locked' = [locked EXCEPT ![s] = @ \cup {i}]
      /\ allsessions[s] # 0
  BY DEF GrantFlock, MayAcquire
<1>4. locked' \in [Sids -> SUBSET Inodes]
  BY <1>0, <1>3
<1>5. FreshOwnsNothing'
  BY <1>0, <1>2, <1>3 DEF FreshOwnsNothing, Sids
<1>6. RemovedHoldsNothing'
  BY <1>3 DEF LocksAccounted, RemovedHoldsNothing, HoldsPlock
<1>7. InventoryCovers'
  BY <1>0, <1>2, <1>3 DEF LocksAccounted, InventoryCovers
<1>8. LocksExclude'
  <2> SUFFICES ASSUME NEW j \in Inodes, NEW f \in Fields, NEW g \in Fields, f # g
               PROVE  ~Excludes(flock'[j][f[1]][f[2]], flock'[j][g[1]][g[2]])
    BY <1>3 DEF LocksExclude
  <2>0. /\ f[1] \in Sids /\ f[2] \in Owners /\ g[1] \in Sids /\ g[2] \in Owners
        /\ f = <<f[1], f[2]>> /\ g = <<g[1], g[2]>>
    BY DEF Fields
  <2>1. ~Excludes(flock[j][f[1]][f[2]], flock[j][g[1]][g[2]])
    BY DEF LocksExclude
  <2>2. \A h \in Fields \ {<<s, o>>} : ~Excludes(mode, flock[i][h[1]][h[2]])
    BY DEF FlockConflict
  <2>3. CASE j = i /\ f = <<s, o>>
    <3>1. flock'[j][f[1]][f[2]] = mode /\ flock'[j][g[1]][g[2]] = flock[i][g[1]][g[2]]
      BY <2>0, <2>3, <1>2
    <3> QED
      BY <2>2, <2>3, <3>1
  <2>4. CASE j = i /\ g = <<s, o>>
    <3>1. flock'[j][g[1]][g[2]] = mode /\ flock'[j][f[1]][f[2]] = flock[i][f[1]][f[2]]
      BY <2>0, <2>4, <1>2
    <3> QED
      BY <2>2, <2>4, <3>1 DEF Excludes
  <2>5. CASE ~(j = i /\ (f = <<s, o>> \/ g = <<s, o>>))
    <3>1. /\ flock'[j][f[1]][f[2]] = flock[j][f[1]][f[2]]
          /\ flock'[j][g[1]][g[2]] = flock[j][g[1]][g[2]]
      BY <2>0, <2>5, <1>2
    <3> QED
      BY <2>1, <3>1
  <2> QED
    BY <2>3, <2>4, <2>5
<1> QED
  BY <1>0, <1>2, <1>3, <1>4, <1>5, <1>6, <1>7, <1>8 DEF LocksAccounted

\* Releasing bytes of a record lock.
LEMMA UnlockPlockKeeps ==
  ASSUME TypeOK, FreshOwnsNothing, LocksAccounted, LocksExclude,
         NEW n \in Nodes, NEW o \in Owners, NEW i \in Inodes, NEW e \in Extents,
         node[n].sid \in Sids, UnlockPlock(n, o, i, e)
  PROVE  /\ locked' \in [Sids -> SUBSET Inodes]
         /\ plock' \in PlockType
         /\ FreshOwnsNothing' /\ LocksAccounted' /\ LocksExclude'
<1> DEFINE s == node[n].sid
<1>0. /\ plock \in PlockType /\ flock \in FlockType
      /\ allsessions \in [Sids -> 0 .. MaxClock + SessionTtl]
      /\ locked \in [Sids -> SUBSET Inodes]
      /\ s \in Sids
  BY DEF TypeOK, PlockType, FlockType
<1> DEFINE left == [b \in Bytes |-> IF b \in BytesOf(e) THEN "U" ELSE plock[i][s][o][b]]
<1> DEFINE after == [plock[i] EXCEPT ![s][o] = left]
<1> DEFINE Map == [Bytes -> Held]
<1>1. /\ plock' = [plock EXCEPT ![i] = after]
      /\ plock \in [Inodes -> [Sids -> [Owners -> Map]]]
      /\ left \in Map
      /\ \A b \in Bytes : left[b] = IF b \in BytesOf(e) THEN "U" ELSE plock[i][s][o][b]
      /\ locked' = IF OwnsAny(after, flock[i], s) THEN locked
                   ELSE [locked EXCEPT ![s] = @ \ {i}]
      /\ flock' = flock /\ allsessions' = allsessions /\ nextSid' = nextSid
  BY <1>0 DEF UnlockPlock, PlockType, Held
<1>2. /\ plock' \in [Inodes -> [Sids -> [Owners -> Map]]]
      /\ \A j \in Inodes, t \in Sids, p \in Owners :
           plock'[j][t][p] = IF j = i /\ t = s /\ p = o THEN left ELSE plock[j][t][p]
      /\ after = plock'[i]
  <2> HIDE DEF left, Map, s
  <2> QED
    BY <1>0, <1>1
<1> HIDE DEF after
<1>3. /\ plock' \in PlockType
      /\ \A j \in Inodes, t \in Sids, p \in Owners, b \in Bytes :
           plock'[j][t][p][b] = IF j = i /\ t = s /\ p = o /\ b \in BytesOf(e)
                                THEN "U" ELSE plock[j][t][p][b]
  <2> HIDE DEF left, Map, s
  <2> QED
    BY <1>1, <1>2 DEF PlockType, Map
<1> HIDE DEF left, Map, s
<1>4. locked' \in [Sids -> SUBSET Inodes]
  BY <1>0, <1>1
<1>5. FreshOwnsNothing'
  BY <1>1 DEF FreshOwnsNothing
<1>6. RemovedHoldsNothing'
  BY <1>1, <1>3 DEF LocksAccounted, RemovedHoldsNothing, HoldsPlock
<1>7. InventoryCovers'
  <2> SUFFICES ASSUME NEW t \in Sids, NEW j \in Inodes, allsessions[t] # 0, j \notin locked'[t],
                      NEW p \in Owners
               PROVE  /\ flock[j][t][p] = "U"
                      /\ \A b \in Bytes : plock'[j][t][p][b] = "U"
    BY <1>1 DEF InventoryCovers
  <2>1. CASE j \notin locked[t]
    BY <2>1, <1>3 DEF LocksAccounted, InventoryCovers
  <2>2. CASE j \in locked[t]
    <3>1. t = s /\ j = i /\ ~OwnsAny(after, flock[i], s)
      BY <2>2, <1>0, <1>1
    <3> QED
      BY <3>1, <1>2 DEF OwnsAny
  <2> QED
    BY <2>1, <2>2
<1>8. LocksExclude'
  <2> SUFFICES ASSUME NEW j \in Inodes, NEW f \in Fields, NEW g \in Fields, f # g
               PROVE  \A b \in Bytes : ~Excludes(plock'[j][f[1]][f[2]][b], plock'[j][g[1]][g[2]][b])
    BY <1>1 DEF LocksExclude
  <2>0. /\ f[1] \in Sids /\ f[2] \in Owners /\ g[1] \in Sids /\ g[2] \in Owners
    BY DEF Fields
  <2> TAKE b \in Bytes
  <2>1. ~Excludes(plock[j][f[1]][f[2]][b], plock[j][g[1]][g[2]][b])
    BY DEF LocksExclude
  <2>2. ASSUME NEW t \in Sids, NEW p \in Owners
        PROVE  plock'[j][t][p][b] = "U" \/ plock'[j][t][p][b] = plock[j][t][p][b]
    BY <1>3
  <2>3. plock'[j][f[1]][f[2]][b] = "U" \/ plock'[j][f[1]][f[2]][b] = plock[j][f[1]][f[2]][b]
    BY <2>0, <2>2
  <2>4. plock'[j][g[1]][g[2]][b] = "U" \/ plock'[j][g[1]][g[2]][b] = plock[j][g[1]][g[2]][b]
    BY <2>0, <2>2
  <2> QED
    BY <2>1, <2>3, <2>4 DEF Excludes, Modes
<1> QED
  BY <1>3, <1>4, <1>5, <1>6, <1>7, <1>8 DEF LocksAccounted

\* Releasing a flock.
LEMMA UnlockFlockKeeps ==
  ASSUME TypeOK, FreshOwnsNothing, LocksAccounted, LocksExclude,
         NEW n \in Nodes, NEW o \in Owners, NEW i \in Inodes,
         node[n].sid \in Sids, UnlockFlock(n, o, i)
  PROVE  /\ locked' \in [Sids -> SUBSET Inodes]
         /\ flock' \in FlockType
         /\ FreshOwnsNothing' /\ LocksAccounted' /\ LocksExclude'
<1> DEFINE s == node[n].sid
<1>0. /\ plock \in PlockType /\ flock \in FlockType
      /\ allsessions \in [Sids -> 0 .. MaxClock + SessionTtl]
      /\ locked \in [Sids -> SUBSET Inodes]
      /\ s \in Sids
  BY DEF TypeOK, PlockType, FlockType
<1> DEFINE after == [flock[i] EXCEPT ![s][o] = "U"]
<1>1. /\ flock' = [flock EXCEPT ![i] = after]
      /\ locked' = IF OwnsAny(plock[i], after, s) THEN locked
                   ELSE [locked EXCEPT ![s] = @ \ {i}]
      /\ plock' = plock /\ allsessions' = allsessions /\ nextSid' = nextSid
  BY <1>0 DEF UnlockFlock
<1> HIDE DEF s
<1>2. "U" \in Held
  BY DEF Held
<1>3. /\ flock' \in FlockType
      /\ \A j \in Inodes, t \in Sids, p \in Owners :
           flock'[j][t][p] = IF j = i /\ t = s /\ p = o THEN "U" ELSE flock[j][t][p]
      /\ after = flock'[i]
  BY <1>0, <1>1, <1>2 DEF FlockType
<1> HIDE DEF after
<1>4. locked' \in [Sids -> SUBSET Inodes]
  BY <1>0, <1>1
<1>5. FreshOwnsNothing'
  BY <1>1, <1>3 DEF FreshOwnsNothing
<1>6. RemovedHoldsNothing'
  BY <1>1 DEF LocksAccounted, RemovedHoldsNothing, HoldsPlock
<1>7. InventoryCovers'
  <2> SUFFICES ASSUME NEW t \in Sids, NEW j \in Inodes, allsessions[t] # 0, j \notin locked'[t],
                      NEW p \in Owners
               PROVE  /\ flock'[j][t][p] = "U"
                      /\ \A b \in Bytes : plock[j][t][p][b] = "U"
    BY <1>1 DEF InventoryCovers
  <2>1. CASE j \notin locked[t]
    BY <2>1, <1>3 DEF LocksAccounted, InventoryCovers
  <2>2. CASE j \in locked[t]
    <3>1. t = s /\ j = i /\ ~OwnsAny(plock[i], after, s)
      BY <2>2, <1>0, <1>1
    <3> QED
      BY <3>1, <1>3 DEF OwnsAny
  <2> QED
    BY <2>1, <2>2
<1>8. LocksExclude'
  <2> SUFFICES ASSUME NEW j \in Inodes, NEW f \in Fields, NEW g \in Fields, f # g
               PROVE  ~Excludes(flock'[j][f[1]][f[2]], flock'[j][g[1]][g[2]])
    BY <1>1 DEF LocksExclude
  <2>0. /\ f[1] \in Sids /\ f[2] \in Owners /\ g[1] \in Sids /\ g[2] \in Owners
    BY DEF Fields
  <2>1. ~Excludes(flock[j][f[1]][f[2]], flock[j][g[1]][g[2]])
    BY DEF LocksExclude
  <2>2. /\ flock'[j][f[1]][f[2]] \in {"U", flock[j][f[1]][f[2]]}
        /\ flock'[j][g[1]][g[2]] \in {"U", flock[j][g[1]][g[2]]}
    BY <2>0, <1>3
  <2> QED
    BY <2>1, <2>2 DEF Excludes, Modes
<1> QED
  BY <1>3, <1>4, <1>5, <1>6, <1>7, <1>8 DEF LocksAccounted

\* An attempt of a running node for a complete request.
LEMMA AttemptKeeps ==
  ASSUME SessionInv, LocksAccounted, LocksExclude,
         NEW n \in Nodes, NEW o \in Owners, NEW r \in Request, r # NoRequest,
         node[n].pc = "up", Attempt(n, o, r), nextSid' = nextSid
  PROVE  /\ allsessions' \in [Sids -> 0 .. MaxClock + SessionTtl]
         /\ locked' \in [Sids -> SUBSET Inodes]
         /\ plock' \in PlockType /\ flock' \in FlockType
         /\ waiting' \in [Nodes -> [Owners -> Request]]
         /\ \A m \in Nodes \ {n} : waiting'[m] = waiting[m]
         /\ FreshOwnsNothing' /\ LocksAccounted' /\ LocksExclude'
<1> DEFINE s == node[n].sid
<1>0. /\ TypeOK /\ FreshOwnsNothing /\ s \in Sids /\ s < nextSid
      /\ NoRequest \in Request
      /\ waiting \in [Nodes -> [Owners -> Request]]
  BY DEF SessionInv, NodesCoherent, TypeOK, Request
<1>1. /\ r.inode \in Inodes /\ r.mode \in Modes
      /\ r.kind = "plock" => r.ext \in Extents
      /\ r.kind = "plock" \/ r.kind = "flock"
  BY RequestForms
<1>2. /\ waiting' \in [Nodes -> [Owners -> Request]]
      /\ \A m \in Nodes \ {n} : waiting'[m] = waiting[m]
  BY <1>0 DEF Attempt
<1>3. CASE MayAcquire(s) /\ r.kind = "plock" /\ GrantPlock(s, o, r.inode, r.mode, r.ext)
           /\ ~PlockConflict(r.inode, s, o, r.mode, BytesOf(r.ext))
  BY <1>0, <1>1, <1>2, <1>3, GrantPlockKeeps
<1>4. CASE MayAcquire(s) /\ r.kind = "flock" /\ GrantFlock(s, o, r.inode, r.mode)
           /\ ~FlockConflict(r.inode, s, o, r.mode)
  BY <1>0, <1>1, <1>2, <1>4, GrantFlockKeeps
<1>5. CASE UNCHANGED <<allsessions, locked, plock, flock>>
  <2>1. /\ plock' \in PlockType /\ flock' \in FlockType
        /\ allsessions' \in [Sids -> 0 .. MaxClock + SessionTtl]
        /\ locked' \in [Sids -> SUBSET Inodes]
    BY <1>0, <1>5 DEF TypeOK, PlockType, FlockType
  <2>2. FreshOwnsNothing' /\ LocksAccounted' /\ LocksExclude'
    BY <1>0, <1>5 DEF FreshOwnsNothing, LocksAccounted, LocksExclude, RemovedHoldsNothing,
         InventoryCovers, HoldsPlock
  <2> QED
    BY <1>2, <2>1, <2>2
<1> QED
  BY <1>1, <1>3, <1>4, <1>5 DEF Attempt

----------------------------------------------------------------------------
(* The invariant is inductive. *)

LEMMA InitIInv == Init => IInv
<1> SUFFICES ASSUME Init PROVE IInv
  OBVIOUS
<1>1. TypeOK
  BY SessionAssumption DEF Init, TypeOK, Held, NodeDown, Idle, Request, Sids
<1>2. NodesCoherent /\ ScansPast /\ FreshOwnsNothing
  BY SessionAssumption DEF Init, NodesCoherent, ScansPast, FreshOwnsNothing, NodeDown, Idle
<1>3. LocksAccounted
  BY DEF Init, LocksAccounted, RemovedHoldsNothing, InventoryCovers, HoldsPlock
<1>4. LocksExclude
  BY DEF Init, LocksExclude, Excludes, Modes, Fields
<1> QED
  BY <1>1, <1>2, <1>3, <1>4 DEF IInv, SessionInv

\* A step that leaves the locks and the register alone keeps what is said
\* about them.
LEMMA LocksUntouched ==
  ASSUME IInv, UNCHANGED <<allsessions, locked, plock, flock, nextSid>>
  PROVE  FreshOwnsNothing' /\ LocksAccounted' /\ LocksExclude'
BY DEF IInv, SessionInv, FreshOwnsNothing, LocksAccounted, LocksExclude, RemovedHoldsNothing,
       InventoryCovers, HoldsPlock

\* A process that ends leaves nothing under way.
LEMMA Ended ==
  ASSUME IInv, NEW n \in Nodes,
         node' = [node EXCEPT ![n] = NodeDown],
         beat' = [beat EXCEPT ![n] = 0],
         reaper' = [reaper EXCEPT ![n] = Idle],
         waiting' = [waiting EXCEPT ![n] = [o \in Owners |-> NoRequest]],
         UNCHANGED <<clock, cleanLock, nextSid>>
  PROVE  /\ node' \in [Nodes -> [pc: {"down", "up"}, sid: {0} \cup Sids, life: BOOLEAN]]
         /\ beat' \in [Nodes -> 0 .. MaxClock + SessionTtl]
         /\ reaper' \in [Nodes -> [cutoff: 0 .. MaxClock, todo: SUBSET Sids]]
         /\ waiting' \in [Nodes -> [Owners -> Request]]
         /\ NodesCoherent' /\ ScansPast'
<1> USE SessionAssumption DEF IInv, SessionInv, TypeOK
<1>1. /\ node' \in [Nodes -> [pc: {"down", "up"}, sid: {0} \cup Sids, life: BOOLEAN]]
      /\ beat' \in [Nodes -> 0 .. MaxClock + SessionTtl]
      /\ reaper' \in [Nodes -> [cutoff: 0 .. MaxClock, todo: SUBSET Sids]]
  BY DEF NodeDown, Idle
<1>2. waiting' \in [Nodes -> [Owners -> Request]]
  BY DEF Request
<1>3. NodesCoherent'
  BY DEF NodesCoherent, NodeDown, Idle
<1>4. ScansPast'
  BY DEF ScansPast, Idle
<1> QED
  BY <1>1, <1>2, <1>3, <1>4

LEMMA TickKeeps == IInv /\ Tick => IInv'
<1> SUFFICES ASSUME IInv, Tick PROVE IInv'
  OBVIOUS
<1>1. TypeOK'
  BY SessionAssumption DEF IInv, SessionInv, TypeOK, Tick
<1>2. NodesCoherent' /\ ScansPast'
  BY DEF IInv, SessionInv, TypeOK, NodesCoherent, ScansPast, Tick
<1>3. FreshOwnsNothing' /\ LocksAccounted' /\ LocksExclude'
  BY LocksUntouched DEF Tick
<1> QED
  BY <1>1, <1>2, <1>3 DEF IInv, SessionInv

LEMMA StartKeeps ==
  ASSUME IInv, NEW n \in Nodes, StartSession(n)
  PROVE  IInv'
<1> USE SessionAssumption DEF IInv, SessionInv
<1>0. /\ nextSid \in Sids /\ clock \in 0 .. MaxClock /\ nextSid' = nextSid + 1
      /\ NewExpiry \in 1 .. MaxClock + SessionTtl
      /\ allsessions' = [allsessions EXCEPT ![nextSid] = NewExpiry]
      /\ allsessions \in [Sids -> 0 .. MaxClock + SessionTtl]
      /\ UNCHANGED <<locked, plock, flock>>
      /\ node[n].pc = "down"
  BY DEF TypeOK, StartSession, Sids, NewExpiry
<1>1. TypeOK'
  <2>1. allsessions' \in [Sids -> 0 .. MaxClock + SessionTtl] /\ nextSid' \in 1 .. MaxSessions + 1
    BY <1>0 DEF Sids
  <2>2. node' \in [Nodes -> [pc: {"down", "up"}, sid: {0} \cup Sids, life: BOOLEAN]]
    BY <1>0 DEF StartSession, TypeOK
  <2> QED
    BY <2>1, <2>2 DEF StartSession, TypeOK
<1>2. NodesCoherent' /\ ScansPast'
  BY <1>0 DEF TypeOK, NodesCoherent, ScansPast, StartSession, Sids
<1>3. FreshOwnsNothing'
  BY <1>0 DEF FreshOwnsNothing, Sids
<1>4. RemovedHoldsNothing'
  BY <1>0 DEF LocksAccounted, RemovedHoldsNothing, HoldsPlock
<1>5. InventoryCovers'
  BY <1>0 DEF LocksAccounted, InventoryCovers, RemovedHoldsNothing, HoldsPlock, FreshOwnsNothing, Sids
<1>6. LocksExclude'
  BY <1>0 DEF LocksExclude
<1> QED
  BY <1>1, <1>2, <1>3, <1>4, <1>5, <1>6 DEF LocksAccounted

LEMMA HeartbeatSendKeeps ==
  ASSUME IInv, NEW n \in Nodes, HeartbeatSend(n)
  PROVE  IInv'
<1>1. TypeOK'
  BY SessionAssumption DEF IInv, SessionInv, TypeOK, HeartbeatSend, NewExpiry
<1>2. NodesCoherent' /\ ScansPast'
  BY DEF IInv, SessionInv, TypeOK, NodesCoherent, ScansPast, HeartbeatSend
<1>3. FreshOwnsNothing' /\ LocksAccounted' /\ LocksExclude'
  BY LocksUntouched DEF HeartbeatSend
<1> QED
  BY <1>1, <1>2, <1>3 DEF IInv, SessionInv

LEMMA HeartbeatApplyKeeps ==
  ASSUME IInv, NEW n \in Nodes, HeartbeatApply(n)
  PROVE  IInv'
<1> DEFINE s == node[n].sid
<1> USE SessionAssumption DEF IInv, SessionInv
<1>0. s \in Sids /\ s < nextSid /\ beat[n] # 0 /\ beat[n] \in 0 .. MaxClock + SessionTtl
  BY DEF TypeOK, NodesCoherent, HeartbeatApply
<1>1. CASE ~Registered(s)
  <2>1. /\ node' = [node EXCEPT ![n].life = FALSE]
        /\ beat' = [beat EXCEPT ![n] = 0]
        /\ UNCHANGED <<clock, allsessions, locked, plock, flock, cleanLock, reaper, waiting, nextSid>>
    BY <1>1 DEF HeartbeatApply
  <2>2. TypeOK'
    <3>1. node \in [Nodes -> [pc: {"down", "up"}, sid: {0} \cup Sids, life: BOOLEAN]]
      BY DEF TypeOK
    <3>2. node' \in [Nodes -> [pc: {"down", "up"}, sid: {0} \cup Sids, life: BOOLEAN]]
      BY <2>1, <3>1
    <3> QED
      BY <2>1, <3>2 DEF TypeOK
  <2>3. NodesCoherent' /\ ScansPast'
    BY <2>1 DEF TypeOK, NodesCoherent, ScansPast
  <2> QED
    BY <2>1, <2>2, <2>3, LocksUntouched
<1>2. CASE Registered(s)
  <2>1. /\ allsessions' = [allsessions EXCEPT ![s] = beat[n]]
        /\ beat' = [beat EXCEPT ![n] = 0]
        /\ allsessions \in [Sids -> 0 .. MaxClock + SessionTtl]
        /\ allsessions[s] # 0 /\ nextSid \in Nat
        /\ UNCHANGED <<clock, locked, plock, flock, cleanLock, node, reaper, waiting, nextSid>>
    BY <1>2 DEF HeartbeatApply, Registered, TypeOK
  <2>5. TypeOK'
    BY <1>0, <2>1 DEF TypeOK
  <2>6. NodesCoherent' /\ ScansPast'
    BY <2>1 DEF TypeOK, NodesCoherent, ScansPast
  <2>2. FreshOwnsNothing'
    BY <1>0, <2>1 DEF FreshOwnsNothing, Sids
  <2>3. LocksAccounted'
    BY <1>0, <2>1 DEF LocksAccounted, RemovedHoldsNothing, InventoryCovers, HoldsPlock
  <2>4. LocksExclude'
    BY <2>1 DEF LocksExclude
  <2> QED
    BY <2>2, <2>3, <2>4, <2>5, <2>6
<1> QED
  BY <1>1, <1>2

LEMMA ShutdownKeeps ==
  ASSUME IInv, NEW n \in Nodes, ShutdownSession(n)
  PROVE  IInv'
<1>1. node[n].sid \in Sids /\ Removed(node[n].sid) /\ nextSid' = nextSid
  BY DEF IInv, SessionInv, NodesCoherent, ShutdownSession
<1>2. /\ allsessions' \in [Sids -> 0 .. MaxClock + SessionTtl]
      /\ locked' \in [Sids -> SUBSET Inodes]
      /\ plock' \in PlockType /\ flock' \in FlockType
      /\ FreshOwnsNothing' /\ LocksAccounted' /\ LocksExclude'
  BY <1>1, RemovedKeeps DEF IInv, SessionInv
<1>3. /\ node' \in [Nodes -> [pc: {"down", "up"}, sid: {0} \cup Sids, life: BOOLEAN]]
      /\ beat' \in [Nodes -> 0 .. MaxClock + SessionTtl]
      /\ reaper' \in [Nodes -> [cutoff: 0 .. MaxClock, todo: SUBSET Sids]]
      /\ waiting' \in [Nodes -> [Owners -> Request]]
      /\ NodesCoherent' /\ ScansPast'
  BY Ended DEF ShutdownSession
<1>4. TypeOK'
  BY <1>2, <1>3 DEF IInv, SessionInv, TypeOK, ShutdownSession, PlockType, FlockType
<1> QED
  BY <1>2, <1>3, <1>4 DEF IInv, SessionInv

LEMMA CrashKeeps ==
  ASSUME IInv, NEW n \in Nodes, Crash(n)
  PROVE  IInv'
<1>1. /\ node' \in [Nodes -> [pc: {"down", "up"}, sid: {0} \cup Sids, life: BOOLEAN]]
      /\ beat' \in [Nodes -> 0 .. MaxClock + SessionTtl]
      /\ reaper' \in [Nodes -> [cutoff: 0 .. MaxClock, todo: SUBSET Sids]]
      /\ waiting' \in [Nodes -> [Owners -> Request]]
      /\ NodesCoherent' /\ ScansPast'
  BY Ended DEF Crash
<1>2. TypeOK'
  BY <1>1 DEF IInv, SessionInv, TypeOK, Crash
<1>3. FreshOwnsNothing' /\ LocksAccounted' /\ LocksExclude'
  BY LocksUntouched DEF Crash
<1> QED
  BY <1>1, <1>2, <1>3 DEF IInv, SessionInv

LEMMA CleanupScanKeeps ==
  ASSUME IInv, NEW n \in Nodes, CleanupScan(n)
  PROVE  IInv'
<1>1. TypeOK'
  BY SessionAssumption DEF IInv, SessionInv, TypeOK, CleanupScan
<1>2. NodesCoherent' /\ ScansPast'
  BY DEF IInv, SessionInv, TypeOK, NodesCoherent, ScansPast, CleanupScan
<1>3. FreshOwnsNothing' /\ LocksAccounted' /\ LocksExclude'
  BY LocksUntouched DEF CleanupScan
<1> QED
  BY <1>1, <1>2, <1>3 DEF IInv, SessionInv

LEMMA CleanupOneKeeps ==
  ASSUME IInv, NEW n \in Nodes, NEW s \in Sids, CleanupOne(n, s)
  PROVE  IInv'
<1>1. /\ reaper' \in [Nodes -> [cutoff: 0 .. MaxClock, todo: SUBSET Sids]]
      /\ NodesCoherent' /\ ScansPast'
  <2>1. /\ reaper' \in [Nodes -> [cutoff: 0 .. MaxClock, todo: SUBSET Sids]]
        /\ \A k \in Nodes : /\ reaper'[k].cutoff = reaper[k].cutoff
                             /\ reaper'[k].todo \subseteq reaper[k].todo
    <3>1. /\ reaper \in [Nodes -> [cutoff: 0 .. MaxClock, todo: SUBSET Sids]]
          /\ reaper' = [reaper EXCEPT ![n].todo = @ \ {s}]
      BY DEF IInv, SessionInv, TypeOK, CleanupOne
    <3> QED
      BY <3>1
  <2>2. node' = node /\ beat' = beat /\ clock' = clock /\ nextSid' = nextSid /\ waiting' = waiting
    BY DEF CleanupOne
  <2>3. NodesCoherent /\ ScansPast
    BY DEF IInv, SessionInv
  <2>4. NodesCoherent'
    BY <2>1, <2>2, <2>3 DEF NodesCoherent
  <2>5. ScansPast'
    BY <2>1, <2>2, <2>3 DEF ScansPast
  <2> QED
    BY <2>1, <2>4, <2>5
<1>2. CASE Removed(s)
  <2>1. /\ allsessions' \in [Sids -> 0 .. MaxClock + SessionTtl]
        /\ locked' \in [Sids -> SUBSET Inodes]
        /\ plock' \in PlockType /\ flock' \in FlockType
        /\ FreshOwnsNothing' /\ LocksAccounted' /\ LocksExclude'
    BY <1>2, RemovedKeeps DEF IInv, SessionInv, CleanupOne
  <2>2. TypeOK'
    BY <1>1, <2>1 DEF IInv, SessionInv, TypeOK, CleanupOne, PlockType, FlockType
  <2> QED
    BY <1>1, <2>1, <2>2 DEF IInv, SessionInv
<1>3. CASE UNCHANGED <<allsessions, locked, plock, flock>>
  <2>1. TypeOK'
    BY <1>1, <1>3 DEF IInv, SessionInv, TypeOK, CleanupOne
  <2>2. FreshOwnsNothing' /\ LocksAccounted' /\ LocksExclude'
    BY <1>3, LocksUntouched DEF CleanupOne
  <2> QED
    BY <1>1, <2>1, <2>2 DEF IInv, SessionInv
<1> QED
  BY <1>2, <1>3 DEF CleanupOne

\* What an attempt keeps, as a whole step.
LEMMA AttemptStepKeeps ==
  ASSUME IInv, NEW n \in Nodes, NEW o \in Owners, NEW r \in Request, r # NoRequest,
         node[n].pc = "up", Attempt(n, o, r),
         UNCHANGED <<clock, cleanLock, node, beat, reaper, nextSid>>
  PROVE  IInv'
<1>1. /\ allsessions' \in [Sids -> 0 .. MaxClock + SessionTtl]
      /\ locked' \in [Sids -> SUBSET Inodes]
      /\ plock' \in PlockType /\ flock' \in FlockType
      /\ waiting' \in [Nodes -> [Owners -> Request]]
      /\ \A m \in Nodes \ {n} : waiting'[m] = waiting[m]
      /\ FreshOwnsNothing' /\ LocksAccounted' /\ LocksExclude'
  BY AttemptKeeps DEF IInv
<1>2. TypeOK'
  BY <1>1 DEF IInv, SessionInv, TypeOK, PlockType, FlockType
<1>3. NodesCoherent'
  <2> SUFFICES ASSUME NEW m \in Nodes
               PROVE  /\ node[m].pc = "up" => node[m].sid \in Sids /\ node[m].sid < nextSid
                      /\ node[m].pc = "down" =>
                           /\ ~node[m].life /\ beat[m] = 0 /\ reaper[m].todo = {}
                           /\ \A p \in Owners : waiting'[m][p] = NoRequest
    BY DEF NodesCoherent
  <2> QED
    BY <1>1 DEF IInv, SessionInv, NodesCoherent
<1>4. ScansPast'
  BY DEF IInv, SessionInv, ScansPast
<1> QED
  BY <1>1, <1>2, <1>3, <1>4 DEF IInv, SessionInv

LEMMA SetLockKeeps ==
  ASSUME IInv, NEW n \in Nodes, NEW o \in Owners, NEW r \in Asks, SetLock(n, o, r)
  PROVE  IInv'
<1>1. r \in Request /\ r # NoRequest
  BY AsksAreRequests
<1> QED
  BY <1>1, AttemptStepKeeps DEF SetLock

LEMMA RetryLockKeeps ==
  ASSUME IInv, NEW n \in Nodes, NEW o \in Owners, RetryLock(n, o)
  PROVE  IInv'
<1> DEFINE r == waiting[n][o]
<1>1. r \in Request /\ r # NoRequest /\ node[n].pc = "up"
  BY DEF IInv, SessionInv, TypeOK, NodesCoherent, RetryLock
<1>2. Attempt(n, o, r) /\ UNCHANGED <<clock, cleanLock, node, beat, reaper, nextSid>>
  BY DEF RetryLock
<1> HIDE DEF r
<1> QED
  BY <1>1, <1>2, AttemptStepKeeps

LEMMA CancelLockKeeps ==
  ASSUME IInv, NEW n \in Nodes, NEW o \in Owners, CancelLock(n, o)
  PROVE  IInv'
<1>1. waiting' \in [Nodes -> [Owners -> Request]]
  BY DEF IInv, SessionInv, TypeOK, CancelLock, Request
<1>2. TypeOK'
  BY <1>1 DEF IInv, SessionInv, TypeOK, CancelLock
<1>3. NodesCoherent' /\ ScansPast'
  BY DEF IInv, SessionInv, TypeOK, NodesCoherent, ScansPast, CancelLock
<1>4. FreshOwnsNothing' /\ LocksAccounted' /\ LocksExclude'
  BY LocksUntouched DEF CancelLock
<1> QED
  BY <1>2, <1>3, <1>4 DEF IInv, SessionInv

LEMMA UnlockKeeps ==
  ASSUME IInv, NEW n \in Nodes, NEW o \in Owners, NEW i \in Inodes,
         UnlockFlock(n, o, i) \/ \E e \in Extents : UnlockPlock(n, o, i, e)
  PROVE  IInv'
<1>0. node[n].sid \in Sids
  BY DEF IInv, SessionInv, NodesCoherent, UnlockFlock, UnlockPlock
<1>1. NodesCoherent' /\ ScansPast'
  <2>1. UNCHANGED <<clock, node, beat, reaper, waiting, nextSid>>
    BY DEF UnlockFlock, UnlockPlock
  <2> QED
    BY <2>1 DEF IInv, SessionInv, NodesCoherent, ScansPast
<1>2. CASE UnlockFlock(n, o, i)
  <2>1. /\ locked' \in [Sids -> SUBSET Inodes] /\ flock' \in FlockType
        /\ FreshOwnsNothing' /\ LocksAccounted' /\ LocksExclude'
    BY <1>0, <1>2, UnlockFlockKeeps DEF IInv, SessionInv
  <2>2. TypeOK'
    BY <1>2, <2>1 DEF IInv, SessionInv, TypeOK, UnlockFlock, FlockType
  <2> QED
    BY <1>1, <2>1, <2>2 DEF IInv, SessionInv
<1>3. ASSUME NEW e \in Extents, UnlockPlock(n, o, i, e) PROVE IInv'
  <2>1. /\ locked' \in [Sids -> SUBSET Inodes] /\ plock' \in PlockType
        /\ FreshOwnsNothing' /\ LocksAccounted' /\ LocksExclude'
    BY <1>0, <1>3, UnlockPlockKeeps DEF IInv, SessionInv
  <2>2. TypeOK'
    BY <1>3, <2>1 DEF IInv, SessionInv, TypeOK, UnlockPlock, PlockType
  <2> QED
    BY <1>1, <2>1, <2>2 DEF IInv, SessionInv
<1> QED
  BY <1>2, <1>3

LEMMA NextIInv == IInv /\ [Next]_vars => IInv'
<1> SUFFICES ASSUME IInv, [Next]_vars PROVE IInv'
  OBVIOUS
<1>1. CASE UNCHANGED vars
  <2>1. FreshOwnsNothing' /\ LocksAccounted' /\ LocksExclude'
    BY <1>1, LocksUntouched DEF vars
  <2>2. TypeOK' /\ NodesCoherent' /\ ScansPast'
    BY <1>1 DEF IInv, SessionInv, vars, TypeOK, NodesCoherent, ScansPast
  <2> QED
    BY <2>1, <2>2 DEF IInv, SessionInv
<1>2. CASE Tick
  BY <1>2, TickKeeps
<1>3. ASSUME NEW n \in Nodes, NodeStep(n) PROVE IInv'
  BY <1>3, StartKeeps, HeartbeatSendKeeps, HeartbeatApplyKeeps, ShutdownKeeps, CrashKeeps,
     CleanupScanKeeps, CleanupOneKeeps, SetLockKeeps, RetryLockKeeps, CancelLockKeeps,
     UnlockKeeps DEF NodeStep
<1> QED
  BY <1>1, <1>2, <1>3 DEF Next

LEMMA Inductive == Spec => []IInv
BY InitIInv, NextIInv, PTL DEF Spec

----------------------------------------------------------------------------
(* Every reachable state of the session store has its type: expiries,      *)
(* inventories, byte modes, requests under way and scans stay in range.    *)
THEOREM SessionTypes == Spec => []TypeOK
<1>1. IInv => TypeOK
  BY DEF IInv, SessionInv
<1> QED
  BY <1>1, Inductive, PTL

(* However unlocks, heartbeats, late requests, clean-ups, shutdowns and    *)
(* crashes of any number of nodes interleave, the inventory covers every   *)
(* lock of a registered session and a removed session owns no record lock  *)
(* (SET_PLOCK_LUA, flock_lua, CLEANUP_SESSION_LUA).                        *)
THEOREM AllLocksAccounted == Spec => []LocksAccounted
<1>1. IInv => LocksAccounted
  BY DEF IInv
<1> QED
  BY <1>1, Inductive, PTL

(* No two owners or sessions hold a byte or a file in modes that exclude   *)
(* each other, the flocks a dead session leaves behind included.           *)
THEOREM LocksNeverClash == Spec => []LocksExclude
<1>1. IInv => LocksExclude
  BY DEF IInv
<1> QED
  BY <1>1, Inductive, PTL

(* A clean-up never removes a session whose expiry lies ahead, even when   *)
(* its scan saw the session expired and a heartbeat came in between        *)
(* (REFRESH_SESSION_LUA against CLEANUP_SESSION_LUA's recheck).            *)
THEOREM RenewalHolds == Spec => RenewedSurvives
<1>1. IInv /\ [Next]_vars =>
        [\A s \in Sids : allsessions[s] > clock /\ allsessions'[s] = 0 =>
           \E n \in Nodes : node[n].sid = s /\ node'[n].pc = "down"]_vars
  <2> SUFFICES ASSUME IInv, Next, NEW s \in Sids, allsessions[s] > clock, allsessions'[s] = 0
               PROVE  \E n \in Nodes : node[n].sid = s /\ node'[n].pc = "down"
    BY DEF IInv
  <2>0. /\ allsessions \in [Sids -> 0 .. MaxClock + SessionTtl] /\ clock \in 0 .. MaxClock
        /\ node \in [Nodes -> [pc: {"down", "up"}, sid: {0} \cup Sids, life: BOOLEAN]]
        /\ reaper \in [Nodes -> [cutoff: 0 .. MaxClock, todo: SUBSET Sids]]
        /\ MaxClock + SessionTtl \in Nat
    BY SessionAssumption DEF IInv, SessionInv, TypeOK
  <2>1. allsessions' # allsessions
    BY <2>0
  <2>2. PICK n \in Nodes : NodeStep(n)
    BY <2>1 DEF Next, Tick
  <2>3. CASE ShutdownSession(n)
    <3>1. allsessions' = [allsessions EXCEPT ![node[n].sid] = 0]
      BY <2>3 DEF ShutdownSession, Removed
    <3>2. node[n].sid = s
      BY <3>1, <2>0
    <3> QED
      BY <3>2, <2>0, <2>3 DEF ShutdownSession, NodeDown
  <2>4. ASSUME NEW t \in Sids, CleanupOne(n, t) PROVE FALSE
    <3>1. StillExpired(t, reaper[n].cutoff) /\ allsessions' = [allsessions EXCEPT ![t] = 0]
      BY <2>1, <2>4 DEF CleanupOne, Removed
    <3>2. t = s
      BY <3>1, <2>0
    <3>3. reaper[n].cutoff <= clock
      BY DEF IInv, SessionInv, ScansPast
    <3> QED
      BY <3>1, <3>2, <3>3, <2>0 DEF StillExpired
  <2>5. CASE StartSession(n)
    BY <2>0, <2>5, SessionAssumption DEF StartSession, NewExpiry, Sids
  <2>6. CASE HeartbeatApply(n)
    BY <2>0, <2>1, <2>6 DEF HeartbeatApply
  <2>7. ASSUME NEW o \in Owners, NEW r, Attempt(n, o, r) PROVE FALSE
    BY <2>1, <2>7 DEF Attempt, GrantPlock, GrantFlock
  <2> QED
    BY <2>1, <2>2, <2>3, <2>4, <2>5, <2>6, <2>7
    DEF NodeStep, HeartbeatSend, Crash, CleanupScan, SetLock, RetryLock, CancelLock, UnlockPlock,
        UnlockFlock
<1> QED
  BY <1>1, Inductive, PTL DEF Spec, RenewedSurvives

(* A heartbeat that arrives after the clean-up does not bring the session  *)
(* back, and nothing else registers an old identifier again                *)
(* (REFRESH_SESSION_LUA).                                                  *)
THEOREM RemovedForGood == Spec => NoResurrection
<1>1. IInv /\ [Next]_vars =>
        [\A s \in Sids : s < nextSid /\ allsessions[s] = 0 => allsessions'[s] = 0]_vars
  <2> SUFFICES ASSUME IInv, Next, NEW s \in Sids, s < nextSid, allsessions[s] = 0
               PROVE  allsessions'[s] = 0
    OBVIOUS
  <2>0. allsessions \in [Sids -> 0 .. MaxClock + SessionTtl] /\ nextSid \in Nat
    BY DEF IInv, SessionInv, TypeOK
  <2>1. CASE Tick
    BY <2>1 DEF Tick
  <2>2. ASSUME NEW n \in Nodes, NodeStep(n) PROVE allsessions'[s] = 0
    <3>1. CASE ShutdownSession(n)
      BY <3>1, <2>0 DEF ShutdownSession, Removed
    <3>2. ASSUME NEW t \in Sids, CleanupOne(n, t) PROVE allsessions'[s] = 0
      BY <3>2, <2>0 DEF CleanupOne, Removed
    <3>3. CASE StartSession(n)
      BY <3>3, <2>0 DEF StartSession, Sids
    <3>4. CASE HeartbeatApply(n)
      BY <3>4, <2>0 DEF HeartbeatApply, Registered
    <3>5. ASSUME NEW o \in Owners, NEW r, Attempt(n, o, r) PROVE allsessions'[s] = 0
      BY <3>5 DEF Attempt, GrantPlock, GrantFlock
    <3> QED
      BY <2>2, <3>1, <3>2, <3>3, <3>4, <3>5
      DEF NodeStep, HeartbeatSend, Crash, CleanupScan, SetLock, RetryLock, CancelLock,
          UnlockPlock, UnlockFlock
  <2> QED
    BY <2>1, <2>2 DEF Next
<1> QED
  BY <1>1, Inductive, PTL DEF Spec, NoResurrection
=============================================================================
