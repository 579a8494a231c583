---------------------------- MODULE ChunkSlices ----------------------------
(***************************************************************************)
(* The life of the slices of one chunk on the Redis metadata store:        *)
(* writers upload blocks and then append a slice descriptor, truncation    *)
(* rewrites the descriptor list, the compaction workers of several nodes   *)
(* drop covered slices (light) or merge the list into one new slice        *)
(* (heavy), and the block collectors delete the blocks of condemned slices *)
(* in two phases.  All of them run concurrently; the only synchronisation  *)
(* is the chunk's version, compared and swapped by the Lua scripts.        *)
(*                                                                         *)
(* The chunk is ChunkLen blocks long and extents are counted in blocks:    *)
(* block u of slice s holds chunk position off + u.  The Redis list        *)
(* c<ino>_<idx> is the set slices of entries ordered by seq, the chunk     *)
(* version whose script pushed the entry (RPUSH appends at the end).  Ages *)
(* are left out: a collector may pick a record at any moment, so what is   *)
(* checked here does not rest on the one-hour thresholds.                  *)
(***************************************************************************)
EXTENDS Integers, FiniteSets, FiniteSetsExt

CONSTANTS
  Writers, Truncaters, Compactors, Collectors,  \* the processes at work
  ChunkLen,           \* blocks in a chunk
  MinSliceCount, MinFragment,                   \* CompactConfig; ratios in percent
  LightEnabled, LightThreshold,
  HeavyEnabled, HeavySlices, HeavyFragment, HeavyForce,
  MaxSlices,          \* bound: slice identifiers ever allocated
  MaxVersion          \* bound: no operation starts at a later chunk version

ASSUME ChunkAssumption ==
  /\ ChunkLen \in Nat \ {0}
  /\ MaxSlices \in Nat
  /\ MaxVersion \in Nat
  /\ LightEnabled \in BOOLEAN
  /\ HeavyEnabled \in BOOLEAN

SliceIds == 1 .. MaxSlices
Units == 0 .. ChunkLen - 1

\* A block holds the identifier of the write that produced its bytes, or Hole
\* where a merge found nothing.  Absent: the object does not exist.
Hole == 0
Absent == -1
Values == 0 .. MaxSlices

\* No slice, no process
None == 0
Nobody == "nobody"

VARIABLES
  slices,       \* the chunk's descriptor list: a set of entries
  version,      \* c<ino>_<idx>:v
  physical,     \* physical_sizes: blocks retained behind a trimmed slice
  blocks,       \* the object store: blocks[s][u]
  delayed,      \* delayed-deletion ledger
  uncommitted,  \* uncommitted-slice ledger
  nextId,       \* slice id counter
  lock,         \* global compact lock: holder's token and whether its TTL ran out
  wr, tr, cp, gc,  \* local state of the processes
  abandoned,    \* history: uploads whose owner stopped with no record of them
  committed     \* history: the writers' slices that were published

vars == <<slices, version, physical, blocks, delayed, uncommitted, nextId,
          lock, wr, tr, cp, gc, abandoned, committed>>

ledger == <<delayed, uncommitted>>
chunk == <<slices, version, physical>>
history == <<abandoned, committed>>

----------------------------------------------------------------------------
(* Slice descriptors and what a reader makes of a list of them. *)

End(e) == e.off + e.len
SliceDesc == {e \in [seq : Nat \ {0}, id : SliceIds, off : Units, len : 1 .. ChunkLen] :
                End(e) <= ChunkLen}

Ids(es) == {e.id : e \in es}
Covers(e, p) == e.off <= p /\ p < End(e)

\* Last entry wins; a position no entry covers reads as a hole.
VisibleAt(es, blk, p) ==
  LET over == {e \in es : Covers(e, p)}
  IN  IF over = {} THEN Hole
      ELSE LET top == CHOOSE e \in over : \A f \in over : f.seq <= e.seq
           IN  blk[top.id][p - top.off]

Visible(es, blk) == [p \in Units |-> VisibleAt(es, blk, p)]

TotalLen(es) == MapThenSumSet(LAMBDA e : e.len, es)
Coverage(es) == Cardinality({p \in Units : \E e \in es : Covers(e, p)})

\* calculate_fragmentation(es) >= percent / 100
FragmentedBy(es, percent) ==
  100 * (TotalLen(es) - Coverage(es)) >= percent * TotalLen(es)

\* A slice is dropped when one newer slice spans it entirely.
RemoveFullyCovered(es) ==
  {e \in es : ~ \E f \in es : /\ f.seq > e.seq
                              /\ f.off <= e.off
                              /\ End(e) <= End(f)}

ReplacedIds(es) == Ids(es) \ Ids(RemoveFullyCovered(es))

\* encode_delayed_data: the extents handed to the delayed ledger
DelayedData(es, ids) == {[id |-> e.id, len |-> e.len] : e \in {f \in es : f.id \in ids}}

OccupiedEnd(es) == Max({End(e) : e \in es})

\* trim_slices_in_place
Trimmed(es, cutoff) ==
  {[e EXCEPT !.len = IF End(e) > cutoff THEN cutoff - e.off ELSE e.len] :
     e \in {f \in es : f.off < cutoff}}

Larger(m, n) == IF m >= n THEN m ELSE n

----------------------------------------------------------------------------
(* Local states of the processes. *)

WriterIdle == [pc |-> "idle", id |-> None, off |-> 0, len |-> 0]
TruncaterIdle == [pc |-> "idle", cutoff |-> 0, rver |-> 0, rlist |-> {}]
CompactorIdle == [pc |-> "idle", snap |-> {}, id |-> None,
                  buf |-> [u \in Units |-> Absent], rver |-> 0, rlist |-> {}]
CollectorIdle == [pc |-> "idle", sid |-> None, sz |-> 0, at |-> 0, rver |-> 0,
                  found |-> {}]

NoRecord == [st |-> "none", sz |-> 0]
NoBlocks == [u \in Units |-> Absent]

Init ==
  /\ slices = {} /\ version = 0
  /\ physical = [s \in SliceIds |-> 0]
  /\ blocks = [s \in SliceIds |-> NoBlocks]
  /\ delayed = {}
  /\ uncommitted = [s \in SliceIds |-> NoRecord]
  /\ nextId = 1
  /\ lock = [owner |-> Nobody, expired |-> FALSE]
  /\ wr = [w \in Writers |-> WriterIdle]
  /\ tr = [t \in Truncaters |-> TruncaterIdle]
  /\ cp = [c \in Compactors |-> CompactorIdle]
  /\ gc = [g \in Collectors |-> CollectorIdle]
  /\ abandoned = {} /\ committed = {}

----------------------------------------------------------------------------
(* CHUNK_COMPACT_LUA runs if the version is the one its caller read and,   *)
(* for a heavy pass, the new slice is still reserved.  It replaces the     *)
(* list, remembers the physical size behind trimmed slices, condemns       *)
(* slices to the delayed ledger with the largest size known for them, and  *)
(* consumes the uncommitted records of the slices it publishes.            *)

\* A bug to compare with: the script does not look at the version.
AnyVersion(rver) == rver \in Nat
VersionHolds(rver) == rver = version

Reserved(s) == uncommitted[s].st = "pending"

\* A bug to compare with: the reservation is not checked.
Unguarded(s) == s \in SliceIds
RequirePending(s) == Reserved(s)

\* A bug to compare with: the size a truncation left behind is ignored.
DescriptorSize(d) == d.len
CondemnedSize(d) == Larger(d.len, physical[d.id])

ChunkCompact(newList, newVersion, condemned, retained, published) ==
  LET condemnedIds == {d.id : d \in condemned}
  IN  /\ slices' = newList
      /\ version' = newVersion
      /\ physical' =
           [s \in SliceIds |->
              IF s \in condemnedIds THEN 0
              ELSE IF \E r \in retained : r.id = s
                   THEN Larger((CHOOSE r \in retained : r.id = s).len, physical[s])
                   ELSE physical[s]]
      /\ delayed' = delayed \cup
           {[sid |-> d.id, sz |-> CondemnedSize(d),
             st |-> "pending", at |-> newVersion] : d \in condemned}
      /\ uncommitted' =
           [s \in SliceIds |-> IF s \in published THEN NoRecord ELSE uncommitted[s]]

\* Objects 0 .. n - 1 of slice s are deleted.
DeleteBlocks(s, n) ==
  [blocks EXCEPT ![s] = [u \in Units |-> IF u < n THEN Absent ELSE @[u]]]

----------------------------------------------------------------------------
(* A writer uploads the blocks of a fresh slice, then publishes it.  A     *)
(* failed or crashed writer leaves its blocks behind: a flat volume keeps  *)
(* no record of them.                                                      *)
WriterUpload(w, off, len) ==
  /\ wr[w].pc = "idle" /\ nextId <= MaxSlices
  /\ off + len <= ChunkLen
  /\ nextId' = nextId + 1
  /\ blocks' = [blocks EXCEPT ![nextId] =
                  [u \in Units |-> IF u < len THEN nextId ELSE Absent]]
  /\ wr' = [wr EXCEPT ![w] = [pc |-> "uploaded", id |-> nextId, off |-> off, len |-> len]]
  /\ UNCHANGED <<chunk, ledger, lock, tr, cp, gc, history>>

\* WRITE_SLICE_LUA: RPUSH and INCR in one script
WriterCommit(w) ==
  /\ wr[w].pc = "uploaded"
  /\ slices' = slices \cup {[seq |-> version + 1, id |-> wr[w].id,
                             off |-> wr[w].off, len |-> wr[w].len]}
  /\ version' = version + 1
  /\ committed' = committed \cup {wr[w].id}
  /\ wr' = [wr EXCEPT ![w] = WriterIdle]
  /\ UNCHANGED <<physical, blocks, ledger, nextId, lock, tr, cp, gc, abandoned>>

WriterFail(w) ==
  /\ wr[w].pc = "uploaded"
  /\ abandoned' = abandoned \cup {wr[w].id}
  /\ wr' = [wr EXCEPT ![w] = WriterIdle]
  /\ UNCHANGED <<chunk, blocks, ledger, nextId, lock, tr, cp, gc, committed>>

----------------------------------------------------------------------------
(* rewrite_trimmed_slices: GET version, LRANGE, then the script; a lost    *)
(* race starts over, at most TRUNCATE_REWRITE_MAX_RETRIES times.           *)
TruncateStart(t, cutoff) ==
  /\ tr[t].pc = "idle" /\ version <= MaxVersion
  /\ tr' = [tr EXCEPT ![t] = [TruncaterIdle EXCEPT !.pc = "list", !.cutoff = cutoff,
                                                   !.rver = version]]
  /\ UNCHANGED <<chunk, blocks, ledger, nextId, lock, wr, cp, gc, history>>

TruncateList(t) ==
  /\ tr[t].pc = "list"
  /\ tr' = [tr EXCEPT ![t] = [@ EXCEPT !.pc = "cas", !.rlist = slices]]
  /\ UNCHANGED <<chunk, blocks, ledger, nextId, lock, wr, cp, gc, history>>

\* A bug to compare with: only the removal of an entry counts as a change.
VersionIfShorter(rlist, cutoff) ==
  IF Cardinality(Trimmed(rlist, cutoff)) = Cardinality(rlist) THEN version ELSE version + 1

\* The rewrite of a list that has entries is a new version, trimmed or not.
TruncatedVersion(rlist, cutoff) ==
  IF rlist = {} THEN version ELSE version + 1

TruncateCas(t) ==
  LET cutoff == tr[t].cutoff
      rlist == tr[t].rlist
      removed == {e \in rlist : e.off >= cutoff}
      cut == {e \in rlist : e.off < cutoff /\ End(e) > cutoff}
  IN  /\ tr[t].pc = "cas" /\ VersionHolds(tr[t].rver)
      /\ ChunkCompact(Trimmed(rlist, cutoff),
                      TruncatedVersion(rlist, cutoff),
                      DelayedData(rlist, Ids(removed)),
                      DelayedData(rlist, Ids(cut)), {})
      /\ tr' = [tr EXCEPT ![t] = TruncaterIdle]
      /\ UNCHANGED <<blocks, nextId, lock, wr, cp, gc, history>>

TruncateRetry(t) ==
  /\ tr[t].pc = "cas" /\ ~VersionHolds(tr[t].rver)
  /\ \/ tr' = [tr EXCEPT ![t] = [@ EXCEPT !.pc = "list", !.rver = version, !.rlist = {}]]
     \/ tr' = [tr EXCEPT ![t] = TruncaterIdle]
  /\ UNCHANGED <<chunk, blocks, ledger, nextId, lock, wr, cp, gc, history>>

----------------------------------------------------------------------------
(* run_compaction_cycle: look, take the chunk's lock, look again. *)

ShouldCompact(es) ==
  Cardinality(es) >= MinSliceCount /\ FragmentedBy(es, MinFragment)

NeedsHeavy(es) ==
  /\ HeavyEnabled
  /\ FragmentedBy(es, HeavyFragment) \/ Cardinality(es) >= HeavySlices

\* compact_snapshot: where a snapshot leads ...
PlanFor(es) ==
  CASE Cardinality(es) <= 1 -> "unlock"
    [] /\ Cardinality(es) > 1
       /\ LightEnabled /\ Cardinality(es) >= LightThreshold
       /\ ReplacedIds(es) # {} -> "light"
    [] OTHER -> IF NeedsHeavy(es) THEN "merge" ELSE "unlock"

\* ... and where the snapshot taken after a light pass leads
PlanAfterLight(es) ==
  IF Cardinality(es) > 1 /\ (NeedsHeavy(es) \/ FragmentedBy(es, HeavyForce))
  THEN "merge" ELSE "unlock"

Step(c, pc) == cp' = [cp EXCEPT ![c] = [@ EXCEPT !.pc = pc]]

CompactScan(c) ==
  /\ cp[c].pc = "idle" /\ version <= MaxVersion
  /\ ShouldCompact(slices)
  /\ Step(c, "scanned")
  /\ UNCHANGED <<chunk, blocks, ledger, nextId, lock, wr, tr, gc, history>>

TryLock(c) ==
  /\ cp[c].pc = "scanned"
  /\ IF lock.owner = Nobody \/ lock.expired
     THEN /\ lock' = [owner |-> c, expired |-> FALSE]
          /\ Step(c, "locked")
     ELSE Step(c, "idle") /\ UNCHANGED lock
  /\ UNCHANGED <<chunk, blocks, ledger, nextId, wr, tr, gc, history>>

\* The lock's TTL runs out; nothing renews it while a compaction runs.
LockExpire ==
  /\ lock.owner # Nobody /\ ~lock.expired
  /\ lock' = [lock EXCEPT !.expired = TRUE]
  /\ UNCHANGED <<chunk, blocks, ledger, nextId, wr, tr, cp, gc, history>>

Snapshot(c) ==
  /\ cp[c].pc = "locked"
  /\ cp' = [cp EXCEPT ![c] =
       [@ EXCEPT !.pc = IF ShouldCompact(slices) THEN PlanFor(slices) ELSE "unlock",
                 !.snap = slices]]
  /\ UNCHANGED <<chunk, blocks, ledger, nextId, lock, wr, tr, gc, history>>

\* release_global_lock compares the token: a lock that passed to another
\* node after expiry stays with it.
Unlock(c) ==
  /\ cp[c].pc = "unlock"
  /\ lock' = IF lock.owner = c THEN [owner |-> Nobody, expired |-> FALSE] ELSE lock
  /\ cp' = [cp EXCEPT ![c] = CompactorIdle]
  /\ UNCHANGED <<chunk, blocks, ledger, nextId, wr, tr, gc, history>>

----------------------------------------------------------------------------
(* compact_light_inner and replace_slices_for_compact: the covered slices  *)
(* of the snapshot are filtered out of whatever the list is now.           *)
LightVersion(c) ==
  /\ cp[c].pc = "light"
  /\ cp' = [cp EXCEPT ![c] = [@ EXCEPT !.pc = "lightlist", !.rver = version]]
  /\ UNCHANGED <<chunk, blocks, ledger, nextId, lock, wr, tr, gc, history>>

LightList(c) ==
  /\ cp[c].pc = "lightlist"
  /\ cp' = [cp EXCEPT ![c] = [@ EXCEPT !.pc = "lightcas", !.rlist = slices]]
  /\ UNCHANGED <<chunk, blocks, ledger, nextId, lock, wr, tr, gc, history>>

LightCas(c) ==
  LET ids == ReplacedIds(cp[c].snap)
  IN  /\ cp[c].pc = "lightcas" /\ VersionHolds(cp[c].rver)
      /\ ChunkCompact({e \in cp[c].rlist : e.id \notin ids}, version + 1,
                      DelayedData(cp[c].snap, ids), {}, {})
      /\ cp' = [cp EXCEPT ![c] = [CompactorIdle EXCEPT !.pc = "resnap"]]
      /\ UNCHANGED <<blocks, nextId, lock, wr, tr, gc, history>>

LightRetry(c) ==
  /\ cp[c].pc = "lightcas" /\ ~VersionHolds(cp[c].rver)
  /\ \/ cp' = [cp EXCEPT ![c] = [@ EXCEPT !.pc = "lightlist", !.rver = version, !.rlist = {}]]
     \/ cp' = [cp EXCEPT ![c] = [CompactorIdle EXCEPT !.pc = "unlock"]]
  /\ UNCHANGED <<chunk, blocks, ledger, nextId, lock, wr, tr, gc, history>>

Resnapshot(c) ==
  /\ cp[c].pc = "resnap"
  /\ cp' = [cp EXCEPT ![c] = [@ EXCEPT !.pc = PlanAfterLight(slices), !.snap = slices]]
  /\ UNCHANGED <<chunk, blocks, ledger, nextId, lock, wr, tr, gc, history>>

----------------------------------------------------------------------------
(* compact_heavy_inner: merge the snapshot's blocks in list order, reserve *)
(* a new slice in the uncommitted ledger, upload it, and publish it if the *)
(* list still holds the snapshot's slices.                                 *)
Readable(es) == \A e \in es : \A u \in Units : u < e.len => blocks[e.id][u] # Absent

HeavyMerge(c) ==
  LET snap == cp[c].snap
      end == OccupiedEnd(snap)
  IN  /\ cp[c].pc = "merge" /\ nextId <= MaxSlices
      /\ Readable(snap)
      /\ nextId' = nextId + 1
      /\ uncommitted' = [uncommitted EXCEPT ![nextId] = [st |-> "pending", sz |-> end]]
      /\ cp' = [cp EXCEPT ![c] =
           [@ EXCEPT !.pc = "upload", !.id = nextId,
                     !.buf = [u \in Units |->
                                IF u < end THEN VisibleAt(snap, blocks, u) ELSE Absent]]]
      /\ UNCHANGED <<chunk, blocks, delayed, lock, wr, tr, gc, history>>

HeavyUpload(c) ==
  /\ cp[c].pc = "upload"
  /\ blocks' = [blocks EXCEPT ![cp[c].id] = cp[c].buf]
  /\ cp' = [cp EXCEPT ![c] = [@ EXCEPT !.pc = "heavy", !.buf = NoBlocks]]
  /\ UNCHANGED <<chunk, ledger, nextId, lock, wr, tr, gc, history>>

HeavyVersion(c) ==
  /\ cp[c].pc = "heavy"
  /\ cp' = [cp EXCEPT ![c] = [@ EXCEPT !.pc = "heavylist", !.rver = version]]
  /\ UNCHANGED <<chunk, blocks, ledger, nextId, lock, wr, tr, gc, history>>

\* A bug to compare with: entries appended since the snapshot go unnoticed.
ExpectedPresent(current, expected) ==
  \A e \in expected : \E f \in current :
    f.id = e.id /\ f.off = e.off /\ f.len = e.len

\* Same number of entries, and every expected slice present with its extent
SameSlices(current, expected) ==
  /\ Cardinality(current) = Cardinality(expected)
  /\ \A e \in expected : \E f \in current :
       f.id = e.id /\ f.off = e.off /\ f.len = e.len

HeavyList(c) ==
  /\ cp[c].pc = "heavylist"
  /\ Step(c, IF SameSlices(slices, cp[c].snap) THEN "heavycas" ELSE "cleanup")
  /\ UNCHANGED <<chunk, blocks, ledger, nextId, lock, wr, tr, gc, history>>

HeavyCas(c) ==
  LET snap == cp[c].snap
      new == [seq |-> version + 1, id |-> cp[c].id, off |-> 0, len |-> OccupiedEnd(snap)]
  IN  /\ cp[c].pc = "heavycas" /\ VersionHolds(cp[c].rver)
      /\ RequirePending(cp[c].id)
      /\ ChunkCompact({new}, version + 1, DelayedData(snap, Ids(snap)), {}, {cp[c].id})
      /\ Step(c, "confirm")
      /\ UNCHANGED <<blocks, nextId, lock, wr, tr, gc, history>>

\* The version moved (try again, or give up after COMPACT_RETRY_LIMIT), or the
\* reservation was claimed by a collector (-1).
HeavyRefused(c) ==
  /\ cp[c].pc = "heavycas"
  /\ \/ /\ ~VersionHolds(cp[c].rver)
        /\ cp' = [cp EXCEPT ![c] = [@ EXCEPT !.pc = "heavylist", !.rver = version]]
     \/ /\ ~(VersionHolds(cp[c].rver) /\ RequirePending(cp[c].id))
        /\ Step(c, "cleanup")
  /\ UNCHANGED <<chunk, blocks, ledger, nextId, lock, wr, tr, gc, history>>

\* confirm_slice_committed
HeavyConfirm(c) ==
  /\ cp[c].pc = "confirm"
  /\ uncommitted' = [uncommitted EXCEPT ![cp[c].id] = NoRecord]
  /\ cp' = [cp EXCEPT ![c] = [CompactorIdle EXCEPT !.pc = "unlock"]]
  /\ UNCHANGED <<chunk, blocks, delayed, nextId, lock, wr, tr, gc, history>>

\* A slice whose owner stops after its reservation was claimed may have been
\* uploaded behind the collector's back: nothing is certain to reclaim it.
LeftBehind(c) ==
  IF cp[c].pc \in {"upload", "heavy", "heavylist", "heavycas", "cleanup"}
     /\ ~Reserved(cp[c].id)
  THEN {cp[c].id} ELSE {}

\* cleanup_uncommitted_slice: the first n objects go before it returns or
\* fails; the record stays for the collector.
HeavyCleanup(c, n) ==
  /\ cp[c].pc = "cleanup"
  /\ n <= OccupiedEnd(cp[c].snap)
  /\ blocks' = DeleteBlocks(cp[c].id, n)
  /\ abandoned' = IF n < OccupiedEnd(cp[c].snap) THEN abandoned \cup LeftBehind(c)
                                                ELSE abandoned
  /\ cp' = [cp EXCEPT ![c] = [CompactorIdle EXCEPT !.pc = "unlock"]]
  /\ UNCHANGED <<chunk, ledger, nextId, lock, wr, tr, gc, committed>>

Working == {"locked", "light", "lightlist", "lightcas", "resnap", "merge", "upload",
            "heavy", "heavylist", "heavycas", "confirm"}

\* Any other error (a failed read or upload, a transport error before or after
\* the script ran) keeps the objects and the record, and gives the lock back.
CompactError(c) ==
  /\ cp[c].pc \in Working
  /\ abandoned' = abandoned \cup LeftBehind(c)
  /\ cp' = [cp EXCEPT ![c] = [CompactorIdle EXCEPT !.pc = "unlock"]]
  /\ UNCHANGED <<chunk, blocks, ledger, nextId, lock, wr, tr, gc, committed>>

\* The node dies; its lock is left to the TTL.
CompactCrash(c) ==
  /\ cp[c].pc # "idle"
  /\ abandoned' = abandoned \cup LeftBehind(c)
  /\ cp' = [cp EXCEPT ![c] = CompactorIdle]
  /\ UNCHANGED <<chunk, blocks, ledger, nextId, lock, wr, tr, gc, committed>>

----------------------------------------------------------------------------
(* BlockStoreGC, delayed slices.  A cycle over a batch is the interleaving *)
(* of such passes over single records; a pass may stop after any step.     *)
Extents(s) == {[off |-> e.off, len |-> e.len] : e \in {f \in slices : f.id = s}}

\* A bug to compare with: a record an earlier cycle marked is not listed again.
GcPickPending(g, d) ==
  /\ gc[g].pc = "idle" /\ d \in delayed /\ d.st = "pending"
  /\ gc' = [gc EXCEPT ![g] =
       [CollectorIdle EXCEPT !.pc = "mark", !.sid = d.sid, !.sz = d.sz, !.at = d.at,
                             !.found = Extents(d.sid)]]
  /\ UNCHANGED <<chunk, blocks, ledger, nextId, lock, wr, tr, cp, history>>

GcPick(g, d) ==
  /\ gc[g].pc = "idle" /\ d \in delayed
  /\ gc' = [gc EXCEPT ![g] =
       [CollectorIdle EXCEPT
          !.pc = IF d.st = "pending" THEN "mark" ELSE "erase",
          !.sid = d.sid, !.sz = d.sz, !.at = d.at,
          !.found = IF d.st = "pending" THEN Extents(d.sid) ELSE {}]]
  /\ UNCHANGED <<chunk, blocks, ledger, nextId, lock, wr, tr, cp, history>>

\* MULTI: LREM of the entry found in the list, INCR, and st = meta_deleted
GcMark(g) ==
  LET gone == {e \in slices : /\ e.id = gc[g].sid
                              /\ [off |-> e.off, len |-> e.len] \in gc[g].found}
      Same(d) == d.sid = gc[g].sid /\ d.at = gc[g].at
  IN  /\ gc[g].pc = "mark"
      /\ slices' = slices \ gone
      /\ version' = IF gc[g].found = {} THEN version ELSE version + 1
      /\ delayed' = {IF Same(d) THEN [d EXCEPT !.st = "meta_deleted"] ELSE d : d \in delayed}
      /\ gc' = [gc EXCEPT ![g] = [@ EXCEPT !.pc = "erase", !.found = {}]]
      /\ UNCHANGED <<physical, blocks, uncommitted, nextId, lock, wr, tr, cp, history>>

\* delete_slice_blocks: all objects of the record, or a failure after some
GcErase(g, n) ==
  /\ gc[g].pc \in {"erase", "eraseorphan"} /\ n <= gc[g].sz
  /\ blocks' = DeleteBlocks(gc[g].sid, n)
  /\ gc' = [gc EXCEPT ![g] =
       IF n < gc[g].sz THEN CollectorIdle
       ELSE [@ EXCEPT !.pc = IF gc[g].pc = "erase" THEN "confirm" ELSE "forget"]]
  /\ UNCHANGED <<chunk, ledger, nextId, lock, wr, tr, cp, history>>

\* confirm_delayed_deleted
GcConfirm(g) ==
  /\ gc[g].pc = "confirm"
  /\ delayed' = {d \in delayed : ~(d.sid = gc[g].sid /\ d.at = gc[g].at)}
  /\ gc' = [gc EXCEPT ![g] = CollectorIdle]
  /\ UNCHANGED <<chunk, blocks, uncommitted, nextId, lock, wr, tr, cp, history>>

----------------------------------------------------------------------------
(* BlockStoreGC, uncommitted slices: GET version and LRANGE, then          *)
(* CLAIM_UNCOMMITTED_LUA; claimed and earlier orphans lose their blocks,   *)
(* then their record.                                                      *)
\* A bug to compare with: an orphan claimed in an earlier cycle is not listed.
GcInspectPending(g, s) ==
  /\ gc[g].pc = "idle" /\ Reserved(s)
  /\ gc' = [gc EXCEPT ![g] = [CollectorIdle EXCEPT !.pc = "orphanlist", !.sid = s,
                                !.sz = uncommitted[s].sz, !.rver = version]]
  /\ UNCHANGED <<chunk, blocks, ledger, nextId, lock, wr, tr, cp, history>>

GcInspect(g, s) ==
  /\ gc[g].pc = "idle"
  /\ uncommitted[s].st # "none"
  /\ gc' = [gc EXCEPT ![g] =
       [CollectorIdle EXCEPT
          !.pc = IF Reserved(s) THEN "orphanlist" ELSE "eraseorphan",
          !.sid = s, !.sz = uncommitted[s].sz,
          !.rver = IF Reserved(s) THEN version ELSE 0]]
  /\ UNCHANGED <<chunk, blocks, ledger, nextId, lock, wr, tr, cp, history>>

GcOrphanList(g) ==
  /\ gc[g].pc = "orphanlist"
  /\ gc' = [gc EXCEPT ![g] = [@ EXCEPT !.pc = "claim", !.found = Extents(gc[g].sid)]]
  /\ UNCHANGED <<chunk, blocks, ledger, nextId, lock, wr, tr, cp, history>>

GcClaim(g) ==
  LET s == gc[g].sid
      current == version = gc[g].rver /\ Reserved(s)
  IN  /\ gc[g].pc = "claim"
      /\ IF current /\ gc[g].found = {}
         THEN /\ uncommitted' = [uncommitted EXCEPT ![s].st = "orphan"]
              /\ gc' = [gc EXCEPT ![g] = [@ EXCEPT !.pc = "eraseorphan", !.rver = 0]]
         ELSE /\ uncommitted' = IF current THEN [uncommitted EXCEPT ![s] = NoRecord]
                                ELSE uncommitted
              /\ gc' = [gc EXCEPT ![g] = CollectorIdle]
      /\ UNCHANGED <<chunk, blocks, delayed, nextId, lock, wr, tr, cp, history>>

\* delete_uncommitted_slices
GcForget(g) ==
  /\ gc[g].pc = "forget"
  /\ uncommitted' = [uncommitted EXCEPT ![gc[g].sid] = NoRecord]
  /\ gc' = [gc EXCEPT ![g] = CollectorIdle]
  /\ UNCHANGED <<chunk, blocks, delayed, nextId, lock, wr, tr, cp, history>>

GcCrash(g) ==
  /\ gc[g].pc # "idle"
  /\ gc' = [gc EXCEPT ![g] = CollectorIdle]
  /\ UNCHANGED <<chunk, blocks, ledger, nextId, lock, wr, tr, cp, history>>

----------------------------------------------------------------------------
WriterNext(w) ==
  \/ \E off \in Units, len \in 1 .. ChunkLen : WriterUpload(w, off, len)
  \/ WriterCommit(w)
  \/ WriterFail(w)

TruncaterNext(t) ==
  \/ \E cutoff \in Units : TruncateStart(t, cutoff)
  \/ TruncateList(t) \/ TruncateCas(t) \/ TruncateRetry(t)

CompactorNext(c) ==
  \/ CompactScan(c) \/ TryLock(c) \/ Snapshot(c) \/ Unlock(c)
  \/ LightVersion(c) \/ LightList(c) \/ LightCas(c) \/ LightRetry(c) \/ Resnapshot(c)
  \/ HeavyMerge(c) \/ HeavyUpload(c) \/ HeavyVersion(c) \/ HeavyList(c)
  \/ HeavyCas(c) \/ HeavyRefused(c) \/ HeavyConfirm(c)
  \/ \E n \in 0 .. ChunkLen : HeavyCleanup(c, n)
  \/ CompactError(c) \/ CompactCrash(c)

CollectorNext(g) ==
  \/ \E d \in delayed : GcPick(g, d)
  \/ GcMark(g) \/ GcConfirm(g)
  \/ \E n \in 0 .. ChunkLen : GcErase(g, n)
  \/ \E s \in SliceIds : GcInspect(g, s)
  \/ GcOrphanList(g) \/ GcClaim(g) \/ GcForget(g) \/ GcCrash(g)

Next ==
  \/ \E w \in Writers : WriterNext(w)
  \/ \E t \in Truncaters : TruncaterNext(t)
  \/ \E c \in Compactors : CompactorNext(c)
  \/ \E g \in Collectors : CollectorNext(g)
  \/ LockExpire

Spec == Init /\ [][Next]_vars

----------------------------------------------------------------------------
(* Properties *)

Extent == [off : Units, len : 1 .. ChunkLen]
DelayedRecord == [sid : SliceIds, sz : Nat, st : {"pending", "meta_deleted"}, at : Nat]

WriterState == {s \in [pc : {"idle", "uploaded"}, id : SliceIds \cup {None},
                       off : Units, len : 0 .. ChunkLen] :
                  s.pc = "uploaded" => s.len > 0 /\ End(s) <= ChunkLen}
TruncaterState == [pc : {"idle", "list", "cas"}, cutoff : Units, rver : Nat,
                   rlist : SUBSET SliceDesc]
CompactorState == [pc : Working \cup {"idle", "scanned", "cleanup", "unlock"},
                   snap : SUBSET SliceDesc, id : SliceIds \cup {None},
                   buf : [Units -> Values \cup {Absent}], rver : Nat,
                   rlist : SUBSET SliceDesc]
CollectorState == [pc : {"idle", "mark", "erase", "confirm", "orphanlist", "claim",
                         "eraseorphan", "forget"},
                   sid : SliceIds \cup {None}, sz : Nat, at : Nat, rver : Nat,
                   found : SUBSET Extent]

\* Every variable keeps the shape the stored keys and the local state have.
TypeOK ==
  /\ slices \subseteq SliceDesc
  /\ version \in Nat
  /\ physical \in [SliceIds -> Nat]
  /\ blocks \in [SliceIds -> [Units -> Values \cup {Absent}]]
  /\ delayed \subseteq DelayedRecord
  /\ uncommitted \in [SliceIds -> [st : {"none", "pending", "orphan"}, sz : Nat]]
  /\ nextId \in 1 .. MaxSlices + 1
  /\ lock \in [owner : Compactors \cup {Nobody}, expired : BOOLEAN]
  /\ wr \in [Writers -> WriterState]
  /\ tr \in [Truncaters -> TruncaterState]
  /\ cp \in [Compactors -> CompactorState]
  /\ gc \in [Collectors -> CollectorState]
  /\ abandoned \subseteq SliceIds
  /\ committed \subseteq SliceIds

\* No published slice ever loses a block: whatever a compactor condemns, a
\* collector claims or an owner cleans up is out of the list, and stays out,
\* before its objects are deleted (compactor.rs cleanup, gc.rs delete_slice_blocks).
NoDanglingSlice == Readable(slices)

\* A slice the list names is on no collector's ledger: not delayed, and not
\* claimed as an orphan (CHUNK_COMPACT_LUA's require_pending, CLAIM_UNCOMMITTED_LUA).
LiveNotCondemned ==
  \A s \in Ids(slices) :
    /\ \A d \in delayed : d.sid # s
    /\ uncommitted[s].st = "none"

\* Every object in the store is owned: by a slice of the list (counting what a
\* truncation trimmed off it), by a ledger record that will delete it, or by a
\* process still working on it, or its owner stopped without a record.
NoLeakedBlock ==
  \A s \in SliceIds : \A u \in Units : blocks[s][u] # Absent =>
    \/ s \in abandoned
    \/ \E w \in Writers : wr[w].id = s
    \/ \E c \in Compactors : cp[c].id = s
    \/ \E e \in slices : e.id = s /\ u < Larger(e.len, physical[s])
    \/ \E d \in delayed : d.sid = s /\ u < d.sz
    \/ uncommitted[s].st # "none" /\ u < uncommitted[s].sz

\* Whoever changes the list moves the version forward, so that a
\* compare-and-swap on the version is a compare-and-swap on the list.
VersionTracksList == [][slices' # slices => version' > version]_vars

\* Readers see the content that the writes and truncations alone produce:
\* removing covered slices, merging slices, and deleting blocks change nothing
\* visible, and no concurrent append is lost (reader.rs visible_reads).
Content == INSTANCE ChunkContent WITH
  Len <- ChunkLen, Writes <- SliceIds,
  content <- Visible(slices, blocks), applied <- committed

ContentSpec == Content!Spec

\* Whatever is condemned goes: once a slice is on the delayed ledger, its
\* objects, those a truncation trimmed off it included, and its records are
\* eventually deleted, though deletions fail half-way and collectors restart
\* between marking and deleting (gc.rs run_gc_cycle).
DelayedReclaimed ==
  \A s \in SliceIds :
    (\E d \in delayed : d.sid = s)
      ~> (blocks[s] = NoBlocks /\ \A d \in delayed : d.sid # s)

\* No reservation stays on the uncommitted ledger: its compactor publishes it,
\* or a collector claims it and deletes it, even when the node that claimed it
\* died before it was done (cleanup_orphan_uncommitted_slices).
ReservationsSettle ==
  \A s \in SliceIds : uncommitted[s].st # "none" ~> uncommitted[s].st = "none"
=============================================================================
