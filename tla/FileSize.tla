------------------------------ MODULE FileSize ------------------------------
(***************************************************************************)
(* The size of one open file: the size in the inode record in Redis, the  *)
(* bytes its chunk lists hold, the store's cache of the record, and the   *)
(* size and the buffered writes of the one process that has it open.      *)
(*                                                                         *)
(* The tasks of the process run concurrently.  A write takes the inode's  *)
(* mutation lock and leaves its bytes in the writer; a commit of the       *)
(* writer appends the slice and raises the size in one script; truncate,   *)
(* chmod (any attribute change without a size) and flush read the record,  *)
(* maybe from the cache, and write it back later.  Slices are the bytes    *)
(* they cover: which data they hold is the business of ChunkSlices.        *)
(***************************************************************************)
EXTENDS Integers, FiniteSets

CONSTANTS
    Tasks,      \* concurrent requests of the process
    Calls,      \* the kinds of request they make
    ChunkSize,  \* bytes per chunk
    MaxSize,    \* bound: no file is longer
    Writes,     \* the ranges <<first, end>> written, each within a chunk
    GoOn        \* bound: whether behaviours go on after a stale record was kept

ASSUME FileSizeAssumption ==
    /\ ChunkSize \in Nat \ {0}
    /\ MaxSize \in Nat \ {0}
    /\ GoOn \in BOOLEAN
    /\ "nobody" \notin Tasks
    /\ Calls \subseteq {"write", "zero", "fallocate", "truncate", "flush", "chmod", "stat"}
    /\ \A w \in Writes : w[1] \in Nat /\ w[2] \in 1..MaxSize /\ w[1] < w[2]

VARIABLES
    size,     \* attr.size of the record
    data,     \* the bytes covered by slices of the chunk lists
    cache,    \* the size in the store's node cache, or NoEntry
    local,    \* visible_size of the inode
    pend,     \* slices of the writer: <<first, end, state>>
    dirty,    \* the dirty flags of the handles
    holder,   \* who holds the mutation lock of the inode
    attrLock, \* who holds the attribute lock of the metadata client
    task,     \* what each task is doing
    kept,     \* history: bytes written and not cut off since
    promised, \* history: the end of the data a flush that returned made durable
    stale     \* history: an old size was put in the cache, or over a newer one
vars == <<size, data, cache, local, pend, dirty, holder, attrLock, task, kept, promised, stale>>

NoEntry == -1
Nobody == "nobody"
Sizes == 0..MaxSize
Bytes == 0..MaxSize - 1
Span(a, b) == a..b - 1
Idle == [op |-> "none", pc |-> "idle", arg |-> 0, read |-> 0, base |-> 0]
Steps == {"idle", "drain", "lock", "redrain", "get", "fill", "chunk", "invalidate",
          "save", "insert", "finish", "mark", "capture", "script", "extend"}
SliceStates == {"buffered", "sent"}
PendingBytes == UNION {Span(s[1], s[2]) : s \in pend}

(* One type invariant: sizes stay within the bound and every task is at a   *)
(* step of one of its calls.                                                *)
TypeOK ==
    /\ size \in Sizes /\ local \in Sizes /\ promised \in Sizes
    /\ cache \in Sizes \cup {NoEntry}
    /\ data \subseteq Bytes /\ kept \subseteq Bytes
    /\ pend \subseteq {<<w[1], w[2], st>> : w \in Writes, st \in SliceStates}
    /\ dirty \subseteq {"data", "timestamp"}
    /\ stale \in BOOLEAN
    /\ holder \in Tasks \cup {Nobody} /\ attrLock \in Tasks \cup {Nobody}
    /\ task \in [Tasks -> [op : Calls \cup {"none"}, pc : Steps, arg : Sizes, read : Sizes, base : Sizes]]

Init ==
    /\ size = 0 /\ local = 0 /\ promised = 0 /\ cache = NoEntry
    /\ data = {} /\ kept = {} /\ pend = {} /\ dirty = {}
    /\ holder = Nobody /\ attrLock = Nobody /\ stale = FALSE
    /\ task = [t \in Tasks |-> Idle]

MaxOf(a, b) == IF a < b THEN b ELSE a
At(t, op, pc) == task[t].op = op /\ task[t].pc = pc
Starts(t, op) == op \in Calls /\ task[t] = Idle
Goto(t, pc) == task' = [task EXCEPT ![t].pc = pc]
Becomes(t, op, pc, arg) == task' = [task EXCEPT ![t] = [Idle EXCEPT !.op = op, !.pc = pc, !.arg = arg]]
Done(t) == task' = [task EXCEPT ![t] = Idle]
-----------------------------------------------------------------------------
(* Writes and their commits.                                                *)

(* write and the writer's write_at: under the mutation lock the bytes are   *)
(* buffered, which is when a commit may already take them.                  *)
WriteBuffer(t, w) ==
    /\ Starts(t, "write") /\ holder = Nobody
    /\ holder' = t
    /\ pend' = pend \cup {<<w[1], w[2], "buffered">>}
    /\ kept' = kept \cup Span(w[1], w[2])
    /\ task' = [task EXCEPT ![t] = [Idle EXCEPT !.op = "write", !.pc = "mark", !.arg = w[2], !.base = local]]
    /\ UNCHANGED <<size, data, cache, local, dirty, attrLock, promised>>

(* Then the local size grows and the handle is marked dirty; only a write   *)
(* within the file makes the next flush update the timestamps.              *)
WriteMark(t) ==
    /\ At(t, "write", "mark")
    /\ dirty' = dirty \cup {"data"} \cup (IF task[t].arg > task[t].base THEN {} ELSE {"timestamp"})
    /\ local' = MaxOf(local, task[t].arg)
    /\ holder' = Nobody
    /\ Done(t)
    /\ UNCHANGED <<size, data, cache, pend, attrLock, kept, promised>>

(* try_sparse_zero_extend: zeros at the end of a file with nothing buffered *)
(* only move the end, in the record by EXTEND_FILE_SIZE_LUA.                *)
ZeroExtend(t, n) ==
    /\ Starts(t, "zero") /\ holder = Nobody
    /\ pend = {} /\ n > local
    /\ size' = MaxOf(size, n)
    /\ cache' = NoEntry
    /\ local' = n
    /\ dirty' = dirty \cup {"data"}
    /\ UNCHANGED <<data, pend, holder, attrLock, task, kept, promised>>

(* A bug to compare with: the size of the writer's last slice, not the      *)
(* larger of the two.                                                       *)
LastWriterSize(n) == n

(* WRITE_SLICE_LUA's size.                                                  *)
CommittedSize(n) == MaxOf(size, n)

(* WRITE_SLICE_LUA: the slice enters its list and the size grows.           *)
CommitScript(s) ==
    /\ s \in pend /\ s[3] = "buffered"
    /\ data' = data \cup Span(s[1], s[2])
    /\ size' = CommittedSize(s[2])
    /\ pend' = (pend \ {s}) \cup {<<s[1], s[2], "sent">>}
    /\ UNCHANGED <<cache, local, dirty, holder, attrLock, task, kept, promised>>

(* The reply: the cached record is dropped and the slice is committed.      *)
CommitDone(s) ==
    /\ s \in pend /\ s[3] = "sent"
    /\ cache' = NoEntry
    /\ pend' = pend \ {s}
    /\ UNCHANGED <<size, data, local, dirty, holder, attrLock, task, kept, promised>>
-----------------------------------------------------------------------------
(* fallocate: a script raises the size, its record is put in the cache and  *)
(* then the local size follows.  It runs under the lock of its handle, which *)
(* truncate takes too, and not under the mutation lock.                      *)

Falloc(t) == task[t].op = "fallocate"
Truncating == holder # Nobody /\ task[holder].op = "truncate"

FallocateScript(t, n) ==
    /\ Starts(t, "fallocate") /\ ~Truncating
    /\ size' = MaxOf(size, n)
    /\ Becomes(t, "fallocate", "insert", size')
    /\ UNCHANGED <<data, cache, local, pend, dirty, holder, attrLock, kept, promised>>

FallocateInsert(t) ==
    /\ At(t, "fallocate", "insert")
    /\ cache' = task[t].arg
    /\ Goto(t, "extend")
    /\ UNCHANGED <<size, data, local, pend, dirty, holder, attrLock, kept, promised>>

FallocateExtend(t) ==
    /\ At(t, "fallocate", "extend")
    /\ local' = MaxOf(local, task[t].arg)
    /\ Done(t)
    /\ UNCHANGED <<size, data, cache, pend, dirty, holder, attrLock, kept, promised>>
-----------------------------------------------------------------------------
(* Reading the record.                                                      *)

AfterGet(op) == CASE op = "truncate" -> "chunk" [] op = "stat" -> "finish" [] OTHER -> "invalidate"

(* A truncate to n plans its chunks when it has the old size: it starts at  *)
(* the chunk that n cuts through, or at the first one after n.              *)
Got(t, old) ==
    task' = [task EXCEPT ![t].pc = AfterGet(task[t].op),
                         ![t].read = IF task[t].op = "truncate" \/ task[t].op = "chmod" THEN old ELSE 0,
                         ![t].base = task[t].arg \div ChunkSize]

(* get_node: the cached record, or a GET whose answer is cached afterwards. *)
GetNode(t) ==
    /\ task[t].pc = "get"
    /\ IF cache # NoEntry
       THEN Got(t, cache)
       ELSE task' = [task EXCEPT ![t].pc = "fill", ![t].read = size]
    /\ kept' = IF task[t].op = "truncate" THEN kept \cap Span(0, task[t].arg) ELSE kept
    /\ UNCHANGED <<size, data, cache, local, pend, dirty, holder, attrLock, promised>>

GetNodeFill(t) ==
    /\ task[t].pc = "fill"
    /\ cache' = task[t].read
    /\ Got(t, task[t].read)
    /\ UNCHANGED <<size, data, local, pend, dirty, holder, attrLock, kept, promised>>

(* The entry of the cache expires 30 s after it was inserted.               *)
Expire ==
    /\ cache # NoEntry
    /\ cache' = NoEntry
    /\ UNCHANGED <<size, data, local, pend, dirty, holder, attrLock, task, kept, promised>>

Stat(t) ==
    \/ /\ Starts(t, "stat")
       /\ Becomes(t, "stat", "get", 0)
       /\ UNCHANGED <<size, data, cache, local, pend, dirty, holder, attrLock, kept, promised>>
    \/ /\ At(t, "stat", "finish")
       /\ Done(t)
       /\ UNCHANGED <<size, data, cache, local, pend, dirty, holder, attrLock, kept, promised>>
-----------------------------------------------------------------------------
(* truncate_inode, and set_attr with a size, up to the metadata store.      *)

TruncateStart(t, n) ==
    /\ Starts(t, "truncate")
    /\ Becomes(t, "truncate", "drain", n)
    /\ UNCHANGED <<size, data, cache, local, pend, dirty, holder, attrLock, kept, promised>>

(* A bug to compare with: what was written between the first flush and the  *)
(* lock is not flushed again.                                               *)
DrainedOnce(t) == task[t].pc = "redrain" \/ pend = {}

(* flush_before_truncate returns when the writer has nothing left.          *)
Drained(t) == pend = {}

(* The flush before the lock, which keeps the lock short...                 *)
TruncateDrain(t) ==
    /\ At(t, "truncate", "drain")
    /\ Drained(t)
    /\ Goto(t, "lock")
    /\ UNCHANGED <<size, data, cache, local, pend, dirty, holder, attrLock, kept, promised>>

(* ... the lock and the locks of the handles...                             *)
TruncateLock(t) ==
    /\ At(t, "truncate", "lock")
    /\ holder = Nobody /\ \A u \in Tasks : ~Falloc(u)
    /\ holder' = t
    /\ Goto(t, "redrain")
    /\ UNCHANGED <<size, data, cache, local, pend, dirty, attrLock, kept, promised>>

(* ... and the flush of what was written before the lock was taken.         *)
TruncateRedrain(t) ==
    /\ At(t, "truncate", "redrain")
    /\ Drained(t)
    /\ Goto(t, "get")
    /\ UNCHANGED <<size, data, cache, local, pend, dirty, holder, attrLock, kept, promised>>

(* A bug to compare with: a last chunk that is not full is not counted.     *)
FullChunks(old) == old \div ChunkSize

(* old_chunk_count of truncate_plan.                                        *)
ChunkCount(old) == old \div ChunkSize + (IF old % ChunkSize = 0 THEN 0 ELSE 1)

(* The bytes rewrite_trimmed_slices takes out of the chunk the plan is at:  *)
(* the ones behind the cut in the first, all of them in the others.         *)
Trimmed(t) == {b \in Bytes : b \div ChunkSize = task[t].base /\ b >= task[t].arg}

(* prune_slices_for_truncate, one chunk at a time.                          *)
TruncateChunk(t) ==
    /\ At(t, "truncate", "chunk")
    /\ IF task[t].arg < task[t].read /\ task[t].base < ChunkCount(task[t].read)
       THEN /\ data' = data \ Trimmed(t)
            /\ task' = [task EXCEPT ![t].base = @ + 1]
       ELSE /\ task' = [task EXCEPT ![t].pc = "save", ![t].read = 0, ![t].base = 0]
            /\ UNCHANGED data
    /\ UNCHANGED <<size, cache, local, pend, dirty, holder, attrLock, kept, promised>>

(* What the process does when the store has returned: the writer forgets    *)
(* whatever it still holds and the local size is the new one.               *)
TruncateFinish(t) ==
    /\ At(t, "truncate", "finish")
    /\ pend' = {}
    /\ local' = task[t].arg
    /\ promised' = 0
    /\ holder' = Nobody
    /\ Done(t)
    /\ UNCHANGED <<size, data, cache, dirty, attrLock, kept>>

(* The flush times out or fails, or Redis does before the record is saved:  *)
(* the bytes that were not pruned yet are still the file's.                 *)
TruncateFail(t) ==
    /\ task[t].op = "truncate" /\ task[t].pc \in {"drain", "redrain", "get", "chunk", "save"}
    /\ holder' = IF holder = t THEN Nobody ELSE holder
    /\ kept' = IF holder = t THEN kept \cup data ELSE kept
    /\ Done(t)
    /\ UNCHANGED <<size, data, cache, local, pend, dirty, attrLock, promised>>
-----------------------------------------------------------------------------
(* set_attr of the store, reached by chmod and by the flush.                *)

Attr(t) == task[t].op \in {"chmod", "flush"}

(* MetaClient::set_attr holds the inode's attribute lock around the store's. *)
AttrLock(t) ==
    /\ Attr(t) /\ task[t].pc = "lock"
    /\ attrLock = Nobody
    /\ attrLock' = t
    /\ Goto(t, "get")
    /\ UNCHANGED <<size, data, cache, local, pend, dirty, holder, kept, promised>>

Invalidate(t) ==
    /\ task[t].pc = "invalidate"
    /\ cache' = NoEntry
    /\ task' = [task EXCEPT ![t].pc = "save", ![t].base = 0]
    /\ UNCHANGED <<size, data, local, pend, dirty, holder, attrLock, kept, promised>>

(* A bug to compare with: a truncate leaves the larger of the two sizes.    *)
LargerSize(t) == IF task[t].op = "chmod" THEN task[t].read ELSE MaxOf(size, task[t].arg)

(* The size the record gets: the one it had when it was read for chmod.     *)
NewSize(t) == IF task[t].op = "chmod" THEN task[t].read ELSE task[t].arg

(* save_node of set_attr and truncate: a plain SET of the whole record,     *)
(* then its insertion in the cache.                                         *)
SaveNode(t) ==
    /\ task[t].pc = "save"
    /\ size' = NewSize(t)
    /\ Goto(t, "insert")
    /\ UNCHANGED <<data, cache, local, pend, dirty, holder, attrLock, kept, promised>>

SaveInsert(t) ==
    /\ task[t].pc = "insert" /\ ~Falloc(t)
    /\ cache' = NewSize(t)
    /\ Goto(t, "finish")
    /\ UNCHANGED <<size, data, local, pend, dirty, holder, attrLock, kept, promised>>

(* set_attr without a size takes no lock of the VFS and flushes nothing.    *)
ChmodStart(t) ==
    /\ Starts(t, "chmod")
    /\ Becomes(t, "chmod", "lock", 0)
    /\ UNCHANGED <<size, data, cache, local, pend, dirty, holder, attrLock, kept, promised>>

ChmodFinish(t) ==
    /\ At(t, "chmod", "finish")
    /\ attrLock' = Nobody
    /\ Done(t)
    /\ UNCHANGED <<size, data, cache, local, pend, dirty, holder, kept, promised>>

(* flush and fsync take the dirty flags; has_pending is asked then, ...     *)
FlushStart(t) ==
    /\ Starts(t, "flush")
    /\ dirty' = {}
    /\ task' = [task EXCEPT ![t] =
          [Idle EXCEPT !.op = "flush", !.pc = "drain",
                       !.base = IF dirty = {} THEN (IF pend # {} THEN 1 ELSE 0)
                                ELSE IF "timestamp" \in dirty THEN 1 ELSE 0]]
    /\ UNCHANGED <<size, data, cache, local, pend, holder, attrLock, kept, promised>>

(* ... the writer is drained, and unless flush_needs_mtime_ctime_update the  *)
(* flush is over: the file's bytes are the ones it promised to make durable. *)
FlushDrain(t) ==
    /\ At(t, "flush", "drain")
    /\ pend = {}
    /\ IF task[t].base = 1
       THEN Goto(t, "capture") /\ UNCHANGED promised
       ELSE Done(t) /\ promised' = MaxOf(promised, local)
    /\ UNCHANGED <<size, data, cache, local, pend, dirty, holder, attrLock, kept>>

(* A failed flush has taken the dirty flags and keeps what is buffered.     *)
FlushFail(t) ==
    /\ At(t, "flush", "drain")
    /\ Done(t)
    /\ UNCHANGED <<size, data, cache, local, pend, dirty, holder, attrLock, kept, promised>>

(* update_mtime_ctime: the local size, read before any lock is taken, goes  *)
(* into the set_attr request.                                               *)
FlushCapture(t) ==
    /\ At(t, "flush", "capture")
    /\ task' = [task EXCEPT ![t].pc = "lock", ![t].arg = local, ![t].base = 0]
    /\ UNCHANGED <<size, data, cache, local, pend, dirty, holder, attrLock, kept, promised>>

FlushFinish(t) ==
    /\ At(t, "flush", "finish")
    /\ attrLock' = Nobody
    /\ promised' = MaxOf(promised, IF size < task[t].arg THEN size ELSE task[t].arg)
    /\ Done(t)
    /\ UNCHANGED <<size, data, cache, local, pend, dirty, holder, kept>>
-----------------------------------------------------------------------------
TaskStep(t) ==
    \/ \E w \in Writes : WriteBuffer(t, w)
    \/ WriteMark(t)
    \/ \E n \in Sizes : ZeroExtend(t, n) \/ FallocateScript(t, n) \/ TruncateStart(t, n)
    \/ FallocateInsert(t) \/ FallocateExtend(t)
    \/ GetNode(t) \/ GetNodeFill(t) \/ Stat(t)
    \/ TruncateDrain(t) \/ TruncateLock(t) \/ TruncateRedrain(t)
    \/ TruncateChunk(t) \/ TruncateFinish(t) \/ TruncateFail(t)
    \/ AttrLock(t) \/ Invalidate(t) \/ SaveNode(t) \/ SaveInsert(t)
    \/ ChmodStart(t) \/ ChmodFinish(t)
    \/ FlushStart(t) \/ FlushDrain(t) \/ FlushFail(t) \/ FlushCapture(t) \/ FlushFinish(t)

(* An old size gets into the cache, or into the record over a newer one.    *)
Staled ==
    \/ cache' \notin {NoEntry, cache, size'}
    \/ size' # size /\ \E t \in Tasks : Attr(t) /\ task[t].pc = "save" /\ task'[t] # task[t]

Next ==
    /\ stale => GoOn
    /\ \/ \E t \in Tasks : TaskStep(t)
       \/ \E s \in pend : CommitScript(s) \/ CommitDone(s)
       \/ Expire
    /\ stale' = (stale \/ Staled)

Spec == Init /\ [][Next]_vars
-----------------------------------------------------------------------------
(* Every byte an acknowledged write left, and that no truncate was asked to *)
(* cut off, is in the writer or in the chunk lists: the second flush of a   *)
(* truncate leaves nothing for writer.clear to throw away.                  *)
NoWriteLost == kept \subseteq PendingBytes \cup data

(* A byte cut off by a truncate that returned, and not written since, is in *)
(* no chunk list: extending the file again cannot bring it back.            *)
TruncatedGone == ~Truncating => data \subseteq kept

(* That holds as long as no stale record was cached or written back.        *)
TruncatedStaysGone == ~stale => TruncatedGone

(* While nothing is buffered or under way the record has the size the       *)
(* process shows, and the cached record no other, unless a stale one was    *)
(* kept before.                                                             *)
Quiet == pend = {} /\ \A t \in Tasks : task[t] = Idle
SizesAgree == ~stale /\ Quiet => size = local /\ cache \in {NoEntry, size}

NoTruncate == \A t \in Tasks : task[t].op # "truncate"

(* No chunk list holds a byte past the size of the record, except while a   *)
(* truncate has it half done.                                               *)
DataWithinSize == ~stale /\ NoTruncate => \A b \in data : b < size

(* The record never shows a file shorter than the data a flush that         *)
(* returned made durable, until a truncate cuts it or a record is written   *)
(* over a newer one.                                                        *)
FlushedStaysVisible == ~stale /\ NoTruncate => promised <= size

(* The sizes a process, its cache and the store show, and the chunk lists,  *)
(* agree whenever they are not being changed.                               *)
SizesConsistent == TypeOK /\ SizesAgree /\ DataWithinSize
=============================================================================
