------------------------------ MODULE ReadPath ------------------------------
(* What a read of an open file returns: the slice list of a chunk lives in   *)
(* the metadata store, in the inode cache of the client, and in the          *)
(* chunk_slices map of each handle's FileReader, while writes not yet        *)
(* committed are laid over the data from the writer's dirty slices.          *)
(*                                                                           *)
(* One inode and one chunk; every write covers the bytes that are looked at, *)
(* so of a list only its last slice matters.  A truncation cuts them off and  *)
(* later growth, elsewhere in the chunk, brings them back as a hole.  Writes *)
(* and truncations are numbered in the order they happen, and content is the *)
(* number of the event that made it.                                         *)
EXTENDS Naturals, Sequences

CONSTANTS Handles,      \* open handles, each with one reading task
          Probers,      \* tasks that call get_slices outside the gate
          MaxEvents,    \* writes, truncations and writes of another client
          NoEntry

ASSUME ReadPathAssumption ==
    /\ MaxEvents \in Nat /\ Handles \cap Probers = {}
    /\ NoEntry \notin Nat

Readers == Handles \cup Probers
Events  == 0..MaxEvents

VARIABLES list,         \* the store's list: its last event, and the event that emptied it
          version,      \* the store's chunk version
          node,         \* is the inode in the client's cache?
          cached,       \* CachedSlices: version, last event, due for a recheck; or NoEntry
          chunk_slices, \* [Handles -> last event of the list kept, or NoEntry]
          dirty,        \* the writer's uncommitted slices
          committer,    \* step of commit_chunk
          writing,      \* a write has still to invalidate the readers
          truncater,    \* step of truncate_inode; it holds the gates unless idle
          pc, got,      \* [Readers -> step], [Readers -> what it holds]
          asked,        \* [Readers -> the cached version under recheck]
          partial,      \* [Handles -> dirty data cannot cover the whole read]
          snapshot,     \* [Handles -> dirty data copied before the read]
          seenAt, cutAt,    \* the client's last write, and truncation, when the read began
          done,         \* the events so far, and the last write among them by this client
          overtaken     \* a list was kept, or appended to, after what it says had changed

vars == <<list, version, node, cached, chunk_slices, dirty, committer, writing,
          truncater, pc, got, asked, partial, snapshot, seenAt, cutAt, done, overtaken>>

store   == <<list, version>>
client  == <<node, cached>>
writer  == <<dirty, committer, writing, truncater, done, overtaken>>
reading == <<pc, got, asked, partial, snapshot, seenAt, cutAt>>

InGate == {"chunk", "lookup", "check", "touch", "drop", "reget", "fetch", "insert", "return", "blocks"}

TypeOK ==
    /\ list \in [top : Events, base : Events]
    /\ version \in Nat /\ node \in BOOLEAN
    /\ cached \in [version : Nat, top : Events, due : BOOLEAN] \cup {NoEntry}
    /\ cached # NoEntry => node
    /\ chunk_slices \in [Handles -> Events \cup {NoEntry}]
    /\ dirty \in Seq(Events)
    /\ committer \in {"idle", "stored", "appended", "invalidated"}
    /\ writing \in BOOLEAN
    /\ truncater \in {"idle", "locked", "stored", "uncached"}
    /\ pc \in [Readers -> InGate \cup {"idle", "probe", "snap", "enter", "patch", "done"}]
    /\ got \in [Readers -> Events]
    /\ asked \in [Readers -> Nat]
    /\ partial \in [Handles -> BOOLEAN]
    /\ snapshot \in [Handles -> Events \cup {NoEntry}]
    /\ seenAt \in [Handles -> Events] /\ cutAt \in [Handles -> Events]
    /\ done \in [events : Events, mine : Events] /\ overtaken \in BOOLEAN

Init ==
    /\ list = [top |-> 0, base |-> 0] /\ version = 0
    /\ node = TRUE /\ cached = NoEntry
    /\ chunk_slices = [h \in Handles |-> NoEntry]
    /\ dirty = <<>> /\ committer = "idle" /\ writing = FALSE /\ truncater = "idle"
    /\ pc = [r \in Readers |-> "idle"] /\ got = [r \in Readers |-> 0]
    /\ asked = [r \in Readers |-> 0]
    /\ partial = [h \in Handles |-> FALSE]
    /\ snapshot = [h \in Handles |-> NoEntry]
    /\ seenAt = [h \in Handles |-> 0] /\ cutAt = [h \in Handles |-> 0]
    /\ done = [events |-> 0, mine |-> 0] /\ overtaken = FALSE

Event == done.events + 1
Count == [done EXCEPT !.events = Event]
Room  == done.events + (IF truncater = "locked" THEN 1 ELSE 0) < MaxEvents
Newest(s) == s[Len(s)]

Goto(r, label) == pc' = [pc EXCEPT ![r] = label]
Hold(r, event) == got' = [got EXCEPT ![r] = event]
ForgetChunks == chunk_slices' = [h \in Handles |-> NoEntry]

-----------------------------------------------------------------------------
(* Writers: the VFS write, commit_chunk, truncate_inode, another client.     *)

\* The write is in a dirty slice; the readers are invalidated after it.
Write ==
    /\ truncater = "idle" /\ ~writing /\ Room
    /\ dirty' = Append(dirty, Event)
    /\ writing' = TRUE
    /\ done' = [events |-> Event, mine |-> Event]
    /\ UNCHANGED <<store, client, chunk_slices, committer, truncater, reading, overtaken>>

WriteInvalidate ==
    /\ writing
    /\ writing' = FALSE /\ ForgetChunks
    /\ UNCHANGED <<store, client, dirty, committer, truncater, done, overtaken, reading>>

\* The store appends the oldest dirty slice and raises the version.
CommitStore ==
    /\ committer = "idle" /\ dirty # <<>>
    /\ list' = [list EXCEPT !.top = Head(dirty)] /\ version' = version + 1
    /\ committer' = "stored"
    /\ UNCHANGED <<client, chunk_slices, dirty, writing, truncater, done, overtaken, reading>>

\* InodeCache::append_slice: only to a list that is cached; its version stays.
CommitAppend ==
    /\ committer = "stored"
    /\ cached' = IF cached = NoEntry THEN NoEntry ELSE [cached EXCEPT !.top = Head(dirty)]
    /\ committer' = "appended"
    /\ overtaken' = (overtaken \/ list.top # Head(dirty) \/ \E r \in Readers : pc[r] = "insert")
    /\ UNCHANGED <<store, node, chunk_slices, dirty, writing, truncater, done, reading>>

CommitInvalidate ==
    /\ committer = "appended"
    /\ ForgetChunks
    /\ committer' = "invalidated"
    /\ overtaken' = (overtaken \/ \E h \in Handles : pc[h] \in {"insert", "return"})
    /\ UNCHANGED <<store, client, dirty, writing, truncater, done, reading>>

\* mark_committed: the uploaded slice is no longer laid over reads.
CommitMark ==
    /\ committer = "invalidated"
    /\ dirty' = Tail(dirty)
    /\ committer' = "idle"
    /\ UNCHANGED <<store, client, chunk_slices, writing, truncater, done, overtaken, reading>>

\* The gates of all handles are held and the dirty data is flushed.
TruncateLock ==
    /\ truncater = "idle" /\ dirty = <<>> /\ committer = "idle"
    /\ \A h \in Handles : pc[h] \notin InGate
    /\ Room
    /\ truncater' = "locked"
    /\ UNCHANGED <<store, client, chunk_slices, dirty, committer, writing, done, overtaken, reading>>

\* A mutant prunes the list and leaves the version alone.
TruncateStoreSameVersion ==
    /\ truncater = "locked"
    /\ done' = Count
    /\ list' = IF list.top = list.base THEN list ELSE [top |-> Event, base |-> Event]
    /\ truncater' = "stored"
    /\ UNCHANGED <<version, client, chunk_slices, dirty, committer, writing, overtaken, reading>>

\* The store prunes the list, if it holds a slice.
TruncateStore ==
    /\ truncater = "locked"
    /\ done' = Count
    /\ IF list.top = list.base
       THEN UNCHANGED store
       ELSE list' = [top |-> Event, base |-> Event] /\ version' = version + 1
    /\ truncater' = "stored"
    /\ UNCHANGED <<client, chunk_slices, dirty, committer, writing, overtaken, reading>>

\* MetaClient::truncate drops the inode from the cache.
TruncateUncache ==
    /\ truncater = "stored"
    /\ node' = FALSE /\ cached' = NoEntry
    /\ truncater' = "uncached"
    /\ overtaken' = (overtaken \/ \E p \in Probers : pc[p] = "insert")
    /\ UNCHANGED <<store, chunk_slices, dirty, committer, writing, done, reading>>

\* invalidate_all, and the gates are released.
TruncateReturn ==
    /\ truncater = "uncached"
    /\ ForgetChunks
    /\ truncater' = "idle"
    /\ UNCHANGED <<store, client, dirty, committer, writing, done, overtaken, reading>>

\* Another client commits a slice.
RemoteWrite ==
    /\ Room
    /\ list' = [list EXCEPT !.top = Event] /\ version' = version + 1
    /\ done' = Count
    /\ UNCHANGED <<client, chunk_slices, dirty, committer, writing, overtaken, truncater, reading>>

-----------------------------------------------------------------------------
(* The client's inode cache: time, eviction, and a fresh stat.               *)

\* slice_version_check_interval passes since validated_at.
Expire ==
    /\ cached # NoEntry /\ ~cached.due
    /\ cached' = [cached EXCEPT !.due = TRUE]
    /\ UNCHANGED <<store, node, chunk_slices, writer, reading>>

Evict ==
    /\ node
    /\ node' = FALSE /\ cached' = NoEntry
    /\ UNCHANGED <<store, chunk_slices, writer, reading>>

\* stat_fresh clears the lists of a cached node, or inserts the node.
FreshStat ==
    /\ ~node \/ cached # NoEntry
    /\ node' = TRUE /\ cached' = NoEntry
    /\ UNCHANGED <<store, chunk_slices, writer, reading>>

-----------------------------------------------------------------------------
(* MetaClient::get_slices, one step between two awaits.                      *)

Reading(r, from, to) == pc[r] = from /\ Goto(r, to)
OnlyReads == UNCHANGED <<store, chunk_slices, writer, partial, snapshot, seenAt, cutAt>>

Lookup(r) ==
    /\ \/ cached = NoEntry /\ Reading(r, "lookup", "fetch") /\ UNCHANGED asked
       \/ /\ cached # NoEntry
          /\ Reading(r, "lookup", IF cached.due THEN "check" ELSE "reget")
          /\ asked' = [asked EXCEPT ![r] = cached.version]
    /\ UNCHANGED <<got, client>> /\ OnlyReads

Check(r) ==
    /\ Reading(r, "check", IF version = asked[r] THEN "touch" ELSE "drop")
    /\ UNCHANGED <<got, asked, client>> /\ OnlyReads

\* The recheck still speaks of the entry in the cache.
Same(r) == cached # NoEntry /\ cached.version = asked[r]

\* A mutant takes any answer for a confirmation.
SettleTouches(r) ==
    /\ pc[r] \in {"touch", "drop"} /\ Goto(r, "reget")
    /\ cached' = IF Same(r) THEN [cached EXCEPT !.due = FALSE] ELSE cached
    /\ UNCHANGED <<got, asked, node>> /\ OnlyReads

\* touch_slices_validation, invalidate_slices_if_version.
Settle(r) ==
    /\ \/ /\ Reading(r, "touch", "reget")
          /\ cached' = IF Same(r) THEN [cached EXCEPT !.due = FALSE] ELSE cached
       \/ /\ Reading(r, "drop", "reget")
          /\ cached' = IF Same(r) THEN NoEntry ELSE cached
    /\ UNCHANGED <<got, asked, node>> /\ OnlyReads

Reget(r) ==
    /\ \/ cached = NoEntry /\ Reading(r, "reget", "fetch") /\ UNCHANGED got
       \/ cached # NoEntry /\ Reading(r, "reget", "return") /\ Hold(r, cached.top)
    /\ UNCHANGED <<asked, client>> /\ OnlyReads

\* get_slices_with_version reads list and version in one transaction.
Fetch(r) ==
    /\ Reading(r, "fetch", "insert")
    /\ Hold(r, list.top)
    /\ asked' = [asked EXCEPT ![r] = version]
    /\ UNCHANGED client /\ OnlyReads

\* cache_slices_if_absent: a list that is there already wins.
Insert(r) ==
    /\ Reading(r, "insert", "return")
    /\ IF cached # NoEntry
       THEN Hold(r, cached.top) /\ UNCHANGED cached
       ELSE /\ cached' = IF node THEN [version |-> asked[r], top |-> got[r], due |-> FALSE]
                                 ELSE NoEntry
            /\ UNCHANGED got
    /\ UNCHANGED <<asked, node>> /\ OnlyReads

GetSlices(r) == Lookup(r) \/ Check(r) \/ Settle(r) \/ Reget(r) \/ Fetch(r) \/ Insert(r)

-----------------------------------------------------------------------------
(* A read through a handle (read_handle_inner), and a prober's call.         *)

StartRead(h) ==
    /\ Reading(h, "idle", "probe")
    /\ \E b \in BOOLEAN : partial' = [partial EXCEPT ![h] = b]
    /\ seenAt' = [seenAt EXCEPT ![h] = done.mine]
    /\ cutAt' = [cutAt EXCEPT ![h] = list.base]
    /\ UNCHANGED <<store, client, chunk_slices, writer, got, asked, snapshot>>

\* try_read_overlay, under the gate: dirty data that covers the whole read.
Probe(h) ==
    /\ truncater = "idle"
    /\ IF dirty # <<>> /\ ~partial[h]
       THEN Reading(h, "probe", "done") /\ Hold(h, Newest(dirty))
       ELSE Reading(h, "probe", "snap") /\ UNCHANGED got
    /\ UNCHANGED <<client, asked>> /\ OnlyReads

\* A mutant reads without the copy.
SnapshotNothing(h) ==
    /\ Reading(h, "snap", "enter")
    /\ UNCHANGED <<store, client, chunk_slices, writer, got, asked, partial, snapshot, seenAt, cutAt>>

SnapshotDirty(h) ==
    /\ Reading(h, "snap", "enter")
    /\ snapshot' = [snapshot EXCEPT ![h] = IF dirty # <<>> THEN Newest(dirty) ELSE NoEntry]
    /\ UNCHANGED <<store, client, chunk_slices, writer, got, asked, partial, seenAt, cutAt>>

EnterGate(h) ==
    /\ truncater = "idle"
    /\ Reading(h, "enter", "chunk")
    /\ UNCHANGED <<got, asked, client>> /\ OnlyReads

\* read_chunk_span_into: the list kept by the handle, or get_slices.
ChunkHit(h) ==
    /\ IF chunk_slices[h] # NoEntry
       THEN Reading(h, "chunk", "blocks") /\ Hold(h, chunk_slices[h])
       ELSE Reading(h, "chunk", "lookup") /\ UNCHANGED got
    /\ UNCHANGED <<asked, client>> /\ OnlyReads

KeepChunk(h) ==
    /\ Reading(h, "return", "blocks")
    /\ chunk_slices' = [chunk_slices EXCEPT ![h] = got[h]]
    /\ UNCHANGED <<store, client, writer, got, asked, partial, snapshot, seenAt, cutAt>>

\* A transient error drops both lists and the read starts over.
BlocksFail(h) ==
    /\ Reading(h, "blocks", "chunk")
    /\ chunk_slices' = [chunk_slices EXCEPT ![h] = NoEntry]
    /\ cached' = NoEntry
    /\ UNCHANGED <<store, node, writer, got, asked, partial, snapshot, seenAt, cutAt>>

BlocksRead(h) ==
    /\ Reading(h, "blocks", "patch")
    /\ UNCHANGED <<got, asked, client>> /\ OnlyReads

\* The copy goes over the data read, and the dirty slices of now over both.
Overlay(h) ==
    /\ Reading(h, "patch", "done")
    /\ Hold(h, IF dirty # <<>> THEN Newest(dirty)
               ELSE IF snapshot[h] # NoEntry THEN snapshot[h] ELSE got[h])
    /\ UNCHANGED <<asked, client>> /\ OnlyReads

StartProbe(p) ==
    /\ Reading(p, "idle", "lookup")
    /\ UNCHANGED <<got, asked, client>> /\ OnlyReads

EndProbe(p) ==
    /\ Reading(p, "return", "done")
    /\ UNCHANGED <<got, asked, client>> /\ OnlyReads

\* The call has returned; what it held is gone.
Again(r) ==
    /\ Reading(r, "done", "idle")
    /\ Hold(r, 0) /\ asked' = [asked EXCEPT ![r] = 0]
    /\ IF r \in Handles
       THEN /\ partial' = [partial EXCEPT ![r] = FALSE]
            /\ snapshot' = [snapshot EXCEPT ![r] = NoEntry]
            /\ seenAt' = [seenAt EXCEPT ![r] = 0] /\ cutAt' = [cutAt EXCEPT ![r] = 0]
       ELSE UNCHANGED <<partial, snapshot, seenAt, cutAt>>
    /\ UNCHANGED <<store, client, chunk_slices, writer>>

ReadStep(h) ==
    \/ GetSlices(h) \/ Probe(h) \/ SnapshotDirty(h) \/ EnterGate(h) \/ ChunkHit(h)
    \/ KeepChunk(h) \/ BlocksRead(h) \/ Overlay(h) \/ StartRead(h) \/ Again(h)

ProbeStep(p) == GetSlices(p) \/ StartProbe(p) \/ EndProbe(p) \/ Again(p)

WriterStep ==
    \/ Write \/ WriteInvalidate \/ CommitStore \/ CommitAppend \/ CommitInvalidate \/ CommitMark
    \/ TruncateLock \/ TruncateStore \/ TruncateUncache \/ TruncateReturn

\* Behaviours are not followed past the overtaking of a list.
Next ==
    /\ ~overtaken
    /\ \/ WriterStep \/ RemoteWrite \/ Expire \/ Evict \/ FreshStat
       \/ \E h \in Handles : ReadStep(h) \/ BlocksFail(h)
       \/ \E p \in Probers : ProbeStep(p)

Spec == Init /\ [][Next]_vars

-----------------------------------------------------------------------------
(* A read returns what this client had made visible when it started, or      *)
(* something newer: the dirty overlay, the copy taken before the read, and   *)
(* the invalidation before mark_committed leave no gap (read_handle_inner,   *)
(* commit_chunk).                                                            *)
ReadSeesAcked == \A h \in Handles : pc[h] = "done" => got[h] >= seenAt[h]

(* A read that starts after a truncation never returns data from before it,  *)
(* whatever the caches held (truncate_inode).                                *)
TruncateIsSeen == \A h \in Handles : pc[h] = "done" => got[h] >= cutAt[h]

(* When the version kept with a cached list is the store's version, the list *)
(* is the store's list: a recheck that succeeds may be trusted (get_slices,  *)
(* append_slice).                                                            *)
VersionMeansCurrent ==
    ~overtaken /\ cached # NoEntry /\ cached.version = version => cached.top = list.top

(* Once the writes have stopped, a task that keeps calling get_slices gets   *)
(* the store's list again and again: no stale list outlives the recheck      *)
(* interval (get_slices, invalidate_slices_if_version).                      *)
EventuallyCurrent ==
    \A p \in Probers : []<>(overtaken \/ (pc[p] = "done" /\ got[p] = list.top))

(* A read never returns less than was visible, or older than the truncation  *)
(* that had returned, when it started.                                       *)
ReadsFresh == ReadSeesAcked /\ TruncateIsSeen

(* A cached list may be trusted for as long as its version is current.       *)
VersionsTrusted == TypeOK /\ VersionMeansCurrent
=============================================================================
