--------------------------- MODULE ReadPathProofs ---------------------------
(* Proofs about ReadPath for any number of handles, probing tasks and events. *)
EXTENDS ReadPath, TLAPS

-----------------------------------------------------------------------------
(* The inductive invariant.  Behaviours end with the overtaking of a list,   *)
(* so what is said of lists in reach is said up to then.                     *)

\* Every list that a later read of the cache or the store can come across,
\* those about to be inserted included, is at least as new as m.
Reach(m) ==
    /\ list.top >= m
    /\ cached # NoEntry => cached.top >= m
    /\ \A r \in Readers : pc[r] = "insert" => got[r] >= m

\* And so is every list that a handle keeps, or is about to keep.
Kept(m) ==
    \A h \in Handles :
        /\ chunk_slices[h] # NoEntry => chunk_slices[h] >= m
        /\ pc[h] = "return" => got[h] >= m

\* The writer's queue holds this client's last writes, none of them cut off,
\* and is empty during a truncation, which has an event left for itself.
QueueOK ==
    /\ list.base <= list.top /\ list.top <= done.events /\ done.mine <= done.events
    /\ \A i \in 1 .. Len(dirty) : list.base < dirty[i] /\ dirty[i] <= done.mine
    /\ dirty # <<>> => dirty[Len(dirty)] = done.mine
    /\ committer # "idle" => dirty # <<>>
    /\ truncater # "idle" => dirty = <<>> /\ committer = "idle"
    /\ truncater = "locked" => done.events < MaxEvents

\* A commit brings first the store, then the cache, then the handles up to
\* its slice, before the slice leaves the queue.
CommitOrder ==
    /\ committer = "stored" => list.top >= dirty[1]
    /\ committer \in {"appended", "invalidated"} => Reach(dirty[1])
    /\ committer = "invalidated" => Kept(dirty[1])
    /\ dirty = <<>> => Reach(done.mine) /\ Kept(done.mine)

\* A truncation does the same while no handle reads.
TruncateOrder ==
    /\ truncater \in {"idle", "uncached"} => Reach(list.base)
    /\ truncater = "idle" => Kept(list.base) /\ \A h \in Handles : pc[h] = "blocks" => got[h] >= list.base
    /\ truncater # "idle" => \A h \in Handles : pc[h] \notin InGate

\* Between the copy of the dirty data and the end of a read.
Inside == InGate \cup {"enter", "patch"}

\* A read that found nothing to copy finds what it must see in every list.
CleanReads ==
    \A h \in Handles : pc[h] \in Inside /\ snapshot[h] = NoEntry =>
        /\ \A i \in 1 .. Len(dirty) : dirty[i] > seenAt[h]
        /\ Reach(seenAt[h])
        /\ chunk_slices[h] # NoEntry => chunk_slices[h] >= seenAt[h]
        /\ pc[h] \in {"return", "blocks", "patch"} => got[h] >= seenAt[h]

\* A read that copied dirty data has what it must see in the copy.
CopiedReads ==
    \A h \in Handles :
        /\ seenAt[h] <= done.mine /\ cutAt[h] <= list.base
        /\ pc[h] \in Inside /\ snapshot[h] # NoEntry =>
               snapshot[h] >= seenAt[h] /\ snapshot[h] >= cutAt[h]

PatchedReads == \A h \in Handles : pc[h] = "patch" => got[h] >= cutAt[h]

\* A list read together with a version is the store's for as long as the
\* version is.
VersionsOK ==
    /\ cached # NoEntry => cached.version <= version
    /\ \A r \in Readers : asked[r] <= version
    /\ \A r \in Readers : pc[r] = "insert" /\ asked[r] = version => got[r] = list.top

IInv ==
    /\ TypeOK /\ QueueOK /\ CopiedReads /\ VersionsOK /\ ReadsFresh /\ VersionMeansCurrent
    /\ ~overtaken => CommitOrder /\ TruncateOrder /\ CleanReads /\ PatchedReads

-----------------------------------------------------------------------------
(* Sequences, the queue, and the three kinds of steps a reader takes.        *)

LEMMA EmptySeq ==
  ASSUME NEW S, NEW q \in Seq(S)
  PROVE  q = <<>> <=> Len(q) = 0
  OBVIOUS

LEMMA QueueLemma ==
  ASSUME NEW S, NEW q \in Seq(S)
  PROVE  /\ Len(q) \in Nat
         /\ \A i \in 1 .. Len(q) : q[i] \in S
         /\ q # <<>> => Len(q) > 0 /\ Head(q) = q[1] /\ Head(q) \in S /\ q[Len(q)] \in S
         /\ q = <<>> => Len(q) = 0
  OBVIOUS

LEMMA AppendLemma ==
  ASSUME NEW S, NEW q \in Seq(S), NEW e \in S
  PROVE  /\ Append(q, e) \in Seq(S) /\ Append(q, e) # <<>>
         /\ Len(Append(q, e)) = Len(q) + 1
         /\ Append(q, e)[Len(q) + 1] = e
         /\ \A i \in 1 .. Len(q) : Append(q, e)[i] = q[i]
  OBVIOUS

LEMMA TailLemma ==
  ASSUME NEW S, NEW q \in Seq(S), q # <<>>
  PROVE  /\ Tail(q) \in Seq(S)
         /\ Len(Tail(q)) = Len(q) - 1
         /\ \A i \in 1 .. Len(q) - 1 : Tail(q)[i] = q[i + 1]
         /\ Tail(q) = <<>> <=> Len(q) = 1
  <1>1. Len(q) \in Nat /\ Len(q) > 0 OBVIOUS
  <1>2. Tail(q) \in Seq(S) /\ Len(Tail(q)) = Len(q) - 1 OBVIOUS
  <1>3. \A i \in 1 .. Len(q) - 1 : Tail(q)[i] = q[i + 1] OBVIOUS
  <1>4. Tail(q) = <<>> <=> Len(Tail(q)) = 0 BY <1>2, EmptySeq
  <1> QED BY <1>1, <1>2, <1>3, <1>4

\* The writer's queue is a sequence of event numbers.
LEMMA DirtyQueue ==
  ASSUME TypeOK
  PROVE  /\ dirty \in Seq(Events) /\ Len(dirty) \in Nat
         /\ \A i \in 1 .. Len(dirty) : dirty[i] \in Events /\ dirty[i] \in Nat
         /\ dirty # <<>> => Len(dirty) > 0 /\ Head(dirty) = dirty[1] /\ dirty[1] \in Events
         /\ dirty = <<>> => Len(dirty) = 0
  <1>1. dirty \in Seq(Events) BY DEF TypeOK
  <1>2. /\ Len(dirty) \in Nat /\ \A i \in 1 .. Len(dirty) : dirty[i] \in Events
        /\ dirty # <<>> => Len(dirty) > 0 /\ Head(dirty) = dirty[1]
        /\ dirty = <<>> => Len(dirty) = 0
    BY <1>1, QueueLemma
  <1> QED BY <1>1, <1>2 DEF Events

\* The steps of a reader.
Labels == InGate \cup {"idle", "probe", "snap", "enter", "patch", "done"}

\* Where a reader has a list neither in hand nor kept.
Searching == {"chunk", "lookup", "check", "touch", "drop", "reget", "fetch"}

\* A reader that goes on searching, and at most drops the cached list or
\* changes when it is due.
LEMMA SearchKeeps ==
  ASSUME NEW r \in Readers, IInv, ~overtaken, TypeOK',
         UNCHANGED <<list, version, chunk_slices, dirty, committer, truncater, done, overtaken,
                     snapshot, seenAt, cutAt, got>>,
         pc[r] \in Searching, pc'[r] \in Searching, asked'[r] <= version,
         \A q \in Readers \ {r} : pc'[q] = pc[q] /\ asked'[q] = asked[q],
         cached' # NoEntry =>
             cached # NoEntry /\ cached'.version = cached.version /\ cached'.top = cached.top
  PROVE  IInv'
  <1>0. /\ TypeOK /\ QueueOK /\ CopiedReads /\ VersionsOK /\ ReadsFresh /\ VersionMeansCurrent
        /\ CommitOrder /\ TruncateOrder /\ CleanReads /\ PatchedReads
    BY DEF IInv
  <1>p. \A q \in Readers :
           /\ \A l \in {"insert", "return", "blocks", "patch", "done"} : pc'[q] = l => pc[q] = l
           /\ pc'[q] \in Inside => pc[q] \in Inside
           /\ pc'[q] \in InGate => pc[q] \in InGate
    BY DEF Searching, Inside, InGate
  <1>h. \A h \in Handles : h \in Readers BY DEF Readers
  <1>2. QueueOK' BY <1>0 DEF QueueOK
  <1>3. CopiedReads' BY <1>0, <1>p, <1>h DEF CopiedReads
  <1>4. VersionsOK'
    <2>1. \A q \in Readers : pc'[q] = "insert" => q # r BY DEF Searching
    <2> QED BY <1>0, <1>p, <2>1 DEF VersionsOK
  <1>5. VersionMeansCurrent' BY <1>0 DEF VersionMeansCurrent
  <1>6. ReadsFresh' BY <1>0, <1>p, <1>h DEF ReadsFresh, ReadSeesAcked, TruncateIsSeen
  <1>7. CommitOrder' BY <1>0, <1>p, <1>h DEF CommitOrder, Reach, Kept
  <1>8. TruncateOrder' BY <1>0, <1>p, <1>h DEF TruncateOrder, Reach, Kept
  <1>9. CleanReads' BY <1>0, <1>p, <1>h DEF CleanReads, Reach
  <1>10. PatchedReads' BY <1>0, <1>p, <1>h DEF PatchedReads
  <1> QED BY <1>2, <1>3, <1>4, <1>5, <1>6, <1>7, <1>8, <1>9, <1>10 DEF IInv

\* A reader that takes the cached list, the list it inserts, or the one kept.
LEMMA TakeKeeps ==
  ASSUME NEW r \in Readers, IInv, ~overtaken, TypeOK',
         UNCHANGED <<list, version, chunk_slices, dirty, committer, truncater, done, overtaken,
                     snapshot, seenAt, cutAt, asked>>,
         pc[r] \in Searching \cup {"insert"},
         \/ pc'[r] = "return" /\ cached # NoEntry /\ got'[r] = cached.top
         \/ pc'[r] = "return" /\ pc[r] = "insert" /\ got'[r] = got[r]
         \/ pc'[r] = "blocks" /\ r \in Handles /\ chunk_slices[r] # NoEntry /\ got'[r] = chunk_slices[r],
         \A q \in Readers \ {r} : pc'[q] = pc[q] /\ got'[q] = got[q],
         \/ cached' = NoEntry \/ cached' = cached
         \/ pc[r] = "insert" /\ cached'.version = asked[r] /\ cached'.top = got[r]
  PROVE  IInv'
  <1>0. /\ TypeOK /\ QueueOK /\ CopiedReads /\ VersionsOK /\ ReadsFresh /\ VersionMeansCurrent
        /\ CommitOrder /\ TruncateOrder /\ CleanReads /\ PatchedReads
    BY DEF IInv
  <1>h. \A h \in Handles : h \in Readers BY DEF Readers
  <1>p. /\ pc[r] \in InGate /\ pc[r] \in Inside /\ pc'[r] \in Inside
        /\ \A q \in Readers : pc'[q] \in {"insert", "patch", "done"} => q # r
        /\ \A q \in Readers : pc'[q] \in Inside => pc[q] \in Inside
        /\ \A q \in Readers : pc'[q] \in InGate => pc[q] \in InGate
    BY DEF Searching, Inside, InGate
  <1>m. ASSUME NEW m, Reach(m)
        PROVE  /\ list'.top >= m
               /\ cached' # NoEntry => cached'.top >= m
               /\ \A q \in Readers : pc'[q] = "insert" => got'[q] >= m
               /\ pc'[r] = "return" => got'[r] >= m
    BY <1>m, <1>p DEF Reach
  <1>2. QueueOK' BY <1>0 DEF QueueOK
  <1>3. CopiedReads' BY <1>0, <1>p, <1>h DEF CopiedReads
  <1>4. VersionsOK' BY <1>0, <1>p DEF VersionsOK
  <1>5. VersionMeansCurrent' BY <1>0 DEF VersionMeansCurrent, VersionsOK
  <1>6. ReadsFresh'
    BY <1>0, <1>p, <1>h DEF ReadsFresh, ReadSeesAcked, TruncateIsSeen
  <1>7. CommitOrder'
    BY <1>0, <1>m, <1>h DEF CommitOrder, Reach, Kept
  <1>8. TruncateOrder'
    BY <1>0, <1>m, <1>p, <1>h DEF TruncateOrder, Reach, Kept
  <1>9. CleanReads'
    BY <1>0, <1>m, <1>p, <1>h DEF CleanReads, Reach
  <1>10. PatchedReads' BY <1>0, <1>p, <1>h DEF PatchedReads
  <1> QED BY <1>2, <1>3, <1>4, <1>5, <1>6, <1>7, <1>8, <1>9, <1>10 DEF IInv

\* A call that begins, that goes on before it looks at any list, or that ends.
LEMMA OutsideKeeps ==
  ASSUME NEW r \in Readers, IInv, ~overtaken, TypeOK',
         UNCHANGED <<list, version, cached, chunk_slices, dirty, committer, truncater, done, overtaken>>,
         pc'[r] \in {"idle", "probe", "snap", "done"} \/ (r \notin Handles /\ pc'[r] = "lookup"),
         asked'[r] <= version,
         \A q \in Readers \ {r} : pc'[q] = pc[q] /\ got'[q] = got[q] /\ asked'[q] = asked[q],
         \A h \in Handles \ {r} :
             snapshot'[h] = snapshot[h] /\ seenAt'[h] = seenAt[h] /\ cutAt'[h] = cutAt[h],
         r \in Handles =>
             /\ seenAt'[r] <= done.mine /\ cutAt'[r] <= list.base
             /\ pc'[r] = "done" => got'[r] >= seenAt'[r] /\ got'[r] >= cutAt'[r]
  PROVE  IInv'
  <1>0. /\ TypeOK /\ QueueOK /\ CopiedReads /\ VersionsOK /\ ReadsFresh /\ VersionMeansCurrent
        /\ CommitOrder /\ TruncateOrder /\ CleanReads /\ PatchedReads
    BY DEF IInv
  <1>h. \A h \in Handles : h \in Readers BY DEF Readers
  <1>p. /\ r \in Handles => pc'[r] \notin Inside /\ pc'[r] \notin InGate
        /\ pc'[r] \notin {"insert", "return", "blocks", "patch"}
    BY DEF Inside, InGate
  <1>2. QueueOK' BY <1>0 DEF QueueOK
  <1>3. CopiedReads' BY <1>0, <1>p, <1>h DEF CopiedReads
  <1>4. VersionsOK' BY <1>0, <1>p DEF VersionsOK
  <1>5. VersionMeansCurrent' BY <1>0 DEF VersionMeansCurrent
  <1>6. ReadsFresh' BY <1>0, <1>h DEF ReadsFresh, ReadSeesAcked, TruncateIsSeen
  <1>7. CommitOrder' BY <1>0, <1>p, <1>h DEF CommitOrder, Reach, Kept
  <1>8. TruncateOrder' BY <1>0, <1>p, <1>h DEF TruncateOrder, Reach, Kept
  <1>9. CleanReads' BY <1>0, <1>p, <1>h DEF CleanReads, Reach
  <1>10. PatchedReads' BY <1>0, <1>p, <1>h DEF PatchedReads
  <1> QED BY <1>2, <1>3, <1>4, <1>5, <1>6, <1>7, <1>8, <1>9, <1>10 DEF IInv

\* Dirty data is newer than what any read must see.
LEMMA NewestIsFresh ==
  ASSUME TypeOK, QueueOK, CopiedReads, dirty # <<>>, NEW h \in Handles
  PROVE  /\ Newest(dirty) \in Events /\ Newest(dirty) \in Nat
         /\ Newest(dirty) >= seenAt[h] /\ Newest(dirty) >= cutAt[h]
  <1>1. Len(dirty) \in 1 .. Len(dirty) /\ Len(dirty) \in Nat BY DirtyQueue
  <1>2. Newest(dirty) \in Events /\ Newest(dirty) \in Nat BY <1>1, DirtyQueue DEF Newest
  <1>3. Newest(dirty) = done.mine /\ list.base < Newest(dirty) BY <1>1 DEF QueueOK, Newest
  <1>4. list.base \in Nat /\ seenAt[h] \in Nat /\ cutAt[h] \in Nat BY DEF TypeOK, Events
  <1>5. seenAt[h] <= done.mine /\ cutAt[h] <= list.base BY DEF CopiedReads
  <1> QED BY <1>2, <1>3, <1>4, <1>5

-----------------------------------------------------------------------------
(* The writer, the truncation and the other client.                          *)

LEMMA WriteKeeps ==
  ASSUME IInv, ~overtaken, Write
  PROVE  IInv'
  <1>0. /\ TypeOK /\ QueueOK /\ CopiedReads /\ VersionsOK /\ ReadsFresh /\ VersionMeansCurrent
        /\ CommitOrder /\ TruncateOrder /\ CleanReads /\ PatchedReads
    BY DEF IInv
  <1>f. /\ Event \in Events /\ Event = done.events + 1
        /\ dirty' = Append(dirty, Event) /\ done' = [events |-> Event, mine |-> Event]
        /\ truncater = "idle" /\ truncater' = truncater
        /\ UNCHANGED <<list, version, cached, node, chunk_slices, committer, pc, got, asked, partial,
                       snapshot, seenAt, cutAt, overtaken>>
    BY <1>0, ReadPathAssumption DEF Write, Event, Room, Events, TypeOK, store, client, reading
  <1>q. /\ Len(dirty) \in Nat /\ Len(dirty') = Len(dirty) + 1 /\ dirty' # <<>>
        /\ dirty'[Len(dirty')] = Event
        /\ \A i \in 1 .. Len(dirty) : dirty'[i] = dirty[i]
        /\ \A i \in 1 .. Len(dirty') : i \in 1 .. Len(dirty) \/ dirty'[i] = Event
        /\ \A i \in 1 .. Len(dirty) : dirty[i] \in Nat
        /\ dirty # <<>> => 1 \in 1 .. Len(dirty) /\ dirty'[1] = dirty[1]
    <2>1. /\ dirty' # <<>> /\ Len(dirty') = Len(dirty) + 1 /\ dirty'[Len(dirty) + 1] = Event
          /\ \A i \in 1 .. Len(dirty) : dirty'[i] = dirty[i]
      BY <1>0, <1>f, DirtyQueue, AppendLemma
    <2> QED BY <1>0, <2>1, DirtyQueue
  <1>1. TypeOK' BY <1>0, <1>f, AppendLemma DEF TypeOK, Write
  <1>2. QueueOK' BY <1>0, <1>f, <1>q DEF TypeOK, QueueOK, Events
  <1>3. CopiedReads' BY <1>0, <1>f DEF TypeOK, CopiedReads, QueueOK, Events
  <1>4. VersionsOK' /\ VersionMeansCurrent' /\ ReadsFresh'
    BY <1>0, <1>f DEF VersionsOK, VersionMeansCurrent, ReadsFresh, ReadSeesAcked, TruncateIsSeen
  <1>5. CommitOrder'
    <2>1. committer # "idle" => dirty # <<>> BY <1>0 DEF QueueOK
    <2> QED BY <1>0, <1>f, <1>q, <2>1 DEF TypeOK, CommitOrder, Reach, Kept
  <1>6. TruncateOrder' BY <1>0, <1>f DEF TruncateOrder, Reach, Kept
  <1>7. CleanReads'
    <2>1. \A h \in Handles : seenAt[h] < Event BY <1>0, <1>f DEF TypeOK, CopiedReads, QueueOK, Events
    <2> QED BY <1>0, <1>f, <1>q, <2>1 DEF TypeOK, CleanReads, Reach
  <1>8. PatchedReads' BY <1>0, <1>f DEF PatchedReads
  <1> QED BY <1>1, <1>2, <1>3, <1>4, <1>5, <1>6, <1>7, <1>8 DEF IInv

LEMMA WriteInvalidateKeeps ==
  ASSUME IInv, ~overtaken, WriteInvalidate
  PROVE  IInv'
  <1>0. /\ TypeOK /\ QueueOK /\ CopiedReads /\ VersionsOK /\ ReadsFresh /\ VersionMeansCurrent
        /\ CommitOrder /\ TruncateOrder /\ CleanReads /\ PatchedReads
    BY DEF IInv
  <1>f. /\ writing' = FALSE
        /\ chunk_slices' = [h \in Handles |-> NoEntry]
        /\ UNCHANGED <<list, version, node, cached, dirty, committer, truncater, done, overtaken, pc,
                       got, asked, partial, snapshot, seenAt, cutAt>>
    BY DEF WriteInvalidate, ForgetChunks, store, client, reading
  <1>1. TypeOK' BY <1>0, <1>f DEF TypeOK
  <1>2. QueueOK' BY <1>0, <1>f DEF QueueOK
  <1>3. CopiedReads' BY <1>0, <1>f DEF CopiedReads, Inside, InGate
  <1>4. VersionsOK' /\ VersionMeansCurrent' BY <1>0, <1>f DEF VersionsOK, VersionMeansCurrent
  <1>5. ReadsFresh' BY <1>0, <1>f DEF ReadsFresh, ReadSeesAcked, TruncateIsSeen
  <1>6. CommitOrder' BY <1>0, <1>f DEF CommitOrder, Reach, Kept
  <1>7. TruncateOrder' BY <1>0, <1>f DEF TruncateOrder, Reach, Kept, InGate
  <1>8. CleanReads' BY <1>0, <1>f DEF CleanReads, Reach, Inside, InGate
  <1>9. PatchedReads' BY <1>0, <1>f DEF PatchedReads
  <1> QED BY <1>1, <1>2, <1>3, <1>4, <1>5, <1>6, <1>7, <1>8, <1>9 DEF IInv

LEMMA CommitStoreKeeps ==
  ASSUME IInv, ~overtaken, CommitStore
  PROVE  IInv'
  <1>0. /\ TypeOK /\ QueueOK /\ CopiedReads /\ VersionsOK /\ ReadsFresh /\ VersionMeansCurrent
        /\ CommitOrder /\ TruncateOrder /\ CleanReads /\ PatchedReads
    BY DEF IInv
  <1>f. /\ dirty # <<>> /\ committer = "idle" /\ committer' = "stored" /\ version' = version + 1
        /\ list' = [list EXCEPT !.top = Head(dirty)]
        /\ UNCHANGED <<cached, node, chunk_slices, dirty, writing, truncater, done, pc, got, asked,
                       partial, snapshot, seenAt, cutAt, overtaken>>
    BY DEF CommitStore, client, reading
  <1>q. /\ Len(dirty) \in Nat /\ Len(dirty) > 0 /\ dirty[1] \in Events /\ dirty[1] \in Nat
        /\ Head(dirty) = dirty[1]
    BY <1>0, <1>f, DirtyQueue
  <1>t. list' \in [top : Events, base : Events] /\ list'.top = dirty[1] /\ list'.base = list.base
    <2>1. list \in [top : Events, base : Events] BY <1>0 DEF TypeOK
    <2> QED BY <1>f, <1>q, <2>1
  <1>l. /\ list'.top = dirty[1] /\ list'.base = list.base /\ list.base \in Nat
        /\ list.base < dirty[1] /\ dirty[1] <= done.mine /\ truncater = "idle"
    <2>1. list.base \in Nat BY <1>0 DEF TypeOK, Events
    <2> QED BY <1>0, <1>f, <1>q, <1>t, <2>1 DEF QueueOK
  <1>1. TypeOK' BY <1>0, <1>f, <1>t DEF TypeOK
  <1>2. QueueOK'
    <2>1. done.events \in Nat /\ done.mine \in Nat BY <1>0 DEF TypeOK, Events
    <2> QED BY <1>0, <1>f, <1>q, <1>l, <2>1 DEF QueueOK
  <1>3. CopiedReads' BY <1>0, <1>f, <1>l DEF CopiedReads
  <1>4. VersionsOK' /\ VersionMeansCurrent' /\ ReadsFresh'
    <2>1. version \in Nat /\ asked \in [Readers -> Nat] /\ (cached # NoEntry => cached.version \in Nat)
      BY <1>0 DEF TypeOK
    <2> QED BY <1>0, <1>f, <2>1 DEF VersionsOK, VersionMeansCurrent, ReadsFresh, ReadSeesAcked, TruncateIsSeen
  <1>5. CommitOrder' BY <1>f, <1>l, <1>q DEF CommitOrder
  <1>6. TruncateOrder' BY <1>0, <1>f, <1>l, <1>q DEF TruncateOrder, Reach, Kept
  <1>7. CleanReads'
    <2>1. \A h \in Handles : seenAt[h] \in Nat BY <1>0 DEF TypeOK, Events
    <2>2. 1 \in 1 .. Len(dirty) BY <1>q
    <2>3. \A h \in Handles : pc[h] \in Inside /\ snapshot[h] = NoEntry => list'.top >= seenAt[h]
      BY <1>0, <1>l, <1>q, <2>1, <2>2 DEF CleanReads
    <2> QED BY <1>0, <1>f, <2>3 DEF CleanReads, Reach
  <1>8. PatchedReads' BY <1>0, <1>f DEF PatchedReads
  <1> QED BY <1>1, <1>2, <1>3, <1>4, <1>5, <1>6, <1>7, <1>8 DEF IInv

LEMMA CommitAppendKeeps ==
  ASSUME IInv, ~overtaken, CommitAppend
  PROVE  IInv'
  <1>0. /\ TypeOK /\ QueueOK /\ CopiedReads /\ VersionsOK /\ ReadsFresh /\ VersionMeansCurrent
        /\ CommitOrder /\ TruncateOrder /\ CleanReads /\ PatchedReads
    BY DEF IInv
  <1>f. /\ committer = "stored" /\ committer' = "appended"
        /\ cached' = IF cached = NoEntry THEN NoEntry ELSE [cached EXCEPT !.top = Head(dirty)]
        /\ ~overtaken' => list.top = Head(dirty) /\ \A r \in Readers : pc[r] # "insert"
        /\ overtaken' \in BOOLEAN
        /\ UNCHANGED <<list, version, node, chunk_slices, dirty, writing, truncater, done, pc, got, asked,
                       partial, snapshot, seenAt, cutAt>>
    BY DEF CommitAppend, store, reading
  <1>q. /\ dirty # <<>> /\ Head(dirty) = dirty[1] /\ dirty[1] \in Events /\ dirty[1] \in Nat
        /\ 1 \in 1 .. Len(dirty)
    <2>1. dirty # <<>> BY <1>0, <1>f DEF QueueOK
    <2> QED BY <1>0, <2>1, DirtyQueue
  <1>c. /\ cached' \in [version : Nat, top : Events, due : BOOLEAN] \cup {NoEntry}
        /\ cached' # NoEntry =>
             cached # NoEntry /\ cached'.top = dirty[1] /\ cached'.version = cached.version
    <2>1. cached \in [version : Nat, top : Events, due : BOOLEAN] \cup {NoEntry} BY <1>0 DEF TypeOK
    <2> QED BY <1>f, <1>q, <2>1
  <1>1. TypeOK' BY <1>0, <1>f, <1>c DEF TypeOK
  <1>2. QueueOK' BY <1>0, <1>f, <1>q DEF QueueOK
  <1>3. CopiedReads' BY <1>0, <1>f DEF CopiedReads
  <1>4. VersionsOK' /\ VersionMeansCurrent'
    BY <1>0, <1>f, <1>c, <1>q DEF VersionsOK, VersionMeansCurrent
  <1>5. ReadsFresh' BY <1>0, <1>f DEF ReadsFresh, ReadSeesAcked, TruncateIsSeen
  <1>6. ~overtaken' => CommitOrder' BY <1>0, <1>f, <1>c, <1>q DEF CommitOrder, Reach, Kept
  <1>7. ~overtaken' => TruncateOrder'
    <2>1. list.base < dirty[1] /\ list.base \in Nat BY <1>0, <1>q DEF QueueOK, TypeOK, Events
    <2> QED BY <1>0, <1>f, <1>c, <1>q, <2>1 DEF TruncateOrder, Reach, Kept
  <1>8. ~overtaken' => CleanReads'
    <2>1. \A h \in Handles : seenAt[h] \in Nat BY <1>0 DEF TypeOK, Events
    <2>2. \A h \in Handles : pc[h] \in Inside /\ snapshot[h] = NoEntry => dirty[1] >= seenAt[h]
      BY <1>0, <1>q, <2>1 DEF CleanReads
    <2> QED BY <1>0, <1>f, <1>c, <2>2 DEF CleanReads, Reach
  <1>9. ~overtaken' => PatchedReads' BY <1>0, <1>f DEF PatchedReads
  <1> QED BY <1>1, <1>2, <1>3, <1>4, <1>5, <1>6, <1>7, <1>8, <1>9 DEF IInv

LEMMA CommitInvalidateKeeps ==
  ASSUME IInv, ~overtaken, CommitInvalidate
  PROVE  IInv'
  <1>0. /\ TypeOK /\ QueueOK /\ CopiedReads /\ VersionsOK /\ ReadsFresh /\ VersionMeansCurrent
        /\ CommitOrder /\ TruncateOrder /\ CleanReads /\ PatchedReads
    BY DEF IInv
  <1>f. /\ committer = "appended" /\ committer' = "invalidated"
        /\ chunk_slices' = [h \in Handles |-> NoEntry]
        /\ ~overtaken' => \A h \in Handles : pc[h] \notin {"insert", "return"}
        /\ overtaken' \in BOOLEAN
        /\ UNCHANGED <<list, version, node, cached, dirty, writing, truncater, done, pc, got, asked,
                       partial, snapshot, seenAt, cutAt>>
    BY DEF CommitInvalidate, ForgetChunks, store, client, reading
  <1>1. TypeOK' BY <1>0, <1>f DEF TypeOK
  <1>2. QueueOK' BY <1>0, <1>f DEF QueueOK
  <1>3. CopiedReads' BY <1>0, <1>f DEF CopiedReads, Inside, InGate
  <1>4. VersionsOK' /\ VersionMeansCurrent' BY <1>0, <1>f DEF VersionsOK, VersionMeansCurrent
  <1>5. ReadsFresh' BY <1>0, <1>f DEF ReadsFresh, ReadSeesAcked, TruncateIsSeen
  <1>6. ~overtaken' => CommitOrder' BY <1>0, <1>f DEF CommitOrder, Reach, Kept
  <1>7. ~overtaken' => TruncateOrder' BY <1>0, <1>f DEF TruncateOrder, Reach, Kept, InGate
  <1>8. ~overtaken' => CleanReads' BY <1>0, <1>f DEF CleanReads, Reach, Inside, InGate
  <1>9. ~overtaken' => PatchedReads' BY <1>0, <1>f DEF PatchedReads
  <1> QED BY <1>1, <1>2, <1>3, <1>4, <1>5, <1>6, <1>7, <1>8, <1>9 DEF IInv

LEMMA CommitMarkKeeps ==
  ASSUME IInv, ~overtaken, CommitMark
  PROVE  IInv'
  <1>0. /\ TypeOK /\ QueueOK /\ CopiedReads /\ VersionsOK /\ ReadsFresh /\ VersionMeansCurrent
        /\ CommitOrder /\ TruncateOrder /\ CleanReads /\ PatchedReads
    BY DEF IInv
  <1>f. /\ committer = "invalidated" /\ committer' = "idle" /\ dirty' = Tail(dirty)
        /\ UNCHANGED <<list, version, cached, node, chunk_slices, writing, truncater, done, pc, got, asked,
                       partial, snapshot, seenAt, cutAt, overtaken>>
    BY DEF CommitMark, store, client, reading
  <1>d. dirty # <<>> BY <1>0, <1>f DEF QueueOK
  <1>q. /\ Len(dirty) \in Nat /\ Len(dirty) > 0 /\ Len(dirty') = Len(dirty) - 1 /\ dirty' \in Seq(Events)
        /\ \A i \in 1 .. Len(dirty') : i + 1 \in 1 .. Len(dirty) /\ dirty'[i] = dirty[i + 1]
        /\ dirty' = <<>> => Len(dirty) = 1
        /\ dirty' # <<>> => dirty'[Len(dirty')] = dirty[Len(dirty)]
    <2>1. /\ dirty' \in Seq(Events) /\ Len(dirty') = Len(dirty) - 1
          /\ \A i \in 1 .. Len(dirty) - 1 : dirty'[i] = dirty[i + 1]
          /\ dirty' = <<>> <=> Len(dirty) = 1
      BY <1>0, <1>f, <1>d, DirtyQueue, TailLemma
    <2> QED BY <1>0, <1>d, <2>1, DirtyQueue
  <1>1. TypeOK' BY <1>0, <1>f, <1>q DEF TypeOK
  <1>2. QueueOK' BY <1>0, <1>f, <1>d, <1>q DEF QueueOK
  <1>3. CopiedReads' BY <1>0, <1>f DEF CopiedReads
  <1>4. VersionsOK' /\ VersionMeansCurrent' /\ ReadsFresh'
    BY <1>0, <1>f DEF VersionsOK, VersionMeansCurrent, ReadsFresh, ReadSeesAcked, TruncateIsSeen
  <1>5. CommitOrder'
    <2>1. dirty' = <<>> => dirty[1] = done.mine BY <1>0, <1>d, <1>q DEF QueueOK
    <2> QED BY <1>0, <1>f, <2>1 DEF CommitOrder, Reach, Kept
  <1>6. TruncateOrder' BY <1>0, <1>f DEF TruncateOrder, Reach, Kept
  <1>7. CleanReads' BY <1>0, <1>f, <1>q DEF CleanReads, Reach
  <1>8. PatchedReads' BY <1>0, <1>f DEF PatchedReads
  <1> QED BY <1>1, <1>2, <1>3, <1>4, <1>5, <1>6, <1>7, <1>8 DEF IInv

LEMMA TruncateLockKeeps ==
  ASSUME IInv, ~overtaken, TruncateLock
  PROVE  IInv'
  <1>0. /\ TypeOK /\ QueueOK /\ CopiedReads /\ VersionsOK /\ ReadsFresh /\ VersionMeansCurrent
        /\ CommitOrder /\ TruncateOrder /\ CleanReads /\ PatchedReads
    BY DEF IInv
  <1>f. /\ truncater = "idle" /\ truncater' = "locked" /\ dirty = <<>> /\ committer = "idle"
        /\ \A h \in Handles : pc[h] \notin InGate
        /\ UNCHANGED <<list, version, node, cached, chunk_slices, dirty, committer, writing, done,
                       overtaken, pc, got, asked, partial, snapshot, seenAt, cutAt>>
    BY DEF TruncateLock, store, client, reading
  <1>x. done.events < MaxEvents BY <1>0, <1>f, ReadPathAssumption DEF TruncateLock, Room, TypeOK, Events
  <1>1. TypeOK' BY <1>0, <1>f, <1>x DEF TypeOK
  <1>2. QueueOK' BY <1>0, <1>f, <1>x DEF QueueOK
  <1>3. CopiedReads' BY <1>0, <1>f, <1>x DEF CopiedReads, Inside, InGate
  <1>4. VersionsOK' /\ VersionMeansCurrent' BY <1>0, <1>f, <1>x DEF VersionsOK, VersionMeansCurrent
  <1>5. ReadsFresh' BY <1>0, <1>f, <1>x DEF ReadsFresh, ReadSeesAcked, TruncateIsSeen
  <1>6. CommitOrder' BY <1>0, <1>f, <1>x DEF CommitOrder, Reach, Kept
  <1>7. TruncateOrder' BY <1>0, <1>f, <1>x DEF TruncateOrder, Reach, Kept, InGate
  <1>8. CleanReads' BY <1>0, <1>f, <1>x DEF CleanReads, Reach, Inside, InGate
  <1>9. PatchedReads' BY <1>0, <1>f, <1>x DEF PatchedReads
  <1> QED BY <1>1, <1>2, <1>3, <1>4, <1>5, <1>6, <1>7, <1>8, <1>9 DEF IInv

LEMMA TruncateStoreKeeps ==
  ASSUME IInv, ~overtaken, TruncateStore
  PROVE  IInv'
  <1>0. /\ TypeOK /\ QueueOK /\ CopiedReads /\ VersionsOK /\ ReadsFresh /\ VersionMeansCurrent
        /\ CommitOrder /\ TruncateOrder /\ CleanReads /\ PatchedReads
    BY DEF IInv
  <1>f. /\ truncater = "locked" /\ truncater' = "stored" /\ done' = [done EXCEPT !.events = Event]
        /\ \/ list' = list /\ version' = version
           \/ list' = [top |-> Event, base |-> Event] /\ version' = version + 1
        /\ UNCHANGED <<cached, node, chunk_slices, dirty, committer, writing, pc, got, asked,
                       partial, snapshot, seenAt, cutAt, overtaken>>
    BY DEF TruncateStore, client, reading, Count, store
  <1>e. Event \in Events /\ Event = done.events + 1 /\ done.events \in Nat
    BY <1>0, <1>f, ReadPathAssumption DEF Event, QueueOK, Events, TypeOK
  <1>l. /\ done'.mine = done.mine /\ done'.events = Event /\ version' \in Nat
        /\ list.base \in Nat /\ done.mine \in Nat /\ list.top \in Nat /\ version \in Nat
    BY <1>0, <1>f DEF TypeOK, Events
  <1>v. /\ list.base < Event /\ done.mine < Event /\ list.top < Event
        /\ list.base <= list'.base /\ list.top <= list'.top /\ list'.base <= list'.top /\ list'.top <= Event
    <2>1. list.base < Event /\ done.mine < Event /\ list.top < Event /\ list.base <= list.top
      BY <1>0, <1>e, <1>l DEF QueueOK
    <2> QED BY <1>f, <2>1, <1>e, <1>l
  <1>n. /\ dirty = <<>> /\ committer = "idle" /\ \A h \in Handles : pc[h] \notin InGate
    BY <1>0, <1>f DEF QueueOK, TruncateOrder
  <1>1. TypeOK'
    <2>1. list \in [top : Events, base : Events] /\ done \in [events : Events, mine : Events]
      BY <1>0 DEF TypeOK
    <2>2. list' \in [top : Events, base : Events] /\ done' \in [events : Events, mine : Events]
      BY <1>f, <1>e, <2>1
    <2> QED BY <1>0, <1>f, <1>l, <2>2 DEF TypeOK
  <1>b. list'.base \in Nat /\ list'.top \in Nat BY <1>1 DEF TypeOK, Events
  <1>2. QueueOK'
    <2>1. Len(dirty) = 0 BY <1>n
    <2> QED BY <1>0, <1>f, <1>e, <1>l, <1>v, <1>n, <1>b, <2>1 DEF QueueOK
  <1>3. CopiedReads'
    <2>1. \A h \in Handles : cutAt[h] \in Nat BY <1>0 DEF TypeOK, Events
    <2> QED BY <1>0, <1>f, <1>l, <1>v, <1>b, <2>1 DEF CopiedReads
  <1>4. VersionsOK' /\ VersionMeansCurrent' /\ ReadsFresh'
    <2>1. version \in Nat /\ asked \in [Readers -> Nat] /\ (cached # NoEntry => cached.version \in Nat)
      BY <1>0 DEF TypeOK
    <2> QED BY <1>0, <1>f, <2>1 DEF VersionsOK, VersionMeansCurrent, ReadsFresh, ReadSeesAcked, TruncateIsSeen
  <1>5. CommitOrder'
    BY <1>0, <1>f, <1>l, <1>v, <1>e, <1>n, <1>b DEF CommitOrder, Reach, Kept
  <1>6. TruncateOrder' BY <1>0, <1>f, <1>n DEF TruncateOrder
  <1>7. CleanReads'
    <2>1. \A h \in Handles : seenAt[h] \in Nat BY <1>0 DEF TypeOK, Events
    <2>2. \A m \in Nat : list.top >= m => list'.top >= m BY <1>l, <1>v, <1>b
    <2> QED BY <1>0, <1>f, <2>1, <2>2 DEF CleanReads, Reach
  <1>8. PatchedReads' BY <1>0, <1>f DEF PatchedReads
  <1> QED BY <1>1, <1>2, <1>3, <1>4, <1>5, <1>6, <1>7, <1>8 DEF IInv

LEMMA TruncateUncacheKeeps ==
  ASSUME IInv, ~overtaken, TruncateUncache
  PROVE  IInv'
  <1>0. /\ TypeOK /\ QueueOK /\ CopiedReads /\ VersionsOK /\ ReadsFresh /\ VersionMeansCurrent
        /\ CommitOrder /\ TruncateOrder /\ CleanReads /\ PatchedReads
    BY DEF IInv
  <1>f. /\ truncater = "stored" /\ truncater' = "uncached"
        /\ node' = FALSE /\ cached' = NoEntry
        /\ ~overtaken' => \A p \in Probers : pc[p] # "insert"
        /\ overtaken' \in BOOLEAN
        /\ UNCHANGED <<list, version, chunk_slices, dirty, committer, writing, done, pc, got, asked,
                       partial, snapshot, seenAt, cutAt>>
    BY DEF TruncateUncache, store, reading
  <1>x. /\ \A h \in Handles : pc[h] \notin InGate /\ pc[h] # "insert"
        /\ ~overtaken' => \A r \in Readers : pc[r] # "insert"
    BY <1>0, <1>f DEF TruncateOrder, InGate, Readers
  <1>1. TypeOK' BY <1>0, <1>f, <1>x DEF TypeOK
  <1>2. QueueOK' BY <1>0, <1>f, <1>x DEF QueueOK
  <1>3. CopiedReads' BY <1>0, <1>f, <1>x DEF CopiedReads, Inside, InGate
  <1>4. VersionsOK' /\ VersionMeansCurrent' BY <1>0, <1>f, <1>x DEF VersionsOK, VersionMeansCurrent
  <1>5. ReadsFresh' BY <1>0, <1>f, <1>x DEF ReadsFresh, ReadSeesAcked, TruncateIsSeen
  <1>6. ~overtaken' => CommitOrder' BY <1>0, <1>f, <1>x DEF CommitOrder, Reach, Kept
  <1>7. ~overtaken' => TruncateOrder'
    <2>1. list.top >= list.base BY <1>0 DEF QueueOK, TypeOK, Events
    <2> QED BY <1>0, <1>f, <1>x, <2>1 DEF TruncateOrder, Reach
  <1>8. ~overtaken' => CleanReads' BY <1>0, <1>f, <1>x DEF CleanReads, Reach, Inside, InGate
  <1>9. ~overtaken' => PatchedReads' BY <1>0, <1>f, <1>x DEF PatchedReads
  <1> QED BY <1>1, <1>2, <1>3, <1>4, <1>5, <1>6, <1>7, <1>8, <1>9 DEF IInv

LEMMA TruncateReturnKeeps ==
  ASSUME IInv, ~overtaken, TruncateReturn
  PROVE  IInv'
  <1>0. /\ TypeOK /\ QueueOK /\ CopiedReads /\ VersionsOK /\ ReadsFresh /\ VersionMeansCurrent
        /\ CommitOrder /\ TruncateOrder /\ CleanReads /\ PatchedReads
    BY DEF IInv
  <1>f. /\ truncater = "uncached" /\ truncater' = "idle"
        /\ chunk_slices' = [h \in Handles |-> NoEntry]
        /\ UNCHANGED <<list, version, node, cached, dirty, committer, writing, done, overtaken, pc,
                       got, asked, partial, snapshot, seenAt, cutAt>>
    BY DEF TruncateReturn, ForgetChunks, store, client, reading
  <1>1. TypeOK' BY <1>0, <1>f DEF TypeOK
  <1>2. QueueOK' BY <1>0, <1>f DEF QueueOK
  <1>3. CopiedReads' BY <1>0, <1>f DEF CopiedReads, Inside, InGate
  <1>4. VersionsOK' /\ VersionMeansCurrent' BY <1>0, <1>f DEF VersionsOK, VersionMeansCurrent
  <1>5. ReadsFresh' BY <1>0, <1>f DEF ReadsFresh, ReadSeesAcked, TruncateIsSeen
  <1>6. CommitOrder' BY <1>0, <1>f DEF CommitOrder, Reach, Kept
  <1>7. TruncateOrder' BY <1>0, <1>f DEF TruncateOrder, Reach, Kept, InGate
  <1>8. CleanReads' BY <1>0, <1>f DEF CleanReads, Reach, Inside, InGate
  <1>9. PatchedReads' BY <1>0, <1>f DEF PatchedReads
  <1> QED BY <1>1, <1>2, <1>3, <1>4, <1>5, <1>6, <1>7, <1>8, <1>9 DEF IInv

LEMMA RemoteWriteKeeps ==
  ASSUME IInv, ~overtaken, RemoteWrite
  PROVE  IInv'
  <1>0. /\ TypeOK /\ QueueOK /\ CopiedReads /\ VersionsOK /\ ReadsFresh /\ VersionMeansCurrent
        /\ CommitOrder /\ TruncateOrder /\ CleanReads /\ PatchedReads
    BY DEF IInv
  <1>f. /\ version' = version + 1
        /\ list' = [list EXCEPT !.top = Event] /\ done' = [done EXCEPT !.events = Event]
        /\ UNCHANGED <<cached, node, chunk_slices, dirty, committer, writing, truncater, pc, got, asked,
                       partial, snapshot, seenAt, cutAt, overtaken>>
    BY DEF RemoteWrite, client, reading, Count
  <1>e. /\ Event \in Events /\ Event = done.events + 1 /\ done.events \in Nat
        /\ truncater = "locked" => Event < MaxEvents
    BY <1>0, ReadPathAssumption DEF RemoteWrite, Event, Room, Events, TypeOK
  <1>l. /\ list'.top = Event /\ list'.base = list.base /\ done'.mine = done.mine /\ done'.events = Event
        /\ list.base \in Nat /\ done.mine \in Nat /\ list.top \in Nat
    BY <1>0, <1>f DEF TypeOK, Events
  <1>v. list.base < Event /\ done.mine < Event
    BY <1>0, <1>e, <1>l DEF QueueOK
  <1>1. TypeOK'
    <2>1. list \in [top : Events, base : Events] /\ done \in [events : Events, mine : Events]
      BY <1>0 DEF TypeOK
    <2>2. list' \in [top : Events, base : Events] /\ done' \in [events : Events, mine : Events]
      BY <1>f, <1>e, <2>1
    <2> QED BY <1>0, <1>f, <2>2 DEF TypeOK
  <1>2. QueueOK' BY <1>0, <1>f, <1>e, <1>l, <1>v DEF QueueOK
  <1>3. CopiedReads' BY <1>0, <1>f, <1>l DEF CopiedReads
  <1>4. VersionsOK' /\ VersionMeansCurrent' /\ ReadsFresh'
    <2>1. version \in Nat /\ asked \in [Readers -> Nat] /\ (cached # NoEntry => cached.version \in Nat)
      BY <1>0 DEF TypeOK
    <2> QED BY <1>0, <1>f, <2>1 DEF VersionsOK, VersionMeansCurrent, ReadsFresh, ReadSeesAcked, TruncateIsSeen
  <1>5. CommitOrder'
    <2>1. dirty # <<>> => dirty[1] \in Nat /\ dirty[1] <= done.mine
      BY <1>0, DirtyQueue DEF QueueOK
    <2>2. committer # "idle" => dirty # <<>> BY <1>0 DEF QueueOK
    <2> QED BY <1>0, <1>f, <1>l, <1>v, <1>e, <2>1, <2>2 DEF CommitOrder, Reach, Kept
  <1>6. TruncateOrder' BY <1>0, <1>f, <1>l, <1>e, <1>v DEF TruncateOrder, Reach, Kept
  <1>7. CleanReads'
    <2>1. \A h \in Handles : seenAt[h] \in Nat BY <1>0 DEF TypeOK, Events
    <2>2. \A h \in Handles : seenAt[h] <= done.mine BY <1>0 DEF CopiedReads
    <2>3. \A h \in Handles : list'.top >= seenAt[h] BY <1>l, <1>e, <1>v, <2>1, <2>2
    <2> QED BY <1>0, <1>f, <2>3 DEF CleanReads, Reach
  <1>8. PatchedReads' BY <1>0, <1>f DEF PatchedReads
  <1> QED BY <1>1, <1>2, <1>3, <1>4, <1>5, <1>6, <1>7, <1>8 DEF IInv

-----------------------------------------------------------------------------
(* The client's inode cache.                                                 *)

LEMMA ExpireKeeps ==
  ASSUME IInv, ~overtaken, Expire
  PROVE  IInv'
  <1>0. /\ TypeOK /\ QueueOK /\ CopiedReads /\ VersionsOK /\ ReadsFresh /\ VersionMeansCurrent
        /\ CommitOrder /\ TruncateOrder /\ CleanReads /\ PatchedReads
    BY DEF IInv
  <1>f. /\ cached # NoEntry /\ cached' = [cached EXCEPT !.due = TRUE]
        /\ UNCHANGED <<list, version, node, chunk_slices, dirty, committer, writing, truncater, done,
                       overtaken, pc, got, asked, partial, snapshot, seenAt, cutAt>>
    BY DEF Expire, store, writer, reading
  <1>x. /\ cached' \in [version : Nat, top : Events, due : BOOLEAN] /\ node
        /\ cached'.version = cached.version /\ cached'.top = cached.top
    <2>1. cached \in [version : Nat, top : Events, due : BOOLEAN] /\ node BY <1>0, <1>f DEF TypeOK
    <2> QED BY <1>f, <2>1
  <1>1. TypeOK' BY <1>0, <1>f, <1>x DEF TypeOK
  <1>2. QueueOK' BY <1>0, <1>f, <1>x DEF QueueOK
  <1>3. CopiedReads' BY <1>0, <1>f, <1>x DEF CopiedReads, Inside, InGate
  <1>4. VersionsOK' /\ VersionMeansCurrent' BY <1>0, <1>f, <1>x DEF VersionsOK, VersionMeansCurrent
  <1>5. ReadsFresh' BY <1>0, <1>f, <1>x DEF ReadsFresh, ReadSeesAcked, TruncateIsSeen
  <1>6. CommitOrder' BY <1>0, <1>f, <1>x DEF CommitOrder, Reach, Kept
  <1>7. TruncateOrder' BY <1>0, <1>f, <1>x DEF TruncateOrder, Reach, Kept, InGate
  <1>8. CleanReads' BY <1>0, <1>f, <1>x DEF CleanReads, Reach, Inside, InGate
  <1>9. PatchedReads' BY <1>0, <1>f, <1>x DEF PatchedReads
  <1> QED BY <1>1, <1>2, <1>3, <1>4, <1>5, <1>6, <1>7, <1>8, <1>9 DEF IInv

LEMMA EvictKeeps ==
  ASSUME IInv, ~overtaken, Evict
  PROVE  IInv'
  <1>0. /\ TypeOK /\ QueueOK /\ CopiedReads /\ VersionsOK /\ ReadsFresh /\ VersionMeansCurrent
        /\ CommitOrder /\ TruncateOrder /\ CleanReads /\ PatchedReads
    BY DEF IInv
  <1>f. /\ node' = FALSE /\ cached' = NoEntry
        /\ UNCHANGED <<list, version, chunk_slices, dirty, committer, writing, truncater, done,
                       overtaken, pc, got, asked, partial, snapshot, seenAt, cutAt>>
    BY DEF Evict, store, writer, reading
  <1>1. TypeOK' BY <1>0, <1>f DEF TypeOK
  <1>2. QueueOK' BY <1>0, <1>f DEF QueueOK
  <1>3. CopiedReads' BY <1>0, <1>f DEF CopiedReads, Inside, InGate
  <1>4. VersionsOK' /\ VersionMeansCurrent' BY <1>0, <1>f DEF VersionsOK, VersionMeansCurrent
  <1>5. ReadsFresh' BY <1>0, <1>f DEF ReadsFresh, ReadSeesAcked, TruncateIsSeen
  <1>6. CommitOrder' BY <1>0, <1>f DEF CommitOrder, Reach, Kept
  <1>7. TruncateOrder' BY <1>0, <1>f DEF TruncateOrder, Reach, Kept, InGate
  <1>8. CleanReads' BY <1>0, <1>f DEF CleanReads, Reach, Inside, InGate
  <1>9. PatchedReads' BY <1>0, <1>f DEF PatchedReads
  <1> QED BY <1>1, <1>2, <1>3, <1>4, <1>5, <1>6, <1>7, <1>8, <1>9 DEF IInv

LEMMA FreshStatKeeps ==
  ASSUME IInv, ~overtaken, FreshStat
  PROVE  IInv'
  <1>0. /\ TypeOK /\ QueueOK /\ CopiedReads /\ VersionsOK /\ ReadsFresh /\ VersionMeansCurrent
        /\ CommitOrder /\ TruncateOrder /\ CleanReads /\ PatchedReads
    BY DEF IInv
  <1>f. /\ node' = TRUE /\ cached' = NoEntry
        /\ UNCHANGED <<list, version, chunk_slices, dirty, committer, writing, truncater, done,
                       overtaken, pc, got, asked, partial, snapshot, seenAt, cutAt>>
    BY DEF FreshStat, store, writer, reading
  <1>1. TypeOK' BY <1>0, <1>f DEF TypeOK
  <1>2. QueueOK' BY <1>0, <1>f DEF QueueOK
  <1>3. CopiedReads' BY <1>0, <1>f DEF CopiedReads, Inside, InGate
  <1>4. VersionsOK' /\ VersionMeansCurrent' BY <1>0, <1>f DEF VersionsOK, VersionMeansCurrent
  <1>5. ReadsFresh' BY <1>0, <1>f DEF ReadsFresh, ReadSeesAcked, TruncateIsSeen
  <1>6. CommitOrder' BY <1>0, <1>f DEF CommitOrder, Reach, Kept
  <1>7. TruncateOrder' BY <1>0, <1>f DEF TruncateOrder, Reach, Kept, InGate
  <1>8. CleanReads' BY <1>0, <1>f DEF CleanReads, Reach, Inside, InGate
  <1>9. PatchedReads' BY <1>0, <1>f DEF PatchedReads
  <1> QED BY <1>1, <1>2, <1>3, <1>4, <1>5, <1>6, <1>7, <1>8, <1>9 DEF IInv

-----------------------------------------------------------------------------
(* get_slices, the handle's read, and the prober's call.                      *)

LEMMA LookupKeeps ==
  ASSUME NEW r \in Readers, IInv, ~overtaken, Lookup(r)
  PROVE  IInv'
  <1>t. TypeOK /\ VersionsOK /\ pc \in [Readers -> Labels]
          /\ asked \in [Readers -> Nat]
    BY DEF IInv, TypeOK, Labels
  <1>f. UNCHANGED <<list, version, chunk_slices, dirty, committer, writing, truncater, done, overtaken,
                    partial, snapshot, seenAt, cutAt, got, node, cached>>
    BY DEF Lookup, OnlyReads, store, client, writer
  <1>1. PICK label \in {"fetch", "check", "reget"} : pc[r] = "lookup" /\ pc' = [pc EXCEPT ![r] = label]
    BY DEF Lookup, Reading, Goto
  <1>2. PICK v \in Nat : asked' = [asked EXCEPT ![r] = v] /\ v <= version
    <2>1. CASE cached = NoEntry
      <3>1. asked[r] \in Nat /\ asked[r] <= version /\ asked' = [asked EXCEPT ![r] = asked[r]]
        BY <1>t, <2>1 DEF Lookup, VersionsOK
      <3> QED BY <3>1
    <2>2. CASE cached # NoEntry
      <3>1. cached.version \in Nat /\ cached.version <= version BY <1>t, <2>2 DEF TypeOK, VersionsOK
      <3> QED BY <2>2, <3>1 DEF Lookup
    <2> QED BY <2>1, <2>2
  <1>3. TypeOK'
    <2>1. /\ pc' \in [Readers -> Labels]
          /\ asked' \in [Readers -> Nat]
      BY <1>t, <1>1, <1>2 DEF InGate, Labels
    <2> QED BY <1>t, <1>f, <2>1 DEF TypeOK, Labels
  <1>4. pc[r] \in Searching /\ pc'[r] \in Searching /\ asked'[r] <= version
    BY <1>t, <1>1, <1>2 DEF Searching
  <1>5. \A q \in Readers \ {r} : pc'[q] = pc[q] /\ asked'[q] = asked[q]
    BY <1>t, <1>1, <1>2
  <1> QED BY <1>f, <1>3, <1>4, <1>5, SearchKeeps

LEMMA CheckKeeps ==
  ASSUME NEW r \in Readers, IInv, ~overtaken, Check(r)
  PROVE  IInv'
  <1>t. TypeOK /\ VersionsOK /\ pc \in [Readers -> Labels] BY DEF IInv, TypeOK, Labels
  <1>f. UNCHANGED <<list, version, chunk_slices, dirty, committer, writing, truncater, done, overtaken,
                    partial, snapshot, seenAt, cutAt, got, asked, node, cached>>
    BY DEF Check, OnlyReads, store, client, writer
  <1>1. PICK label \in {"touch", "drop"} : pc[r] = "check" /\ pc' = [pc EXCEPT ![r] = label]
    BY DEF Check, Reading, Goto
  <1>2. /\ pc' \in [Readers -> Labels] /\ pc[r] \in Searching /\ pc'[r] \in Searching
        /\ \A q \in Readers \ {r} : pc'[q] = pc[q]
    BY <1>t, <1>1 DEF InGate, Labels, Searching
  <1>3. TypeOK' BY <1>t, <1>f, <1>2 DEF TypeOK, Labels
  <1>4. asked'[r] <= version BY <1>t, <1>f DEF VersionsOK
  <1> QED BY <1>f, <1>2, <1>3, <1>4, SearchKeeps

LEMMA SettleKeeps ==
  ASSUME NEW r \in Readers, IInv, ~overtaken, Settle(r)
  PROVE  IInv'
  <1>t. TypeOK /\ VersionsOK /\ pc \in [Readers -> Labels] /\ asked \in [Readers -> Nat]
    BY DEF IInv, TypeOK, Labels
  <1>f. /\ UNCHANGED <<list, version, chunk_slices, dirty, committer, writing, truncater, done, overtaken,
                       partial, snapshot, seenAt, cutAt, got, asked, node>>
        /\ pc[r] \in {"touch", "drop"} /\ pc' = [pc EXCEPT ![r] = "reget"]
        /\ \/ cached' = NoEntry \/ cached' = cached
           \/ cached # NoEntry /\ cached' = [cached EXCEPT !.due = FALSE]
    BY DEF Settle, OnlyReads, store, writer, Reading, Goto, Same
  <1>1. cached \in [version : Nat, top : Events, due : BOOLEAN] \cup {NoEntry} /\ (cached # NoEntry => node)
    BY <1>t DEF TypeOK
  <1>2. /\ cached' \in [version : Nat, top : Events, due : BOOLEAN] \cup {NoEntry}
        /\ cached' # NoEntry =>
             cached # NoEntry /\ cached'.version = cached.version /\ cached'.top = cached.top
    BY <1>f, <1>1
  <1>3. pc' \in [Readers -> Labels] BY <1>t, <1>f DEF InGate, Labels
  <1>4. TypeOK' BY <1>t, <1>f, <1>1, <1>2, <1>3 DEF TypeOK, Labels
  <1>5. pc[r] \in Searching /\ pc'[r] \in Searching /\ asked'[r] <= version
    BY <1>t, <1>f DEF Searching, VersionsOK
  <1>6. \A q \in Readers \ {r} : pc'[q] = pc[q] /\ asked'[q] = asked[q] BY <1>t, <1>f
  <1> QED BY <1>f, <1>2, <1>4, <1>5, <1>6, SearchKeeps

LEMMA RegetKeeps ==
  ASSUME NEW r \in Readers, IInv, ~overtaken, Reget(r)
  PROVE  IInv'
  <1>t. /\ TypeOK /\ VersionsOK /\ pc \in [Readers -> Labels] /\ got \in [Readers -> Events]
    BY DEF IInv, TypeOK, Labels
  <1>f. UNCHANGED <<list, version, chunk_slices, dirty, committer, writing, truncater, done, overtaken,
                    partial, snapshot, seenAt, cutAt, asked, node, cached>>
    BY DEF Reget, OnlyReads, store, client, writer
  <1>1. CASE cached = NoEntry
    <2>1. pc[r] = "reget" /\ pc' = [pc EXCEPT ![r] = "fetch"] /\ got' = got
      BY <1>1 DEF Reget, Reading, Goto
    <2>2. pc' \in [Readers -> Labels] BY <1>t, <2>1 DEF InGate, Labels
    <2>3. TypeOK' BY <1>t, <1>f, <2>1, <2>2 DEF TypeOK, Labels
    <2>4. pc[r] \in Searching /\ pc'[r] \in Searching /\ asked'[r] <= version
      BY <1>t, <1>f, <2>1 DEF Searching, VersionsOK
    <2>5. \A q \in Readers \ {r} : pc'[q] = pc[q] /\ asked'[q] = asked[q] BY <1>t, <1>f, <2>1
    <2> QED BY <1>f, <2>1, <2>3, <2>4, <2>5, SearchKeeps
  <1>2. CASE cached # NoEntry
    <2>1. /\ pc[r] = "reget" /\ pc' = [pc EXCEPT ![r] = "return"]
          /\ got' = [got EXCEPT ![r] = cached.top]
      BY <1>2 DEF Reget, Reading, Goto, Hold
    <2>2. cached.top \in Events BY <1>t, <1>2 DEF TypeOK
    <2>3. pc' \in [Readers -> Labels] /\ got' \in [Readers -> Events]
      BY <1>t, <2>1, <2>2 DEF InGate, Labels
    <2>4. TypeOK' BY <1>t, <1>f, <2>3 DEF TypeOK, Labels
    <2>5. pc[r] \in Searching /\ pc'[r] = "return" /\ got'[r] = cached.top
      BY <1>t, <2>1 DEF Searching
    <2>6. \A q \in Readers \ {r} : pc'[q] = pc[q] /\ got'[q] = got[q] BY <1>t, <2>1
    <2> QED BY <1>2, <1>f, <2>4, <2>5, <2>6, TakeKeeps
  <1> QED BY <1>1, <1>2

LEMMA FetchKeeps ==
  ASSUME NEW r \in Readers, IInv, ~overtaken, Fetch(r)
  PROVE  IInv'
  <1>0. /\ TypeOK /\ QueueOK /\ CopiedReads /\ VersionsOK /\ ReadsFresh /\ VersionMeansCurrent
        /\ CommitOrder /\ TruncateOrder /\ CleanReads /\ PatchedReads
    BY DEF IInv
  <1>f. /\ pc[r] = "fetch" /\ pc' = [pc EXCEPT ![r] = "insert"]
        /\ got' = [got EXCEPT ![r] = list.top] /\ asked' = [asked EXCEPT ![r] = version]
        /\ UNCHANGED <<list, version, node, cached, chunk_slices, dirty, committer, writing, truncater,
                       done, overtaken, partial, snapshot, seenAt, cutAt>>
    BY DEF Fetch, Reading, Goto, Hold, OnlyReads, store, client, writer
  <1>h. \A q \in Handles : q \in Readers BY DEF Readers
  <1>t. /\ pc \in [Readers -> Labels] /\ got \in [Readers -> Events] /\ asked \in [Readers -> Nat]
        /\ list.top \in Events /\ version \in Nat
    BY <1>0 DEF TypeOK, Labels
  <1>x. /\ pc' \in [Readers -> Labels] /\ got' \in [Readers -> Events] /\ asked' \in [Readers -> Nat]
        /\ pc'[r] = "insert" /\ got'[r] = list.top /\ asked'[r] = version
        /\ \A q \in Readers \ {r} : pc'[q] = pc[q] /\ got'[q] = got[q] /\ asked'[q] = asked[q]
    BY <1>t, <1>f DEF Labels, InGate
  <1>1. TypeOK' BY <1>0, <1>f, <1>x DEF TypeOK, Labels
  <1>2. QueueOK' BY <1>0, <1>f, <1>x DEF QueueOK
  <1>3. CopiedReads' BY <1>0, <1>f, <1>x, <1>h DEF CopiedReads, Inside, InGate
  <1>4. VersionsOK' /\ VersionMeansCurrent' BY <1>0, <1>f, <1>x DEF VersionsOK, VersionMeansCurrent
  <1>5. ReadsFresh' BY <1>0, <1>f, <1>x, <1>h DEF ReadsFresh, ReadSeesAcked, TruncateIsSeen
  <1>6. CommitOrder' BY <1>0, <1>f, <1>x, <1>h DEF CommitOrder, Reach, Kept
  <1>7. TruncateOrder' BY <1>0, <1>f, <1>x, <1>h DEF TruncateOrder, Reach, Kept, InGate
  <1>8. CleanReads' BY <1>0, <1>f, <1>x, <1>h DEF CleanReads, Reach, Inside, InGate
  <1>9. PatchedReads' BY <1>0, <1>f, <1>x, <1>h DEF PatchedReads
  <1> QED BY <1>1, <1>2, <1>3, <1>4, <1>5, <1>6, <1>7, <1>8, <1>9 DEF IInv

LEMMA InsertKeeps ==
  ASSUME NEW r \in Readers, IInv, ~overtaken, Insert(r)
  PROVE  IInv'
  <1>t. /\ TypeOK /\ pc \in [Readers -> Labels] /\ got \in [Readers -> Events]
        /\ asked \in [Readers -> Nat] /\ node \in BOOLEAN
    BY DEF IInv, TypeOK, Labels
  <1>f. /\ UNCHANGED <<list, version, chunk_slices, dirty, committer, writing, truncater, done, overtaken,
                       partial, snapshot, seenAt, cutAt, asked, node>>
        /\ pc[r] = "insert" /\ pc' = [pc EXCEPT ![r] = "return"]
    BY DEF Insert, OnlyReads, store, writer, Reading, Goto
  <1>1. pc' \in [Readers -> Labels] BY <1>t, <1>f DEF InGate, Labels
  <1>2. /\ pc'[r] = "return" /\ pc[r] \in Searching \cup {"insert"}
        /\ \A q \in Readers \ {r} : pc'[q] = pc[q]
    BY <1>t, <1>f
  <1>3. CASE cached # NoEntry
    <2>1. got' = [got EXCEPT ![r] = cached.top] /\ cached' = cached
      BY <1>3 DEF Insert, Hold
    <2>2. cached.top \in Events BY <1>t, <1>3 DEF TypeOK
    <2>3. /\ got' \in [Readers -> Events] /\ got'[r] = cached.top
          /\ \A q \in Readers \ {r} : got'[q] = got[q]
      BY <1>t, <2>1, <2>2
    <2>4. TypeOK' BY <1>t, <1>f, <1>1, <2>1, <2>3 DEF TypeOK, Labels
    <2> QED BY <1>2, <1>3, <1>f, <2>1, <2>3, <2>4, TakeKeeps
  <1>4. CASE cached = NoEntry
    <2>1. /\ got' = got
          /\ \/ cached' = NoEntry
             \/ node /\ cached' = [version |-> asked[r], top |-> got[r], due |-> FALSE]
      BY <1>4 DEF Insert
    <2>2. /\ cached' \in [version : Nat, top : Events, due : BOOLEAN] \cup {NoEntry}
          /\ cached' # NoEntry => node
          /\ cached' = NoEntry \/ (cached'.version = asked[r] /\ cached'.top = got[r])
      <3>1. got[r] \in Events /\ asked[r] \in Nat BY <1>t
      <3>2. CASE cached' = NoEntry BY <3>2
      <3>3. CASE node /\ cached' = [version |-> asked[r], top |-> got[r], due |-> FALSE]
        <4>1. cached' \in [version : Nat, top : Events, due : BOOLEAN] BY <3>1, <3>3
        <4>2. cached'.version = asked[r] /\ cached'.top = got[r] BY <3>3
        <4> QED BY <3>3, <4>1, <4>2
      <3> QED BY <2>1, <3>2, <3>3
    <2>3. TypeOK' BY <1>t, <1>f, <1>1, <2>1, <2>2 DEF TypeOK, Labels
    <2> QED BY <1>2, <1>f, <2>1, <2>2, <2>3, TakeKeeps
  <1> QED BY <1>3, <1>4

LEMMA ProbeKeeps ==
  ASSUME NEW h \in Handles, IInv, ~overtaken, Probe(h)
  PROVE  IInv'
  <1>t. /\ TypeOK /\ QueueOK /\ CopiedReads /\ VersionsOK
        /\ pc \in [Readers -> Labels] /\ got \in [Readers -> Events] /\ h \in Readers
    BY DEF IInv, TypeOK, Labels, Readers
  <1>f. UNCHANGED <<list, version, chunk_slices, dirty, committer, writing, truncater, done, overtaken,
                    partial, snapshot, seenAt, cutAt, asked, node, cached>>
    BY DEF Probe, OnlyReads, store, client, writer
  <1>1. asked'[h] <= version /\ seenAt'[h] <= done.mine /\ cutAt'[h] <= list.base
    BY <1>t, <1>f DEF VersionsOK, CopiedReads
  <1>2. CASE dirty # <<>> /\ ~partial[h]
    <2>1. pc' = [pc EXCEPT ![h] = "done"] /\ got' = [got EXCEPT ![h] = Newest(dirty)]
      BY <1>2 DEF Probe, Reading, Goto, Hold
    <2>2. /\ Newest(dirty) \in Events /\ Newest(dirty) >= seenAt[h] /\ Newest(dirty) >= cutAt[h]
      BY <1>t, <1>2, NewestIsFresh
    <2>3. /\ pc' \in [Readers -> Labels] /\ got' \in [Readers -> Events]
          /\ pc'[h] = "done" /\ got'[h] = Newest(dirty)
          /\ \A q \in Readers \ {h} : pc'[q] = pc[q] /\ got'[q] = got[q]
      BY <1>t, <2>1, <2>2 DEF Labels
    <2>4. TypeOK' BY <1>t, <1>f, <2>3 DEF TypeOK, Labels
    <2> QED BY <1>t, <1>f, <1>1, <2>2, <2>3, <2>4, OutsideKeeps
  <1>3. CASE ~(dirty # <<>> /\ ~partial[h])
    <2>1. pc' = [pc EXCEPT ![h] = "snap"] /\ got' = got
      BY <1>3 DEF Probe, Reading, Goto
    <2>2. /\ pc' \in [Readers -> Labels] /\ pc'[h] = "snap"
          /\ \A q \in Readers \ {h} : pc'[q] = pc[q]
      BY <1>t, <2>1 DEF Labels
    <2>3. TypeOK' BY <1>t, <1>f, <2>1, <2>2 DEF TypeOK, Labels
    <2> QED BY <1>t, <1>f, <1>1, <2>1, <2>2, <2>3, OutsideKeeps
  <1> QED BY <1>2, <1>3

LEMMA OverlayKeeps ==
  ASSUME NEW h \in Handles, IInv, ~overtaken, Overlay(h)
  PROVE  IInv'
  <1>t. /\ TypeOK /\ QueueOK /\ CopiedReads /\ VersionsOK /\ CleanReads /\ PatchedReads
        /\ pc \in [Readers -> Labels] /\ got \in [Readers -> Events] /\ h \in Readers
        /\ snapshot \in [Handles -> Events \cup {NoEntry}]
    BY DEF IInv, TypeOK, Labels, Readers
  <1>f. UNCHANGED <<list, version, chunk_slices, dirty, committer, writing, truncater, done, overtaken,
                    partial, snapshot, seenAt, cutAt, asked, node, cached>>
    BY DEF Overlay, OnlyReads, store, client, writer
  <1>1. asked'[h] <= version /\ seenAt'[h] <= done.mine /\ cutAt'[h] <= list.base
    BY <1>t, <1>f DEF VersionsOK, CopiedReads
  <1>2. PICK e \in Events : /\ pc[h] = "patch" /\ pc' = [pc EXCEPT ![h] = "done"]
                            /\ got' = [got EXCEPT ![h] = e]
                            /\ e >= seenAt[h] /\ e >= cutAt[h]
    <2>0. pc[h] = "patch" /\ pc' = [pc EXCEPT ![h] = "done"] BY DEF Overlay, Reading, Goto
    <2>1. CASE dirty # <<>>
      <3>1. got' = [got EXCEPT ![h] = Newest(dirty)] BY <2>1 DEF Overlay, Hold
      <3> QED BY <1>t, <2>0, <2>1, <3>1, NewestIsFresh
    <2>2. CASE dirty = <<>> /\ snapshot[h] # NoEntry
      <3>1. got' = [got EXCEPT ![h] = snapshot[h]] BY <2>2 DEF Overlay, Hold
      <3>2. snapshot[h] \in Events BY <1>t, <2>2
      <3>3. snapshot[h] >= seenAt[h] /\ snapshot[h] >= cutAt[h]
        BY <1>t, <2>0, <2>2 DEF CopiedReads, Inside
      <3> QED BY <2>0, <3>1, <3>2, <3>3
    <2>3. CASE dirty = <<>> /\ snapshot[h] = NoEntry
      <3>1. got' = [got EXCEPT ![h] = got[h]] BY <2>3 DEF Overlay, Hold
      <3>2. got[h] \in Events BY <1>t
      <3>3. got[h] >= seenAt[h] /\ got[h] >= cutAt[h]
        BY <1>t, <2>0, <2>3 DEF CleanReads, PatchedReads, Inside
      <3> QED BY <2>0, <3>1, <3>2, <3>3
    <2> QED BY <2>1, <2>2, <2>3
  <1>3. /\ pc' \in [Readers -> Labels] /\ got' \in [Readers -> Events]
        /\ pc'[h] = "done" /\ got'[h] >= seenAt[h] /\ got'[h] >= cutAt[h]
        /\ \A q \in Readers \ {h} : pc'[q] = pc[q] /\ got'[q] = got[q]
    BY <1>t, <1>2 DEF Labels
  <1>4. TypeOK' BY <1>t, <1>f, <1>3 DEF TypeOK, Labels
  <1> QED BY <1>t, <1>f, <1>1, <1>3, <1>4, OutsideKeeps

LEMMA SnapshotDirtyKeeps ==
  ASSUME NEW h \in Handles, IInv, ~overtaken, SnapshotDirty(h)
  PROVE  IInv'
  <1>0. /\ TypeOK /\ QueueOK /\ CopiedReads /\ VersionsOK /\ ReadsFresh /\ VersionMeansCurrent
        /\ CommitOrder /\ TruncateOrder /\ CleanReads /\ PatchedReads
    BY DEF IInv
  <1>t. /\ pc \in [Readers -> Labels] /\ h \in Readers /\ \A q \in Handles : q \in Readers
        /\ snapshot \in [Handles -> Events \cup {NoEntry}]
    BY <1>0 DEF TypeOK, Labels, Readers
  <1>f. UNCHANGED <<list, version, chunk_slices, dirty, committer, writing, truncater, done, overtaken,
                    node, cached, got, asked, partial, seenAt, cutAt>>
    BY DEF SnapshotDirty, store, client, writer
  <1>1. pc[h] = "snap" /\ pc' = [pc EXCEPT ![h] = "enter"] BY DEF SnapshotDirty, Reading, Goto
  <1>2. PICK s \in Events \cup {NoEntry} :
           /\ snapshot' = [snapshot EXCEPT ![h] = s]
           /\ s # NoEntry => s >= seenAt[h] /\ s >= cutAt[h]
           /\ s = NoEntry => dirty = <<>>
    <2>1. CASE dirty # <<>>
      <3>1. snapshot' = [snapshot EXCEPT ![h] = Newest(dirty)] BY <2>1 DEF SnapshotDirty
      <3>2. /\ Newest(dirty) \in Events /\ Newest(dirty) >= seenAt[h] /\ Newest(dirty) >= cutAt[h]
            /\ Newest(dirty) # NoEntry
        BY <1>0, <2>1, NewestIsFresh, ReadPathAssumption
      <3> QED BY <3>1, <3>2
    <2>2. CASE dirty = <<>>
      <3>1. snapshot' = [snapshot EXCEPT ![h] = NoEntry] BY <2>2 DEF SnapshotDirty
      <3> QED BY <2>2, <3>1
    <2> QED BY <2>1, <2>2
  <1>3. /\ pc' \in [Readers -> Labels] /\ snapshot' \in [Handles -> Events \cup {NoEntry}]
        /\ pc'[h] = "enter" /\ snapshot'[h] = s
        /\ \A q \in Readers \ {h} : pc'[q] = pc[q]
        /\ \A q \in Handles \ {h} : snapshot'[q] = snapshot[q]
    BY <1>t, <1>1, <1>2 DEF Labels
  <1>p. /\ \A q \in Readers : pc'[q] \in InGate \cup {"patch", "done"} => pc[q] = pc'[q]
        /\ \A q \in Readers : pc'[q] = pc[q] \/ q = h
        /\ pc'[h] \notin {"insert", "return", "blocks", "patch", "done"}
    BY <1>3 DEF InGate
  <1>4. TypeOK' BY <1>0, <1>f, <1>3 DEF TypeOK, Labels
  <1>5. QueueOK' BY <1>0, <1>f DEF QueueOK
  <1>6. CopiedReads' BY <1>0, <1>f, <1>t, <1>2, <1>3 DEF CopiedReads
  <1>7. VersionsOK' /\ VersionMeansCurrent' BY <1>0, <1>f, <1>p DEF VersionsOK, VersionMeansCurrent
  <1>8. ReadsFresh' BY <1>0, <1>f, <1>t, <1>p DEF ReadsFresh, ReadSeesAcked, TruncateIsSeen
  <1>9. CommitOrder' BY <1>0, <1>f, <1>t, <1>p DEF CommitOrder, Reach, Kept
  <1>10. TruncateOrder' BY <1>0, <1>f, <1>t, <1>p DEF TruncateOrder, Reach, Kept, InGate
  <1>11. CleanReads'
    <2>1. s = NoEntry =>
            /\ \A i \in 1 .. Len(dirty) : dirty[i] > seenAt[h]
            /\ Reach(done.mine) /\ Kept(done.mine)
      <3>1. s = NoEntry => dirty = <<>> /\ Len(dirty) = 0 BY <1>0, <1>2, DirtyQueue
      <3> QED BY <1>0, <3>1 DEF CommitOrder
    <2>2. /\ seenAt[h] <= done.mine /\ seenAt[h] \in Nat /\ done.mine \in Nat
          /\ list.top \in Nat /\ \A q \in Readers : got[q] \in Nat
          /\ cached # NoEntry => cached.top \in Nat
          /\ \A q \in Handles : chunk_slices[q] # NoEntry => chunk_slices[q] \in Nat
      BY <1>0 DEF CopiedReads, TypeOK, Events
    <2>3. s = NoEntry => Reach(seenAt[h]) /\ (chunk_slices[h] # NoEntry => chunk_slices[h] >= seenAt[h])
      BY <2>1, <2>2 DEF Reach, Kept
    <2> QED BY <1>0, <1>f, <1>t, <1>3, <1>p, <2>1, <2>3 DEF CleanReads, Reach
  <1>12. PatchedReads' BY <1>0, <1>f, <1>t, <1>p DEF PatchedReads
  <1> QED BY <1>4, <1>5, <1>6, <1>7, <1>8, <1>9, <1>10, <1>11, <1>12 DEF IInv

LEMMA EnterGateKeeps ==
  ASSUME NEW h \in Handles, IInv, ~overtaken, EnterGate(h)
  PROVE  IInv'
  <1>0. /\ TypeOK /\ QueueOK /\ CopiedReads /\ VersionsOK /\ ReadsFresh /\ VersionMeansCurrent
        /\ CommitOrder /\ TruncateOrder /\ CleanReads /\ PatchedReads
    BY DEF IInv
  <1>f. /\ pc[h] = "enter" /\ pc' = [pc EXCEPT ![h] = "chunk"]
        /\ truncater = "idle"
        /\ UNCHANGED <<list, version, node, cached, chunk_slices, dirty, committer, writing, truncater,
                       done, overtaken, got, asked, partial, snapshot, seenAt, cutAt>>
    BY DEF EnterGate, Reading, Goto, OnlyReads, store, client, writer
  <1>h. \A q \in Handles : q \in Readers BY DEF Readers
  <1>x. /\ pc' \in [Readers -> Labels] /\ pc'[h] = "chunk" /\ \A q \in Readers \ {h} : pc'[q] = pc[q]
    <2>1. pc \in [Readers -> Labels] BY <1>0 DEF TypeOK, Labels
    <2> QED BY <1>f, <1>h, <2>1 DEF Labels, InGate
  <1>1. TypeOK' BY <1>0, <1>f, <1>x DEF TypeOK, Labels
  <1>2. QueueOK' BY <1>0, <1>f, <1>x DEF QueueOK
  <1>3. CopiedReads' BY <1>0, <1>f, <1>x, <1>h DEF CopiedReads, Inside, InGate
  <1>4. VersionsOK' /\ VersionMeansCurrent' BY <1>0, <1>f, <1>x DEF VersionsOK, VersionMeansCurrent
  <1>5. ReadsFresh' BY <1>0, <1>f, <1>x, <1>h DEF ReadsFresh, ReadSeesAcked, TruncateIsSeen
  <1>6. CommitOrder' BY <1>0, <1>f, <1>x, <1>h DEF CommitOrder, Reach, Kept
  <1>7. TruncateOrder' BY <1>0, <1>f, <1>x, <1>h DEF TruncateOrder, Reach, Kept, InGate
  <1>8. CleanReads' BY <1>0, <1>f, <1>x, <1>h DEF CleanReads, Reach, Inside, InGate
  <1>9. PatchedReads' BY <1>0, <1>f, <1>x, <1>h DEF PatchedReads
  <1> QED BY <1>1, <1>2, <1>3, <1>4, <1>5, <1>6, <1>7, <1>8, <1>9 DEF IInv

LEMMA ChunkHitKeeps ==
  ASSUME NEW h \in Handles, IInv, ~overtaken, ChunkHit(h)
  PROVE  IInv'
  <1>t. /\ TypeOK /\ VersionsOK /\ pc \in [Readers -> Labels] /\ got \in [Readers -> Events]
        /\ chunk_slices \in [Handles -> Events \cup {NoEntry}] /\ h \in Readers
    BY DEF IInv, TypeOK, Labels, Readers
  <1>f. UNCHANGED <<list, version, chunk_slices, dirty, committer, writing, truncater, done, overtaken,
                    partial, snapshot, seenAt, cutAt, asked, node, cached>>
    BY DEF ChunkHit, OnlyReads, store, client, writer
  <1>1. CASE chunk_slices[h] = NoEntry
    <2>1. pc[h] = "chunk" /\ pc' = [pc EXCEPT ![h] = "lookup"] /\ got' = got
      BY <1>1 DEF ChunkHit, Reading, Goto
    <2>2. pc' \in [Readers -> Labels] BY <1>t, <2>1 DEF InGate, Labels
    <2>3. TypeOK' BY <1>t, <1>f, <2>1, <2>2 DEF TypeOK, Labels
    <2>4. pc[h] \in Searching /\ pc'[h] \in Searching /\ asked'[h] <= version
      BY <1>t, <1>f, <2>1 DEF Searching, VersionsOK
    <2>5. \A q \in Readers \ {h} : pc'[q] = pc[q] /\ asked'[q] = asked[q] BY <1>t, <1>f, <2>1
    <2> QED BY <1>t, <1>f, <2>1, <2>3, <2>4, <2>5, SearchKeeps
  <1>2. CASE chunk_slices[h] # NoEntry
    <2>1. /\ pc[h] = "chunk" /\ pc' = [pc EXCEPT ![h] = "blocks"]
          /\ got' = [got EXCEPT ![h] = chunk_slices[h]]
      BY <1>2 DEF ChunkHit, Reading, Goto, Hold
    <2>2. chunk_slices[h] \in Events BY <1>t, <1>2
    <2>3. pc' \in [Readers -> Labels] /\ got' \in [Readers -> Events]
      BY <1>t, <2>1, <2>2 DEF InGate, Labels
    <2>4. TypeOK' BY <1>t, <1>f, <2>3 DEF TypeOK, Labels
    <2>5. pc[h] \in Searching /\ pc'[h] = "blocks" /\ got'[h] = chunk_slices[h]
      BY <1>t, <2>1 DEF Searching
    <2>6. \A q \in Readers \ {h} : pc'[q] = pc[q] /\ got'[q] = got[q] BY <1>t, <2>1
    <2> QED BY <1>2, <1>t, <1>f, <2>4, <2>5, <2>6, TakeKeeps
  <1> QED BY <1>1, <1>2

LEMMA KeepChunkKeeps ==
  ASSUME NEW h \in Handles, IInv, ~overtaken, KeepChunk(h)
  PROVE  IInv'
  <1>0. /\ TypeOK /\ QueueOK /\ CopiedReads /\ VersionsOK /\ ReadsFresh /\ VersionMeansCurrent
        /\ CommitOrder /\ TruncateOrder /\ CleanReads /\ PatchedReads
    BY DEF IInv
  <1>f. /\ pc[h] = "return" /\ pc' = [pc EXCEPT ![h] = "blocks"]
        /\ chunk_slices' = [chunk_slices EXCEPT ![h] = got[h]]
        /\ UNCHANGED <<list, version, node, cached, dirty, committer, writing, truncater, done,
                       overtaken, got, asked, partial, snapshot, seenAt, cutAt>>
    BY DEF KeepChunk, Reading, Goto, store, client, writer
  <1>h. \A q \in Handles : q \in Readers BY DEF Readers
  <1>x. /\ pc' \in [Readers -> Labels] /\ pc'[h] = "blocks" /\ \A q \in Readers \ {h} : pc'[q] = pc[q]
    <2>1. pc \in [Readers -> Labels] BY <1>0 DEF TypeOK, Labels
    <2> QED BY <1>f, <1>h, <2>1 DEF Labels, InGate
  <1>1. TypeOK' BY <1>0, <1>f, <1>x DEF TypeOK, Labels
  <1>2. QueueOK' BY <1>0, <1>f, <1>x DEF QueueOK
  <1>3. CopiedReads' BY <1>0, <1>f, <1>x, <1>h DEF CopiedReads, Inside, InGate
  <1>4. VersionsOK' /\ VersionMeansCurrent' BY <1>0, <1>f, <1>x DEF VersionsOK, VersionMeansCurrent
  <1>5. ReadsFresh' BY <1>0, <1>f, <1>x, <1>h DEF ReadsFresh, ReadSeesAcked, TruncateIsSeen
  <1>6. CommitOrder' BY <1>0, <1>f, <1>x, <1>h DEF CommitOrder, Reach, Kept
  <1>7. TruncateOrder' BY <1>0, <1>f, <1>x, <1>h DEF TruncateOrder, Reach, Kept, InGate
  <1>8. CleanReads' BY <1>0, <1>f, <1>x, <1>h DEF CleanReads, Reach, Inside, InGate
  <1>9. PatchedReads' BY <1>0, <1>f, <1>x, <1>h DEF PatchedReads
  <1> QED BY <1>1, <1>2, <1>3, <1>4, <1>5, <1>6, <1>7, <1>8, <1>9 DEF IInv

LEMMA BlocksFailKeeps ==
  ASSUME NEW h \in Handles, IInv, ~overtaken, BlocksFail(h)
  PROVE  IInv'
  <1>0. /\ TypeOK /\ QueueOK /\ CopiedReads /\ VersionsOK /\ ReadsFresh /\ VersionMeansCurrent
        /\ CommitOrder /\ TruncateOrder /\ CleanReads /\ PatchedReads
    BY DEF IInv
  <1>f. /\ pc[h] = "blocks" /\ pc' = [pc EXCEPT ![h] = "chunk"]
        /\ chunk_slices' = [chunk_slices EXCEPT ![h] = NoEntry]
        /\ cached' = NoEntry
        /\ UNCHANGED <<list, version, node, dirty, committer, writing, truncater, done, overtaken, got,
                       asked, partial, snapshot, seenAt, cutAt>>
    BY DEF BlocksFail, Reading, Goto, store, client, writer
  <1>h. \A q \in Handles : q \in Readers BY DEF Readers
  <1>x. /\ pc' \in [Readers -> Labels] /\ pc'[h] = "chunk" /\ \A q \in Readers \ {h} : pc'[q] = pc[q]
    <2>1. pc \in [Readers -> Labels] BY <1>0 DEF TypeOK, Labels
    <2> QED BY <1>f, <1>h, <2>1 DEF Labels, InGate
  <1>1. TypeOK' BY <1>0, <1>f, <1>x DEF TypeOK, Labels
  <1>2. QueueOK' BY <1>0, <1>f, <1>x DEF QueueOK
  <1>3. CopiedReads' BY <1>0, <1>f, <1>x, <1>h DEF CopiedReads, Inside, InGate
  <1>4. VersionsOK' /\ VersionMeansCurrent' BY <1>0, <1>f, <1>x DEF VersionsOK, VersionMeansCurrent
  <1>5. ReadsFresh' BY <1>0, <1>f, <1>x, <1>h DEF ReadsFresh, ReadSeesAcked, TruncateIsSeen
  <1>6. CommitOrder' BY <1>0, <1>f, <1>x, <1>h DEF CommitOrder, Reach, Kept
  <1>7. TruncateOrder' BY <1>0, <1>f, <1>x, <1>h DEF TruncateOrder, Reach, Kept, InGate
  <1>8. CleanReads' BY <1>0, <1>f, <1>x, <1>h DEF CleanReads, Reach, Inside, InGate
  <1>9. PatchedReads' BY <1>0, <1>f, <1>x, <1>h DEF PatchedReads
  <1> QED BY <1>1, <1>2, <1>3, <1>4, <1>5, <1>6, <1>7, <1>8, <1>9 DEF IInv

LEMMA BlocksReadKeeps ==
  ASSUME NEW h \in Handles, IInv, ~overtaken, BlocksRead(h)
  PROVE  IInv'
  <1>0. /\ TypeOK /\ QueueOK /\ CopiedReads /\ VersionsOK /\ ReadsFresh /\ VersionMeansCurrent
        /\ CommitOrder /\ TruncateOrder /\ CleanReads /\ PatchedReads
    BY DEF IInv
  <1>f. /\ pc[h] = "blocks" /\ pc' = [pc EXCEPT ![h] = "patch"]
        /\ UNCHANGED <<list, version, node, cached, chunk_slices, dirty, committer, writing, truncater,
                       done, overtaken, got, asked, partial, snapshot, seenAt, cutAt>>
    BY DEF BlocksRead, Reading, Goto, OnlyReads, store, client, writer
  <1>h. \A q \in Handles : q \in Readers BY DEF Readers
  <1>x. /\ pc' \in [Readers -> Labels] /\ pc'[h] = "patch" /\ \A q \in Readers \ {h} : pc'[q] = pc[q]
    <2>1. pc \in [Readers -> Labels] BY <1>0 DEF TypeOK, Labels
    <2> QED BY <1>f, <1>h, <2>1 DEF Labels, InGate
  <1>1. TypeOK' BY <1>0, <1>f, <1>x DEF TypeOK, Labels
  <1>2. QueueOK' BY <1>0, <1>f, <1>x DEF QueueOK
  <1>3. CopiedReads' BY <1>0, <1>f, <1>x, <1>h DEF CopiedReads, Inside, InGate
  <1>4. VersionsOK' /\ VersionMeansCurrent' BY <1>0, <1>f, <1>x DEF VersionsOK, VersionMeansCurrent
  <1>5. ReadsFresh' BY <1>0, <1>f, <1>x, <1>h DEF ReadsFresh, ReadSeesAcked, TruncateIsSeen
  <1>6. CommitOrder' BY <1>0, <1>f, <1>x, <1>h DEF CommitOrder, Reach, Kept
  <1>7. TruncateOrder' BY <1>0, <1>f, <1>x, <1>h DEF TruncateOrder, Reach, Kept, InGate
  <1>8. CleanReads' BY <1>0, <1>f, <1>x, <1>h DEF CleanReads, Reach, Inside, InGate
  <1>9. PatchedReads'
    <2>1. truncater = "idle" BY <1>0, <1>f DEF TruncateOrder, InGate
    <2>2. got[h] >= list.base /\ cutAt[h] <= list.base BY <1>0, <1>f, <2>1 DEF TruncateOrder, CopiedReads
    <2>3. got[h] \in Nat /\ list.base \in Nat /\ cutAt[h] \in Nat BY <1>0, <1>h DEF TypeOK, Events
    <2> QED BY <1>0, <1>f, <1>x, <1>h, <2>2, <2>3 DEF PatchedReads
  <1> QED BY <1>1, <1>2, <1>3, <1>4, <1>5, <1>6, <1>7, <1>8, <1>9 DEF IInv

LEMMA AgainKeeps ==
  ASSUME NEW r \in Readers, IInv, ~overtaken, Again(r)
  PROVE  IInv'
  <1>t. /\ TypeOK /\ VersionsOK /\ pc \in [Readers -> Labels] /\ got \in [Readers -> Events]
        /\ asked \in [Readers -> Nat] /\ partial \in [Handles -> BOOLEAN]
        /\ snapshot \in [Handles -> Events \cup {NoEntry}]
        /\ seenAt \in [Handles -> Events] /\ cutAt \in [Handles -> Events]
        /\ done.mine \in Nat /\ list.base \in Nat /\ version \in Nat /\ 0 \in Events
    BY ReadPathAssumption DEF IInv, TypeOK, Labels, Events
  <1>f. UNCHANGED <<list, version, chunk_slices, dirty, committer, writing, truncater, done, overtaken,
                    node, cached>>
    BY DEF Again, store, client, writer
  <1>1. pc' = [pc EXCEPT ![r] = "idle"] /\ got' = [got EXCEPT ![r] = 0] /\ asked' = [asked EXCEPT ![r] = 0]
    BY DEF Again, Reading, Goto, Hold
  <1>2. /\ pc' \in [Readers -> Labels] /\ got' \in [Readers -> Events] /\ asked' \in [Readers -> Nat]
        /\ pc'[r] = "idle" /\ asked'[r] <= version
        /\ \A q \in Readers \ {r} : pc'[q] = pc[q] /\ got'[q] = got[q] /\ asked'[q] = asked[q]
    <2>1. pc' \in [Readers -> Labels] /\ pc'[r] = "idle" /\ \A q \in Readers \ {r} : pc'[q] = pc[q]
      BY <1>t, <1>1 DEF Labels
    <2>2. got' \in [Readers -> Events] /\ \A q \in Readers \ {r} : got'[q] = got[q]
      BY <1>t, <1>1
    <2>3. /\ asked' \in [Readers -> Nat] /\ asked'[r] <= version
          /\ \A q \in Readers \ {r} : asked'[q] = asked[q]
      BY <1>t, <1>1
    <2> QED BY <2>1, <2>2, <2>3
  <1>3. /\ partial' \in [Handles -> BOOLEAN]
        /\ snapshot' \in [Handles -> Events \cup {NoEntry}]
        /\ seenAt' \in [Handles -> Events] /\ cutAt' \in [Handles -> Events]
        /\ \A h \in Handles \ {r} :
             snapshot'[h] = snapshot[h] /\ seenAt'[h] = seenAt[h] /\ cutAt'[h] = cutAt[h]
        /\ r \in Handles => seenAt'[r] = 0 /\ cutAt'[r] = 0
    <2>1. CASE r \in Handles
      <3>1. /\ partial' = [partial EXCEPT ![r] = FALSE]
            /\ snapshot' = [snapshot EXCEPT ![r] = NoEntry]
            /\ seenAt' = [seenAt EXCEPT ![r] = 0] /\ cutAt' = [cutAt EXCEPT ![r] = 0]
        BY <2>1 DEF Again
      <3>2. partial' \in [Handles -> BOOLEAN] BY <1>t, <3>1
      <3>3. /\ snapshot' \in [Handles -> Events \cup {NoEntry}]
            /\ seenAt' \in [Handles -> Events] /\ cutAt' \in [Handles -> Events]
        BY <1>t, <3>1
      <3> QED BY <1>t, <2>1, <3>1, <3>2, <3>3
    <2>2. CASE r \notin Handles BY <1>t, <2>2 DEF Again
    <2> QED BY <2>1, <2>2
  <1>4. TypeOK' BY <1>t, <1>f, <1>2, <1>3 DEF TypeOK, Labels
  <1>5. r \in Handles => seenAt'[r] <= done.mine /\ cutAt'[r] <= list.base BY <1>t, <1>3
  <1> QED BY <1>f, <1>2, <1>3, <1>4, <1>5, OutsideKeeps

LEMMA StartReadKeeps ==
  ASSUME NEW h \in Handles, IInv, ~overtaken, StartRead(h)
  PROVE  IInv'
  <1>t. /\ TypeOK /\ VersionsOK /\ pc \in [Readers -> Labels] /\ h \in Readers
        /\ partial \in [Handles -> BOOLEAN]
        /\ seenAt \in [Handles -> Events] /\ cutAt \in [Handles -> Events]
        /\ done.mine \in Events /\ list.base \in Events /\ Events \subseteq Nat
    <2>1. TypeOK /\ VersionsOK BY DEF IInv
    <2>2. /\ pc \in [Readers -> Labels] /\ partial \in [Handles -> BOOLEAN]
          /\ seenAt \in [Handles -> Events] /\ cutAt \in [Handles -> Events]
          /\ done \in [events : Events, mine : Events] /\ list \in [top : Events, base : Events]
      BY <2>1 DEF TypeOK, Labels
    <2>3. h \in Readers /\ Events \subseteq Nat BY DEF Readers, Events
    <2> QED BY <2>1, <2>2, <2>3
  <1>f. UNCHANGED <<list, version, chunk_slices, dirty, committer, writing, truncater, done, overtaken,
                    node, cached, got, asked, snapshot>>
    BY DEF StartRead, store, client, writer
  <1>1. /\ pc' = [pc EXCEPT ![h] = "probe"]
        /\ seenAt' = [seenAt EXCEPT ![h] = done.mine] /\ cutAt' = [cutAt EXCEPT ![h] = list.base]
        /\ \E b \in BOOLEAN : partial' = [partial EXCEPT ![h] = b]
    BY DEF StartRead, Reading, Goto
  <1>2. partial' \in [Handles -> BOOLEAN] BY <1>t, <1>1
  <1>3. /\ pc' \in [Readers -> Labels] /\ seenAt' \in [Handles -> Events] /\ cutAt' \in [Handles -> Events]
        /\ pc'[h] = "probe" /\ seenAt'[h] <= done.mine /\ cutAt'[h] <= list.base
        /\ \A q \in Readers \ {h} : pc'[q] = pc[q]
        /\ \A q \in Handles \ {h} : seenAt'[q] = seenAt[q] /\ cutAt'[q] = cutAt[q]
    <2>1. pc' \in [Readers -> Labels] /\ pc'[h] = "probe" /\ \A q \in Readers \ {h} : pc'[q] = pc[q]
      BY <1>t, <1>1 DEF Labels
    <2>2. /\ seenAt' \in [Handles -> Events] /\ seenAt'[h] = done.mine
          /\ cutAt' \in [Handles -> Events] /\ cutAt'[h] = list.base
          /\ \A q \in Handles \ {h} : seenAt'[q] = seenAt[q] /\ cutAt'[q] = cutAt[q]
      BY <1>t, <1>1
    <2>3. done.mine \in Nat /\ list.base \in Nat BY <1>t
    <2> QED BY <2>1, <2>2, <2>3
  <1>4. TypeOK' BY <1>t, <1>f, <1>2, <1>3 DEF TypeOK, Labels
  <1>5. asked'[h] <= version BY <1>t, <1>f DEF VersionsOK
  <1> QED BY <1>t, <1>f, <1>3, <1>4, <1>5, OutsideKeeps

LEMMA ProberKeeps ==
  ASSUME NEW p \in Probers, IInv, ~overtaken, StartProbe(p) \/ EndProbe(p)
  PROVE  IInv'
  <1>t. /\ TypeOK /\ VersionsOK /\ pc \in [Readers -> Labels] /\ p \in Readers /\ p \notin Handles
    BY ReadPathAssumption DEF IInv, TypeOK, Labels, Readers
  <1>f. UNCHANGED <<list, version, chunk_slices, dirty, committer, writing, truncater, done, overtaken,
                    node, cached, got, asked, partial, snapshot, seenAt, cutAt>>
    BY DEF StartProbe, EndProbe, OnlyReads, store, client, writer
  <1>1. pc' = [pc EXCEPT ![p] = "lookup"] \/ pc' = [pc EXCEPT ![p] = "done"]
    BY DEF StartProbe, EndProbe, Reading, Goto
  <1>2. /\ pc' \in [Readers -> Labels] /\ pc'[p] \in {"lookup", "done"}
        /\ \A q \in Readers \ {p} : pc'[q] = pc[q]
    BY <1>t, <1>1 DEF Labels, InGate
  <1>3. TypeOK' BY <1>t, <1>f, <1>2 DEF TypeOK, Labels
  <1>4. asked'[p] <= version BY <1>t, <1>f DEF VersionsOK
  <1> QED BY <1>t, <1>f, <1>2, <1>3, <1>4, OutsideKeeps

-----------------------------------------------------------------------------
(* The theorems.                                                             *)

LEMMA InitHolds == Init => IInv
  <1> SUFFICES ASSUME Init PROVE IInv OBVIOUS
  <1>1. TypeOK
    <2>1. dirty \in Seq(Events) BY DEF Init
    <2>2. 0 \in Events BY ReadPathAssumption DEF Events
    <2>3. list \in [top : Events, base : Events] /\ done \in [events : Events, mine : Events]
      BY <2>2 DEF Init
    <2>4. overtaken \in BOOLEAN /\ node \in BOOLEAN /\ writing \in BOOLEAN BY DEF Init
    <2> QED BY <2>1, <2>2, <2>3, <2>4 DEF Init, TypeOK
  <1>2. /\ list.top = 0 /\ list.base = 0 /\ done.events = 0 /\ done.mine = 0
        /\ Len(dirty) = 0 /\ Handles \subseteq Readers
    BY DEF Init, Readers
  <1>3. QueueOK BY <1>2 DEF Init, QueueOK
  <1>4. CopiedReads /\ VersionsOK /\ ReadsFresh /\ VersionMeansCurrent
    BY <1>2 DEF Init, CopiedReads, VersionsOK, ReadsFresh, ReadSeesAcked, TruncateIsSeen,
                VersionMeansCurrent, Inside, InGate
  <1>5. CommitOrder /\ TruncateOrder /\ CleanReads /\ PatchedReads
    BY <1>2 DEF Init, CommitOrder, TruncateOrder, CleanReads, PatchedReads, Reach, Kept, Inside, InGate
  <1> QED BY <1>1, <1>3, <1>4, <1>5 DEF IInv

LEMMA StutterKeeps == IInv /\ UNCHANGED vars => IInv'
  <1> SUFFICES ASSUME IInv, UNCHANGED vars PROVE IInv' OBVIOUS
  <1>f. UNCHANGED <<list, version, node, cached, chunk_slices, dirty, committer, writing, truncater,
                    done, overtaken, pc, got, asked, partial, snapshot, seenAt, cutAt>>
    BY DEF vars
  <1>1. TypeOK' BY <1>f DEF IInv, TypeOK
  <1>2. QueueOK' /\ CopiedReads' /\ VersionsOK' BY <1>f DEF IInv, QueueOK, CopiedReads, VersionsOK
  <1>3. ReadsFresh' /\ VersionMeansCurrent'
    BY <1>f DEF IInv, ReadsFresh, ReadSeesAcked, TruncateIsSeen, VersionMeansCurrent
  <1>4. ~overtaken' => CommitOrder' /\ TruncateOrder'
    BY <1>f DEF IInv, CommitOrder, TruncateOrder, Reach, Kept
  <1>5. ~overtaken' => CleanReads' /\ PatchedReads'
    BY <1>f DEF IInv, CleanReads, PatchedReads, Reach
  <1> QED BY <1>1, <1>2, <1>3, <1>4, <1>5 DEF IInv

LEMMA GetSlicesKeeps ==
  ASSUME NEW r \in Readers, IInv, ~overtaken, GetSlices(r)
  PROVE  IInv'
  BY LookupKeeps, CheckKeeps, SettleKeeps, RegetKeeps, FetchKeeps, InsertKeeps DEF GetSlices

LEMMA NextHolds == IInv /\ [Next]_vars => IInv'
  <1> SUFFICES ASSUME IInv, [Next]_vars PROVE IInv' OBVIOUS
  <1>1. CASE UNCHANGED vars BY <1>1, StutterKeeps
  <1>2. CASE Next
    <2>0. ~overtaken BY <1>2 DEF Next
    <2>1. CASE WriterStep
      BY <2>0, <2>1, WriteKeeps, WriteInvalidateKeeps, CommitStoreKeeps, CommitAppendKeeps,
         CommitInvalidateKeeps, CommitMarkKeeps, TruncateLockKeeps, TruncateStoreKeeps,
         TruncateUncacheKeeps, TruncateReturnKeeps DEF WriterStep
    <2>2. CASE RemoteWrite \/ Expire \/ Evict \/ FreshStat
      BY <2>0, <2>2, RemoteWriteKeeps, ExpireKeeps, EvictKeeps, FreshStatKeeps
    <2>3. ASSUME NEW h \in Handles, ReadStep(h) \/ BlocksFail(h) PROVE IInv'
      <3>1. h \in Readers BY DEF Readers
      <3> QED BY <2>0, <2>3, <3>1, GetSlicesKeeps, ProbeKeeps, SnapshotDirtyKeeps, EnterGateKeeps,
                 ChunkHitKeeps, KeepChunkKeeps, BlocksFailKeeps, BlocksReadKeeps, OverlayKeeps,
                 StartReadKeeps, AgainKeeps DEF ReadStep
    <2>4. ASSUME NEW p \in Probers, ProbeStep(p) PROVE IInv'
      <3>1. p \in Readers BY DEF Readers
      <3> QED BY <2>0, <2>4, <3>1, GetSlicesKeeps, ProberKeeps, AgainKeeps DEF ProbeStep
    <2> QED BY <1>2, <2>1, <2>2, <2>3, <2>4 DEF Next
  <1> QED BY <1>1, <1>2

LEMMA InvariantHolds == Spec => []IInv
  <1> QED BY InitHolds, NextHolds, PTL DEF Spec

(* A read of a handle returns the last write of this client, and nothing     *)
(* from before the last truncation, that had returned when it began, for any *)
(* number of handles, of tasks that fill the cache and of events             *)
(* (read_handle_inner, commit_chunk, truncate_inode, get_slices).            *)
THEOREM ReadsAreFresh == Spec => []ReadsFresh
  <1>1. IInv => ReadsFresh BY DEF IInv
  <1> QED BY <1>1, InvariantHolds, PTL

(* The states are well typed, and a cached list whose version is the store's *)
(* is the store's list (get_slices_with_version, append_slice).              *)
THEOREM VersionsAreTrusted == Spec => []VersionsTrusted
  <1>1. IInv => VersionsTrusted BY DEF IInv, VersionsTrusted
  <1> QED BY <1>1, InvariantHolds, PTL
=============================================================================
