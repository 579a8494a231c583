------------------------- MODULE ChunkSlicesProofs -------------------------
(***************************************************************************)
(* Proofs about ChunkSlices for any number of writers, truncaters,         *)
(* compaction workers and collectors, and any chunk length.                *)
(***************************************************************************)
EXTENDS ChunkSlices, FiniteSetTheorems, WellFoundedInduction, TLAPS

----------------------------------------------------------------------------
(* The inductive invariant behind NoDanglingSlice.                         *)

Unpublished == {"upload", "heavy", "heavylist", "heavycas"}
Condemning == {"mark", "erase", "confirm", "eraseorphan", "forget"}

\* Some process could still put slice s on the list.
Publishable(s) ==
  \/ \E w \in Writers : wr[w].pc = "uploaded" /\ wr[w].id = s
  \/ /\ uncommitted[s].st = "pending"
     /\ \E c \in Compactors : cp[c].pc \in Unpublished /\ cp[c].id = s

\* Allocated, and no longer publishable: a slice never leaves this state.
Settled(s) == s < nextId /\ ~Publishable(s)

Gone(s) == Settled(s) /\ s \notin Ids(slices)

\* A list read no earlier than the version it is paired with is the current
\* list as long as the version is current.
CasCoherent ==
  /\ \A t \in Truncaters :
       /\ tr[t].rver <= version
       /\ tr[t].pc = "cas" /\ tr[t].rver = version => tr[t].rlist = slices
  /\ \A c \in Compactors :
       /\ cp[c].rver <= version
       /\ cp[c].pc = "lightcas" /\ cp[c].rver = version => cp[c].rlist = slices

\* Slice identifiers in flight are allocated and belong to one process.
WritersOwn ==
  \A w \in Writers :
    /\ wr[w].id < nextId
    /\ wr[w].pc = "uploaded" =>
         /\ wr[w].id # None
         /\ \A v \in Writers \ {w} : wr[v].id # wr[w].id
         /\ \A c \in Compactors : cp[c].id # wr[w].id
         /\ uncommitted[wr[w].id].st = "none"

CompactorsOwn ==
  \A c \in Compactors :
    /\ cp[c].id < nextId
    /\ cp[c].id = None \/ \A b \in Compactors \ {c} : cp[b].id # cp[c].id
    /\ cp[c].pc \in Unpublished \cup {"cleanup", "confirm"} => cp[c].id # None

OwnersDistinct ==
  /\ WritersOwn /\ CompactorsOwn
  /\ \A s \in SliceIds : uncommitted[s].st # "none" => s < nextId

\* What the list and the snapshots name was published and cannot be again.
NamedSettled ==
  /\ \A e \in slices : Settled(e.id) /\ e.seq <= version
  /\ \A e, f \in slices : e.id = f.id => e = f
  /\ \A c \in Compactors : \A e \in cp[c].snap : Settled(e.id) /\ e.seq <= version

\* What is condemned, claimed or being cleaned up is off the list for good;
\* what is reserved or unpublished is not on it yet.
DelayedGone == \A d \in delayed : Gone(d.sid)

RecordsGone ==
  \A s \in SliceIds :
    /\ uncommitted[s].st # "none" => s \notin Ids(slices)
    /\ uncommitted[s].st = "orphan" => Gone(s)

CollectorsGone ==
  \A g \in Collectors :
    /\ gc[g].pc # "idle" => gc[g].sid \in SliceIds
    /\ gc[g].pc \in Condemning => \A s \in SliceIds : s = gc[g].sid => Gone(s)

OwnedOffList ==
  /\ \A c \in Compactors :
       /\ cp[c].pc = "cleanup" => \A s \in SliceIds : s = cp[c].id => Gone(s)
       /\ cp[c].pc \in Unpublished => cp[c].id \notin Ids(slices)
  /\ \A w \in Writers : wr[w].pc = "uploaded" => wr[w].id \notin Ids(slices)

CondemnedGone == DelayedGone /\ RecordsGone /\ CollectorsGone /\ OwnedOffList

\* The blocks of what is, or can still be, published exist.
WritersBacked ==
  \A w \in Writers : wr[w].pc = "uploaded" =>
    \A u \in Units : u < wr[w].len => blocks[wr[w].id][u] # Absent

SnapsKnown ==
  \A c \in Compactors : cp[c].pc \in {"merge"} \cup Unpublished => cp[c].snap # {}

MergesBacked ==
  \A c \in Compactors : \A u \in Units : u < OccupiedEnd(cp[c].snap) =>
    /\ cp[c].pc = "upload" => cp[c].buf[u] # Absent
    /\ cp[c].pc \in Unpublished \ {"upload"} /\ uncommitted[cp[c].id].st = "pending" =>
         blocks[cp[c].id][u] # Absent

BlocksBehind == NoDanglingSlice /\ WritersBacked /\ SnapsKnown /\ MergesBacked

IInv == /\ TypeOK /\ CasCoherent /\ OwnersDistinct
        /\ NamedSettled /\ CondemnedGone /\ BlocksBehind

----------------------------------------------------------------------------
(* Facts about the helpers. *)

\* A nonempty bounded set of naturals has a greatest element.
LEMMA MaxExists ==
  ASSUME NEW S, S \subseteq Nat, S # {}, NEW B \in Nat, \A x \in S : x <= B
  PROVE  \E m \in S : \A x \in S : x <= m
<1> DEFINE T == {B - x : x \in S}
<1>1. T \subseteq Nat /\ T # {}
  <2>1. \A x \in S : B - x \in Nat
    OBVIOUS
  <2>2. T # {}
    OBVIOUS
  <2> QED
    BY <2>1, <2>2
<1>2. PICK n \in T : \A y \in T : ~(<<y, n>> \in OpToRel(<, Nat))
  <2>1. IsWellFoundedOn(OpToRel(<, Nat), Nat)
    BY NatLessThanWellFounded
  <2> QED
    BY <1>1, <2>1, WFMin
<1>3. \A y \in T : ~(y < n)
  BY <1>1, <1>2 DEF OpToRel
<1>4. PICK m \in S : n = B - m
  OBVIOUS
<1>5. ASSUME NEW x \in S PROVE x <= m
  <2>1. ~(B - x < n)
    BY <1>3
  <2> QED
    BY <2>1, <1>4
<1> QED
  BY <1>5

\* occupied_end is the end of some slice and bounds the end of every slice.
LEMMA OccupiedEndMax ==
  ASSUME NEW es \in SUBSET SliceDesc, es # {}
  PROVE  /\ OccupiedEnd(es) \in 1 .. ChunkLen
         /\ \E e \in es : End(e) = OccupiedEnd(es)
         /\ \A e \in es : End(e) <= OccupiedEnd(es)
<1> DEFINE S == {End(e) : e \in es}
<1>0. \A e \in es : End(e) \in 1 .. ChunkLen
  BY ChunkAssumption DEF SliceDesc, End, Units
<1>1. S \subseteq Nat /\ S # {} /\ \A x \in S : x \in 1 .. ChunkLen
  BY <1>0, ChunkAssumption
<1>2. \E m \in S : \A x \in S : x <= m
  <2>1. ChunkLen \in Nat /\ \A x \in S : x <= ChunkLen
    BY <1>1, ChunkAssumption
  <2> HIDE DEF S
  <2> QED
    BY <1>1, <2>1, MaxExists
<1>3. Max(S) \in S /\ \A x \in S : Max(S) >= x
  BY <1>1, <1>2 DEF Max
<1>4. OccupiedEnd(es) = Max(S)
  BY DEF OccupiedEnd
<1> QED
  BY <1>0, <1>1, <1>3, <1>4, ChunkAssumption

\* What a merge of readable, overlapping slices puts at an occupied position
\* is some slice's block, or a hole where no slice covers the position.
LEMMA VisiblePresent ==
  ASSUME TypeOK, NEW es \in SUBSET SliceDesc, NEW B \in Nat, \A e \in es : e.seq <= B,
         Readable(es), NEW p \in Units
  PROVE  VisibleAt(es, blocks, p) \in Values
<1> DEFINE over == {e \in es : Covers(e, p)}
<1>1. CASE over = {}
  BY <1>1, ChunkAssumption DEF VisibleAt, Values, Hole
<1>2. CASE over # {}
  <2> DEFINE S == {e.seq : e \in over}
             top == CHOOSE e \in over : \A f \in over : f.seq <= e.seq
  <2>1. S \subseteq Nat /\ S # {} /\ \A x \in S : x <= B
    BY <1>2 DEF SliceDesc
  <2>2. \E m \in S : \A x \in S : x <= m
    <3> HIDE DEF S
    <3> QED
      BY <2>1, MaxExists
  <2>3. \E e \in over : \A f \in over : f.seq <= e.seq
    BY <2>2
  <2>4. top \in over
    <3> HIDE DEF over
    <3> QED
      BY <2>3
  <2>5. top \in SliceDesc /\ p - top.off \in Units /\ p - top.off < top.len
    BY <2>4, ChunkAssumption DEF SliceDesc, Covers, End, Units
  <2>6. blocks[top.id][p - top.off] # Absent
    BY <2>4, <2>5 DEF Readable
  <2>7. blocks[top.id][p - top.off] \in Values \cup {Absent}
    BY <2>5 DEF TypeOK, SliceDesc
  <2>8. VisibleAt(es, blocks, p) = blocks[top.id][p - top.off]
    BY <1>2 DEF VisibleAt
  <2> HIDE DEF top
  <2> QED
    BY <2>6, <2>7, <2>8
<1> QED
  BY <1>1, <1>2

----------------------------------------------------------------------------
(* Type correctness. *)

Ledger == [st : {"none", "pending", "orphan"}, sz : Nat]
Condemned == [id : SliceIds, len : Nat]

\* The part of TypeOK about the variables CHUNK_COMPACT_LUA writes.
ListTypes ==
  /\ slices \subseteq SliceDesc
  /\ version \in Nat
  /\ physical \in [SliceIds -> Nat]
  /\ delayed \subseteq DelayedRecord
  /\ uncommitted \in [SliceIds -> Ledger]

\* The initial local states and the empty ledger record have their types.
LEMMA IdleTypes ==
  /\ WriterIdle \in WriterState /\ TruncaterIdle \in TruncaterState
  /\ CompactorIdle \in CompactorState /\ CollectorIdle \in CollectorState
  /\ [CompactorIdle EXCEPT !.pc = "unlock"] \in CompactorState
  /\ NoRecord \in Ledger /\ NoBlocks \in [Units -> Values \cup {Absent}]
<1>1. 0 \in Units /\ 0 \in 0 .. ChunkLen
  BY ChunkAssumption DEF Units
<1>2. WriterIdle \in WriterState
  BY <1>1 DEF WriterIdle, WriterState
<1>3. TruncaterIdle \in TruncaterState
  BY <1>1 DEF TruncaterIdle, TruncaterState
<1>4. CompactorIdle \in CompactorState
  BY DEF CompactorIdle, CompactorState
<1>5. CollectorIdle \in CollectorState
  BY DEF CollectorIdle, CollectorState
<1>6. [CompactorIdle EXCEPT !.pc = "unlock"] \in CompactorState
  BY <1>4 DEF CompactorState
<1> QED
  BY <1>2, <1>3, <1>4, <1>5, <1>6 DEF NoRecord, Ledger, NoBlocks

\* A plan is one of three, and only a nonempty snapshot is merged.
LEMMA PlanType ==
  ASSUME NEW es
  PROVE  /\ PlanFor(es) \in {"unlock", "light", "merge"}
         /\ PlanAfterLight(es) \in {"unlock", "merge"}
         /\ PlanFor(es) = "merge" => es # {}
         /\ PlanAfterLight(es) = "merge" => es # {}
<1>1. Cardinality({}) = 0
  BY FS_EmptySet
<1>2. CASE es = {}
  BY <1>1, <1>2 DEF PlanFor, PlanAfterLight
<1>3. CASE es # {}
  BY <1>3 DEF PlanFor, PlanAfterLight
<1> QED
  BY <1>2, <1>3

\* Trimming below the cutoff leaves well-formed slices.
LEMMA TrimmedType ==
  ASSUME NEW es \in SUBSET SliceDesc, NEW cutoff \in Units
  PROVE  Trimmed(es, cutoff) \in SUBSET SliceDesc
<1> SUFFICES ASSUME NEW e \in es, e.off < cutoff
             PROVE  [e EXCEPT !.len = IF End(e) > cutoff THEN cutoff - e.off ELSE e.len]
                      \in SliceDesc
  BY DEF Trimmed
<1> QED
  BY ChunkAssumption DEF SliceDesc, End, Units

\* encode_delayed_data yields identifiers with their lengths.
LEMMA DelayedDataType ==
  ASSUME NEW es \in SUBSET SliceDesc, NEW ids
  PROVE  DelayedData(es, ids) \in SUBSET Condemned
BY ChunkAssumption DEF DelayedData, Condemned, SliceDesc

\* The extents a collector finds in the list are extents.
LEMMA ExtentsType ==
  ASSUME TypeOK, NEW s
  PROVE  Extents(s) \in SUBSET Extent
BY DEF Extents, Extent, TypeOK, SliceDesc

\* Deleting blocks keeps the shape of the object store.
LEMMA DeleteBlocksType ==
  ASSUME TypeOK, NEW s, NEW n
  PROVE  DeleteBlocks(s, n) \in [SliceIds -> [Units -> Values \cup {Absent}]]
BY DEF DeleteBlocks, TypeOK

\* CHUNK_COMPACT_LUA keeps the types of the keys it writes.
LEMMA ChunkCompactType ==
  ASSUME TypeOK,
         NEW newList \in SUBSET SliceDesc, NEW newVersion \in Nat,
         NEW condemned \in SUBSET Condemned, NEW retained \in SUBSET Condemned,
         NEW published,
         ChunkCompact(newList, newVersion, condemned, retained, published)
  PROVE  ListTypes'
<1>1. slices' \subseteq SliceDesc /\ version' \in Nat
  BY DEF ChunkCompact
<1>2. physical' \in [SliceIds -> Nat]
  BY DEF ChunkCompact, TypeOK, Larger, Condemned
<1>3. delayed' \subseteq DelayedRecord
  BY DEF ChunkCompact, CondemnedSize, TypeOK, Larger, Condemned, DelayedRecord
<1>4. uncommitted' \in [SliceIds -> Ledger]
  BY IdleTypes DEF ChunkCompact, TypeOK, Ledger
<1> QED
  BY <1>1, <1>2, <1>3, <1>4 DEF ListTypes

\* Every step keeps the types.
LEMMA TypeStep ==
  ASSUME TypeOK, OwnersDistinct, NamedSettled, BlocksBehind, [Next]_vars
  PROVE  TypeOK'
<1>0. CASE UNCHANGED vars
  BY <1>0 DEF vars, TypeOK
<1>state. /\ \A t \in Truncaters : tr[t] \in TruncaterState
          /\ \A c \in Compactors : cp[c] \in CompactorState
          /\ \A g \in Collectors : gc[g] \in CollectorState
          /\ version \in Nat /\ slices \in SUBSET SliceDesc
  BY DEF TypeOK
<1>1. ASSUME NEW w \in Writers, NEW off \in Units, NEW len \in 1 .. ChunkLen,
            WriterUpload(w, off, len)
     PROVE  TypeOK'
  <2>1. [pc |-> "uploaded", id |-> nextId, off |-> off, len |-> len] \in WriterState
    BY <1>1, ChunkAssumption DEF TypeOK, WriterUpload, WriterState, SliceIds, End
  <2>2. wr' \in [Writers -> WriterState]
    BY <1>1, <2>1 DEF WriterUpload, TypeOK
  <2>3. blocks' \in [SliceIds -> [Units -> Values \cup {Absent}]]
    <3>1. nextId \in Values
      BY <1>1, ChunkAssumption DEF TypeOK, WriterUpload, Values
    <3>2. [u \in Units |-> IF u < len THEN nextId ELSE Absent]
            \in [Units -> Values \cup {Absent}]
      BY <3>1
    <3> QED
      BY <1>1, <3>2 DEF TypeOK, WriterUpload
  <2>4. nextId' \in 1 .. MaxSlices + 1
    BY <1>1, ChunkAssumption DEF TypeOK, WriterUpload
  <2> QED
    BY <1>1, <2>2, <2>3, <2>4 DEF TypeOK, WriterUpload, chunk, ledger, history
<1>2. ASSUME NEW w \in Writers, WriterCommit(w)
     PROVE  TypeOK'
  <2>1. WriterIdle \in WriterState
    BY IdleTypes
  <2>2. wr' \in [Writers -> WriterState]
    BY <1>2, <2>1 DEF WriterCommit, TypeOK
  <2>3. wr[w] \in WriterState /\ wr[w].pc = "uploaded" /\ wr[w].id # None
    BY <1>2 DEF TypeOK, WriterCommit, OwnersDistinct, WritersOwn
  <2>4. slices' \subseteq SliceDesc
    BY <1>2, <2>3, ChunkAssumption DEF TypeOK, WriterCommit, WriterState, SliceDesc, End,
      None
  <2>5. committed' \subseteq SliceIds
    BY <1>2, <2>3 DEF TypeOK, WriterCommit, WriterState
  <2> QED
    BY <1>2, <2>2, <2>4, <2>5 DEF TypeOK, WriterCommit, chunk, ledger, history
<1>3. ASSUME NEW w \in Writers, WriterFail(w)
     PROVE  TypeOK'
  <2>1. WriterIdle \in WriterState
    BY IdleTypes
  <2>2. wr' \in [Writers -> WriterState]
    BY <1>3, <2>1 DEF WriterFail, TypeOK
  <2>3. abandoned' \subseteq SliceIds
    BY <1>3 DEF TypeOK, WriterFail, OwnersDistinct, WritersOwn, WriterState
  <2> QED
    BY <1>3, <2>2, <2>3 DEF TypeOK, WriterFail, chunk, ledger, history
<1>4. ASSUME NEW t \in Truncaters, NEW cutoff \in Units, TruncateStart(t, cutoff)
     PROVE  TypeOK'
  <2>1. [TruncaterIdle EXCEPT !.pc = "list", !.cutoff = cutoff, !.rver = version]
          \in TruncaterState
    BY <1>4 DEF TypeOK, TruncaterState, TruncaterIdle
  <2>2. tr' \in [Truncaters -> TruncaterState]
    BY <1>4, <2>1 DEF TruncateStart, TypeOK
  <2> QED
    BY <1>4, <2>2 DEF TypeOK, TruncateStart, chunk, ledger, history
<1>5. ASSUME NEW t \in Truncaters, TruncateList(t)
     PROVE  TypeOK'
  <2>1. [tr[t] EXCEPT !.pc = "cas", !.rlist = slices] \in TruncaterState
    BY <1>state DEF TruncaterState
  <2>2. tr' \in [Truncaters -> TruncaterState]
    BY <1>5, <2>1 DEF TruncateList, TypeOK
  <2> QED
    BY <1>5, <2>2 DEF TypeOK, TruncateList, chunk, ledger, history
<1>6. ASSUME NEW t \in Truncaters, TruncateCas(t)
     PROVE  TypeOK'
  <2> DEFINE cutoff == tr[t].cutoff
             rlist == tr[t].rlist
             removed == {e \in rlist : e.off >= cutoff}
             cut == {e \in rlist : e.off < cutoff /\ End(e) > cutoff}
             v == TruncatedVersion(rlist, cutoff)
  <2>1. cutoff \in Units /\ rlist \in SUBSET SliceDesc /\ v \in Nat
    BY <1>6 DEF TypeOK, TruncaterState, TruncatedVersion
  <2>2. ChunkCompact(Trimmed(rlist, cutoff), v, DelayedData(rlist, Ids(removed)),
                     DelayedData(rlist, Ids(cut)), {})
    BY <1>6 DEF TruncateCas
  <2>3. Trimmed(rlist, cutoff) \in SUBSET SliceDesc
    <3> HIDE DEF rlist, cutoff
    <3> QED
      BY <2>1, TrimmedType
  <2>4. /\ DelayedData(rlist, Ids(removed)) \in SUBSET Condemned
        /\ DelayedData(rlist, Ids(cut)) \in SUBSET Condemned
    <3> HIDE DEF rlist, removed, cut
    <3> QED
      BY <2>1, DelayedDataType
  <2>5. ListTypes'
    <3> HIDE DEF rlist, removed, cut, cutoff, v
    <3> QED
      BY <2>1, <2>2, <2>3, <2>4, ChunkCompactType
  <2>6. tr' \in [Truncaters -> TruncaterState]
    BY <1>6, IdleTypes DEF TruncateCas, TypeOK
  <2> QED
    BY <1>6, <2>5, <2>6 DEF TypeOK, ListTypes, Ledger, TruncateCas, history
<1>7. ASSUME NEW t \in Truncaters, TruncateRetry(t)
     PROVE  TypeOK'
  <2>1. [tr[t] EXCEPT !.pc = "list", !.rver = version, !.rlist = {}] \in TruncaterState
    BY <1>state DEF TruncaterState
  <2>2. tr' \in [Truncaters -> TruncaterState]
    BY <1>7, <2>1, IdleTypes DEF TruncateRetry, TypeOK
  <2> QED
    BY <1>7, <2>2 DEF TypeOK, TruncateRetry, chunk, ledger, history
<1>8. ASSUME NEW c \in Compactors, CompactScan(c)
     PROVE  TypeOK'
  <2>1. [cp[c] EXCEPT !.pc = "scanned"] \in CompactorState
    BY <1>state DEF CompactorState, Working
  <2>2. cp' \in [Compactors -> CompactorState]
    BY <1>8, <2>1 DEF CompactScan, TypeOK, Step
  <2> QED
    BY <1>8, <2>2 DEF TypeOK, CompactScan, chunk, ledger, history, Step
<1>9. ASSUME NEW c \in Compactors, TryLock(c)
     PROVE  TypeOK'
  <2>1. /\ [cp[c] EXCEPT !.pc = "locked"] \in CompactorState
        /\ [cp[c] EXCEPT !.pc = "idle"] \in CompactorState
    BY <1>state DEF CompactorState, Working
  <2>2. cp' \in [Compactors -> CompactorState]
    BY <1>9, <2>1 DEF TryLock, TypeOK, Step
  <2>3. lock' \in [owner : Compactors \cup {Nobody}, expired : BOOLEAN]
    <3>1. [owner |-> c, expired |-> FALSE]
            \in [owner : Compactors \cup {Nobody}, expired : BOOLEAN]
      OBVIOUS
    <3> QED
      BY <1>9, <3>1 DEF TryLock, TypeOK
  <2> QED
    BY <1>9, <2>2, <2>3 DEF TypeOK, TryLock, chunk, ledger, history
<1>10. ASSUME NEW c \in Compactors, Snapshot(c)
     PROVE  TypeOK'
  <2> DEFINE pc == IF ShouldCompact(slices) THEN PlanFor(slices) ELSE "unlock"
  <2>1. PlanFor(slices) \in {"unlock", "light", "merge"}
    BY PlanType
  <2>2. pc \in Working \cup {"idle", "scanned", "cleanup", "unlock"}
    BY <2>1 DEF Working
  <2>3. cp[c] \in CompactorState /\ slices \in SUBSET SliceDesc
    BY <1>10 DEF TypeOK
  <2>4. cp' = [cp EXCEPT ![c] = [@ EXCEPT !.pc = pc, !.snap = slices]]
    BY <1>10 DEF Snapshot
  <2> HIDE DEF pc
  <2>5. [cp[c] EXCEPT !.pc = pc, !.snap = slices] \in CompactorState
    BY <2>2, <2>3 DEF CompactorState
  <2>6. cp' \in [Compactors -> CompactorState]
    BY <2>4, <2>5 DEF TypeOK
  <2> QED
    BY <1>10, <2>6 DEF TypeOK, Snapshot, chunk, ledger, history
<1>11. ASSUME NEW c \in Compactors, Unlock(c)
     PROVE  TypeOK'
  <2>1. CompactorIdle \in CompactorState
    BY IdleTypes
  <2>2. cp' \in [Compactors -> CompactorState]
    BY <1>11, <2>1 DEF Unlock, TypeOK
  <2>3. lock' \in [owner : Compactors \cup {Nobody}, expired : BOOLEAN]
    BY <1>11 DEF Unlock, TypeOK
  <2> QED
    BY <1>11, <2>2, <2>3 DEF TypeOK, Unlock, chunk, ledger, history
<1>12. ASSUME NEW c \in Compactors, LightVersion(c)
     PROVE  TypeOK'
  <2>1. [cp[c] EXCEPT !.pc = "lightlist", !.rver = version] \in CompactorState
    BY <1>state DEF CompactorState, Working
  <2>2. cp' \in [Compactors -> CompactorState]
    BY <1>12, <2>1 DEF LightVersion, TypeOK
  <2> QED
    BY <1>12, <2>2 DEF TypeOK, LightVersion, chunk, ledger, history
<1>13. ASSUME NEW c \in Compactors, LightList(c)
     PROVE  TypeOK'
  <2>1. [cp[c] EXCEPT !.pc = "lightcas", !.rlist = slices] \in CompactorState
    BY <1>state DEF CompactorState, Working
  <2>2. cp' \in [Compactors -> CompactorState]
    BY <1>13, <2>1 DEF LightList, TypeOK
  <2> QED
    BY <1>13, <2>2 DEF TypeOK, LightList, chunk, ledger, history
<1>14. ASSUME NEW c \in Compactors, LightCas(c)
     PROVE  TypeOK'
  <2> DEFINE snap == cp[c].snap
             ids == ReplacedIds(snap)
             new == {e \in cp[c].rlist : e.id \notin ids}
  <2>1. snap \in SUBSET SliceDesc /\ new \in SUBSET SliceDesc /\ version + 1 \in Nat
    BY <1>14 DEF TypeOK, CompactorState
  <2>2. ChunkCompact(new, version + 1, DelayedData(snap, ids), {}, {})
    BY <1>14 DEF LightCas
  <2>3. DelayedData(snap, ids) \in SUBSET Condemned
    <3> HIDE DEF snap, ids
    <3> QED
      BY <2>1, DelayedDataType
  <2>4. ListTypes'
    <3> HIDE DEF snap, ids, new
    <3> QED
      BY <2>1, <2>2, <2>3, ChunkCompactType
  <2>5. [CompactorIdle EXCEPT !.pc = "resnap"] \in CompactorState
    BY IdleTypes DEF CompactorState, Working
  <2>6. cp' \in [Compactors -> CompactorState]
    BY <1>14, <2>5 DEF LightCas, TypeOK
  <2> QED
    BY <1>14, <2>4, <2>6 DEF TypeOK, ListTypes, Ledger, LightCas, history
<1>15. ASSUME NEW c \in Compactors, LightRetry(c)
     PROVE  TypeOK'
  <2>1. [cp[c] EXCEPT !.pc = "lightlist", !.rver = version, !.rlist = {}] \in CompactorState
    BY <1>state DEF CompactorState, Working
  <2>2. cp' \in [Compactors -> CompactorState]
    BY <1>15, <2>1, IdleTypes DEF LightRetry, TypeOK
  <2> QED
    BY <1>15, <2>2 DEF TypeOK, LightRetry, chunk, ledger, history
<1>16. ASSUME NEW c \in Compactors, Resnapshot(c)
     PROVE  TypeOK'
  <2>1. [cp[c] EXCEPT !.pc = PlanAfterLight(slices), !.snap = slices] \in CompactorState
    BY <1>state, PlanType DEF CompactorState, Working
  <2>2. cp' \in [Compactors -> CompactorState]
    BY <1>16, <2>1 DEF Resnapshot, TypeOK
  <2> QED
    BY <1>16, <2>2 DEF TypeOK, Resnapshot, chunk, ledger, history
<1>17. ASSUME NEW c \in Compactors, HeavyMerge(c)
     PROVE  TypeOK'
  <2> DEFINE snap == cp[c].snap
             end == OccupiedEnd(snap)
             buf == [u \in Units |-> IF u < end THEN VisibleAt(snap, blocks, u) ELSE Absent]
  <2>1. snap \in SUBSET SliceDesc /\ snap # {} /\ Readable(snap)
    BY <1>17 DEF TypeOK, CompactorState, HeavyMerge, BlocksBehind, SnapsKnown
  <2>2. end \in Nat
    <3> HIDE DEF snap
    <3> QED
      BY <2>1, OccupiedEndMax
  <2>3. version \in Nat /\ \A e \in snap : e.seq <= version
    BY <1>17 DEF TypeOK, NamedSettled
  <2>4. ASSUME NEW u \in Units PROVE VisibleAt(snap, blocks, u) \in Values
    <3> HIDE DEF snap
    <3> QED
      BY <2>1, <2>3, VisiblePresent
  <2>5. buf \in [Units -> Values \cup {Absent}]
    <3> HIDE DEF snap, end
    <3> QED
      BY <2>4
  <2>6. nextId \in SliceIds /\ nextId' \in 1 .. MaxSlices + 1
    BY <1>17, ChunkAssumption DEF TypeOK, HeavyMerge, SliceIds
  <2> cp[c] \in CompactorState
    BY DEF TypeOK
  <2>7. [cp[c] EXCEPT !.pc = "upload", !.id = nextId, !.buf = buf] \in CompactorState
    <3> HIDE DEF buf
    <3> QED
      BY <2>5, <2>6, cp[c] \in CompactorState DEF CompactorState, Working
  <2>8. cp' = [cp EXCEPT ![c] = [cp[c] EXCEPT !.pc = "upload", !.id = nextId, !.buf = buf]]
    BY <1>17 DEF HeavyMerge, TypeOK
  <2>9. cp' \in [Compactors -> CompactorState]
    <3> HIDE DEF buf
    <3> QED
      BY <2>7, <2>8 DEF TypeOK
  <2>10. uncommitted' \in [SliceIds -> Ledger]
    BY <1>17, <2>2 DEF TypeOK, HeavyMerge, Ledger
  <2> QED
    BY <1>17, <2>6, <2>9, <2>10 DEF TypeOK, HeavyMerge, chunk, history, Ledger
<1>18. ASSUME NEW c \in Compactors, HeavyUpload(c)
     PROVE  TypeOK'
  <2>1. [cp[c] EXCEPT !.pc = "heavy", !.buf = NoBlocks] \in CompactorState
    BY <1>state DEF CompactorState, Working, NoBlocks
  <2>2. cp' \in [Compactors -> CompactorState]
    BY <1>18, <2>1 DEF HeavyUpload, TypeOK
  <2>3. blocks' \in [SliceIds -> [Units -> Values \cup {Absent}]]
    BY <1>18 DEF TypeOK, HeavyUpload, CompactorState
  <2> QED
    BY <1>18, <2>2, <2>3 DEF TypeOK, HeavyUpload, chunk, ledger, history
<1>19. ASSUME NEW c \in Compactors, HeavyVersion(c)
     PROVE  TypeOK'
  <2>1. [cp[c] EXCEPT !.pc = "heavylist", !.rver = version] \in CompactorState
    BY <1>state DEF CompactorState, Working
  <2>2. cp' \in [Compactors -> CompactorState]
    BY <1>19, <2>1 DEF HeavyVersion, TypeOK
  <2> QED
    BY <1>19, <2>2 DEF TypeOK, HeavyVersion, chunk, ledger, history
<1>20. ASSUME NEW c \in Compactors, HeavyList(c)
     PROVE  TypeOK'
  <2>1. [cp[c] EXCEPT !.pc = IF SameSlices(slices, cp[c].snap) THEN "heavycas" ELSE "cleanup"]
          \in CompactorState
    BY <1>state DEF CompactorState, Working
  <2>2. cp' \in [Compactors -> CompactorState]
    BY <1>20, <2>1 DEF HeavyList, TypeOK, Step
  <2> QED
    BY <1>20, <2>2 DEF TypeOK, HeavyList, chunk, ledger, history, Step
<1>21. ASSUME NEW c \in Compactors, HeavyCas(c)
     PROVE  TypeOK'
  <2> DEFINE snap == cp[c].snap
             new == [seq |-> version + 1, id |-> cp[c].id, off |-> 0, len |-> OccupiedEnd(snap)]
  <2>1. snap \in SUBSET SliceDesc /\ snap # {} /\ cp[c].id \in SliceIds /\ version + 1 \in Nat
    BY <1>21 DEF TypeOK, CompactorState, HeavyCas, BlocksBehind, SnapsKnown, OwnersDistinct,
      CompactorsOwn, Unpublished
  <2>2. OccupiedEnd(snap) \in 1 .. ChunkLen
    <3> HIDE DEF snap
    <3> QED
      BY <2>1, OccupiedEndMax
  <2>3. {new} \in SUBSET SliceDesc
    BY <2>1, <2>2, ChunkAssumption DEF SliceDesc, End, Units, TypeOK
  <2>4. DelayedData(snap, Ids(snap)) \in SUBSET Condemned
    <3> HIDE DEF snap
    <3> QED
      BY <2>1, DelayedDataType
  <2>5. ChunkCompact({new}, version + 1, DelayedData(snap, Ids(snap)), {}, {cp[c].id})
    BY <1>21 DEF HeavyCas
  <2>6. ListTypes'
    <3> HIDE DEF snap, new
    <3> QED
      BY <2>1, <2>3, <2>4, <2>5, ChunkCompactType
  <2>7. [cp[c] EXCEPT !.pc = "confirm"] \in CompactorState
    BY <1>state DEF CompactorState, Working
  <2>8. cp' \in [Compactors -> CompactorState]
    BY <1>21, <2>7 DEF HeavyCas, TypeOK, Step
  <2> QED
    BY <1>21, <2>6, <2>8 DEF TypeOK, ListTypes, Ledger, HeavyCas, history
<1>22. ASSUME NEW c \in Compactors, HeavyRefused(c)
     PROVE  TypeOK'
  <2>1. [cp[c] EXCEPT !.pc = "heavylist", !.rver = version] \in CompactorState
       /\ [cp[c] EXCEPT !.pc = "cleanup"] \in CompactorState
    BY <1>state DEF CompactorState, Working
  <2>2. cp' \in [Compactors -> CompactorState]
    BY <1>22, <2>1 DEF HeavyRefused, TypeOK, Step
  <2> QED
    BY <1>22, <2>2 DEF TypeOK, HeavyRefused, chunk, ledger, history
<1>23. ASSUME NEW c \in Compactors, HeavyConfirm(c)
     PROVE  TypeOK'
  <2>1. [CompactorIdle EXCEPT !.pc = "unlock"] \in CompactorState
    BY IdleTypes
  <2>2. cp' \in [Compactors -> CompactorState]
    BY <1>23, <2>1 DEF HeavyConfirm, TypeOK
  <2>3. uncommitted' \in [SliceIds -> Ledger]
    BY <1>23, IdleTypes DEF TypeOK, HeavyConfirm, Ledger
  <2> QED
    BY <1>23, <2>2, <2>3 DEF TypeOK, HeavyConfirm, chunk, ledger, history, Ledger
<1>24. ASSUME NEW c \in Compactors, NEW n \in 0 .. ChunkLen, HeavyCleanup(c, n)
     PROVE  TypeOK'
  <2>1. [CompactorIdle EXCEPT !.pc = "unlock"] \in CompactorState
    BY IdleTypes
  <2>2. cp' \in [Compactors -> CompactorState]
    BY <1>24, <2>1 DEF HeavyCleanup, TypeOK
  <2>3. abandoned' \subseteq SliceIds
    BY <1>24 DEF TypeOK, HeavyCleanup, LeftBehind, OwnersDistinct, CompactorsOwn,
      CompactorState, Unpublished
  <2>4. blocks' \in [SliceIds -> [Units -> Values \cup {Absent}]]
    BY <1>24, DeleteBlocksType DEF TypeOK, HeavyCleanup
  <2> QED
    BY <1>24, <2>2, <2>3, <2>4 DEF TypeOK, HeavyCleanup, chunk, ledger, history
<1>25. ASSUME NEW c \in Compactors, CompactError(c)
     PROVE  TypeOK'
  <2>1. [CompactorIdle EXCEPT !.pc = "unlock"] \in CompactorState
    BY IdleTypes
  <2>2. cp' \in [Compactors -> CompactorState]
    BY <1>25, <2>1 DEF CompactError, TypeOK
  <2>3. abandoned' \subseteq SliceIds
    BY <1>25 DEF TypeOK, CompactError, LeftBehind, OwnersDistinct, CompactorsOwn,
      CompactorState, Unpublished
  <2> QED
    BY <1>25, <2>2, <2>3 DEF TypeOK, CompactError, chunk, ledger, history
<1>26. ASSUME NEW c \in Compactors, CompactCrash(c)
     PROVE  TypeOK'
  <2>1. CompactorIdle \in CompactorState
    BY IdleTypes
  <2>2. cp' \in [Compactors -> CompactorState]
    BY <1>26, <2>1 DEF CompactCrash, TypeOK
  <2>3. abandoned' \subseteq SliceIds
    BY <1>26 DEF TypeOK, CompactCrash, LeftBehind, OwnersDistinct, CompactorsOwn,
      CompactorState, Unpublished
  <2> QED
    BY <1>26, <2>2, <2>3 DEF TypeOK, CompactCrash, chunk, ledger, history
<1>27. ASSUME NEW g \in Collectors, NEW d \in delayed, GcPick(g, d)
     PROVE  TypeOK'
  <2>1. [CollectorIdle EXCEPT
          !.pc = IF d.st = "pending" THEN "mark" ELSE "erase", !.sid = d.sid, !.sz = d.sz,
          !.at = d.at,
          !.found = IF d.st = "pending" THEN Extents(d.sid) ELSE {}] \in CollectorState
    BY <1>27, ExtentsType DEF TypeOK, CollectorIdle, CollectorState, DelayedRecord
  <2>2. gc' \in [Collectors -> CollectorState]
    BY <1>27, <2>1 DEF GcPick, TypeOK
  <2> QED
    BY <1>27, <2>2 DEF TypeOK, GcPick, chunk, ledger, history
<1>28. ASSUME NEW g \in Collectors, GcMark(g)
     PROVE  TypeOK'
  <2>1. [gc[g] EXCEPT !.pc = "erase", !.found = {}] \in CollectorState
    BY <1>state DEF CollectorState
  <2>2. gc' \in [Collectors -> CollectorState]
    BY <1>28, <2>1 DEF GcMark, TypeOK
  <2>3. slices' \subseteq SliceDesc /\ version' \in Nat
    BY <1>28 DEF TypeOK, GcMark
  <2>4. delayed' \subseteq DelayedRecord
    <3>1. \A d \in delayed : [d EXCEPT !.st = "meta_deleted"] \in DelayedRecord /\ d \in DelayedRecord
      BY DEF TypeOK, DelayedRecord
    <3> QED
      BY <1>28, <3>1 DEF GcMark
  <2> QED
    BY <1>28, <2>2, <2>3, <2>4 DEF TypeOK, GcMark, chunk, ledger, history
<1>29. ASSUME NEW g \in Collectors, GcConfirm(g)
     PROVE  TypeOK'
  <2>1. CollectorIdle \in CollectorState
    BY IdleTypes
  <2>2. gc' \in [Collectors -> CollectorState]
    BY <1>29, <2>1 DEF GcConfirm, TypeOK
  <2> QED
    BY <1>29, <2>2 DEF TypeOK, GcConfirm, chunk, ledger, history
<1>30. ASSUME NEW g \in Collectors, NEW n \in 0 .. ChunkLen, GcErase(g, n)
     PROVE  TypeOK'
  <2>1. [gc[g] EXCEPT !.pc = IF gc[g].pc = "erase" THEN "confirm" ELSE "forget"]
          \in CollectorState
    BY <1>state DEF CollectorState
  <2>2. gc' \in [Collectors -> CollectorState]
    BY <1>30, <2>1, IdleTypes DEF GcErase, TypeOK
  <2>3. blocks' \in [SliceIds -> [Units -> Values \cup {Absent}]]
    BY <1>30, DeleteBlocksType DEF TypeOK, GcErase
  <2> QED
    BY <1>30, <2>2, <2>3 DEF TypeOK, GcErase, chunk, ledger, history
<1>31. ASSUME NEW g \in Collectors, NEW s \in SliceIds, GcInspect(g, s)
     PROVE  TypeOK'
  <2>1. [CollectorIdle EXCEPT
          !.pc = IF Reserved(s) THEN "orphanlist" ELSE "eraseorphan",
          !.sid = s, !.sz = uncommitted[s].sz,
          !.rver = IF Reserved(s) THEN version ELSE 0] \in CollectorState
    BY <1>31 DEF TypeOK, CollectorIdle, CollectorState
  <2>2. gc' \in [Collectors -> CollectorState]
    BY <1>31, <2>1 DEF GcInspect, TypeOK
  <2> QED
    BY <1>31, <2>2 DEF TypeOK, GcInspect, chunk, ledger, history
<1>32. ASSUME NEW g \in Collectors, GcOrphanList(g)
     PROVE  TypeOK'
  <2>1. [gc[g] EXCEPT !.pc = "claim", !.found = Extents(gc[g].sid)] \in CollectorState
    BY <1>state, ExtentsType DEF CollectorState
  <2>2. gc' \in [Collectors -> CollectorState]
    BY <1>32, <2>1 DEF GcOrphanList, TypeOK
  <2> QED
    BY <1>32, <2>2 DEF TypeOK, GcOrphanList, chunk, ledger, history
<1>33. ASSUME NEW g \in Collectors, GcClaim(g)
     PROVE  TypeOK'
  <2>1. [gc[g] EXCEPT !.pc = "eraseorphan", !.rver = 0] \in CollectorState
    BY <1>state DEF CollectorState
  <2>2. gc' \in [Collectors -> CollectorState]
    BY <1>33, <2>1, IdleTypes DEF GcClaim, TypeOK
  <2>3. uncommitted' \in [SliceIds -> Ledger]
    <3>1. gc[g].sid \in SliceIds =>
            [uncommitted[gc[g].sid] EXCEPT !.st = "orphan"] \in Ledger
      BY DEF TypeOK, Ledger
    <3>2. uncommitted \in [SliceIds -> Ledger]
      BY DEF TypeOK, Ledger
    <3> QED
      BY <1>33, <3>1, <3>2, IdleTypes DEF GcClaim
  <2> QED
    BY <1>33, <2>2, <2>3 DEF TypeOK, GcClaim, chunk, history, Ledger
<1>34. ASSUME NEW g \in Collectors, GcForget(g)
     PROVE  TypeOK'
  <2>1. CollectorIdle \in CollectorState
    BY IdleTypes
  <2>2. gc' \in [Collectors -> CollectorState]
    BY <1>34, <2>1 DEF GcForget, TypeOK
  <2>3. uncommitted' \in [SliceIds -> Ledger]
    BY <1>34, IdleTypes DEF TypeOK, GcForget, Ledger
  <2> QED
    BY <1>34, <2>2, <2>3 DEF TypeOK, GcForget, chunk, ledger, history, Ledger
<1>35. ASSUME NEW g \in Collectors, GcCrash(g)
     PROVE  TypeOK'
  <2>1. CollectorIdle \in CollectorState
    BY IdleTypes
  <2>2. gc' \in [Collectors -> CollectorState]
    BY <1>35, <2>1 DEF GcCrash, TypeOK
  <2> QED
    BY <1>35, <2>2 DEF TypeOK, GcCrash, chunk, ledger, history
<1>36. ASSUME LockExpire PROVE TypeOK'
  BY <1>36 DEF TypeOK, LockExpire, chunk, ledger, history
<1> QED
  BY <1>0, <1>1, <1>2, <1>3, <1>4, <1>5, <1>6, <1>7, <1>8, <1>9, <1>10, <1>11, <1>12, <1>13,
    <1>14, <1>15, <1>16, <1>17, <1>18, <1>19, <1>20, <1>21, <1>22, <1>23, <1>24, <1>25,
    <1>26, <1>27, <1>28, <1>29, <1>30, <1>31, <1>32, <1>33, <1>34, <1>35, <1>36
  DEF Next, WriterNext, TruncaterNext, CompactorNext, CollectorNext

----------------------------------------------------------------------------
(* What the steps do to the state the invariants mention, in first-order   *)
(* terms: the actions that only move one process's local state first.      *)

OnlyWr(w) == \A b \in Writers \ {w} : wr'[b] = wr[b]
OnlyTr(t) == \A b \in Truncaters \ {t} : tr'[b] = tr[b]
OnlyCp(c) == \A b \in Compactors \ {c} : cp'[b] = cp[b]
OnlyGc(g) == \A b \in Collectors \ {g} : gc'[b] = gc[b]

\* A compactor that only reads, decides or gives up
CpLocal(c) ==
  /\ UNCHANGED <<slices, version, physical, blocks, delayed, uncommitted, nextId, wr, tr, gc>>
  /\ OnlyCp(c)
  /\ cp'[c].id \in {cp[c].id, None}
  /\ cp'[c].snap \in {cp[c].snap, slices, {}}
  /\ cp'[c].rver \in {cp[c].rver, version, 0}
  /\ cp'[c].pc \notin {"upload", "heavy", "confirm"}
  /\ cp'[c].pc = "merge" => cp'[c].snap # {}
  /\ cp'[c].pc = "lightcas" => cp'[c].rlist = slices
  /\ cp'[c].pc \in Unpublished \cup {"cleanup"} =>
       /\ cp[c].pc \in Unpublished \ {"upload"}
       /\ cp'[c].id = cp[c].id /\ cp'[c].snap = cp[c].snap

\* A truncater that only reads or gives up
TrLocal(t) ==
  /\ UNCHANGED <<slices, version, physical, blocks, delayed, uncommitted, nextId, wr, cp, gc>>
  /\ OnlyTr(t)
  /\ tr'[t].rver \in {tr[t].rver, version, 0}
  /\ tr'[t].pc = "cas" => tr'[t].rlist = slices

\* A collector that picks a record, reads the list, or dies
GcLocal(g) ==
  /\ UNCHANGED <<slices, version, physical, blocks, delayed, uncommitted, nextId, wr, tr, cp>>
  /\ OnlyGc(g)
  /\ gc'[g].pc # "idle" => gc'[g].sid \in SliceIds
  /\ gc'[g].pc \in Condemning =>
       \/ \E d \in delayed : d.sid = gc'[g].sid
       \/ uncommitted[gc'[g].sid].st = "orphan"

\* The compactor steps that change nothing but its own state
LEMMA CompactorLocal ==
  ASSUME TypeOK, NEW c \in Compactors,
         \/ CompactScan(c) \/ TryLock(c) \/ Snapshot(c) \/ Unlock(c)
         \/ LightVersion(c) \/ LightList(c) \/ LightRetry(c) \/ Resnapshot(c)
         \/ HeavyVersion(c) \/ HeavyList(c) \/ HeavyRefused(c)
         \/ CompactError(c) \/ CompactCrash(c)
  PROVE  CpLocal(c)
<1>1. CASE CompactScan(c)
  BY <1>1 DEF CompactScan, CpLocal, OnlyCp, TypeOK, CompactorState, chunk, ledger, history,
    Unpublished, None, Step
<1>2. CASE TryLock(c)
  BY <1>2 DEF TryLock, CpLocal, OnlyCp, TypeOK, CompactorState, chunk, ledger, history,
    Unpublished, None, Step
<1>3. CASE Snapshot(c)
  BY <1>3, PlanType DEF Snapshot, CpLocal, OnlyCp, TypeOK, CompactorState, chunk, ledger,
    history,
    Unpublished, None
<1>4. CASE Unlock(c)
  BY <1>4 DEF Unlock, CpLocal, OnlyCp, TypeOK, CompactorState, chunk, ledger, history,
    Unpublished, None, CompactorIdle
<1>5. CASE LightVersion(c)
  BY <1>5 DEF LightVersion, CpLocal, OnlyCp, TypeOK, CompactorState, chunk, ledger, history,
    Unpublished, None
<1>6. CASE LightList(c)
  BY <1>6 DEF LightList, CpLocal, OnlyCp, TypeOK, CompactorState, chunk, ledger, history,
    Unpublished, None
<1>7. CASE LightRetry(c)
  <2>1. CASE cp' = [cp EXCEPT ![c] = [@ EXCEPT !.pc = "lightlist", !.rver = version, !.rlist = {}]]
    BY <1>7, <2>1 DEF LightRetry, CpLocal, OnlyCp, TypeOK, CompactorState, chunk, ledger,
      history, Unpublished, None
  <2>2. CASE cp' = [cp EXCEPT ![c] = [CompactorIdle EXCEPT !.pc = "unlock"]]
    BY <1>7, <2>2 DEF LightRetry, CompactorIdle, CpLocal, OnlyCp, TypeOK, CompactorState,
      chunk, ledger,
      history, Unpublished, None
  <2> QED
    BY <1>7, <2>1, <2>2 DEF LightRetry
<1>8. CASE Resnapshot(c)
  BY <1>8, PlanType DEF Resnapshot, CpLocal, OnlyCp, TypeOK, CompactorState, chunk, ledger,
    history, Unpublished, None
<1>9. CASE HeavyVersion(c)
  BY <1>9 DEF HeavyVersion, CpLocal, OnlyCp, TypeOK, CompactorState, chunk, ledger, history,
    Unpublished, None
<1>10. CASE HeavyList(c)
  BY <1>10 DEF HeavyList, CpLocal, OnlyCp, TypeOK, CompactorState, chunk, ledger, history,
    Unpublished, None, Step
<1>11. CASE HeavyRefused(c)
  <2>1. CASE cp' = [cp EXCEPT ![c] = [@ EXCEPT !.pc = "heavylist", !.rver = version]]
    BY <1>11, <2>1 DEF HeavyRefused, CpLocal, OnlyCp, TypeOK, CompactorState, chunk, ledger,
      history, Unpublished, None
  <2>2. CASE Step(c, "cleanup")
    BY <1>11, <2>2 DEF HeavyRefused, Step, CpLocal, OnlyCp, TypeOK, CompactorState, chunk,
      ledger,
      history, Unpublished, None
  <2> QED
    BY <1>11, <2>1, <2>2 DEF HeavyRefused
<1>12. CASE CompactError(c)
  BY <1>12 DEF CompactError, CpLocal, OnlyCp, TypeOK, CompactorState, chunk, ledger,
    history,
    Unpublished, None, CompactorIdle
<1>13. CASE CompactCrash(c)
  BY <1>13 DEF CompactCrash, CpLocal, OnlyCp, TypeOK, CompactorState, chunk, ledger,
    history,
    Unpublished, None, CompactorIdle
<1> QED
  BY <1>1, <1>2, <1>3, <1>4, <1>5, <1>6, <1>7, <1>8, <1>9, <1>10, <1>11, <1>12, <1>13

\* The truncater steps that change nothing but its own state
LEMMA TruncaterLocal ==
  ASSUME TypeOK, NEW t \in Truncaters,
         (\E cutoff \in Units : TruncateStart(t, cutoff)) \/ TruncateList(t) \/ TruncateRetry(t)
  PROVE  TrLocal(t)
<1>1. ASSUME NEW cutoff \in Units, TruncateStart(t, cutoff) PROVE TrLocal(t)
  BY <1>1 DEF TruncateStart, TrLocal, OnlyTr, TypeOK, TruncaterState, TruncaterIdle, chunk,
    ledger
<1>2. CASE TruncateList(t)
  BY <1>2 DEF TruncateList, TrLocal, OnlyTr, TypeOK, TruncaterState, chunk, ledger
<1>3. CASE TruncateRetry(t)
  <2>1. CASE tr' = [tr EXCEPT ![t] = [@ EXCEPT !.pc = "list", !.rver = version, !.rlist = {}]]
    BY <1>3, <2>1 DEF TruncateRetry, TrLocal, OnlyTr, TypeOK, TruncaterState, chunk, ledger
  <2>2. CASE tr' = [tr EXCEPT ![t] = TruncaterIdle]
    BY <1>3, <2>2 DEF TruncateRetry, TrLocal, OnlyTr, TypeOK, TruncaterState, TruncaterIdle,
      chunk, ledger
  <2> QED
    BY <1>3, <2>1, <2>2 DEF TruncateRetry
<1> QED
  BY <1>1, <1>2, <1>3

\* The collector steps that change nothing but its own state
LEMMA CollectorLocal ==
  ASSUME TypeOK, CondemnedGone, NEW g \in Collectors,
         \/ \E d \in delayed : GcPick(g, d)
         \/ \E s \in SliceIds : GcInspect(g, s)
         \/ GcOrphanList(g) \/ GcCrash(g)
  PROVE  GcLocal(g)
<1>1. ASSUME NEW d \in delayed, GcPick(g, d) PROVE GcLocal(g)
  BY <1>1 DEF GcPick, GcLocal, OnlyGc, TypeOK, DelayedRecord, CollectorState, CollectorIdle,
    chunk, ledger
<1>2. ASSUME NEW s \in SliceIds, GcInspect(g, s) PROVE GcLocal(g)
  BY <1>2 DEF GcInspect, Reserved, GcLocal, OnlyGc, TypeOK, CollectorState, CollectorIdle,
    Condemning, chunk, ledger
<1>3. CASE GcOrphanList(g)
  BY <1>3 DEF GcOrphanList, GcLocal, OnlyGc, TypeOK, CollectorState, Condemning,
    CondemnedGone, CollectorsGone,
    chunk, ledger
<1>4. CASE GcCrash(g)
  BY <1>4 DEF GcCrash, GcLocal, OnlyGc, TypeOK, CollectorState, CollectorIdle, Condemning,
    chunk, ledger
<1> QED
  BY <1>1, <1>2, <1>3, <1>4

\* The other steps.  blocks' is given block by block, the ledgers by what may
\* have entered them.
Uploaded(w) ==
  /\ UNCHANGED <<slices, version, delayed, uncommitted, tr, cp, gc>>
  /\ OnlyWr(w) /\ wr'[w].pc = "uploaded" /\ wr'[w].id = nextId
  /\ nextId \in SliceIds /\ nextId' = nextId + 1
  /\ \A s \in SliceIds \ {nextId} : blocks'[s] = blocks[s]
  /\ \A u \in Units : u < wr'[w].len => blocks'[nextId][u] # Absent

Committed(w) ==
  /\ UNCHANGED <<blocks, delayed, uncommitted, nextId, tr, cp, gc>>
  /\ OnlyWr(w) /\ wr[w].pc = "uploaded" /\ wr'[w].pc = "idle" /\ wr'[w].id = None
  /\ version' = version + 1
  /\ \E e : /\ slices' = slices \cup {e}
            /\ e.id = wr[w].id /\ e.len = wr[w].len /\ e.seq = version + 1

Failed(w) ==
  /\ UNCHANGED <<slices, version, blocks, delayed, uncommitted, nextId, tr, cp, gc>>
  /\ OnlyWr(w) /\ wr'[w].pc = "idle" /\ wr'[w].id = None

Truncated(t) ==
  LET rlist == tr[t].rlist
      cutoff == tr[t].cutoff
  IN  /\ UNCHANGED <<blocks, uncommitted, nextId, wr, cp, gc>>
      /\ OnlyTr(t) /\ tr'[t].pc = "idle" /\ tr'[t].rver = 0
      /\ tr[t].pc = "cas" /\ tr[t].rver = version
      /\ slices' = Trimmed(rlist, cutoff)
      /\ version' = IF rlist = {} THEN version ELSE version + 1
      /\ \A d \in delayed' : d \in delayed \/ \E e \in rlist : e.off >= cutoff /\ e.id = d.sid

Lightened(c) ==
  LET ids == ReplacedIds(cp[c].snap)
  IN  /\ UNCHANGED <<blocks, uncommitted, nextId, wr, tr, gc>>
      /\ OnlyCp(c) /\ cp'[c].pc = "resnap" /\ cp'[c].id = None
      /\ cp'[c].snap = {} /\ cp'[c].rver = 0
      /\ cp[c].pc = "lightcas" /\ cp[c].rver = version
      /\ slices' = {e \in cp[c].rlist : e.id \notin ids}
      /\ version' = version + 1
      /\ \A d \in delayed' : d \in delayed \/ d.sid \in Ids(cp[c].snap) \cap ids

Merged(c) ==
  /\ UNCHANGED <<slices, version, blocks, delayed, wr, tr, gc>>
  /\ OnlyCp(c) /\ cp[c].pc = "merge" /\ cp'[c].pc = "upload" /\ cp'[c].id = nextId
  /\ cp'[c].snap = cp[c].snap /\ cp'[c].rver = cp[c].rver
  /\ nextId \in SliceIds /\ nextId' = nextId + 1
  /\ \A s \in SliceIds : uncommitted'[s].st = IF s = nextId THEN "pending"
                                               ELSE uncommitted[s].st
  /\ \A u \in Units : u < OccupiedEnd(cp[c].snap) => cp'[c].buf[u] # Absent

Stored(c) ==
  /\ UNCHANGED <<slices, version, delayed, uncommitted, nextId, wr, tr, gc>>
  /\ OnlyCp(c) /\ cp[c].pc = "upload" /\ cp'[c].pc = "heavy" /\ cp'[c].id = cp[c].id
  /\ cp'[c].snap = cp[c].snap /\ cp'[c].rver = cp[c].rver
  /\ \A s \in SliceIds \ {cp[c].id} : blocks'[s] = blocks[s]
  /\ cp[c].id \in SliceIds => blocks'[cp[c].id] = cp[c].buf

Published(c) ==
  /\ UNCHANGED <<blocks, nextId, wr, tr, gc>>
  /\ OnlyCp(c) /\ cp[c].pc = "heavycas" /\ cp'[c].pc = "confirm" /\ cp'[c].id = cp[c].id
  /\ cp'[c].snap = cp[c].snap /\ cp'[c].rver = cp[c].rver
  /\ uncommitted[cp[c].id].st = "pending"
  /\ slices' = {[seq |-> version + 1, id |-> cp[c].id, off |-> 0,
                 len |-> OccupiedEnd(cp[c].snap)]}
  /\ version' = version + 1
  /\ \A d \in delayed' : d \in delayed \/ d.sid \in Ids(cp[c].snap)
  /\ \A s \in SliceIds : uncommitted'[s].st = IF s = cp[c].id THEN "none"
                                               ELSE uncommitted[s].st

Confirmed(c) ==
  /\ UNCHANGED <<slices, version, blocks, delayed, nextId, wr, tr, gc>>
  /\ OnlyCp(c) /\ cp'[c].pc = "unlock" /\ cp'[c].id = None
  /\ cp'[c].snap = {} /\ cp'[c].rver = 0
  /\ \A s \in SliceIds : uncommitted'[s].st \in {uncommitted[s].st, "none"}

Cleaned(c) ==
  /\ UNCHANGED <<slices, version, delayed, uncommitted, nextId, wr, tr, gc>>
  /\ OnlyCp(c) /\ cp[c].pc = "cleanup" /\ cp'[c].pc = "unlock" /\ cp'[c].id = None
  /\ cp'[c].snap = {} /\ cp'[c].rver = 0
  /\ \A s \in SliceIds \ {cp[c].id} : blocks'[s] = blocks[s]

Marked(g) ==
  /\ UNCHANGED <<blocks, uncommitted, nextId, wr, tr, cp>>
  /\ OnlyGc(g) /\ gc[g].pc = "mark" /\ gc'[g].pc = "erase" /\ gc'[g].sid = gc[g].sid
  /\ slices' \subseteq slices
  /\ (version' = version /\ slices' = slices) \/ version' = version + 1
  /\ \A d \in delayed' : \E e \in delayed : d.sid = e.sid

Erased(g) ==
  /\ UNCHANGED <<slices, version, delayed, uncommitted, nextId, wr, tr, cp>>
  /\ OnlyGc(g) /\ gc[g].pc \in Condemning
  /\ gc'[g].pc # "idle" => gc'[g].sid = gc[g].sid
  /\ \A s \in SliceIds \ {gc[g].sid} : blocks'[s] = blocks[s]

Claimed(g) ==
  /\ UNCHANGED <<slices, version, blocks, delayed, nextId, wr, tr, cp>>
  /\ OnlyGc(g) /\ gc[g].pc # "idle"
  /\ gc'[g].pc # "idle" => gc'[g].sid = gc[g].sid /\ uncommitted'[gc[g].sid].st = "orphan"
  /\ \A s \in SliceIds : \/ uncommitted'[s].st \in {uncommitted[s].st, "none"}
                         \/ s = gc[g].sid /\ uncommitted[s].st = "pending"
                            /\ uncommitted'[s].st = "orphan"

Released(g) ==
  /\ UNCHANGED <<slices, version, blocks, nextId, wr, tr, cp>>
  /\ OnlyGc(g) /\ gc'[g].pc = "idle"
  /\ delayed' \subseteq delayed
  /\ \A s \in SliceIds : uncommitted'[s].st \in {uncommitted[s].st, "none"}

Quiet == UNCHANGED <<slices, version, blocks, delayed, uncommitted, nextId, wr, tr, cp, gc>>

Effect ==
  \/ Quiet
  \/ \E w \in Writers : Uploaded(w) \/ Committed(w) \/ Failed(w)
  \/ \E t \in Truncaters : TrLocal(t) \/ Truncated(t)
  \/ \E c \in Compactors : \/ CpLocal(c) \/ Lightened(c) \/ Merged(c) \/ Stored(c)
                           \/ Published(c) \/ Confirmed(c) \/ Cleaned(c)
  \/ \E g \in Collectors : GcLocal(g) \/ Marked(g) \/ Erased(g) \/ Claimed(g) \/ Released(g)

\* Every step has one of these effects.
LEMMA StepEffect ==
  ASSUME TypeOK, NamedSettled, CondemnedGone, [Next]_vars
  PROVE  Effect
<1>0. CASE UNCHANGED vars \/ LockExpire
  BY <1>0 DEF vars, LockExpire, Quiet, Effect, chunk, ledger
<1>1. ASSUME NEW w \in Writers, NEW off \in Units, NEW len \in 1 .. ChunkLen,
            WriterUpload(w, off, len)
     PROVE  Uploaded(w)
  <2>1. nextId \in SliceIds
    BY <1>1, ChunkAssumption DEF WriterUpload, TypeOK, SliceIds
  <2>2. nextId # Absent
    BY <2>1 DEF SliceIds, Absent
  <2> QED
    BY <1>1, <2>1, <2>2 DEF WriterUpload, Uploaded, OnlyWr, TypeOK, chunk, ledger
<1>2. ASSUME NEW w \in Writers, WriterCommit(w) PROVE Committed(w)
  <2> DEFINE e == [seq |-> version + 1, id |-> wr[w].id, off |-> wr[w].off, len |-> wr[w].len]
  <2>1. /\ slices' = slices \cup {e}
        /\ e.id = wr[w].id /\ e.len = wr[w].len /\ e.seq = version + 1
    BY <1>2 DEF WriterCommit
  <2>2. OnlyWr(w) /\ wr'[w].pc = "idle" /\ wr'[w].id = None
    BY <1>2 DEF WriterCommit, OnlyWr, TypeOK, WriterIdle
  <2> HIDE DEF e
  <2> QED
    BY <1>2, <2>1, <2>2 DEF WriterCommit, Committed, ledger
<1>3. ASSUME NEW w \in Writers, WriterFail(w) PROVE Failed(w)
  BY <1>3 DEF WriterFail, Failed, OnlyWr, TypeOK, WriterIdle, chunk, ledger
<1>4. ASSUME NEW t \in Truncaters, TruncateCas(t) PROVE Truncated(t)
  <2>1. uncommitted' = uncommitted
    BY <1>4 DEF TruncateCas, ChunkCompact, TypeOK
  <2>2. OnlyTr(t) /\ tr'[t].pc = "idle" /\ tr'[t].rver = 0
    BY <1>4 DEF TruncateCas, TruncaterIdle, OnlyTr, TypeOK
  <2>3. ASSUME NEW d \in delayed', d \notin delayed
        PROVE  \E e \in tr[t].rlist : e.off >= tr[t].cutoff /\ e.id = d.sid
    BY <1>4, <2>3 DEF TruncateCas, ChunkCompact, DelayedData, Ids
  <2> QED
    BY <1>4, <2>1, <2>2, <2>3 DEF TruncateCas, ChunkCompact, VersionHolds, TruncatedVersion, Truncated
<1>5. ASSUME NEW c \in Compactors, LightCas(c) PROVE Lightened(c)
  <2>1. uncommitted' = uncommitted
    BY <1>5 DEF LightCas, ChunkCompact, TypeOK
  <2>2. /\ OnlyCp(c) /\ cp'[c].pc = "resnap" /\ cp'[c].id = None
        /\ cp'[c].snap = {} /\ cp'[c].rver = 0
    BY <1>5 DEF LightCas, CompactorIdle, OnlyCp, TypeOK
  <2>3. ASSUME NEW d \in delayed', d \notin delayed
        PROVE  d.sid \in Ids(cp[c].snap) \cap ReplacedIds(cp[c].snap)
    BY <1>5, <2>3 DEF LightCas, ChunkCompact, DelayedData, Ids
  <2> QED
    BY <1>5, <2>1, <2>2, <2>3 DEF LightCas, ChunkCompact, VersionHolds, Lightened
<1>6. ASSUME NEW c \in Compactors, HeavyMerge(c) PROVE Merged(c)
  <2>1. nextId \in SliceIds /\ nextId' = nextId + 1
    BY <1>6, ChunkAssumption DEF HeavyMerge, TypeOK, SliceIds
  <2>2. /\ OnlyCp(c) /\ cp'[c].pc = "upload" /\ cp'[c].id = nextId
        /\ cp'[c].snap = cp[c].snap /\ cp'[c].rver = cp[c].rver
    BY <1>6 DEF HeavyMerge, OnlyCp, TypeOK, CompactorState
  <2>3. ASSUME NEW s \in SliceIds
        PROVE  uncommitted'[s].st = IF s = nextId THEN "pending" ELSE uncommitted[s].st
    BY <1>6 DEF HeavyMerge, TypeOK
  <2>4. ASSUME NEW u \in Units, u < OccupiedEnd(cp[c].snap) PROVE cp'[c].buf[u] # Absent
    <3>1. cp[c].snap \in SUBSET SliceDesc /\ Readable(cp[c].snap)
      BY <1>6 DEF TypeOK, CompactorState, HeavyMerge
    <3>2. version \in Nat /\ \A e \in cp[c].snap : e.seq <= version
      BY DEF TypeOK, NamedSettled
    <3>3. VisibleAt(cp[c].snap, blocks, u) \in Values
      BY <3>1, <3>2, VisiblePresent
    <3>4. cp'[c].buf[u] = VisibleAt(cp[c].snap, blocks, u)
      BY <1>6, <2>4 DEF HeavyMerge, TypeOK, CompactorState
    <3> QED
      BY <3>3, <3>4, ChunkAssumption DEF Values, Absent
  <2>5. cp[c].pc = "merge" /\ UNCHANGED <<slices, version, blocks, delayed, wr, tr, gc>>
    BY <1>6 DEF HeavyMerge, chunk
  <2> QED
    BY <2>1, <2>2, <2>3, <2>4, <2>5 DEF Merged
<1>7. ASSUME NEW c \in Compactors, HeavyUpload(c) PROVE Stored(c)
  BY <1>7 DEF HeavyUpload, Stored, OnlyCp, TypeOK, CompactorState, chunk, ledger
<1>8. ASSUME NEW c \in Compactors, HeavyCas(c) PROVE Published(c)
  <2>1. /\ OnlyCp(c) /\ cp'[c].pc = "confirm" /\ cp'[c].id = cp[c].id
        /\ cp'[c].snap = cp[c].snap /\ cp'[c].rver = cp[c].rver
    BY <1>8 DEF HeavyCas, Step, OnlyCp, TypeOK, CompactorState
  <2>2. ASSUME NEW s \in SliceIds
        PROVE  uncommitted'[s].st = IF s = cp[c].id THEN "none" ELSE uncommitted[s].st
    BY <1>8 DEF HeavyCas, ChunkCompact, NoRecord
  <2>3. ASSUME NEW d \in delayed', d \notin delayed PROVE d.sid \in Ids(cp[c].snap)
    BY <1>8, <2>3 DEF HeavyCas, ChunkCompact, DelayedData, Ids
  <2> QED
    BY <1>8, <2>1, <2>2, <2>3 DEF HeavyCas, ChunkCompact, VersionHolds, RequirePending, Reserved, Published
<1>9. ASSUME NEW c \in Compactors, HeavyConfirm(c) PROVE Confirmed(c)
  <2>1. ASSUME NEW s \in SliceIds PROVE uncommitted'[s].st \in {uncommitted[s].st, "none"}
    BY <1>9 DEF HeavyConfirm, NoRecord, TypeOK
  <2>2. /\ OnlyCp(c) /\ cp'[c].pc = "unlock" /\ cp'[c].id = None
        /\ cp'[c].snap = {} /\ cp'[c].rver = 0
    BY <1>9 DEF HeavyConfirm, CompactorIdle, OnlyCp, TypeOK
  <2> QED
    BY <1>9, <2>1, <2>2 DEF HeavyConfirm, Confirmed, chunk
<1>10. ASSUME NEW c \in Compactors, NEW n \in 0 .. ChunkLen,
            HeavyCleanup(c, n)
     PROVE  Cleaned(c)
  <2>1. /\ OnlyCp(c) /\ cp'[c].pc = "unlock" /\ cp'[c].id = None
        /\ cp'[c].snap = {} /\ cp'[c].rver = 0
    BY <1>10 DEF HeavyCleanup, CompactorIdle, OnlyCp, TypeOK
  <2>2. \A s \in SliceIds \ {cp[c].id} : blocks'[s] = blocks[s]
    BY <1>10 DEF HeavyCleanup, DeleteBlocks, TypeOK
  <2> QED
    BY <1>10, <2>1, <2>2 DEF HeavyCleanup, Cleaned, chunk, ledger
<1>11. ASSUME NEW g \in Collectors, GcMark(g) PROVE Marked(g)
  <2>1. OnlyGc(g) /\ gc'[g].pc = "erase" /\ gc'[g].sid = gc[g].sid
    BY <1>11 DEF GcMark, OnlyGc, TypeOK, CollectorState
  <2>2. (version' = version /\ slices' = slices) \/ version' = version + 1
    BY <1>11 DEF GcMark
  <2>3. ASSUME NEW d \in delayed' PROVE \E e \in delayed : d.sid = e.sid
    BY <1>11 DEF GcMark, TypeOK, DelayedRecord
  <2> QED
    BY <1>11, <2>1, <2>2, <2>3 DEF GcMark, Marked
<1>12. ASSUME NEW g \in Collectors, NEW n \in 0 .. ChunkLen, GcErase(g, n) PROVE Erased(g)
  <2>1. OnlyGc(g) /\ (gc'[g].pc # "idle" => gc'[g].sid = gc[g].sid)
    BY <1>12 DEF GcErase, CollectorIdle, OnlyGc, TypeOK, CollectorState
  <2>2. \A s \in SliceIds \ {gc[g].sid} : blocks'[s] = blocks[s]
    BY <1>12 DEF GcErase, DeleteBlocks, TypeOK
  <2> QED
    BY <1>12, <2>1, <2>2 DEF GcErase, Erased, Condemning, chunk, ledger
<1>13. ASSUME NEW g \in Collectors, GcConfirm(g) PROVE Released(g)
  BY <1>13 DEF GcConfirm, Released, OnlyGc, CollectorIdle, TypeOK, chunk
<1>14. ASSUME NEW g \in Collectors, GcClaim(g) PROVE Claimed(g)
  <2>1. gc[g].pc # "idle" /\ UNCHANGED <<slices, version, blocks, delayed, nextId, wr, tr, cp>>
    BY <1>14 DEF GcClaim, chunk
  <2>2. gc[g].sid \in SliceIds
    BY <2>1 DEF CondemnedGone, CollectorsGone
  <2>3. CASE version = gc[g].rver /\ uncommitted[gc[g].sid].st = "pending" /\ gc[g].found = {}
    <3>1. \A s \in SliceIds : uncommitted'[s].st = IF s = gc[g].sid THEN "orphan"
                                                    ELSE uncommitted[s].st
      BY <1>14, <2>2, <2>3 DEF GcClaim, Reserved, TypeOK
    <3>2. OnlyGc(g) /\ gc'[g].sid = gc[g].sid
      <4>1. gc' = [gc EXCEPT ![g] = [@ EXCEPT !.pc = "eraseorphan", !.rver = 0]]
        BY <1>14, <2>3 DEF GcClaim, Reserved
      <4> QED
        BY <4>1 DEF OnlyGc, TypeOK, CollectorState
    <3> QED
      BY <2>1, <2>2, <2>3, <3>1, <3>2 DEF Claimed
  <2>4. CASE ~(version = gc[g].rver /\ uncommitted[gc[g].sid].st = "pending" /\ gc[g].found = {})
    BY <1>14, <2>1, <2>2, <2>4
    DEF GcClaim, Reserved, Claimed, OnlyGc, TypeOK, CollectorState,
        CollectorIdle, NoRecord
  <2> QED
    BY <2>3, <2>4
<1>15. ASSUME NEW g \in Collectors, GcForget(g) PROVE Released(g)
  <2>1. ASSUME NEW s \in SliceIds PROVE uncommitted'[s].st \in {uncommitted[s].st, "none"}
    BY <1>15 DEF GcForget, NoRecord, TypeOK
  <2> QED
    BY <1>15, <2>1 DEF GcForget, Released, OnlyGc, CollectorIdle, TypeOK, chunk
<1>w. ASSUME NEW w \in Writers, WriterNext(w) PROVE Effect
  BY <1>w, <1>1, <1>2, <1>3 DEF WriterNext, Effect
<1>t. ASSUME NEW t \in Truncaters, TruncaterNext(t) PROVE Effect
  BY <1>t, <1>4, TruncaterLocal DEF TruncaterNext, Effect
<1>c. ASSUME NEW c \in Compactors, CompactorNext(c) PROVE Effect
  BY <1>c, <1>5, <1>6, <1>7, <1>8, <1>9, <1>10, CompactorLocal DEF CompactorNext, Effect
<1>g. ASSUME NEW g \in Collectors, CollectorNext(g) PROVE Effect
  BY <1>g, <1>11, <1>12, <1>13, <1>14, <1>15, CollectorLocal DEF CollectorNext, Effect
<1> QED
  BY <1>0, <1>w, <1>t, <1>c, <1>g DEF Next

----------------------------------------------------------------------------
(* The parts of the inductive invariant, one lemma each. *)

\* Trimming drops slices and keeps the identifiers of the others.
LEMMA TrimmedIds ==
  ASSUME NEW es \in SUBSET SliceDesc, NEW cutoff
  PROVE  /\ Ids(Trimmed(es, cutoff)) \subseteq Ids(es)
         /\ \A f \in Trimmed(es, cutoff) :
              \E e \in es : /\ e.off < cutoff /\ f.id = e.id /\ f.seq = e.seq
                            /\ f.len = IF End(e) > cutoff THEN cutoff - e.off ELSE e.len
<1>1. ASSUME NEW f \in Trimmed(es, cutoff)
     PROVE  \E e \in es : /\ e.off < cutoff /\ f.id = e.id /\ f.seq = e.seq
                           /\ f.len = IF End(e) > cutoff THEN cutoff - e.off ELSE e.len
  <2>1. PICK e \in es : e.off < cutoff
                /\ f = [e EXCEPT !.len = IF End(e) > cutoff THEN cutoff - e.off ELSE e.len]
    BY DEF Trimmed
  <2> QED
    BY <2>1 DEF SliceDesc
<1> QED
  BY <1>1 DEF Ids

\* Slice identifiers stay allocated and owned by one process.
LEMMA OwnersStep ==
  ASSUME TypeOK, OwnersDistinct, Effect
  PROVE  OwnersDistinct'
<1> nextId \in Nat /\ 0 < nextId
  BY ChunkAssumption DEF TypeOK
<1> /\ \A w \in Writers : wr[w].id \in Nat /\ (wr[w].id # None => wr[w].id \in SliceIds)
    /\ \A c \in Compactors : cp[c].id \in Nat /\ (cp[c].id # None => cp[c].id \in SliceIds)
    /\ \A s \in SliceIds : s \in Nat /\ s # None
  BY DEF TypeOK, WriterState, CompactorState, SliceIds, None
<1>0. CASE Quiet
  BY <1>0 DEF Quiet, OwnersDistinct, WritersOwn, CompactorsOwn, Unpublished, None
<1>1. ASSUME NEW w \in Writers, Uploaded(w) PROVE OwnersDistinct'
  <2>1. WritersOwn'
    BY <1>1 DEF Uploaded, OnlyWr, OwnersDistinct, WritersOwn, CompactorsOwn
  <2>2. CompactorsOwn'
    BY <1>1 DEF Uploaded, OnlyWr, OwnersDistinct, CompactorsOwn
  <2> QED
    BY <1>1, <2>1, <2>2 DEF Uploaded, OwnersDistinct
<1>2. ASSUME NEW w \in Writers, Committed(w) PROVE OwnersDistinct'
  BY <1>2 DEF Committed, OnlyWr, OwnersDistinct, WritersOwn, CompactorsOwn, Unpublished,
    None
<1>3. ASSUME NEW w \in Writers, Failed(w) PROVE OwnersDistinct'
  BY <1>3 DEF Failed, OnlyWr, OwnersDistinct, WritersOwn, CompactorsOwn, Unpublished, None
<1>4. ASSUME NEW t \in Truncaters, TrLocal(t) PROVE OwnersDistinct'
  BY <1>4 DEF TrLocal, OwnersDistinct, WritersOwn, CompactorsOwn, Unpublished, None
<1>5. ASSUME NEW t \in Truncaters, Truncated(t) PROVE OwnersDistinct'
  BY <1>5 DEF Truncated, OwnersDistinct, WritersOwn, CompactorsOwn, Unpublished, None
<1>6. ASSUME NEW c \in Compactors, CpLocal(c) PROVE OwnersDistinct'
  BY <1>6 DEF CpLocal, OnlyCp, OwnersDistinct, WritersOwn, CompactorsOwn, Unpublished,
    None
<1>7. ASSUME NEW c \in Compactors, Lightened(c) PROVE OwnersDistinct'
  BY <1>7 DEF Lightened, OnlyCp, OwnersDistinct, WritersOwn, CompactorsOwn, Unpublished,
    None
<1>8. ASSUME NEW c \in Compactors, Merged(c) PROVE OwnersDistinct'
  <2>1. WritersOwn'
    BY <1>8 DEF Merged, OnlyCp, OwnersDistinct, WritersOwn
  <2>2. CompactorsOwn'
    BY <1>8 DEF Merged, OnlyCp, OwnersDistinct, CompactorsOwn
  <2> QED
    <3>1. \A s \in SliceIds : uncommitted'[s].st # "none" => s < nextId \/ s = nextId
      BY <1>8 DEF Merged, OwnersDistinct
    <3>2. nextId' = nextId + 1
      BY <1>8 DEF Merged
    <3> QED
      BY <2>1, <2>2, <3>1, <3>2 DEF OwnersDistinct
<1>9. ASSUME NEW c \in Compactors, Stored(c) PROVE OwnersDistinct'
  BY <1>9 DEF Stored, OnlyCp, OwnersDistinct, WritersOwn, CompactorsOwn, Unpublished, None
<1>10. ASSUME NEW c \in Compactors, Published(c) PROVE OwnersDistinct'
  <2>1. WritersOwn'
    BY <1>10 DEF Published, OnlyCp, OwnersDistinct, WritersOwn
  <2>2. CompactorsOwn'
    BY <1>10 DEF Published, OnlyCp, OwnersDistinct, CompactorsOwn, Unpublished
  <2> QED
    BY <1>10, <2>1, <2>2 DEF Published, OwnersDistinct
<1>11. ASSUME NEW c \in Compactors, Confirmed(c) PROVE OwnersDistinct'
  BY <1>11 DEF Confirmed, OnlyCp, OwnersDistinct, WritersOwn, CompactorsOwn, Unpublished,
    None
<1>12. ASSUME NEW c \in Compactors, Cleaned(c) PROVE OwnersDistinct'
  BY <1>12 DEF Cleaned, OnlyCp, OwnersDistinct, WritersOwn, CompactorsOwn, Unpublished,
    None
<1>13. ASSUME NEW g \in Collectors, GcLocal(g) PROVE OwnersDistinct'
  BY <1>13 DEF GcLocal, OwnersDistinct, WritersOwn, CompactorsOwn, Unpublished, None
<1>14. ASSUME NEW g \in Collectors, Marked(g) PROVE OwnersDistinct'
  BY <1>14 DEF Marked, OwnersDistinct, WritersOwn, CompactorsOwn, Unpublished, None
<1>15. ASSUME NEW g \in Collectors, Erased(g) PROVE OwnersDistinct'
  BY <1>15 DEF Erased, OwnersDistinct, WritersOwn, CompactorsOwn, Unpublished, None
<1>16. ASSUME NEW g \in Collectors, Claimed(g) PROVE OwnersDistinct'
  BY <1>16 DEF Claimed, OwnersDistinct, WritersOwn, CompactorsOwn, Unpublished, None
<1>17. ASSUME NEW g \in Collectors, Released(g) PROVE OwnersDistinct'
  BY <1>17 DEF Released, OwnersDistinct, WritersOwn, CompactorsOwn, Unpublished, None
<1> QED
  BY <1>0, <1>1, <1>2, <1>3, <1>4, <1>5, <1>6, <1>7, <1>8, <1>9, <1>10, <1>11, <1>12,
    <1>13, <1>14, <1>15, <1>16, <1>17 DEF Effect

\* A settled slice stays settled: nobody reserves or uploads it again.
LEMMA SettledStep ==
  ASSUME TypeOK, OwnersDistinct, Effect, NEW s \in SliceIds, Settled(s)
  PROVE  Settled(s)'
<1> nextId \in Nat /\ s \in Nat
  BY ChunkAssumption DEF TypeOK, SliceIds
<1>0. CASE Quiet
  BY <1>0 DEF Quiet, Settled, Publishable, Unpublished
<1>1. ASSUME NEW w \in Writers, Uploaded(w) PROVE Settled(s)'
  BY <1>1 DEF Uploaded, OnlyWr, Settled, Publishable, Unpublished
<1>2. ASSUME NEW w \in Writers, Committed(w) PROVE Settled(s)'
  BY <1>2 DEF Committed, OnlyWr, Settled, Publishable, Unpublished
<1>3. ASSUME NEW w \in Writers, Failed(w) PROVE Settled(s)'
  BY <1>3 DEF Failed, OnlyWr, Settled, Publishable, Unpublished
<1>4. ASSUME NEW t \in Truncaters, TrLocal(t) PROVE Settled(s)'
  BY <1>4 DEF TrLocal, Settled, Publishable, Unpublished
<1>5. ASSUME NEW t \in Truncaters, Truncated(t) PROVE Settled(s)'
  BY <1>5 DEF Truncated, Settled, Publishable, Unpublished
<1>6. ASSUME NEW c \in Compactors, CpLocal(c) PROVE Settled(s)'
  BY <1>6 DEF CpLocal, OnlyCp, Settled, Publishable, Unpublished
<1>7. ASSUME NEW c \in Compactors, Lightened(c) PROVE Settled(s)'
  BY <1>7 DEF Lightened, OnlyCp, Settled, Publishable, Unpublished
<1>8. ASSUME NEW c \in Compactors, Merged(c) PROVE Settled(s)'
  BY <1>8 DEF Merged, OnlyCp, Settled, Publishable, Unpublished
<1>9. ASSUME NEW c \in Compactors, Stored(c) PROVE Settled(s)'
  BY <1>9 DEF Stored, OnlyCp, Settled, Publishable, Unpublished
<1>10. ASSUME NEW c \in Compactors, Published(c) PROVE Settled(s)'
  BY <1>10 DEF Published, OnlyCp, Settled, Publishable, Unpublished
<1>11. ASSUME NEW c \in Compactors, Confirmed(c) PROVE Settled(s)'
  BY <1>11 DEF Confirmed, OnlyCp, Settled, Publishable, Unpublished
<1>12. ASSUME NEW c \in Compactors, Cleaned(c) PROVE Settled(s)'
  BY <1>12 DEF Cleaned, OnlyCp, Settled, Publishable, Unpublished
<1>13. ASSUME NEW g \in Collectors, GcLocal(g) PROVE Settled(s)'
  BY <1>13 DEF GcLocal, Settled, Publishable, Unpublished
<1>14. ASSUME NEW g \in Collectors, Marked(g) PROVE Settled(s)'
  BY <1>14 DEF Marked, Settled, Publishable, Unpublished
<1>15. ASSUME NEW g \in Collectors, Erased(g) PROVE Settled(s)'
  BY <1>15 DEF Erased, Settled, Publishable, Unpublished
<1>16. ASSUME NEW g \in Collectors, Claimed(g) PROVE Settled(s)'
  BY <1>16 DEF Claimed, Settled, Publishable, Unpublished
<1>17. ASSUME NEW g \in Collectors, Released(g) PROVE Settled(s)'
  BY <1>17 DEF Released, Settled, Publishable, Unpublished
<1> QED
  BY <1>0, <1>1, <1>2, <1>3, <1>4, <1>5, <1>6, <1>7, <1>8, <1>9, <1>10, <1>11, <1>12,
    <1>13, <1>14, <1>15, <1>16, <1>17 DEF Effect

VersionMoves ==
  /\ version' \in Nat
  /\ version' >= version
  /\ slices' # slices => version' > version

\* The version never goes back, and moves when the list changes.
LEMMA VersionStep ==
  ASSUME TypeOK, CasCoherent, Effect
  PROVE  VersionMoves
<1> version \in Nat
  BY DEF TypeOK
<1>0. CASE Quiet
  BY <1>0 DEF Quiet, VersionMoves
<1>1. ASSUME NEW w \in Writers, Uploaded(w) PROVE VersionMoves
  BY <1>1 DEF Uploaded, VersionMoves
<1>2. ASSUME NEW w \in Writers, Committed(w) PROVE VersionMoves
  BY <1>2 DEF Committed, VersionMoves
<1>3. ASSUME NEW w \in Writers, Failed(w) PROVE VersionMoves
  BY <1>3 DEF Failed, VersionMoves
<1>4. ASSUME NEW t \in Truncaters, TrLocal(t) PROVE VersionMoves
  BY <1>4 DEF TrLocal, VersionMoves
<1>5. ASSUME NEW t \in Truncaters, Truncated(t) PROVE VersionMoves
  <2>1. tr[t].rlist = slices
    BY <1>5 DEF Truncated, CasCoherent
  <2>2. slices = {} => slices' = {}
    BY <1>5, <2>1 DEF Truncated, Trimmed
  <2> QED
    BY <1>5, <2>1, <2>2 DEF Truncated, VersionMoves
<1>6. ASSUME NEW c \in Compactors, CpLocal(c) PROVE VersionMoves
  BY <1>6 DEF CpLocal, VersionMoves
<1>7. ASSUME NEW c \in Compactors, Lightened(c) PROVE VersionMoves
  BY <1>7 DEF Lightened, VersionMoves
<1>8. ASSUME NEW c \in Compactors, Merged(c) PROVE VersionMoves
  BY <1>8 DEF Merged, VersionMoves
<1>9. ASSUME NEW c \in Compactors, Stored(c) PROVE VersionMoves
  BY <1>9 DEF Stored, VersionMoves
<1>10. ASSUME NEW c \in Compactors, Published(c) PROVE VersionMoves
  BY <1>10 DEF Published, VersionMoves
<1>11. ASSUME NEW c \in Compactors, Confirmed(c) PROVE VersionMoves
  BY <1>11 DEF Confirmed, VersionMoves
<1>12. ASSUME NEW c \in Compactors, Cleaned(c) PROVE VersionMoves
  BY <1>12 DEF Cleaned, VersionMoves
<1>13. ASSUME NEW g \in Collectors, GcLocal(g) PROVE VersionMoves
  BY <1>13 DEF GcLocal, VersionMoves
<1>14. ASSUME NEW g \in Collectors, Marked(g) PROVE VersionMoves
  BY <1>14 DEF Marked, VersionMoves
<1>15. ASSUME NEW g \in Collectors, Erased(g) PROVE VersionMoves
  BY <1>15 DEF Erased, VersionMoves
<1>16. ASSUME NEW g \in Collectors, Claimed(g) PROVE VersionMoves
  BY <1>16 DEF Claimed, VersionMoves
<1>17. ASSUME NEW g \in Collectors, Released(g) PROVE VersionMoves
  BY <1>17 DEF Released, VersionMoves
<1> QED
  BY <1>0, <1>1, <1>2, <1>3, <1>4, <1>5, <1>6, <1>7, <1>8, <1>9, <1>10, <1>11, <1>12,
    <1>13, <1>14, <1>15, <1>16, <1>17 DEF Effect

\* A compare-and-swap on the version is one on the list.
LEMMA CasStep ==
  ASSUME TypeOK, CasCoherent, Effect
  PROVE  CasCoherent'
<1> /\ version \in Nat /\ version' \in Nat /\ version' >= version
    /\ slices' # slices => version' > version
  <2>1. version \in Nat
    BY DEF TypeOK
  <2> QED
    BY VersionStep, <2>1 DEF VersionMoves
<1> /\ \A t \in Truncaters : tr[t].rver \in Nat
    /\ \A c \in Compactors : cp[c].rver \in Nat
  BY DEF TypeOK, TruncaterState, CompactorState
<1>0. CASE Quiet
  BY <1>0 DEF Quiet, CasCoherent
<1>1. ASSUME NEW w \in Writers, Uploaded(w) PROVE CasCoherent'
  BY <1>1 DEF Uploaded, CasCoherent
<1>2. ASSUME NEW w \in Writers, Committed(w) PROVE CasCoherent'
  BY <1>2 DEF Committed, CasCoherent
<1>3. ASSUME NEW w \in Writers, Failed(w) PROVE CasCoherent'
  BY <1>3 DEF Failed, CasCoherent
<1>4. ASSUME NEW t \in Truncaters, TrLocal(t) PROVE CasCoherent'
  BY <1>4 DEF TrLocal, OnlyTr, CasCoherent
<1>5. ASSUME NEW t \in Truncaters, Truncated(t) PROVE CasCoherent'
  BY <1>5 DEF Truncated, OnlyTr, CasCoherent
<1>6. ASSUME NEW c \in Compactors, CpLocal(c) PROVE CasCoherent'
  BY <1>6 DEF CpLocal, OnlyCp, CasCoherent
<1>7. ASSUME NEW c \in Compactors, Lightened(c) PROVE CasCoherent'
  BY <1>7 DEF Lightened, OnlyCp, CasCoherent
<1>8. ASSUME NEW c \in Compactors, Merged(c) PROVE CasCoherent'
  BY <1>8 DEF Merged, OnlyCp, CasCoherent
<1>9. ASSUME NEW c \in Compactors, Stored(c) PROVE CasCoherent'
  BY <1>9 DEF Stored, OnlyCp, CasCoherent
<1>10. ASSUME NEW c \in Compactors, Published(c) PROVE CasCoherent'
  BY <1>10 DEF Published, OnlyCp, CasCoherent
<1>11. ASSUME NEW c \in Compactors, Confirmed(c) PROVE CasCoherent'
  BY <1>11 DEF Confirmed, OnlyCp, CasCoherent
<1>12. ASSUME NEW c \in Compactors, Cleaned(c) PROVE CasCoherent'
  BY <1>12 DEF Cleaned, OnlyCp, CasCoherent
<1>13. ASSUME NEW g \in Collectors, GcLocal(g) PROVE CasCoherent'
  BY <1>13 DEF GcLocal, CasCoherent
<1>14. ASSUME NEW g \in Collectors, Marked(g) PROVE CasCoherent'
  BY <1>14 DEF Marked, CasCoherent
<1>15. ASSUME NEW g \in Collectors, Erased(g) PROVE CasCoherent'
  BY <1>15 DEF Erased, CasCoherent
<1>16. ASSUME NEW g \in Collectors, Claimed(g) PROVE CasCoherent'
  BY <1>16 DEF Claimed, CasCoherent
<1>17. ASSUME NEW g \in Collectors, Released(g) PROVE CasCoherent'
  BY <1>17 DEF Released, CasCoherent
<1> QED
  BY <1>0, <1>1, <1>2, <1>3, <1>4, <1>5, <1>6, <1>7, <1>8, <1>9, <1>10, <1>11, <1>12,
    <1>13, <1>14, <1>15, <1>16, <1>17 DEF Effect

\* Only a publishable slice enters the list.
LEMMA IdsStep ==
  ASSUME TypeOK, CasCoherent, OwnersDistinct, Effect, NEW s \in SliceIds,
         s \in Ids(slices'), s \notin Ids(slices)
  PROVE  Publishable(s)
<1>0. CASE Quiet
  BY <1>0 DEF Quiet
<1>1. ASSUME NEW w \in Writers, Uploaded(w) PROVE Publishable(s)
  BY <1>1 DEF Uploaded
<1>2. ASSUME NEW w \in Writers, Committed(w) PROVE Publishable(s)
  BY <1>2 DEF Committed, Ids, Publishable
<1>3. ASSUME NEW w \in Writers, Failed(w) PROVE Publishable(s)
  BY <1>3 DEF Failed
<1>4. ASSUME NEW t \in Truncaters, TrLocal(t) PROVE Publishable(s)
  BY <1>4 DEF TrLocal
<1>5. ASSUME NEW t \in Truncaters, Truncated(t) PROVE Publishable(s)
  <2>1. tr[t].rlist = slices
    BY <1>5 DEF Truncated, CasCoherent
  <2> QED
    BY <1>5, <2>1, TrimmedIds DEF Truncated, TypeOK
<1>6. ASSUME NEW c \in Compactors, CpLocal(c) PROVE Publishable(s)
  BY <1>6 DEF CpLocal
<1>7. ASSUME NEW c \in Compactors, Lightened(c) PROVE Publishable(s)
  <2>1. cp[c].rlist = slices
    BY <1>7 DEF Lightened, CasCoherent
  <2> QED
    BY <1>7, <2>1 DEF Lightened, Ids
<1>8. ASSUME NEW c \in Compactors, Merged(c) PROVE Publishable(s)
  BY <1>8 DEF Merged
<1>9. ASSUME NEW c \in Compactors, Stored(c) PROVE Publishable(s)
  BY <1>9 DEF Stored
<1>10. ASSUME NEW c \in Compactors, Published(c) PROVE Publishable(s)
  BY <1>10 DEF Published, Ids, Publishable, Unpublished
<1>11. ASSUME NEW c \in Compactors, Confirmed(c) PROVE Publishable(s)
  BY <1>11 DEF Confirmed
<1>12. ASSUME NEW c \in Compactors, Cleaned(c) PROVE Publishable(s)
  BY <1>12 DEF Cleaned
<1>13. ASSUME NEW g \in Collectors, GcLocal(g) PROVE Publishable(s)
  BY <1>13 DEF GcLocal
<1>14. ASSUME NEW g \in Collectors, Marked(g) PROVE Publishable(s)
  BY <1>14 DEF Marked, Ids
<1>15. ASSUME NEW g \in Collectors, Erased(g) PROVE Publishable(s)
  BY <1>15 DEF Erased
<1>16. ASSUME NEW g \in Collectors, Claimed(g) PROVE Publishable(s)
  BY <1>16 DEF Claimed
<1>17. ASSUME NEW g \in Collectors, Released(g) PROVE Publishable(s)
  BY <1>17 DEF Released
<1> QED
  BY <1>0, <1>1, <1>2, <1>3, <1>4, <1>5, <1>6, <1>7, <1>8, <1>9, <1>10, <1>11, <1>12,
    <1>13, <1>14, <1>15, <1>16, <1>17 DEF Effect

\* A slice that is off the list for good stays so.
LEMMA GoneStep ==
  ASSUME TypeOK, CasCoherent, OwnersDistinct, Effect, NEW s \in SliceIds, Gone(s)
  PROVE  Gone(s)'
<1>1. Settled(s)'
  BY SettledStep DEF Gone
<1>2. s \notin Ids(slices')
  BY IdsStep DEF Gone, Settled
<1> QED
  BY <1>1, <1>2 DEF Gone

\* Where the list changes, and what a snapshot can become
LEMMA ListStep ==
  ASSUME Effect
  PROVE  \/ slices' = slices
         \/ \E w \in Writers : Committed(w)
         \/ \E t \in Truncaters : Truncated(t)
         \/ \E c \in Compactors : Lightened(c) \/ Published(c)
         \/ \E g \in Collectors : Marked(g)
BY DEF Effect, Quiet, Uploaded, Failed, TrLocal, CpLocal, Merged, Stored, Confirmed,
  Cleaned, GcLocal, Erased, Claimed, Released

\* A snapshot is the list it was taken from, and never changes.
LEMMA SnapStep ==
  ASSUME Effect, NEW b \in Compactors
  PROVE  cp'[b].snap \in {cp[b].snap, slices, {}}
<1>0. CASE Quiet
  BY <1>0 DEF Quiet
<1>1. ASSUME NEW w \in Writers, Uploaded(w) PROVE cp'[b].snap \in {cp[b].snap, slices, {}}
  BY <1>1 DEF Uploaded, OnlyWr
<1>2. ASSUME NEW w \in Writers, Committed(w) PROVE cp'[b].snap \in {cp[b].snap, slices, {}}
  BY <1>2 DEF Committed, OnlyWr
<1>3. ASSUME NEW w \in Writers, Failed(w) PROVE cp'[b].snap \in {cp[b].snap, slices, {}}
  BY <1>3 DEF Failed, OnlyWr
<1>4. ASSUME NEW t \in Truncaters, TrLocal(t) PROVE cp'[b].snap \in {cp[b].snap, slices, {}}
  BY <1>4 DEF TrLocal
<1>5. ASSUME NEW t \in Truncaters, Truncated(t)
     PROVE  cp'[b].snap \in {cp[b].snap, slices, {}}
  BY <1>5 DEF Truncated
<1>6. ASSUME NEW c \in Compactors, CpLocal(c) PROVE cp'[b].snap \in {cp[b].snap, slices, {}}
  BY <1>6 DEF CpLocal, OnlyCp
<1>7. ASSUME NEW c \in Compactors, Lightened(c)
     PROVE  cp'[b].snap \in {cp[b].snap, slices, {}}
  BY <1>7 DEF Lightened, OnlyCp
<1>8. ASSUME NEW c \in Compactors, Merged(c) PROVE cp'[b].snap \in {cp[b].snap, slices, {}}
  BY <1>8 DEF Merged, OnlyCp
<1>9. ASSUME NEW c \in Compactors, Stored(c) PROVE cp'[b].snap \in {cp[b].snap, slices, {}}
  BY <1>9 DEF Stored, OnlyCp
<1>10. ASSUME NEW c \in Compactors, Published(c)
     PROVE  cp'[b].snap \in {cp[b].snap, slices, {}}
  BY <1>10 DEF Published, OnlyCp
<1>11. ASSUME NEW c \in Compactors, Confirmed(c)
     PROVE  cp'[b].snap \in {cp[b].snap, slices, {}}
  BY <1>11 DEF Confirmed, OnlyCp
<1>12. ASSUME NEW c \in Compactors, Cleaned(c)
     PROVE  cp'[b].snap \in {cp[b].snap, slices, {}}
  BY <1>12 DEF Cleaned, OnlyCp
<1>13. ASSUME NEW g \in Collectors, GcLocal(g)
     PROVE  cp'[b].snap \in {cp[b].snap, slices, {}}
  BY <1>13 DEF GcLocal
<1>14. ASSUME NEW g \in Collectors, Marked(g) PROVE cp'[b].snap \in {cp[b].snap, slices, {}}
  BY <1>14 DEF Marked
<1>15. ASSUME NEW g \in Collectors, Erased(g) PROVE cp'[b].snap \in {cp[b].snap, slices, {}}
  BY <1>15 DEF Erased
<1>16. ASSUME NEW g \in Collectors, Claimed(g)
     PROVE  cp'[b].snap \in {cp[b].snap, slices, {}}
  BY <1>16 DEF Claimed
<1>17. ASSUME NEW g \in Collectors, Released(g)
     PROVE  cp'[b].snap \in {cp[b].snap, slices, {}}
  BY <1>17 DEF Released
<1> QED
  BY <1>0, <1>1, <1>2, <1>3, <1>4, <1>5, <1>6, <1>7, <1>8, <1>9, <1>10, <1>11, <1>12,
    <1>13, <1>14, <1>15, <1>16, <1>17 DEF Effect

\* What the list and the snapshots name stays published and unique.
LEMMA NamedStep ==
  ASSUME TypeOK, CasCoherent, OwnersDistinct, NamedSettled, CondemnedGone, Effect
  PROVE  NamedSettled'
<1> DEFINE Named(e) == Settled(e.id)' /\ e.seq <= version'
<1>1. version \in Nat /\ version' \in Nat /\ version' >= version
  <2>1. version \in Nat
    BY DEF TypeOK
  <2> QED
    BY <2>1, VersionStep DEF VersionMoves
<1>2. \A e \in slices : e.id \in SliceIds /\ e.seq \in Nat
  BY DEF TypeOK, SliceDesc
<1>3. \A c \in Compactors : \A e \in cp[c].snap : e.id \in SliceIds /\ e.seq \in Nat
  BY DEF TypeOK, CompactorState, SliceDesc
<1>4. ASSUME NEW e \in slices PROVE Named(e)
  BY <1>1, <1>2, SettledStep DEF NamedSettled
<1>5. ASSUME NEW c \in Compactors, NEW e \in cp[c].snap PROVE Named(e)
  BY <1>1, <1>3, SettledStep DEF NamedSettled
<1>6. \A c \in Compactors : \A e \in cp'[c].snap : Named(e)
  <2> HIDE DEF Named
  <2> QED
    BY <1>4, <1>5, SnapStep
<1>7. (\A e \in slices' : Named(e)) /\ (\A e, f \in slices' : e.id = f.id => e = f)
  <2> DEFINE Goal == (\A e \in slices' : Named(e)) /\ (\A e, f \in slices' : e.id = f.id => e = f)
  <2>1. CASE slices' \subseteq slices
    <3> HIDE DEF Named
    <3> QED
      BY <2>1, <1>4 DEF NamedSettled
  <2>2. ASSUME NEW w \in Writers, Committed(w) PROVE Goal
    <3>1. PICK e : /\ slices' = slices \cup {e}
                   /\ e.id = wr[w].id /\ e.seq = version + 1
      BY <2>2 DEF Committed
    <3>2. e.id < nextId /\ nextId' = nextId
      BY <2>2, <3>1 DEF Committed, OwnersDistinct, WritersOwn
    <3>3. Named(e)
      <4>1. ~Publishable(e.id)'
        BY <2>2, <3>1 DEF Committed, OnlyWr, Publishable, OwnersDistinct, WritersOwn
      <4> QED
        BY <1>1, <2>2, <3>1, <3>2, <4>1 DEF Committed, Settled
    <3>4. wr[w].id \notin Ids(slices)
      BY <2>2 DEF Committed, CondemnedGone, OwnedOffList
    <3> HIDE DEF Named
    <3> QED
      BY <1>4, <3>1, <3>3, <3>4 DEF NamedSettled, Ids
  <2>3. ASSUME NEW t \in Truncaters, Truncated(t) PROVE Goal
    <3> DEFINE cutoff == tr[t].cutoff
               Cut(e) == [e EXCEPT !.len = IF End(e) > cutoff THEN cutoff - e.off ELSE e.len]
    <3>1. slices' = Trimmed(slices, cutoff)
      BY <2>3 DEF Truncated, CasCoherent
    <3>2. \A f \in slices' : \E e \in slices : f = Cut(e)
      BY <3>1 DEF Trimmed
    <3>3. \A e \in slices : Cut(e).id = e.id /\ Cut(e).seq = e.seq
      BY DEF TypeOK, SliceDesc
    <3> HIDE DEF Cut
    <3>4. \A f \in slices' : Named(f)
      BY <3>2, <3>3, <1>4
    <3>5. \A e, f \in slices' : e.id = f.id => e = f
      BY <3>2, <3>3 DEF NamedSettled
    <3> QED
      BY <3>4, <3>5
  <2>4. ASSUME NEW c \in Compactors, Lightened(c) PROVE slices' \subseteq slices
    BY <2>4 DEF Lightened, CasCoherent
  <2>5. ASSUME NEW c \in Compactors, Published(c) PROVE Goal
    <3>1. Settled(cp[c].id)'
      BY <2>5 DEF Published, OnlyCp, Settled, Publishable, OwnersDistinct, WritersOwn,
        CompactorsOwn, Unpublished, TypeOK, CompactorState
    <3> QED
      BY <1>1, <2>5, <3>1 DEF Published
  <2>6. ASSUME NEW g \in Collectors, Marked(g) PROVE slices' \subseteq slices
    BY <2>6 DEF Marked
  <2> HIDE DEF Named
  <2> QED
    BY <2>1, <2>2, <2>3, <2>4, <2>5, <2>6, ListStep
<1> QED
  BY <1>6, <1>7 DEF NamedSettled

\* Whatever enters the delayed ledger is off the list for good.
LEMMA DelayedStep ==
  ASSUME TypeOK, CasCoherent, OwnersDistinct, NamedSettled, DelayedGone, Effect,
         NEW d \in delayed'
  PROVE  Gone(d.sid)'
<1>1. ASSUME NEW e \in delayed, e.sid = d.sid PROVE Gone(d.sid)'
  <2>1. d.sid \in SliceIds /\ Gone(d.sid)
    BY <1>1 DEF TypeOK, DelayedRecord, DelayedGone
  <2> QED
    BY <2>1, GoneStep
<1>2. ASSUME NEW t \in Truncaters, Truncated(t), d \notin delayed PROVE Gone(d.sid)'
  <2>1. slices' = Trimmed(slices, tr[t].cutoff) /\ slices \in SUBSET SliceDesc
    BY <1>2 DEF Truncated, CasCoherent, TypeOK
  <2>2. PICK e \in slices : e.off >= tr[t].cutoff /\ e.id = d.sid
    BY <1>2 DEF Truncated, CasCoherent
  <2>3. e.id \in SliceIds /\ Settled(e.id)
    BY DEF TypeOK, SliceDesc, NamedSettled
  <2>4. Settled(d.sid)'
    BY <2>2, <2>3, SettledStep
  <2>5. e.off \in Nat /\ tr[t].cutoff \in Nat
    BY ChunkAssumption DEF TypeOK, SliceDesc, TruncaterState, Units
  <2>6. ASSUME NEW f \in slices', f.id = d.sid PROVE FALSE
    <3>1. PICK b \in slices : b.off < tr[t].cutoff /\ f.id = b.id
      BY <2>1, TrimmedIds
    <3>2. b = e
      BY <2>2, <2>6, <3>1 DEF NamedSettled
    <3> QED
      BY <2>2, <3>1, <3>2, <2>5
  <2> QED
    BY <2>4, <2>6 DEF Gone, Ids
<1>3. ASSUME NEW c \in Compactors, d.sid \in Ids(cp[c].snap)
     PROVE  d.sid \in SliceIds /\ Settled(d.sid) /\ Settled(d.sid)'
  <2>1. d.sid \in SliceIds /\ Settled(d.sid)
    BY <1>3 DEF Ids, TypeOK, CompactorState, SliceDesc, NamedSettled
  <2> QED
    BY <2>1, SettledStep
<1>4. ASSUME NEW c \in Compactors, Lightened(c), d \notin delayed PROVE Gone(d.sid)'
  <2>1. d.sid \in Ids(cp[c].snap) /\ d.sid \notin Ids(slices')
    BY <1>4 DEF Lightened, Ids
  <2> QED
    BY <2>1, <1>3 DEF Gone
<1>5. ASSUME NEW c \in Compactors, Published(c), d \notin delayed PROVE Gone(d.sid)'
  <2>1. d.sid \in Ids(cp[c].snap) /\ Ids(slices') = {cp[c].id}
    BY <1>5 DEF Published, Ids
  <2>2. Publishable(cp[c].id)
    BY <1>5 DEF Published, Publishable, Unpublished
  <2>3. d.sid # cp[c].id
    BY <1>3, <2>1, <2>2 DEF Settled
  <2> QED
    BY <1>3, <2>1, <2>3 DEF Gone
<1>6. ASSUME NEW g \in Collectors, Marked(g) PROVE \E e \in delayed : e.sid = d.sid
  BY <1>6 DEF Marked
<1> QED
  BY <1>1, <1>2, <1>4, <1>5, <1>6 DEF Effect, Quiet, Uploaded, Committed, Failed, TrLocal,
    CpLocal, Merged, Stored, Confirmed, Cleaned, GcLocal, Erased, Claimed, Released

\* The ledger of uncommitted slices names nothing on the list.
LEMMA RecordsStep ==
  ASSUME TypeOK, CasCoherent, OwnersDistinct, NamedSettled, CondemnedGone, Effect
  PROVE  RecordsGone'
<1>g. \A s \in SliceIds : Gone(s) => Gone(s)'
  BY GoneStep
<1>0. CASE Quiet
  BY <1>0, <1>g DEF Quiet, CondemnedGone, RecordsGone
<1>1. ASSUME NEW w \in Writers, Uploaded(w) PROVE RecordsGone'
  BY <1>1, <1>g DEF Uploaded, CondemnedGone, RecordsGone
<1>2. ASSUME NEW w \in Writers, Committed(w) PROVE RecordsGone'
  <2>1. Ids(slices') = Ids(slices) \cup {wr[w].id}
    BY <1>2 DEF Committed, Ids
  <2>2. uncommitted[wr[w].id].st = "none" /\ uncommitted' = uncommitted
    BY <1>2 DEF Committed, OwnersDistinct, WritersOwn
  <2> QED
    BY <2>1, <2>2, <1>g DEF CondemnedGone, RecordsGone
<1>3. ASSUME NEW w \in Writers, Failed(w) PROVE RecordsGone'
  BY <1>3, <1>g DEF Failed, CondemnedGone, RecordsGone
<1>4. ASSUME NEW t \in Truncaters, TrLocal(t) PROVE RecordsGone'
  BY <1>4, <1>g DEF TrLocal, CondemnedGone, RecordsGone
<1>5. ASSUME NEW t \in Truncaters, Truncated(t) PROVE RecordsGone'
  <2>1. Ids(slices') \subseteq Ids(slices)
    BY <1>5, TrimmedIds DEF Truncated, CasCoherent, TypeOK
  <2> QED
    BY <1>5, <2>1, <1>g DEF Truncated, CondemnedGone, RecordsGone
<1>6. ASSUME NEW c \in Compactors, CpLocal(c) PROVE RecordsGone'
  BY <1>6, <1>g DEF CpLocal, CondemnedGone, RecordsGone
<1>7. ASSUME NEW c \in Compactors, Lightened(c) PROVE RecordsGone'
  <2>1. Ids(slices') \subseteq Ids(slices)
    BY <1>7 DEF Lightened, CasCoherent, Ids
  <2> QED
    BY <1>7, <2>1, <1>g DEF Lightened, OnlyCp, CondemnedGone, RecordsGone
<1>8. ASSUME NEW c \in Compactors, Merged(c) PROVE RecordsGone'
  <2>1. nextId \notin Ids(slices)
    BY <1>8, ChunkAssumption DEF Merged, NamedSettled, Settled, Ids, TypeOK
  <2> QED
    BY <1>8, <2>1, <1>g DEF Merged, CondemnedGone, RecordsGone
<1>9. ASSUME NEW c \in Compactors, Stored(c) PROVE RecordsGone'
  BY <1>9, <1>g DEF Stored, CondemnedGone, RecordsGone
<1>10. ASSUME NEW c \in Compactors, Published(c) PROVE RecordsGone'
  <2>1. Ids(slices') = {cp[c].id}
    BY <1>10 DEF Published, Ids
  <2> QED
    BY <1>10, <2>1, <1>g DEF Published, CondemnedGone, RecordsGone
<1>11. ASSUME NEW c \in Compactors, Confirmed(c) PROVE RecordsGone'
  BY <1>11, <1>g DEF Confirmed, CondemnedGone, RecordsGone
<1>12. ASSUME NEW c \in Compactors, Cleaned(c) PROVE RecordsGone'
  BY <1>12, <1>g DEF Cleaned, CondemnedGone, RecordsGone
<1>13. ASSUME NEW g \in Collectors, GcLocal(g) PROVE RecordsGone'
  BY <1>13, <1>g DEF GcLocal, CondemnedGone, RecordsGone
<1>14. ASSUME NEW g \in Collectors, Marked(g) PROVE RecordsGone'
  <2>1. Ids(slices') \subseteq Ids(slices)
    BY <1>14 DEF Marked, Ids
  <2> QED
    BY <1>14, <2>1, <1>g DEF Marked, CondemnedGone, RecordsGone
<1>15. ASSUME NEW g \in Collectors, Erased(g) PROVE RecordsGone'
  BY <1>15, <1>g DEF Erased, CondemnedGone, RecordsGone
<1>16. ASSUME NEW g \in Collectors, Claimed(g) PROVE RecordsGone'
  <2>1. gc[g].sid \in SliceIds
    BY <1>16 DEF Claimed, CondemnedGone, CollectorsGone
  <2>2. ASSUME uncommitted[gc[g].sid].st = "pending", uncommitted'[gc[g].sid].st = "orphan",
               NEW s, s = gc[g].sid
        PROVE  Gone(s)'
    <3>1. s < nextId /\ s \notin Ids(slices) /\ nextId' = nextId /\ slices' = slices
      BY <1>16, <2>1, <2>2 DEF Claimed, OwnersDistinct, CondemnedGone, RecordsGone
    <3>2. ~Publishable(s)'
      BY <1>16, <2>1, <2>2 DEF Claimed, Publishable, OwnersDistinct, WritersOwn
    <3> QED
      BY <3>1, <3>2 DEF Gone, Settled
  <2> QED
    BY <1>16, <2>1, <2>2, <1>g DEF Claimed, CondemnedGone, RecordsGone
<1>17. ASSUME NEW g \in Collectors, Released(g) PROVE RecordsGone'
  BY <1>17, <1>g DEF Released, CondemnedGone, RecordsGone
<1> QED
  BY <1>0, <1>1, <1>2, <1>3, <1>4, <1>5, <1>6, <1>7, <1>8, <1>9, <1>10, <1>11, <1>12,
    <1>13, <1>14, <1>15, <1>16, <1>17 DEF Effect

\* What a writer or compactor still owns is not on the list.
LEMMA OwnedStep ==
  ASSUME TypeOK, CasCoherent, OwnersDistinct, NamedSettled, CondemnedGone, Effect
  PROVE  OwnedOffList'
<1>g. \A s \in SliceIds : Gone(s) => Gone(s)'
  BY GoneStep
<1>0. CASE Quiet
  BY <1>0, <1>g DEF Quiet, CondemnedGone, OwnedOffList
<1>1. ASSUME NEW w \in Writers, Uploaded(w) PROVE OwnedOffList'
  <2>1. nextId \notin Ids(slices)
    BY <1>1, ChunkAssumption DEF Uploaded, NamedSettled, Settled, Ids, TypeOK
  <2> QED
    BY <1>1, <2>1, <1>g DEF Uploaded, OnlyWr, CondemnedGone, OwnedOffList
<1>2. ASSUME NEW w \in Writers, Committed(w) PROVE OwnedOffList'
  <2>1. Ids(slices') = Ids(slices) \cup {wr[w].id}
    BY <1>2 DEF Committed, Ids
  <2>2. /\ \A v \in Writers \ {w} : wr[v].id # wr[w].id
        /\ \A c \in Compactors : cp[c].id # wr[w].id
    BY <1>2 DEF Committed, OwnersDistinct, WritersOwn
  <2> QED
    BY <1>2, <2>1, <2>2, <1>g DEF Committed, OnlyWr, CondemnedGone, OwnedOffList
<1>3. ASSUME NEW w \in Writers, Failed(w) PROVE OwnedOffList'
  BY <1>3, <1>g DEF Failed, OnlyWr, CondemnedGone, OwnedOffList
<1>4. ASSUME NEW t \in Truncaters, TrLocal(t) PROVE OwnedOffList'
  BY <1>4, <1>g DEF TrLocal, CondemnedGone, OwnedOffList
<1>5. ASSUME NEW t \in Truncaters, Truncated(t) PROVE OwnedOffList'
  <2>1. Ids(slices') \subseteq Ids(slices)
    BY <1>5, TrimmedIds DEF Truncated, CasCoherent, TypeOK
  <2> QED
    BY <1>5, <2>1, <1>g DEF Truncated, CondemnedGone, OwnedOffList
<1>6. ASSUME NEW c \in Compactors, CpLocal(c) PROVE OwnedOffList'
  <2>1. ASSUME cp'[c].pc = "cleanup", NEW s \in SliceIds, s = cp'[c].id PROVE Gone(s)'
    <3>1. /\ cp[c].pc \in Unpublished /\ s = cp[c].id /\ OnlyCp(c)
          /\ UNCHANGED <<slices, nextId, wr, uncommitted>>
      BY <1>6, <2>1 DEF CpLocal
    <3>2. s < nextId /\ s \notin Ids(slices)
      BY <3>1 DEF OwnersDistinct, CompactorsOwn, CondemnedGone, OwnedOffList
    <3>3. ~Publishable(s)'
      BY <2>1, <3>1 DEF OnlyCp, Publishable, OwnersDistinct, WritersOwn, CompactorsOwn,
        Unpublished
    <3> QED
      BY <3>1, <3>2, <3>3 DEF Gone, Settled
  <2> QED
    BY <1>6, <2>1, <1>g DEF CpLocal, OnlyCp, CondemnedGone, OwnedOffList
<1>7. ASSUME NEW c \in Compactors, Lightened(c) PROVE OwnedOffList'
  <2>1. Ids(slices') \subseteq Ids(slices)
    BY <1>7 DEF Lightened, CasCoherent, Ids
  <2> QED
    BY <1>7, <2>1, <1>g DEF Lightened, OnlyCp, CondemnedGone, OwnedOffList, Unpublished
<1>8. ASSUME NEW c \in Compactors, Merged(c) PROVE OwnedOffList'
  <2>1. nextId \notin Ids(slices)
    BY <1>8, ChunkAssumption DEF Merged, NamedSettled, Settled, Ids, TypeOK
  <2> QED
    BY <1>8, <2>1, <1>g DEF Merged, OnlyCp, CondemnedGone, OwnedOffList
<1>9. ASSUME NEW c \in Compactors, Stored(c) PROVE OwnedOffList'
  BY <1>9, <1>g DEF Stored, OnlyCp, CondemnedGone, OwnedOffList, Unpublished
<1>10. ASSUME NEW c \in Compactors, Published(c) PROVE OwnedOffList'
  <2>1. Ids(slices') = {cp[c].id}
    BY <1>10 DEF Published, Ids
  <2>2. \A b \in Compactors \ {c} : cp[b].pc \in Unpublished => cp[b].id # cp[c].id
    BY <1>10 DEF Published, OwnersDistinct, CompactorsOwn, Unpublished
  <2>3. \A w \in Writers : wr[w].pc = "uploaded" => wr[w].id # cp[c].id
    BY <1>10 DEF OwnersDistinct, WritersOwn
  <2> QED
    <3>1. OnlyCp(c) /\ cp'[c].pc = "confirm" /\ UNCHANGED wr
      BY <1>10 DEF Published
    <3> QED
      BY <2>1, <2>2, <2>3, <3>1, <1>g DEF OnlyCp, CondemnedGone, OwnedOffList, Unpublished
<1>11. ASSUME NEW c \in Compactors, Confirmed(c) PROVE OwnedOffList'
  BY <1>11, <1>g DEF Confirmed, OnlyCp, CondemnedGone, OwnedOffList, Unpublished
<1>12. ASSUME NEW c \in Compactors, Cleaned(c) PROVE OwnedOffList'
  BY <1>12, <1>g DEF Cleaned, OnlyCp, CondemnedGone, OwnedOffList, Unpublished
<1>13. ASSUME NEW g \in Collectors, GcLocal(g) PROVE OwnedOffList'
  BY <1>13, <1>g DEF GcLocal, CondemnedGone, OwnedOffList
<1>14. ASSUME NEW g \in Collectors, Marked(g) PROVE OwnedOffList'
  <2>1. Ids(slices') \subseteq Ids(slices)
    BY <1>14 DEF Marked, Ids
  <2> QED
    BY <1>14, <2>1, <1>g DEF Marked, CondemnedGone, OwnedOffList
<1>15. ASSUME NEW g \in Collectors, Erased(g) PROVE OwnedOffList'
  BY <1>15, <1>g DEF Erased, CondemnedGone, OwnedOffList
<1>16. ASSUME NEW g \in Collectors, Claimed(g) PROVE OwnedOffList'
  BY <1>16, <1>g DEF Claimed, CondemnedGone, OwnedOffList
<1>17. ASSUME NEW g \in Collectors, Released(g) PROVE OwnedOffList'
  BY <1>17, <1>g DEF Released, CondemnedGone, OwnedOffList
<1> QED
  BY <1>0, <1>1, <1>2, <1>3, <1>4, <1>5, <1>6, <1>7, <1>8, <1>9, <1>10, <1>11, <1>12,
    <1>13, <1>14, <1>15, <1>16, <1>17 DEF Effect

\* A collector only deletes what is off the list for good.
LEMMA CollectorsStep ==
  ASSUME TypeOK, CasCoherent, OwnersDistinct, NamedSettled, CondemnedGone, Effect,
  RecordsGone'
  PROVE  CollectorsGone'
<1>g. \A s \in SliceIds : Gone(s) => Gone(s)'
  BY GoneStep
<1>1. CASE gc' = gc
  BY <1>1, <1>g DEF CondemnedGone, CollectorsGone
<1>2. ASSUME NEW g \in Collectors, GcLocal(g) PROVE CollectorsGone'
  <2>1. \A d \in delayed : d.sid \in SliceIds /\ Gone(d.sid)
    BY DEF TypeOK, DelayedRecord, CondemnedGone, DelayedGone
  <2> QED
    BY <1>2, <1>g, <2>1 DEF GcLocal, OnlyGc, CondemnedGone, CollectorsGone, RecordsGone
<1>3. ASSUME NEW g \in Collectors, Marked(g) PROVE CollectorsGone'
  BY <1>3, <1>g DEF Marked, OnlyGc, CondemnedGone, CollectorsGone, Condemning
<1>4. ASSUME NEW g \in Collectors, Erased(g) PROVE CollectorsGone'
  BY <1>4, <1>g DEF Erased, OnlyGc, CondemnedGone, CollectorsGone, Condemning
<1>5. ASSUME NEW g \in Collectors, Claimed(g) PROVE CollectorsGone'
  BY <1>5, <1>g DEF Claimed, OnlyGc, CondemnedGone, CollectorsGone, RecordsGone, Condemning
<1>6. ASSUME NEW g \in Collectors, Released(g) PROVE CollectorsGone'
  BY <1>6, <1>g DEF Released, OnlyGc, CondemnedGone, CollectorsGone, Condemning
<1> QED
  BY <1>1, <1>2, <1>3, <1>4, <1>5, <1>6 DEF Effect, Quiet, Uploaded, Committed, Failed,
    TrLocal,
    Truncated, CpLocal, Lightened, Merged, Stored, Published, Confirmed, Cleaned

\* What is condemned stays off the list; what is reserved is not on it yet.
LEMMA CondemnedStep ==
  ASSUME TypeOK, CasCoherent, OwnersDistinct, NamedSettled, CondemnedGone, Effect
  PROVE  CondemnedGone'
<1>1. DelayedGone'
  BY DelayedStep DEF DelayedGone, CondemnedGone
<1>2. RecordsGone' /\ OwnedOffList'
  BY RecordsStep, OwnedStep
<1>3. CollectorsGone'
  BY <1>2, CollectorsStep
<1> QED
  BY <1>1, <1>2, <1>3 DEF CondemnedGone

BlocksMove(s) ==
  \/ blocks'[s] = blocks[s]
  \/ Gone(s)
  \/ s = nextId /\ \E w \in Writers : Uploaded(w)
  \/ \E c \in Compactors : Stored(c) /\ s = cp[c].id

\* Who writes or deletes the blocks of a slice
LEMMA BlocksKept ==
  ASSUME TypeOK, CondemnedGone, OwnersDistinct, Effect, NEW s \in SliceIds
  PROVE  BlocksMove(s)
<1>0. CASE Quiet
  BY <1>0 DEF Quiet, BlocksMove
<1>1. ASSUME NEW w \in Writers, Uploaded(w) PROVE BlocksMove(s)
  BY <1>1 DEF Uploaded, BlocksMove
<1>2. ASSUME NEW w \in Writers, Committed(w) PROVE BlocksMove(s)
  BY <1>2 DEF Committed, BlocksMove
<1>3. ASSUME NEW w \in Writers, Failed(w) PROVE BlocksMove(s)
  BY <1>3 DEF Failed, BlocksMove
<1>4. ASSUME NEW t \in Truncaters, TrLocal(t) PROVE BlocksMove(s)
  BY <1>4 DEF TrLocal, BlocksMove
<1>5. ASSUME NEW t \in Truncaters, Truncated(t) PROVE BlocksMove(s)
  BY <1>5 DEF Truncated, BlocksMove
<1>6. ASSUME NEW c \in Compactors, CpLocal(c) PROVE BlocksMove(s)
  BY <1>6 DEF CpLocal, BlocksMove
<1>7. ASSUME NEW c \in Compactors, Lightened(c) PROVE BlocksMove(s)
  BY <1>7 DEF Lightened, BlocksMove
<1>8. ASSUME NEW c \in Compactors, Merged(c) PROVE BlocksMove(s)
  BY <1>8 DEF Merged, BlocksMove
<1>9. ASSUME NEW c \in Compactors, Stored(c) PROVE BlocksMove(s)
  BY <1>9 DEF Stored, BlocksMove
<1>10. ASSUME NEW c \in Compactors, Published(c) PROVE BlocksMove(s)
  BY <1>10 DEF Published, BlocksMove
<1>11. ASSUME NEW c \in Compactors, Confirmed(c) PROVE BlocksMove(s)
  BY <1>11 DEF Confirmed, BlocksMove
<1>12. ASSUME NEW c \in Compactors, Cleaned(c) PROVE BlocksMove(s)
  BY <1>12 DEF Cleaned, BlocksMove, CondemnedGone, OwnedOffList
<1>13. ASSUME NEW g \in Collectors, GcLocal(g) PROVE BlocksMove(s)
  BY <1>13 DEF GcLocal, BlocksMove
<1>14. ASSUME NEW g \in Collectors, Marked(g) PROVE BlocksMove(s)
  BY <1>14 DEF Marked, BlocksMove
<1>15. ASSUME NEW g \in Collectors, Erased(g) PROVE BlocksMove(s)
  BY <1>15 DEF Erased, BlocksMove, CondemnedGone, CollectorsGone
<1>16. ASSUME NEW g \in Collectors, Claimed(g) PROVE BlocksMove(s)
  BY <1>16 DEF Claimed, BlocksMove
<1>17. ASSUME NEW g \in Collectors, Released(g) PROVE BlocksMove(s)
  BY <1>17 DEF Released, BlocksMove
<1> QED
  BY <1>0, <1>1, <1>2, <1>3, <1>4, <1>5, <1>6, <1>7, <1>8, <1>9, <1>10, <1>11, <1>12,
    <1>13, <1>14, <1>15, <1>16, <1>17 DEF Effect

\* A reservation of an identifier that is in use was there before the step.
LEMMA ReservedOnce ==
  ASSUME TypeOK, Effect, NEW s \in SliceIds, s < nextId, uncommitted'[s].st = "pending"
  PROVE  uncommitted[s].st = "pending"
<1> nextId \in Nat /\ s \in Nat
  BY ChunkAssumption DEF TypeOK, SliceIds
<1>1. ASSUME NEW c \in Compactors, Merged(c) PROVE uncommitted[s].st = "pending"
  BY <1>1 DEF Merged
<1>2. ASSUME NEW c \in Compactors, Published(c) PROVE uncommitted[s].st = "pending"
  BY <1>2 DEF Published
<1>3. ASSUME NEW c \in Compactors, Confirmed(c) PROVE uncommitted[s].st = "pending"
  BY <1>3 DEF Confirmed
<1>4. ASSUME NEW g \in Collectors, Claimed(g) PROVE uncommitted[s].st = "pending"
  BY <1>4 DEF Claimed
<1>5. ASSUME NEW g \in Collectors, Released(g) PROVE uncommitted[s].st = "pending"
  BY <1>5 DEF Released
<1>6. CASE uncommitted' = uncommitted
  BY <1>6
<1> QED
  BY <1>1, <1>2, <1>3, <1>4, <1>5, <1>6 DEF Effect, Quiet, Uploaded, Committed, Failed, TrLocal,
    Truncated, CpLocal, Lightened, Stored, Cleaned, GcLocal, Marked, Erased

\* The blocks of what is, or can still be, published stay.
LEMMA BlocksStep ==
  ASSUME TypeOK, CasCoherent, OwnersDistinct, NamedSettled, CondemnedGone, BlocksBehind,
  Effect
  PROVE  BlocksBehind'
<1>0. nextId \in Nat /\ \A s \in SliceIds : s \in Nat
  BY ChunkAssumption DEF TypeOK, SliceIds
<1>1. ASSUME NEW e \in slices PROVE blocks'[e.id] = blocks[e.id]
  <2>1. e.id \in SliceIds /\ e.id \in Ids(slices) /\ e.id < nextId
    BY DEF TypeOK, SliceDesc, Ids, NamedSettled, Settled
  <2>2. ~Gone(e.id) /\ e.id # nextId
    BY <1>0, <2>1 DEF Gone
  <2>3. \A c \in Compactors : Stored(c) => e.id # cp[c].id
    BY <2>1 DEF Stored, CondemnedGone, OwnedOffList, Unpublished
  <2> QED
    BY <2>1, <2>2, <2>3, BlocksKept DEF BlocksMove
<1>2. NoDanglingSlice'
  <2>1. CASE slices' \subseteq slices
    BY <1>1, <2>1 DEF BlocksBehind, NoDanglingSlice, Readable
  <2>2. ASSUME NEW w \in Writers, Committed(w) PROVE NoDanglingSlice'
    <3>1. PICK e : slices' = slices \cup {e} /\ e.id = wr[w].id /\ e.len = wr[w].len
      BY <2>2 DEF Committed
    <3>2. wr[w].pc = "uploaded" /\ blocks' = blocks
      BY <2>2 DEF Committed
    <3>3. \A u \in Units : u < e.len => blocks[e.id][u] # Absent
      BY <3>1, <3>2 DEF BlocksBehind, WritersBacked
    <3> QED
      BY <3>1, <3>2, <3>3 DEF BlocksBehind, NoDanglingSlice, Readable
  <2>3. ASSUME NEW t \in Truncaters, Truncated(t) PROVE NoDanglingSlice'
    <3>1. slices' = Trimmed(slices, tr[t].cutoff) /\ blocks' = blocks
      BY <2>3 DEF Truncated, CasCoherent
    <3>2. ASSUME NEW f \in slices', NEW u \in Units, u < f.len PROVE blocks[f.id][u] # Absent
      <4>1. PICK e \in slices : /\ e.off < tr[t].cutoff /\ f.id = e.id
                                /\ f.len = IF End(e) > tr[t].cutoff THEN tr[t].cutoff - e.off
                                           ELSE e.len
        <5>1. slices \in SUBSET SliceDesc
          BY DEF TypeOK
        <5> QED
          BY <3>1, <5>1, TrimmedIds
      <4>2. e.off \in Int /\ e.len \in Int /\ tr[t].cutoff \in Int /\ u \in Int
        BY ChunkAssumption DEF TypeOK, SliceDesc, TruncaterState, Units
      <4>3. u < e.len
        BY <3>2, <4>1, <4>2 DEF End
      <4> QED
        BY <4>1, <4>3 DEF BlocksBehind, NoDanglingSlice, Readable
    <3> QED
      BY <3>1, <3>2 DEF NoDanglingSlice, Readable
  <2>4. ASSUME NEW c \in Compactors, Lightened(c) PROVE slices' \subseteq slices
    BY <2>4 DEF Lightened, CasCoherent
  <2>5. ASSUME NEW c \in Compactors, Published(c) PROVE NoDanglingSlice'
    <3>1. \A u \in Units : u < OccupiedEnd(cp[c].snap) => blocks[cp[c].id][u] # Absent
      BY <2>5 DEF Published, BlocksBehind, MergesBacked, Unpublished
    <3> QED
      BY <2>5, <3>1 DEF Published, NoDanglingSlice, Readable
  <2>6. ASSUME NEW g \in Collectors, Marked(g) PROVE slices' \subseteq slices
    BY <2>6 DEF Marked
  <2> QED
    BY <2>1, <2>2, <2>3, <2>4, <2>5, <2>6, ListStep
<1>3. ASSUME NEW s \in SliceIds, Publishable(s), s < nextId,
            ~ \E c \in Compactors : Stored(c) /\ s = cp[c].id
     PROVE  blocks'[s] = blocks[s]
  BY <1>0, <1>3, BlocksKept DEF BlocksMove, Gone, Settled
<1>4. WritersBacked'
  <2>1. ASSUME NEW w \in Writers, Uploaded(w) PROVE WritersBacked'
    <3>1. \A v \in Writers \ {w} : wr'[v] = wr[v] /\ wr[v].id # nextId
      BY <1>0, <2>1 DEF Uploaded, OnlyWr, OwnersDistinct, WritersOwn
    <3>2. \A v \in Writers \ {w} : wr[v].pc = "uploaded" => blocks'[wr[v].id] = blocks[wr[v].id]
      BY <2>1, <3>1 DEF Uploaded, OwnersDistinct, WritersOwn, TypeOK, WriterState
    <3> QED
      BY <2>1, <3>1, <3>2 DEF Uploaded, BlocksBehind, WritersBacked
  <2>2. ASSUME NEW v \in Writers, wr[v].pc = "uploaded", wr'[v] = wr[v],
               ~ \E w \in Writers : Uploaded(w)
        PROVE  blocks'[wr[v].id] = blocks[wr[v].id]
    <3>1. wr[v].id \in SliceIds /\ Publishable(wr[v].id) /\ wr[v].id < nextId
      BY <2>2 DEF OwnersDistinct, WritersOwn, Publishable, TypeOK, WriterState
    <3>2. \A c \in Compactors : wr[v].id # cp[c].id
      BY <2>2 DEF OwnersDistinct, WritersOwn
    <3> QED
      BY <1>3, <3>1, <3>2
  <2>3. \A v \in Writers : wr'[v] = wr[v] \/ wr'[v].pc # "uploaded" \/ \E w \in Writers : Uploaded(w)
    BY DEF Effect, OnlyWr, Quiet, Uploaded, Committed, Failed, TrLocal, Truncated, CpLocal,
      Lightened, Merged, Stored, Published, Confirmed, Cleaned, GcLocal, Marked, Erased,
      Claimed,
      Released
  <2> QED
    BY <2>1, <2>2, <2>3 DEF BlocksBehind, WritersBacked
<1> DEFINE Backed(b) ==
             /\ cp'[b].pc \in {"merge"} \cup Unpublished => cp'[b].snap # {}
             /\ \A u \in Units : u < OccupiedEnd(cp'[b].snap) =>
                  /\ cp'[b].pc = "upload" => cp'[b].buf[u] # Absent
                  /\ cp'[b].pc \in Unpublished \ {"upload"} /\ uncommitted'[cp'[b].id].st = "pending"
                       => blocks'[cp'[b].id][u] # Absent
<1>5. ASSUME NEW b \in Compactors, cp'[b] = cp[b] PROVE Backed(b)
  <2>1. ASSUME cp[b].pc \in Unpublished \ {"upload"}, uncommitted'[cp[b].id].st = "pending"
        PROVE  uncommitted[cp[b].id].st = "pending" /\ blocks'[cp[b].id] = blocks[cp[b].id]
    <3>1. cp[b].id \in SliceIds /\ cp[b].id < nextId
      BY <2>1 DEF OwnersDistinct, CompactorsOwn, TypeOK, CompactorState
    <3>2. uncommitted[cp[b].id].st = "pending"
      BY <2>1, <3>1, ReservedOnce
    <3>3. Publishable(cp[b].id)
      BY <2>1, <3>2 DEF Publishable
    <3>4. ~ \E c \in Compactors : Stored(c) /\ cp[b].id = cp[c].id
      BY <1>5, <2>1 DEF Stored, OwnersDistinct, CompactorsOwn
    <3> QED
      BY <1>3, <3>1, <3>2, <3>3, <3>4
  <2> QED
    BY <1>5, <2>1 DEF BlocksBehind, SnapsKnown, MergesBacked
<1>6. ASSUME NEW b \in Compactors, CpLocal(b) PROVE Backed(b)
  BY <1>6 DEF CpLocal, BlocksBehind, SnapsKnown, MergesBacked, Unpublished
<1>7. ASSUME NEW b \in Compactors, Merged(b) PROVE Backed(b)
  BY <1>7 DEF Merged, BlocksBehind, SnapsKnown, MergesBacked, Unpublished
<1>8. ASSUME NEW b \in Compactors, Stored(b) PROVE Backed(b)
  <2>1. cp[b].id \in SliceIds
    BY <1>8 DEF Stored, OwnersDistinct, CompactorsOwn, TypeOK, CompactorState, Unpublished
  <2> QED
    BY <1>8, <2>1 DEF Stored, BlocksBehind, SnapsKnown, MergesBacked, Unpublished
<1>9. ASSUME NEW b \in Compactors, cp'[b].pc \in {"resnap", "confirm", "unlock"} PROVE Backed(b)
  BY <1>9 DEF Unpublished
<1>10. ASSUME NEW b \in Compactors PROVE Backed(b)
  <2>1. \/ cp'[b] = cp[b] \/ CpLocal(b) \/ Merged(b) \/ Stored(b)
        \/ cp'[b].pc \in {"resnap", "confirm", "unlock"}
    <3> HIDE DEF Backed
    <3> QED
      <4>1. cp' = cp \/ \E c \in Compactors : \/ CpLocal(c) \/ Lightened(c) \/ Merged(c) \/ Stored(c)
                                                \/ Published(c) \/ Confirmed(c) \/ Cleaned(c)
        BY DEF Effect, Quiet, Uploaded, Committed, Failed, TrLocal, Truncated, GcLocal,
          Marked,
          Erased, Claimed, Released
      <4>2. ASSUME NEW c \in Compactors, Lightened(c) \/ Published(c) \/ Confirmed(c) \/ Cleaned(c)
            PROVE  OnlyCp(c) /\ cp'[c].pc \in {"resnap", "confirm", "unlock"}
        BY <4>2 DEF Lightened, Published, Confirmed, Cleaned
      <4>3. ASSUME NEW c \in Compactors, CpLocal(c) \/ Merged(c) \/ Stored(c) PROVE OnlyCp(c)
        BY <4>3 DEF CpLocal, Merged, Stored
      <4> QED
        BY <4>1, <4>2, <4>3 DEF OnlyCp
  <2> HIDE DEF Backed
  <2> QED
    BY <2>1, <1>5, <1>6, <1>7, <1>8, <1>9
<1>11. SnapsKnown' /\ MergesBacked'
  BY <1>10 DEF SnapsKnown, MergesBacked
<1> QED
  BY <1>2, <1>4, <1>11 DEF BlocksBehind

----------------------------------------------------------------------------
(* The theorems. *)

\* The empty chunk satisfies the inductive invariant.
LEMMA InitIInv == Init => IInv
<1> SUFFICES ASSUME Init PROVE IInv
  OBVIOUS
<1>1. TypeOK
  <2>1. 1 \in 1 .. MaxSlices + 1
    BY ChunkAssumption
  <2>2. [owner |-> Nobody, expired |-> FALSE]
          \in [owner : Compactors \cup {Nobody}, expired : BOOLEAN]
    OBVIOUS
  <2> QED
    BY <2>1, <2>2, IdleTypes DEF Init, TypeOK, Ledger
<1>2. CasCoherent
  BY DEF Init, CasCoherent, TruncaterIdle, CompactorIdle
<1>3. OwnersDistinct
  BY DEF Init, OwnersDistinct, WritersOwn, CompactorsOwn, WriterIdle, CompactorIdle,
    NoRecord,
    None, Unpublished
<1>4. NamedSettled
  BY DEF Init, NamedSettled, CompactorIdle
<1>5. CondemnedGone
  BY DEF Init, CondemnedGone, DelayedGone, RecordsGone, CollectorsGone, OwnedOffList,
    NoRecord, CollectorIdle, CompactorIdle, WriterIdle, Condemning, Unpublished
<1>6. BlocksBehind
  BY DEF Init, BlocksBehind, NoDanglingSlice, Readable, WritersBacked, SnapsKnown,
    MergesBacked,
    WriterIdle, CompactorIdle, Unpublished
<1> QED
  BY <1>1, <1>2, <1>3, <1>4, <1>5, <1>6 DEF IInv

\* Every step keeps the inductive invariant.
LEMMA NextIInv == IInv /\ [Next]_vars => IInv'
<1> SUFFICES ASSUME IInv, [Next]_vars PROVE IInv'
  OBVIOUS
<1>1. TypeOK'
  BY TypeStep DEF IInv, BlocksBehind
<1>2. Effect
  BY StepEffect DEF IInv
<1>3. CasCoherent' /\ OwnersDistinct'
  BY <1>2, CasStep, OwnersStep DEF IInv
<1>4. NamedSettled' /\ CondemnedGone'
  BY <1>2, NamedStep, CondemnedStep DEF IInv
<1>5. BlocksBehind'
  BY <1>2, BlocksStep DEF IInv
<1> QED
  BY <1>1, <1>3, <1>4, <1>5 DEF IInv

\* The inductive invariant holds in every reachable state.
LEMMA Inductive == Spec => []IInv
BY InitIInv, NextIInv, PTL DEF Spec

\* For any number of processes and any chunk length, the stored keys and the
\* processes' local state keep their types.
THEOREM TypeCorrect == Spec => []TypeOK
<1>1. IInv => TypeOK
  BY DEF IInv
<1> QED
  BY <1>1, Inductive, PTL

\* For any number of writers, truncaters, compactors and collectors, and any
\* chunk length: a published slice never loses a block, although slices are
\* condemned, claimed and deleted by processes that share nothing but the
\* version and the two ledgers.
THEOREM NoDangling == Spec => []NoDanglingSlice
<1>1. IInv => NoDanglingSlice
  BY DEF IInv, BlocksBehind
<1> QED
  BY <1>1, Inductive, PTL

\* A slice the list names is on neither collector ledger.
THEOREM LiveOffLedgers == Spec => []LiveNotCondemned
<1>1. IInv => LiveNotCondemned
  <2> SUFFICES ASSUME IInv, NEW s \in Ids(slices)
               PROVE  (\A d \in delayed : d.sid # s) /\ uncommitted[s].st = "none"
    BY DEF LiveNotCondemned
  <2>1. s \in SliceIds
    BY DEF IInv, TypeOK, SliceDesc, Ids
  <2> QED
    BY <2>1 DEF IInv, CondemnedGone, DelayedGone, RecordsGone, Gone
<1> QED
  BY <1>1, Inductive, PTL

\* Whoever changes the list moves the version forward: the compare-and-swap on
\* c<ino>_<idx>:v protects the whole list.
THEOREM VersionTracks == Spec => VersionTracksList
<1>1. IInv /\ [Next]_vars => [slices' # slices => version' > version]_vars
  <2> SUFFICES ASSUME IInv, [Next]_vars PROVE slices' # slices => version' > version
    OBVIOUS
  <2>1. Effect
    BY StepEffect DEF IInv
  <2> QED
    BY <2>1, VersionStep DEF IInv, VersionMoves
<1> QED
  BY <1>1, Inductive, PTL DEF Spec, VersionTracksList

----------------------------------------------------------------------------
(***************************************************************************)
(* Two more results, on top of IInv: no object of the store is without an  *)
(* owner, and readers see the content that writes and truncations alone    *)
(* produce.                                                                *)
(***************************************************************************)

----------------------------------------------------------------------------
(* The inductive invariant, on top of IInv.                                *)

\* A compactor in these states owns a slice it has not published.
Holding == Unpublished \cup {"cleanup"}
Light == {"light", "lightlist", "lightcas"}
Ending == {"mark", "erase", "confirm"}
Clearing == {"eraseorphan", "forget"}

\* Who has no slice under way names none.
IdleOwnsNothing ==
  /\ \A w \in Writers : wr[w].pc = "idle" => wr[w].id = None
  /\ \A c \in Compactors : cp[c].pc \notin Holding \cup {"confirm"} => cp[c].id = None

\* Slices not published: not allocated yet, under way, or left on the ledger.
Underway(s) ==
  \/ s >= nextId
  \/ \E w \in Writers : wr[w].pc = "uploaded" /\ wr[w].id = s
  \/ \E c \in Compactors : cp[c].pc \in Holding /\ cp[c].id = s
  \/ uncommitted[s].st # "none"
  \/ \E g \in Collectors : gc[g].pc \in Clearing /\ gc[g].sid = s

\* Slices that are, or once were, on the list, as far as anyone remembers.
Listed(s) ==
  \/ s \in Ids(slices)
  \/ \E c \in Compactors : s \in Ids(cp[c].snap)
  \/ \E c \in Compactors : cp[c].pc = "confirm" /\ cp[c].id = s
  \/ \E d \in delayed : d.sid = s
  \/ \E g \in Collectors : gc[g].pc \in Ending /\ gc[g].sid = s

\* No slice is both.
Apart == \A s \in SliceIds : ~(Listed(s) /\ Underway(s))

\* The blocks behind a slice under way are those its owner put there.
FreshEmpty == \A s \in SliceIds : s >= nextId => \A u \in Units : blocks[s][u] = Absent

WritersExact ==
  \A w \in Writers : wr[w].pc = "uploaded" =>
    \A u \in Units : blocks[wr[w].id][u] = IF u < wr[w].len THEN wr[w].id ELSE Absent

MergesExact ==
  \A c \in Compactors : cp[c].pc \in Holding =>
    /\ cp[c].snap # {}
    /\ \A u \in Units : ~(u < OccupiedEnd(cp[c].snap)) =>
         /\ blocks[cp[c].id][u] = Absent
         /\ cp[c].pc = "upload" => cp[c].buf[u] = Absent
    /\ uncommitted[cp[c].id].st # "none" =>
         uncommitted[cp[c].id].sz = OccupiedEnd(cp[c].snap)

\* The entry of a slice keeps its place and only ever gets shorter.
Shorter(e, f) == e.id = f.id => e.seq = f.seq /\ e.off = f.off /\ e.len <= f.len

Unique(es) == \A e, f \in es : e.id = f.id \/ e.seq = f.seq => e = f

Snapshots ==
  /\ Unique(slices)
  /\ \A c \in Compactors :
       /\ Unique(cp[c].snap)
       /\ \A e \in slices, f \in cp[c].snap : Shorter(e, f)
       /\ cp[c].pc = "heavycas" /\ cp[c].rver = version => SameSlices(slices, cp[c].snap)

\* A record of the delayed ledger is known by its slice and its version.
DelayedKeys ==
  /\ \A d \in delayed : d.at <= version
  /\ \A d, e \in delayed : d.sid = e.sid /\ d.at = e.at => d.sz = e.sz

\* What a collector knows of the delayed record it works on ...
DelayedPass ==
  \A g \in Collectors : gc[g].pc \in Ending =>
    /\ gc[g].at <= version
    /\ \A d \in delayed : d.sid = gc[g].sid /\ d.at = gc[g].at => d.sz = gc[g].sz
    /\ gc[g].pc = "confirm" => \A u \in Units : u < gc[g].sz => blocks[gc[g].sid][u] = Absent

\* ... and of a reservation.  A compactor may upload behind its back.
Held(s) == s \in abandoned \/ \E c \in Compactors : cp[c].pc \in Holding /\ cp[c].id = s

OrphanPass ==
  \A g \in Collectors : gc[g].pc \in {"orphanlist", "claim"} \cup Clearing =>
    /\ gc[g].sid < nextId /\ gc[g].rver <= version
    /\ uncommitted[gc[g].sid].st # "none" => uncommitted[gc[g].sid].sz = gc[g].sz
    /\ gc[g].pc = "claim" /\ gc[g].rver = version => gc[g].found = Extents(gc[g].sid)
    /\ gc[g].pc \in Clearing => uncommitted[gc[g].sid].st # "pending"
    /\ gc[g].pc = "forget" => \A u \in Units : u < gc[g].sz =>
         blocks[gc[g].sid][u] = Absent \/ Held(gc[g].sid)

\* NoLeakedBlock, with the processes that count as owners spelled out.
Owned(s, u) ==
  \/ Held(s)
  \/ \E w \in Writers : wr[w].pc = "uploaded" /\ wr[w].id = s
  \/ \E e \in slices : e.id = s /\ u < Larger(e.len, physical[s])
  \/ \E d \in delayed : d.sid = s /\ u < d.sz
  \/ uncommitted[s].st # "none" /\ u < uncommitted[s].sz

Accounted == \A s \in SliceIds : \A u \in Units : blocks[s][u] # Absent => Owned(s, u)

\* What the snapshot of a light pass found covered stays covered.
Under(e, f) == f.seq > e.seq /\ f.off <= e.off /\ End(e) <= End(f)

LightCovered ==
  \A c \in Compactors : cp[c].pc \in Light =>
    \A e \in slices : e.id \in ReplacedIds(cp[c].snap) => \E f \in slices : Under(e, f)

\* A merge holds what readers see, as long as the list still holds its snapshot.
MergeCurrent ==
  \A c \in Compactors : cp[c].pc \in Unpublished /\ cp[c].snap \subseteq slices =>
    \A u \in Units : u < OccupiedEnd(cp[c].snap) =>
      /\ cp[c].pc = "upload" => cp[c].buf[u] = VisibleAt(cp[c].snap, blocks, u)
      /\ cp[c].pc # "upload" /\ uncommitted[cp[c].id].st = "pending" =>
           blocks[cp[c].id][u] = VisibleAt(cp[c].snap, blocks, u)

\* A slice is published once.
AppliedOnce ==
  /\ \A w \in Writers : wr[w].pc = "uploaded" => wr[w].id \notin committed
  /\ \A s \in committed : s < nextId

Exact == FreshEmpty /\ WritersExact /\ MergesExact
Passes == DelayedKeys /\ DelayedPass /\ OrphanPass
Shown == LightCovered /\ MergeCurrent /\ AppliedOnce

JInv == /\ IInv /\ IdleOwnsNothing /\ Apart /\ Exact /\ Snapshots
        /\ Passes /\ Accounted /\ Shown

----------------------------------------------------------------------------
(* What each step does, field by field and block by block. *)

Sits == UNCHANGED <<slices, version, physical, blocks, delayed, uncommitted, nextId, wr,
                    cp, gc, abandoned, committed>>

Uploads(w) ==
  /\ UNCHANGED <<slices, version, physical, delayed, uncommitted, cp, gc, abandoned, committed>>
  /\ OnlyWr(w) /\ wr[w].pc = "idle" /\ wr'[w].pc = "uploaded" /\ wr'[w].id = nextId
  /\ nextId \in SliceIds /\ nextId' = nextId + 1
  /\ \A s \in SliceIds \ {nextId} : blocks'[s] = blocks[s]
  /\ \A u \in Units : blocks'[nextId][u] = IF u < wr'[w].len THEN nextId ELSE Absent

Pushed(w) == [seq |-> version + 1, id |-> wr[w].id, off |-> wr[w].off, len |-> wr[w].len]

Commits(w) ==
  /\ UNCHANGED <<physical, blocks, delayed, uncommitted, nextId, cp, gc, abandoned>>
  /\ OnlyWr(w) /\ wr[w].pc = "uploaded" /\ wr'[w].pc = "idle" /\ wr'[w].id = None
  /\ slices' = slices \cup {Pushed(w)} /\ version' = version + 1
  /\ committed' = committed \cup {wr[w].id}

Fails(w) ==
  /\ UNCHANGED <<slices, version, physical, blocks, delayed, uncommitted, nextId, cp, gc, committed>>
  /\ OnlyWr(w) /\ wr'[w].pc = "idle" /\ wr'[w].id = None
  /\ abandoned' = abandoned \cup {wr[w].id}

\* The record CHUNK_COMPACT_LUA writes for an entry it condemns
Sentence(e) == [sid |-> e.id, sz |-> Larger(e.len, physical[e.id]),
                st |-> "pending", at |-> version + 1]
Condemns(es) == delayed' = delayed \cup {Sentence(e) : e \in es}

Beyond(cutoff) == {e \in slices : e.off >= cutoff}

Cuts(t) ==
  /\ UNCHANGED <<blocks, uncommitted, nextId, wr, cp, gc, abandoned, committed>>
  /\ tr[t].cutoff \in Units
  /\ slices' = Trimmed(slices, tr[t].cutoff)
  /\ version' = IF slices = {} THEN version ELSE version + 1
  /\ Condemns(Beyond(tr[t].cutoff))
  /\ \A e \in slices : e.off < tr[t].cutoff =>
       physical'[e.id] >= IF End(e) > tr[t].cutoff THEN Larger(e.len, physical[e.id])
                          ELSE physical[e.id]

\* A compactor with no slice of its own looks around,
Looks(c) ==
  /\ UNCHANGED <<slices, version, physical, blocks, delayed, uncommitted, nextId, wr, gc,
                 abandoned, committed>>
  /\ OnlyCp(c)
  /\ cp[c].pc \notin Holding \cup {"confirm"} /\ cp'[c].pc \notin Holding \cup {"confirm"}
  /\ cp'[c].id = cp[c].id
  /\ \/ cp'[c].snap = cp[c].snap /\ (cp'[c].pc \in Light => cp[c].pc \in Light)
     \/ cp'[c].snap = slices

\* one with an uploaded slice decides whether it can be published,
Advances(c) ==
  /\ UNCHANGED <<slices, version, physical, blocks, delayed, uncommitted, nextId, wr, gc,
                 abandoned, committed>>
  /\ OnlyCp(c)
  /\ cp[c].pc \in Unpublished \ {"upload"} /\ cp'[c].pc \in Holding \ {"upload"}
  /\ cp'[c].id = cp[c].id /\ cp'[c].snap = cp[c].snap
  /\ cp'[c].pc = "heavycas" => SameSlices(slices, cp[c].snap)

\* and any may stop.
Stops(c) ==
  /\ UNCHANGED <<slices, version, physical, blocks, delayed, uncommitted, nextId, wr, gc, committed>>
  /\ OnlyCp(c)
  /\ cp'[c].pc \in {"idle", "unlock"} /\ cp'[c].id = None /\ cp'[c].snap = {}
  /\ abandoned \subseteq abandoned'
  /\ cp[c].pc \in Holding => uncommitted[cp[c].id].st = "pending" \/ cp[c].id \in abandoned'

Lightens(c) ==
  LET ids == ReplacedIds(cp[c].snap)
  IN  /\ UNCHANGED <<blocks, uncommitted, nextId, wr, gc, abandoned, committed>>
      /\ OnlyCp(c) /\ cp[c].pc = "lightcas"
      /\ cp'[c].pc = "resnap" /\ cp'[c].id = None /\ cp'[c].snap = {}
      /\ slices' = {e \in slices : e.id \notin ids} /\ version' = version + 1
      /\ Condemns({e \in cp[c].snap : e.id \in ids})
      /\ \A s \in SliceIds \ ids : physical'[s] = physical[s]

Merges(c) ==
  LET end == OccupiedEnd(cp[c].snap)
  IN  /\ UNCHANGED <<slices, version, physical, blocks, delayed, wr, gc, abandoned, committed>>
      /\ OnlyCp(c) /\ cp[c].pc = "merge" /\ cp'[c].pc = "upload" /\ cp'[c].id = nextId
      /\ cp'[c].snap = cp[c].snap
      /\ nextId \in SliceIds /\ nextId' = nextId + 1
      /\ \A s \in SliceIds \ {nextId} : uncommitted'[s] = uncommitted[s]
      /\ uncommitted'[nextId].st = "pending" /\ uncommitted'[nextId].sz = end
      /\ \A u \in Units : cp'[c].buf[u] = IF u < end THEN VisibleAt(cp[c].snap, blocks, u)
                                                       ELSE Absent

Stores(c) ==
  /\ UNCHANGED <<slices, version, physical, delayed, uncommitted, nextId, wr, gc, abandoned, committed>>
  /\ OnlyCp(c) /\ cp[c].pc = "upload" /\ cp'[c].pc = "heavy" /\ cp'[c].id = cp[c].id
  /\ cp'[c].snap = cp[c].snap /\ cp[c].id \in SliceIds
  /\ \A s \in SliceIds \ {cp[c].id} : blocks'[s] = blocks[s]
  /\ blocks'[cp[c].id] = cp[c].buf

MergedEntry(c) == [seq |-> version + 1, id |-> cp[c].id, off |-> 0,
                   len |-> OccupiedEnd(cp[c].snap)]

Publishes(c) ==
  /\ UNCHANGED <<blocks, nextId, wr, gc, abandoned, committed>>
  /\ OnlyCp(c) /\ cp[c].pc = "heavycas" /\ cp[c].rver = version
  /\ cp[c].id \in SliceIds /\ uncommitted[cp[c].id].st = "pending"
  /\ cp'[c].pc = "confirm" /\ cp'[c].id = cp[c].id /\ cp'[c].snap = cp[c].snap
  /\ slices' = {MergedEntry(c)} /\ version' = version + 1
  /\ Condemns(cp[c].snap)
  /\ \A s \in SliceIds \ {cp[c].id} : uncommitted'[s] = uncommitted[s]
  /\ uncommitted'[cp[c].id].st = "none"

Confirms(c) ==
  /\ UNCHANGED <<slices, version, physical, blocks, delayed, nextId, wr, gc, abandoned, committed>>
  /\ OnlyCp(c) /\ cp[c].pc = "confirm" /\ cp[c].id \in SliceIds
  /\ cp'[c].pc = "unlock" /\ cp'[c].id = None /\ cp'[c].snap = {}
  /\ \A s \in SliceIds \ {cp[c].id} : uncommitted'[s] = uncommitted[s]
  /\ uncommitted'[cp[c].id].st = "none"

Cleans(c) ==
  /\ UNCHANGED <<slices, version, physical, delayed, uncommitted, nextId, wr, gc, committed>>
  /\ OnlyCp(c) /\ cp[c].pc = "cleanup" /\ cp[c].id \in SliceIds
  /\ cp'[c].pc = "unlock" /\ cp'[c].id = None /\ cp'[c].snap = {}
  /\ abandoned \subseteq abandoned'
  /\ \A s \in SliceIds \ {cp[c].id} : blocks'[s] = blocks[s]
  /\ \A u \in Units : blocks'[cp[c].id][u] \in {blocks[cp[c].id][u], Absent}
  /\ \/ uncommitted[cp[c].id].st = "pending" \/ cp[c].id \in abandoned'
     \/ \A u \in Units : u < OccupiedEnd(cp[c].snap) => blocks'[cp[c].id][u] = Absent

\* A collector takes a record up, reads the list for it,
Picks(g) ==
  /\ UNCHANGED <<slices, version, physical, blocks, delayed, uncommitted, nextId, wr, cp,
                 abandoned, committed>>
  /\ OnlyGc(g)
  /\ \/ /\ gc'[g].pc \in {"mark", "erase"}
        /\ \E d \in delayed : gc'[g].sid = d.sid /\ gc'[g].sz = d.sz /\ gc'[g].at = d.at
     \/ /\ gc'[g].pc \in {"orphanlist", "eraseorphan"}
        /\ gc'[g].sid \in SliceIds /\ uncommitted[gc'[g].sid].st # "none"
        /\ gc'[g].sz = uncommitted[gc'[g].sid].sz
        /\ gc'[g].rver <= version
        /\ gc'[g].pc = "eraseorphan" => uncommitted[gc'[g].sid].st # "pending"
     \/ /\ gc[g].pc = "orphanlist" /\ gc'[g].pc = "claim"
        /\ gc'[g].sid = gc[g].sid /\ gc'[g].sz = gc[g].sz /\ gc'[g].rver = gc[g].rver
        /\ gc'[g].found = Extents(gc[g].sid)

\* or drops it.
Quits(g) ==
  /\ UNCHANGED <<slices, version, physical, blocks, delayed, uncommitted, nextId, wr, cp,
                 abandoned, committed>>
  /\ OnlyGc(g) /\ gc'[g].pc = "idle"

Known(d) == \E e \in delayed : d.sid = e.sid /\ d.sz = e.sz /\ d.at = e.at

Marks(g) ==
  /\ UNCHANGED <<slices, physical, blocks, uncommitted, nextId, wr, cp, abandoned, committed>>
  /\ version' \in {version, version + 1}
  /\ OnlyGc(g) /\ gc[g].pc = "mark" /\ gc'[g].pc = "erase" /\ gc'[g].sid = gc[g].sid
  /\ gc'[g].sz = gc[g].sz /\ gc'[g].at = gc[g].at
  /\ \A d \in delayed' : Known(d)
  /\ \A d \in delayed : \E e \in delayed' : d.sid = e.sid /\ d.sz = e.sz

Erases(g) ==
  /\ UNCHANGED <<slices, version, physical, delayed, uncommitted, nextId, wr, cp, abandoned, committed>>
  /\ OnlyGc(g) /\ gc[g].pc \in {"erase", "eraseorphan"} /\ gc[g].sid \in SliceIds
  /\ \A s \in SliceIds \ {gc[g].sid} : blocks'[s] = blocks[s]
  /\ \A u \in Units : blocks'[gc[g].sid][u] \in {blocks[gc[g].sid][u], Absent}
  /\ \/ gc'[g].pc = "idle"
     \/ /\ gc'[g].pc = IF gc[g].pc = "erase" THEN "confirm" ELSE "forget"
        /\ gc'[g].sid = gc[g].sid /\ gc'[g].sz = gc[g].sz /\ gc'[g].at = gc[g].at
        /\ gc'[g].rver = gc[g].rver
        /\ \A u \in Units : u < gc[g].sz => blocks'[gc[g].sid][u] = Absent

Expunges(g) ==
  /\ UNCHANGED <<slices, version, physical, blocks, uncommitted, nextId, wr, cp, abandoned, committed>>
  /\ OnlyGc(g) /\ gc[g].pc = "confirm" /\ gc'[g].pc = "idle"
  /\ delayed' = {d \in delayed : ~(d.sid = gc[g].sid /\ d.at = gc[g].at)}

Claims(g) ==
  /\ UNCHANGED <<slices, version, physical, blocks, delayed, nextId, wr, cp, abandoned, committed>>
  /\ OnlyGc(g) /\ gc[g].pc = "claim" /\ gc'[g].pc = "eraseorphan"
  /\ gc[g].sid \in SliceIds /\ uncommitted[gc[g].sid].st = "pending"
  /\ gc'[g].sid = gc[g].sid /\ gc'[g].sz = gc[g].sz /\ gc'[g].rver = 0
  /\ \A s \in SliceIds \ {gc[g].sid} : uncommitted'[s] = uncommitted[s]
  /\ uncommitted'[gc[g].sid].st = "orphan"
  /\ uncommitted'[gc[g].sid].sz = uncommitted[gc[g].sid].sz

Forgets(g) ==
  /\ UNCHANGED <<slices, version, physical, blocks, delayed, nextId, wr, cp, abandoned, committed>>
  /\ OnlyGc(g) /\ gc[g].pc = "forget" /\ gc[g].sid \in SliceIds /\ gc'[g].pc = "idle"
  /\ \A s \in SliceIds \ {gc[g].sid} : uncommitted'[s] = uncommitted[s]
  /\ uncommitted'[gc[g].sid].st = "none"

\* The steps of each kind of process, and of all
WriterStep(w) == Uploads(w) \/ Commits(w) \/ Fails(w)
CompactorStep(c) ==
  \/ Looks(c) \/ Advances(c) \/ Stops(c) \/ Lightens(c) \/ Merges(c) \/ Stores(c)
  \/ Publishes(c) \/ Confirms(c) \/ Cleans(c)
CollectorStep(g) ==
  Picks(g) \/ Quits(g) \/ Marks(g) \/ Erases(g) \/ Expunges(g) \/ Claims(g) \/ Forgets(g)

AnyStep ==
  \/ Sits
  \/ \E w \in Writers : WriterStep(w)
  \/ \E t \in Truncaters : Cuts(t)
  \/ \E c \in Compactors : CompactorStep(c)
  \/ \E g \in Collectors : CollectorStep(g)

\* What CHUNK_COMPACT_LUA leaves on the delayed ledger
LEMMA SentencesAdded ==
  ASSUME NEW es, NEW ids, NEW newList, NEW newVersion, NEW retained, NEW published,
         ChunkCompact(newList, newVersion, DelayedData(es, ids), retained, published),
         NEW fs, fs = {e \in es : e.id \in ids}, fs # {} => newVersion = version + 1
  PROVE  Condemns(fs)
<1> DEFINE Rec(d) == [sid |-> d.id, sz |-> CondemnedSize(d), st |-> "pending", at |-> newVersion]
<1>1. delayed' = delayed \cup {Rec(d) : d \in DelayedData(es, ids)}
  BY DEF ChunkCompact
<1>2. ASSUME NEW e \in fs PROVE Rec([id |-> e.id, len |-> e.len]) = Sentence(e)
  BY DEF Sentence, CondemnedSize
<1>3. {Rec(d) : d \in DelayedData(es, ids)} = {Rec([id |-> e.id, len |-> e.len]) : e \in fs}
  BY DEF DelayedData
<1> HIDE DEF Rec
<1> QED
  BY <1>1, <1>2, <1>3 DEF Condemns

\* A compactor that holds a slice knows which.
LEMMA HoldersKnown ==
  ASSUME IInv, NEW c \in Compactors, cp[c].pc \in Holding \cup {"confirm"}
  PROVE  cp[c].id \in SliceIds /\ cp[c].id < nextId
BY DEF IInv, TypeOK, OwnersDistinct, CompactorsOwn, CompactorState, Holding

\* What the writers do
LEMMA WriterSteps ==
  ASSUME IInv, NEW w \in Writers, WriterNext(w)
  PROVE  WriterStep(w)
<1> TypeOK
  BY DEF IInv
<1>1. ASSUME NEW off \in Units, NEW len \in 1 .. ChunkLen, WriterUpload(w, off, len)
     PROVE  Uploads(w)
  <2>1. nextId \in SliceIds
    BY <1>1, ChunkAssumption DEF WriterUpload, TypeOK, SliceIds
  <2> QED
    BY <1>1, <2>1 DEF WriterUpload, Uploads, OnlyWr, TypeOK, chunk, ledger, history
<1>2. CASE WriterCommit(w)
  BY <1>2 DEF WriterCommit, WriterStep, Commits, Pushed, OnlyWr, TypeOK, WriterIdle, ledger
<1>3. CASE WriterFail(w)
  BY <1>3 DEF WriterFail, WriterStep, Fails, OnlyWr, TypeOK, WriterIdle, chunk, ledger
<1> QED
  BY <1>1, <1>2, <1>3 DEF WriterNext, WriterStep

\* What the truncaters do
LEMMA TruncaterSteps ==
  ASSUME IInv, NEW t \in Truncaters, TruncaterNext(t)
  PROVE  Sits \/ Cuts(t)
<1> TypeOK
  BY DEF IInv
<1>1. ASSUME NEW cutoff \in Units, TruncateStart(t, cutoff) PROVE Sits
  BY <1>1 DEF TruncateStart, Sits, chunk, ledger, history
<1>2. CASE TruncateList(t) \/ TruncateRetry(t)
  BY <1>2 DEF TruncateList, TruncateRetry, Sits, chunk, ledger, history
<1>3. CASE TruncateCas(t)
  <2> DEFINE removed == {e \in slices : e.off >= tr[t].cutoff}
             cut == {e \in slices : e.off < tr[t].cutoff /\ End(e) > tr[t].cutoff}
  <2>1. tr[t].rlist = slices /\ tr[t].cutoff \in Units
    BY <1>3 DEF TruncateCas, VersionHolds, IInv, CasCoherent, TypeOK, TruncaterState
  <2>2. /\ ChunkCompact(Trimmed(slices, tr[t].cutoff), TruncatedVersion(slices, tr[t].cutoff),
                        DelayedData(slices, Ids(removed)), DelayedData(slices, Ids(cut)), {})
        /\ UNCHANGED <<blocks, nextId, wr, cp, gc, abandoned, committed>>
    BY <1>3, <2>1 DEF TruncateCas, history
  <2>3. \A e, f \in slices : e.id = f.id => e = f
    BY DEF IInv, NamedSettled
  <2>4. {e \in slices : e.id \in Ids(removed)} = Beyond(tr[t].cutoff)
    BY <2>3 DEF Ids, Beyond
  <2>5. Condemns(Beyond(tr[t].cutoff))
    <3>1. Beyond(tr[t].cutoff) # {} => TruncatedVersion(slices, tr[t].cutoff) = version + 1
      BY DEF Beyond, TruncatedVersion
    <3> HIDE DEF removed, cut
    <3> QED
      BY <2>2, <2>4, <3>1, SentencesAdded
  <2>6. uncommitted' = uncommitted
    BY <2>2 DEF ChunkCompact, TypeOK
  <2>7. ASSUME NEW e \in slices, e.off < tr[t].cutoff
        PROVE  physical'[e.id] >= IF End(e) > tr[t].cutoff THEN Larger(e.len, physical[e.id])
                                  ELSE physical[e.id]
    <3> DEFINE s == e.id
               ret == DelayedData(slices, Ids(cut))
    <3>1. e \in SliceDesc /\ s \in SliceIds /\ physical[s] \in Nat /\ e.len \in Nat
      BY ChunkAssumption DEF TypeOK, SliceDesc
    <3>2. s \notin {d.id : d \in DelayedData(slices, Ids(removed))}
      <4>1. ASSUME NEW d \in DelayedData(slices, Ids(removed)), d.id = s PROVE FALSE
        <5>1. PICK f \in removed : f.id = d.id
          BY DEF DelayedData, Ids
        <5>2. f = e /\ e.off >= tr[t].cutoff
          BY <2>3, <4>1, <5>1
        <5> QED
          BY <2>1, <2>7, <3>1, <5>2 DEF SliceDesc, Units
      <4> QED
        BY <4>1
    <3>3. ASSUME NEW r \in ret, r.id = s PROVE r.len = e.len
      <4>1. PICK f \in slices : r = [id |-> f.id, len |-> f.len]
        BY DEF DelayedData
      <4>2. f.id = e.id
        BY <3>3, <4>1
      <4> QED
        BY <2>3, <4>1, <4>2
    <3>4. End(e) > tr[t].cutoff => [id |-> s, len |-> e.len] \in ret
      BY <2>7 DEF DelayedData, Ids
    <3>5. physical'[s] = IF \E r \in ret : r.id = s
                         THEN Larger((CHOOSE r \in ret : r.id = s).len, physical[s])
                         ELSE physical[s]
      BY <2>2, <3>1, <3>2 DEF ChunkCompact
    <3>6. CASE \E r \in ret : r.id = s
      <4>1. (CHOOSE r \in ret : r.id = s).len = e.len
        <5> HIDE DEF ret
        <5> QED
          BY <3>3, <3>6
      <4>2. physical'[s] = Larger(e.len, physical[s])
        BY <3>5, <3>6, <4>1
      <4> QED
        BY <3>1, <4>2 DEF Larger
    <3>7. CASE ~ \E r \in ret : r.id = s
      <4>1. physical'[s] = physical[s] /\ ~(End(e) > tr[t].cutoff)
        BY <3>4, <3>5, <3>7
      <4> QED
        BY <3>1, <4>1
    <3> QED
      BY <3>6, <3>7
  <2> QED
    BY <2>1, <2>2, <2>5, <2>6, <2>7 DEF ChunkCompact, TruncatedVersion, Cuts
<1> QED
  BY <1>1, <1>2, <1>3 DEF TruncaterNext

\* What the compactors do with no slice of their own
LEMMA CompactorLooks ==
  ASSUME IInv, NEW c \in Compactors,
         \/ CompactScan(c) \/ TryLock(c) \/ Snapshot(c)
         \/ LightVersion(c) \/ LightList(c) \/ Resnapshot(c)
         \/ /\ LightRetry(c)
            /\ cp' = [cp EXCEPT ![c] = [@ EXCEPT !.pc = "lightlist", !.rver = version, !.rlist = {}]]
  PROVE  Looks(c)
<1> TypeOK
  BY DEF IInv
<1>0. ASSUME NEW p \in Working \cup {"idle", "scanned"}, Step(c, p),
             cp[c].pc \notin Holding \cup {"confirm"} \cup Light,
             p \notin Holding \cup {"confirm"} \cup Light,
             UNCHANGED <<chunk, blocks, ledger, nextId, wr, tr, gc, history>>
      PROVE  Looks(c)
  BY <1>0 DEF Looks, OnlyCp, Step, TypeOK, CompactorState, chunk, ledger, history
<1>1. CASE CompactScan(c)
  BY <1>1, <1>0 DEF CompactScan, Working, Holding, Unpublished, Light
<1>2. CASE TryLock(c)
  BY <1>2, <1>0 DEF TryLock, Working, Holding, Unpublished, Light
<1>3. CASE Snapshot(c)
  BY <1>3, PlanType DEF Snapshot, Looks, OnlyCp, TypeOK, CompactorState, chunk, ledger, history,
    Holding, Unpublished
<1>4. CASE LightVersion(c)
  BY <1>4 DEF LightVersion, Looks, OnlyCp, TypeOK, CompactorState, chunk, ledger, history,
    Holding, Unpublished, Light
<1>5. CASE LightList(c)
  BY <1>5 DEF LightList, Looks, OnlyCp, TypeOK, CompactorState, chunk, ledger, history,
    Holding, Unpublished, Light
<1>6. CASE Resnapshot(c)
  BY <1>6, PlanType DEF Resnapshot, Looks, OnlyCp, TypeOK, CompactorState, chunk, ledger, history,
    Holding, Unpublished
<1>7. CASE /\ LightRetry(c)
           /\ cp' = [cp EXCEPT ![c] = [@ EXCEPT !.pc = "lightlist", !.rver = version, !.rlist = {}]]
  BY <1>7 DEF LightRetry, Looks, OnlyCp, TypeOK, CompactorState, chunk, ledger, history,
    Holding, Unpublished, Light
<1> QED
  BY <1>1, <1>2, <1>3, <1>4, <1>5, <1>6, <1>7

\* What the compactors do with an uploaded slice, up to the script
LEMMA CompactorAdvances ==
  ASSUME IInv, NEW c \in Compactors,
         \/ HeavyVersion(c) \/ HeavyList(c) \/ HeavyRefused(c)
  PROVE  Advances(c)
<1> TypeOK
  BY DEF IInv
<1>1. CASE HeavyVersion(c)
  BY <1>1 DEF HeavyVersion, Advances, OnlyCp, TypeOK, CompactorState, chunk, ledger, history,
    Holding, Unpublished
<1>2. CASE HeavyList(c)
  BY <1>2 DEF HeavyList, Step, Advances, OnlyCp, TypeOK, CompactorState, chunk, ledger, history,
    Holding, Unpublished
<1>3. CASE HeavyRefused(c)
  <2>1. CASE cp' = [cp EXCEPT ![c] = [@ EXCEPT !.pc = "heavylist", !.rver = version]]
    BY <1>3, <2>1 DEF HeavyRefused, Advances, OnlyCp, TypeOK, CompactorState, chunk, ledger,
      history, Holding, Unpublished
  <2>2. CASE Step(c, "cleanup")
    BY <1>3, <2>2 DEF HeavyRefused, Step, Advances, OnlyCp, TypeOK, CompactorState, chunk,
      ledger, history, Holding, Unpublished
  <2> QED
    BY <1>3, <2>1, <2>2 DEF HeavyRefused
<1> QED
  BY <1>1, <1>2, <1>3

\* How the compactors stop
LEMMA CompactorStops ==
  ASSUME IInv, NEW c \in Compactors,
         \/ Unlock(c) \/ CompactError(c) \/ CompactCrash(c)
         \/ LightRetry(c) /\ cp' = [cp EXCEPT ![c] = [CompactorIdle EXCEPT !.pc = "unlock"]]
  PROVE  Stops(c)
<1> TypeOK
  BY DEF IInv
<1>1. CASE Unlock(c)
  BY <1>1 DEF Unlock, Stops, OnlyCp, TypeOK, CompactorIdle, chunk, ledger, history,
    Holding, Unpublished
<1>2. CASE LightRetry(c) /\ cp' = [cp EXCEPT ![c] = [CompactorIdle EXCEPT !.pc = "unlock"]]
  BY <1>2 DEF LightRetry, Stops, OnlyCp, TypeOK, CompactorIdle, chunk, ledger, history,
    Holding, Unpublished
<1>3. cp[c].pc \in Holding => uncommitted[cp[c].id].st = "pending" \/ cp[c].id \in LeftBehind(c)
  BY DEF LeftBehind, Reserved, Holding, Unpublished
<1>4. CASE CompactError(c)
  BY <1>3, <1>4 DEF CompactError, Stops, OnlyCp, TypeOK, CompactorIdle, chunk, ledger
<1>5. CASE CompactCrash(c)
  BY <1>3, <1>5 DEF CompactCrash, Stops, OnlyCp, TypeOK, CompactorIdle, chunk, ledger
<1> QED
  BY <1>1, <1>2, <1>4, <1>5

\* What the compactors do
LEMMA CompactorSteps ==
  ASSUME IInv, MergesExact, NEW c \in Compactors, CompactorNext(c)
  PROVE  CompactorStep(c)
<1> TypeOK
  BY DEF IInv
<1>1. CASE LightCas(c)
  <2>1. cp[c].rlist = slices
    BY <1>1 DEF LightCas, VersionHolds, IInv, CasCoherent
  <2> DEFINE ids == ReplacedIds(cp[c].snap)
  <2>2. ChunkCompact({e \in slices : e.id \notin ids}, version + 1,
                     DelayedData(cp[c].snap, ids), {}, {})
    BY <1>1, <2>1 DEF LightCas
  <2>3. Condemns({e \in cp[c].snap : e.id \in ids})
    <3> HIDE DEF ids
    <3> QED
      BY <2>2, SentencesAdded
  <2>4. OnlyCp(c) /\ cp'[c].pc = "resnap" /\ cp'[c].id = None /\ cp'[c].snap = {}
    BY <1>1 DEF LightCas, CompactorIdle, OnlyCp, TypeOK
  <2>5. uncommitted' = uncommitted
    BY <2>2 DEF ChunkCompact, TypeOK
  <2>6. \A s \in SliceIds \ ids : physical'[s] = physical[s]
    BY <2>2 DEF ChunkCompact, DelayedData
  <2> QED
    BY <1>1, <2>2, <2>3, <2>4, <2>5, <2>6 DEF LightCas, ChunkCompact, history, Lightens, CompactorStep
<1>2. CASE HeavyMerge(c)
  <2>1. nextId \in SliceIds /\ nextId' = nextId + 1
    BY <1>2, ChunkAssumption DEF HeavyMerge, TypeOK, SliceIds
  <2>2. /\ OnlyCp(c) /\ cp[c].pc = "merge" /\ cp'[c].pc = "upload" /\ cp'[c].id = nextId
        /\ cp'[c].snap = cp[c].snap
    BY <1>2 DEF HeavyMerge, OnlyCp, TypeOK, CompactorState
  <2>3. ASSUME NEW u \in Units
        PROVE  cp'[c].buf[u] = IF u < OccupiedEnd(cp[c].snap)
                               THEN VisibleAt(cp[c].snap, blocks, u) ELSE Absent
    BY <1>2 DEF HeavyMerge, TypeOK, CompactorState
  <2>4. /\ \A s \in SliceIds \ {nextId} : uncommitted'[s] = uncommitted[s]
        /\ uncommitted'[nextId].st = "pending" /\ uncommitted'[nextId].sz = OccupiedEnd(cp[c].snap)
    BY <1>2, <2>1 DEF HeavyMerge, TypeOK
  <2>5. UNCHANGED <<slices, version, physical, blocks, delayed, wr, gc, abandoned, committed>>
    BY <1>2 DEF HeavyMerge, chunk, history
  <2> QED
    BY <2>1, <2>2, <2>3, <2>4, <2>5 DEF Merges, CompactorStep
<1>3. CASE HeavyUpload(c)
  <2>1. cp[c].id \in SliceIds
    BY <1>3, HoldersKnown DEF HeavyUpload, Holding, Unpublished
  <2> QED
    BY <1>3, <2>1 DEF HeavyUpload, Stores, CompactorStep, OnlyCp, TypeOK, CompactorState,
      chunk, ledger, history
<1>4. CASE HeavyCas(c)
  <2>1. cp[c].id \in SliceIds
    BY <1>4, HoldersKnown DEF HeavyCas, Holding, Unpublished
  <2>2. OnlyCp(c) /\ cp'[c].pc = "confirm" /\ cp'[c].id = cp[c].id /\ cp'[c].snap = cp[c].snap
    BY <1>4 DEF HeavyCas, Step, OnlyCp, TypeOK, CompactorState
  <2>3. ChunkCompact({MergedEntry(c)}, version + 1, DelayedData(cp[c].snap, Ids(cp[c].snap)),
                     {}, {cp[c].id})
    BY <1>4 DEF HeavyCas, MergedEntry
  <2>4. Condemns(cp[c].snap)
    <3>1. cp[c].snap = {e \in cp[c].snap : e.id \in Ids(cp[c].snap)}
      BY DEF Ids
    <3> QED
      BY <2>3, <3>1, SentencesAdded
  <2>5. /\ \A s \in SliceIds \ {cp[c].id} : uncommitted'[s] = uncommitted[s]
        /\ uncommitted'[cp[c].id].st = "none"
    BY <2>1, <2>3 DEF ChunkCompact, NoRecord
  <2> QED
    BY <1>4, <2>1, <2>2, <2>3, <2>4, <2>5
    DEF HeavyCas, ChunkCompact, VersionHolds, RequirePending, Reserved, history, Publishes, CompactorStep
<1>5. CASE HeavyConfirm(c)
  <2>1. cp[c].id \in SliceIds
    BY <1>5, HoldersKnown DEF HeavyConfirm
  <2>2. /\ \A s \in SliceIds \ {cp[c].id} : uncommitted'[s] = uncommitted[s]
        /\ uncommitted'[cp[c].id].st = "none"
    BY <1>5, <2>1 DEF HeavyConfirm, NoRecord, TypeOK
  <2>3. OnlyCp(c) /\ cp'[c].pc = "unlock" /\ cp'[c].id = None /\ cp'[c].snap = {}
    BY <1>5 DEF HeavyConfirm, CompactorIdle, OnlyCp, TypeOK
  <2> QED
    BY <1>5, <2>1, <2>2, <2>3 DEF HeavyConfirm, chunk, history, Confirms, CompactorStep
<1>6. ASSUME NEW n \in 0 .. ChunkLen, HeavyCleanup(c, n) PROVE Cleans(c)
  <2>1. cp[c].id \in SliceIds /\ cp[c].pc = "cleanup"
    BY <1>6, HoldersKnown DEF HeavyCleanup, Holding
  <2>2. OnlyCp(c) /\ cp'[c].pc = "unlock" /\ cp'[c].id = None /\ cp'[c].snap = {}
    BY <1>6 DEF HeavyCleanup, CompactorIdle, OnlyCp, TypeOK
  <2>3. /\ \A s \in SliceIds \ {cp[c].id} : blocks'[s] = blocks[s]
        /\ \A u \in Units : blocks'[cp[c].id][u] = IF u < n THEN Absent ELSE blocks[cp[c].id][u]
    BY <1>6, <2>1 DEF HeavyCleanup, DeleteBlocks, TypeOK
  <2>4. CASE n < OccupiedEnd(cp[c].snap)
    <3>1. uncommitted[cp[c].id].st = "pending" \/ cp[c].id \in abandoned'
      BY <1>6, <2>1, <2>4 DEF HeavyCleanup, LeftBehind, Reserved
    <3> QED
      BY <1>6, <2>1, <2>2, <2>3, <2>4, <3>1 DEF HeavyCleanup, chunk, ledger, Cleans
  <2>5. CASE ~(n < OccupiedEnd(cp[c].snap))
    <3>1. OccupiedEnd(cp[c].snap) \in 1 .. ChunkLen
      <4>1. cp[c].snap \in SUBSET SliceDesc /\ cp[c].snap # {}
        BY <2>1 DEF TypeOK, CompactorState, MergesExact, Holding
      <4> QED
        BY <4>1, OccupiedEndMax
    <3>2. n = OccupiedEnd(cp[c].snap)
      BY <1>6, <2>5, <3>1, ChunkAssumption DEF HeavyCleanup
    <3>3. \A u \in Units : u < OccupiedEnd(cp[c].snap) => blocks'[cp[c].id][u] = Absent
      BY <2>3, <3>2
    <3> QED
      BY <1>6, <2>1, <2>2, <2>3, <2>5, <3>3 DEF HeavyCleanup, chunk, ledger, Cleans
  <2> QED
    BY <2>4, <2>5
<1>7. CASE LightRetry(c)
  BY <1>7, CompactorLooks, CompactorStops DEF LightRetry, CompactorStep
<1> QED
  BY <1>1, <1>2, <1>3, <1>4, <1>5, <1>6, <1>7, CompactorLooks, CompactorAdvances,
    CompactorStops DEF CompactorNext, CompactorStep

\* What the collectors do
LEMMA CollectorSteps ==
  ASSUME IInv, OrphanPass, NEW g \in Collectors, CollectorNext(g)
  PROVE  CollectorStep(g)
<1> TypeOK
  BY DEF IInv
<1>0. gc[g].pc # "idle" => gc[g].sid \in SliceIds
  BY DEF IInv, CondemnedGone, CollectorsGone
<1>1. ASSUME NEW d \in delayed, GcPick(g, d) PROVE Picks(g)
  BY <1>1 DEF GcPick, Picks, OnlyGc, TypeOK, DelayedRecord, CollectorState, CollectorIdle,
    chunk, ledger, history
<1>2. ASSUME NEW s \in SliceIds, GcInspect(g, s) PROVE Picks(g)
  <2>1. /\ OnlyGc(g)
        /\ gc'[g].pc \in {"orphanlist", "eraseorphan"}
        /\ gc'[g].sid = s /\ uncommitted[s].st # "none"
        /\ gc'[g].sz = uncommitted[s].sz
        /\ gc'[g].rver \in {version, 0}
        /\ gc'[g].pc = "eraseorphan" => uncommitted[s].st # "pending"
    BY <1>2 DEF GcInspect, Reserved, OnlyGc, TypeOK, CollectorIdle
  <2>2. gc'[g].rver <= version
    BY <2>1 DEF TypeOK
  <2> QED
    BY <1>2, <2>1, <2>2 DEF GcInspect, Picks, chunk, ledger, history
<1>3. CASE GcOrphanList(g)
  BY <1>3 DEF GcOrphanList, CollectorStep, Picks, OnlyGc, TypeOK, CollectorState, chunk, ledger, history
<1>4. CASE GcCrash(g)
  BY <1>4 DEF GcCrash, CollectorStep, Quits, OnlyGc, TypeOK, CollectorIdle, chunk, ledger, history
<1>5. CASE GcMark(g)
  <2>1. OnlyGc(g) /\ gc'[g].pc = "erase" /\ gc'[g].sid = gc[g].sid
        /\ gc'[g].sz = gc[g].sz /\ gc'[g].at = gc[g].at
    BY <1>5 DEF GcMark, OnlyGc, TypeOK, CollectorState
  <2>2. gc[g].sid \notin Ids(slices)
    BY <1>0, <1>5 DEF GcMark, IInv, CondemnedGone, CollectorsGone, Condemning, Gone
  <2>3. slices' = slices
    BY <1>5, <2>2 DEF GcMark, Ids
  <2> DEFINE Same(d) == d.sid = gc[g].sid /\ d.at = gc[g].at
             Turn(d) == IF Same(d) THEN [d EXCEPT !.st = "meta_deleted"] ELSE d
  <2>4. delayed' = {Turn(d) : d \in delayed}
    BY <1>5 DEF GcMark
  <2>5. ASSUME NEW d \in delayed
        PROVE  Turn(d).sid = d.sid /\ Turn(d).sz = d.sz /\ Turn(d).at = d.at
    BY DEF TypeOK, DelayedRecord
  <2>6. /\ \A d \in delayed' : Known(d)
        /\ \A d \in delayed : \E e \in delayed' : d.sid = e.sid /\ d.sz = e.sz
    <3> HIDE DEF Turn
    <3> QED
      BY <2>4, <2>5 DEF Known
  <2> QED
    BY <1>5, <2>1, <2>3, <2>6 DEF GcMark, Marks, CollectorStep, history
<1>6. ASSUME NEW n \in 0 .. ChunkLen, GcErase(g, n) PROVE Erases(g)
  <2>1. gc[g].sid \in SliceIds /\ gc[g].sz \in Nat /\ n <= gc[g].sz
    BY <1>0, <1>6 DEF GcErase, TypeOK, CollectorState
  <2>2. /\ \A s \in SliceIds \ {gc[g].sid} : blocks'[s] = blocks[s]
        /\ \A u \in Units : blocks'[gc[g].sid][u] = IF u < n THEN Absent ELSE blocks[gc[g].sid][u]
    BY <1>6, <2>1 DEF GcErase, DeleteBlocks, TypeOK
  <2>3. /\ OnlyGc(g)
        /\ \/ gc'[g].pc = "idle"
           \/ /\ gc'[g].pc = IF gc[g].pc = "erase" THEN "confirm" ELSE "forget"
              /\ gc'[g].sid = gc[g].sid /\ gc'[g].sz = gc[g].sz /\ gc'[g].at = gc[g].at
              /\ gc'[g].rver = gc[g].rver
              /\ ~(n < gc[g].sz)
    <3>1. CASE n < gc[g].sz
      BY <1>6, <3>1 DEF GcErase, CollectorIdle, OnlyGc, TypeOK, CollectorState
    <3>2. CASE ~(n < gc[g].sz)
      BY <1>6, <3>2 DEF GcErase, OnlyGc, TypeOK, CollectorState
    <3> QED
      BY <3>1, <3>2
  <2>4. ~(n < gc[g].sz) => \A u \in Units : u < gc[g].sz => blocks'[gc[g].sid][u] = Absent
    BY <2>1, <2>2 DEF Units
  <2> QED
    BY <1>6, <2>1, <2>2, <2>3, <2>4 DEF GcErase, Erases, chunk, ledger, history
<1>7. CASE GcConfirm(g)
  BY <1>7 DEF GcConfirm, CollectorStep, Expunges, OnlyGc, TypeOK, CollectorIdle, chunk, history
<1>8. CASE GcClaim(g)
  <2>1. gc[g].pc = "claim" /\ gc[g].sid \in SliceIds
    BY <1>0, <1>8 DEF GcClaim
  <2>2. UNCHANGED <<slices, version, physical, blocks, delayed, nextId, wr, cp, abandoned, committed>>
    BY <1>8 DEF GcClaim, chunk, history
  <2>3. ASSUME version = gc[g].rver, uncommitted[gc[g].sid].st = "pending" PROVE gc[g].found = {}
    <3>1. gc[g].sid \notin Ids(slices)
      BY <2>1, <2>3 DEF IInv, CondemnedGone, RecordsGone
    <3>2. gc[g].found = Extents(gc[g].sid)
      BY <2>1, <2>3 DEF OrphanPass
    <3> QED
      BY <3>1, <3>2 DEF Extents, Ids
  <2>4. CASE version = gc[g].rver /\ uncommitted[gc[g].sid].st = "pending"
    <3>1. gc' = [gc EXCEPT ![g] = [@ EXCEPT !.pc = "eraseorphan", !.rver = 0]]
      BY <1>8, <2>3, <2>4 DEF GcClaim, Reserved
    <3>2. uncommitted' = [uncommitted EXCEPT ![gc[g].sid].st = "orphan"]
      BY <1>8, <2>3, <2>4 DEF GcClaim, Reserved
    <3>3. OnlyGc(g) /\ gc'[g].pc = "eraseorphan" /\ gc'[g].sid = gc[g].sid
          /\ gc'[g].sz = gc[g].sz /\ gc'[g].rver = 0
      BY <3>1 DEF OnlyGc, TypeOK, CollectorState
    <3>4. /\ \A s \in SliceIds \ {gc[g].sid} : uncommitted'[s] = uncommitted[s]
          /\ uncommitted'[gc[g].sid].st = "orphan"
          /\ uncommitted'[gc[g].sid].sz = uncommitted[gc[g].sid].sz
      BY <2>1, <3>2 DEF TypeOK
    <3> QED
      BY <2>1, <2>2, <2>4, <3>3, <3>4 DEF Claims, CollectorStep
  <2>5. CASE ~(version = gc[g].rver /\ uncommitted[gc[g].sid].st = "pending")
    <3>1. uncommitted' = uncommitted /\ gc' = [gc EXCEPT ![g] = CollectorIdle]
      BY <1>8, <2>5 DEF GcClaim, Reserved
    <3>2. OnlyGc(g) /\ gc'[g].pc = "idle"
      BY <3>1 DEF OnlyGc, TypeOK, CollectorIdle
    <3> QED
      BY <2>2, <3>1, <3>2 DEF Quits, CollectorStep
  <2> QED
    BY <2>4, <2>5
<1>9. CASE GcForget(g)
  <2>1. gc[g].sid \in SliceIds
    BY <1>0, <1>9 DEF GcForget
  <2>2. /\ \A s \in SliceIds \ {gc[g].sid} : uncommitted'[s] = uncommitted[s]
        /\ uncommitted'[gc[g].sid].st = "none"
    BY <1>9, <2>1 DEF GcForget, NoRecord, TypeOK
  <2> QED
    BY <1>9, <2>1, <2>2 DEF GcForget, CollectorStep, Forgets, OnlyGc, TypeOK, CollectorIdle, chunk, history
<1> QED
  BY <1>1, <1>2, <1>3, <1>4, <1>5, <1>6, <1>7, <1>8, <1>9 DEF CollectorNext, CollectorStep

\* What any step does
LEMMA StepIsOne ==
  ASSUME IInv, MergesExact, OrphanPass, [Next]_vars
  PROVE  AnyStep
<1>1. CASE UNCHANGED vars \/ LockExpire
  BY <1>1 DEF vars, LockExpire, AnyStep, Sits, chunk, ledger, history
<1>2. CASE \E t \in Truncaters : TruncaterNext(t)
  BY <1>2, TruncaterSteps DEF AnyStep
<1> QED
  BY <1>1, <1>2, WriterSteps, CompactorSteps, CollectorSteps DEF Next, AnyStep

\* Which steps write which variable
LEMMA Frame ==
  ASSUME AnyStep
  PROVE  /\ wr' = wr \/ \E w \in Writers : WriterStep(w)
         /\ cp' = cp \/ \E c \in Compactors : CompactorStep(c)
         /\ gc' = gc \/ \E g \in Collectors : CollectorStep(g)
         /\ \/ UNCHANGED <<slices, version, physical>>
            \/ \E w \in Writers : Commits(w)
            \/ \E t \in Truncaters : Cuts(t)
            \/ \E c \in Compactors : Lightens(c) \/ Publishes(c)
            \/ \E g \in Collectors : Marks(g)
         /\ \/ blocks' = blocks
            \/ \E w \in Writers : Uploads(w)
            \/ \E c \in Compactors : Stores(c) \/ Cleans(c)
            \/ \E g \in Collectors : Erases(g)
         /\ \/ delayed' = delayed
            \/ \E t \in Truncaters : Cuts(t)
            \/ \E c \in Compactors : Lightens(c) \/ Publishes(c)
            \/ \E g \in Collectors : Marks(g) \/ Expunges(g)
         /\ \/ uncommitted' = uncommitted
            \/ \E c \in Compactors : Merges(c) \/ Publishes(c) \/ Confirms(c)
            \/ \E g \in Collectors : Claims(g) \/ Forgets(g)
         /\ \/ nextId' = nextId
            \/ \E w \in Writers : Uploads(w)
            \/ \E c \in Compactors : Merges(c)
         /\ \/ abandoned' = abandoned
            \/ \E w \in Writers : Fails(w)
            \/ \E c \in Compactors : Stops(c) \/ Cleans(c)
         /\ committed' = committed \/ \E w \in Writers : Commits(w)
<1>0. CASE Sits
  BY <1>0 DEF Sits
<1>1. ASSUME NEW w \in Writers, WriterStep(w)
      PROVE  /\ UNCHANGED <<cp, gc, delayed, uncommitted>>
             /\ Commits(w) \/ (UNCHANGED <<slices, version, physical, committed>>)
             /\ Uploads(w) \/ (UNCHANGED <<blocks, nextId>>)
             /\ Fails(w) \/ abandoned' = abandoned
  BY <1>1 DEF WriterStep, Uploads, Commits, Fails
<1>2. ASSUME NEW t \in Truncaters, Cuts(t)
      PROVE  UNCHANGED <<blocks, uncommitted, nextId, wr, cp, gc, abandoned, committed>>
  BY <1>2 DEF Cuts
<1>3. ASSUME NEW c \in Compactors, CompactorStep(c)
      PROVE  /\ UNCHANGED <<wr, gc, committed>>
             /\ Lightens(c) \/ Publishes(c) \/ (UNCHANGED <<slices, version, physical, delayed>>)
             /\ Stores(c) \/ Cleans(c) \/ blocks' = blocks
             /\ Merges(c) \/ Publishes(c) \/ Confirms(c) \/ uncommitted' = uncommitted
             /\ Merges(c) \/ nextId' = nextId
             /\ Stops(c) \/ Cleans(c) \/ abandoned' = abandoned
  BY <1>3 DEF CompactorStep, Looks, Advances, Stops, Lightens, Merges, Stores, Publishes,
    Confirms, Cleans
<1>4. ASSUME NEW g \in Collectors, CollectorStep(g)
      PROVE  /\ UNCHANGED <<wr, cp, nextId, abandoned, committed>>
             /\ Marks(g) \/ (UNCHANGED <<slices, version, physical>>)
             /\ Erases(g) \/ blocks' = blocks
             /\ Marks(g) \/ Expunges(g) \/ delayed' = delayed
             /\ Claims(g) \/ Forgets(g) \/ uncommitted' = uncommitted
  BY <1>4 DEF CollectorStep, Picks, Quits, Marks, Erases, Expunges, Claims, Forgets
<1>5. CASE \E w \in Writers : WriterStep(w)
  BY <1>1, <1>5
<1>6. CASE \E t \in Truncaters : Cuts(t)
  BY <1>2, <1>6
<1>7. CASE \E c \in Compactors : CompactorStep(c)
  BY <1>3, <1>7
<1>8. CASE \E g \in Collectors : CollectorStep(g)
  BY <1>4, <1>8
<1> QED
  BY <1>0, <1>5, <1>6, <1>7, <1>8 DEF AnyStep

\* How the local state of one process changes
LEMMA WriterFrame ==
  ASSUME AnyStep, NEW w \in Writers
  PROVE  wr'[w] = wr[w] \/ WriterStep(w)
<1>1. ASSUME NEW v \in Writers, WriterStep(v) PROVE OnlyWr(v)
  BY <1>1 DEF WriterStep, Uploads, Commits, Fails
<1> QED
  BY <1>1, Frame DEF OnlyWr

\* The same of a compactor.
LEMMA CompactorFrame ==
  ASSUME AnyStep, NEW c \in Compactors
  PROVE  cp'[c] = cp[c] \/ CompactorStep(c)
<1>1. ASSUME NEW b \in Compactors, CompactorStep(b) PROVE OnlyCp(b)
  BY <1>1 DEF CompactorStep, Looks, Advances, Stops, Lightens, Merges, Stores, Publishes,
    Confirms, Cleans
<1> QED
  BY <1>1, Frame DEF OnlyCp

\* The same of a collector.
LEMMA CollectorFrame ==
  ASSUME AnyStep, NEW g \in Collectors
  PROVE  gc'[g] = gc[g] \/ CollectorStep(g)
<1>1. ASSUME NEW h \in Collectors, CollectorStep(h) PROVE OnlyGc(h)
  BY <1>1 DEF CollectorStep, Picks, Quits, Marks, Erases, Expunges, Claims, Forgets
<1> QED
  BY <1>1, Frame DEF OnlyGc

\* The identifier counter and the abandoned slices only grow.
LEMMA Growing ==
  ASSUME TypeOK, AnyStep
  PROVE  /\ nextId \in Nat /\ nextId' \in Nat /\ nextId <= nextId'
         /\ abandoned \subseteq abandoned'
<1>1. nextId \in Nat
  BY ChunkAssumption DEF TypeOK
<1>2. nextId' = nextId \/ nextId' = nextId + 1
  BY Frame DEF Uploads, Merges
<1>3. abandoned \subseteq abandoned'
  BY Frame DEF Fails, Stops, Cleans
<1> QED
  BY <1>1, <1>2, <1>3

\* Who has no slice under way names none.
LEMMA IdleStep ==
  ASSUME IdleOwnsNothing, AnyStep
  PROVE  IdleOwnsNothing'
<1>1. ASSUME NEW w \in Writers, wr'[w].pc = "idle" PROVE wr'[w].id = None
  <2>1. CASE wr'[w] = wr[w]
    BY <1>1, <2>1 DEF IdleOwnsNothing
  <2>2. CASE WriterStep(w)
    BY <1>1, <2>2 DEF WriterStep, Uploads, Commits, Fails
  <2> QED
    BY <2>1, <2>2, WriterFrame
<1>2. ASSUME NEW c \in Compactors, cp'[c].pc \notin Holding \cup {"confirm"}
      PROVE  cp'[c].id = None
  <2>1. CASE cp'[c] = cp[c]
    BY <1>2, <2>1 DEF IdleOwnsNothing
  <2>2. CASE CompactorStep(c)
    BY <1>2, <2>2 DEF CompactorStep, Looks, Advances, Stops, Lightens, Merges, Stores, Publishes,
      Confirms, Cleans, Holding, Unpublished, IdleOwnsNothing
  <2> QED
    BY <2>1, <2>2, CompactorFrame
<1> QED
  BY <1>1, <1>2 DEF IdleOwnsNothing

----------------------------------------------------------------------------
(* Apart: what was on the list is not under way again. *)

\* Nothing comes back under way.
LEMMA UnderwayStep ==
  ASSUME TypeOK, AnyStep, NEW s \in SliceIds, Underway(s)'
  PROVE  Underway(s)
<1> s \in Nat
  BY ChunkAssumption DEF SliceIds
<1>1. CASE s >= nextId'
  BY <1>1, Growing DEF Underway
<1>2. ASSUME NEW w \in Writers, wr'[w].pc = "uploaded", wr'[w].id = s PROVE Underway(s)
  <2>1. CASE wr'[w] = wr[w]
    BY <1>2, <2>1 DEF Underway
  <2>2. CASE WriterStep(w)
    BY <1>2, <2>2, Growing DEF WriterStep, Uploads, Commits, Fails, Underway
  <2> QED
    BY <2>1, <2>2, WriterFrame
<1>3. ASSUME NEW c \in Compactors, cp'[c].pc \in Holding, cp'[c].id = s PROVE Underway(s)
  <2>1. CASE cp'[c] = cp[c]
    BY <1>3, <2>1 DEF Underway
  <2>2. CASE Merges(c)
    BY <1>3, <2>2, Growing DEF Merges, Underway
  <2>3. CASE Looks(c) \/ Advances(c) \/ Stops(c) \/ Lightens(c) \/ Stores(c) \/ Publishes(c)
             \/ Confirms(c) \/ Cleans(c)
    BY <1>3, <2>3 DEF Looks, Advances, Stops, Lightens, Stores, Publishes,
      Confirms, Cleans, Holding, Unpublished, Underway
  <2> QED
    BY <2>1, <2>2, <2>3, CompactorFrame DEF CompactorStep
<1>4. CASE uncommitted'[s].st # "none"
  <2>1. ASSUME NEW c \in Compactors, Merges(c) PROVE Underway(s)
    BY <1>4, <2>1, Growing DEF Merges, Underway
  <2>2. ASSUME NEW c \in Compactors, Publishes(c) \/ Confirms(c) PROVE uncommitted[s].st # "none"
    BY <1>4, <2>2 DEF Publishes, Confirms
  <2>3. ASSUME NEW g \in Collectors, Claims(g) \/ Forgets(g) PROVE uncommitted[s].st # "none"
    BY <1>4, <2>3 DEF Claims, Forgets
  <2> QED
    BY <1>4, <2>1, <2>2, <2>3, Frame DEF Underway
<1>5. ASSUME NEW g \in Collectors, gc'[g].pc \in Clearing, gc'[g].sid = s PROVE Underway(s)
  <2>1. CASE gc'[g] = gc[g]
    BY <1>5, <2>1 DEF Underway
  <2>2. CASE CollectorStep(g)
    BY <1>5, <2>2 DEF CollectorStep, Picks, Quits, Marks, Erases, Expunges, Claims, Forgets,
      Underway, Clearing
  <2> QED
    BY <2>1, <2>2, CollectorFrame
<1> QED
  BY <1>1, <1>2, <1>3, <1>4, <1>5 DEF Underway

\* A slice that a writer or a compactor can publish is on no collector's way.
LEMMA NotCleared ==
  ASSUME IInv, NEW s \in SliceIds, Publishable(s), NEW g \in Collectors, gc[g].sid = s
  PROVE  gc[g].pc \notin Ending \cup Clearing
BY DEF IInv, CondemnedGone, CollectorsGone, Condemning, Gone, Settled, Ending, Clearing

\* A slice is no longer under way when it is published.
LEMMA CommitSettles ==
  ASSUME IInv, NEW w \in Writers, Commits(w), NEW s, s = wr[w].id
  PROVE  s \in SliceIds /\ Publishable(s) /\ ~Underway(s)'
<1>1. /\ wr[w].id \in SliceIds /\ wr[w].id < nextId /\ wr[w].id \in Nat /\ nextId \in Nat
      /\ wr[w].pc = "uploaded"
  BY ChunkAssumption DEF Commits, IInv, TypeOK, OwnersDistinct, WritersOwn, WriterState, SliceIds
<1>2. Publishable(wr[w].id)
  BY <1>1 DEF Publishable
<1>3. \A v \in Writers : wr'[v].pc = "uploaded" => wr'[v].id # wr[w].id
  BY <1>1 DEF Commits, OnlyWr, IInv, OwnersDistinct, WritersOwn
<1>4. (\A c \in Compactors : cp[c].id # wr[w].id) /\ uncommitted[wr[w].id].st = "none"
  BY <1>1 DEF IInv, OwnersDistinct, WritersOwn
<1>5. \A g \in Collectors : gc[g].pc \in Clearing => gc[g].sid # wr[w].id
  BY <1>1, <1>2, NotCleared
<1>6. UNCHANGED <<nextId, cp, gc, uncommitted>>
  BY DEF Commits
<1> QED
  BY <1>1, <1>2, <1>3, <1>4, <1>5, <1>6 DEF Underway

\* A merge about to be published is publishable, and its slice is not under way
\* once it is: the step ends its pending record.
LEMMA PublishSettles ==
  ASSUME IInv, NEW c \in Compactors, Publishes(c), NEW s, s = cp[c].id
  PROVE  Publishable(s) /\ ~Underway(s)'
<1>1. /\ cp[c].id \in SliceIds /\ cp[c].id < nextId /\ cp[c].id \in Nat /\ nextId \in Nat
      /\ cp[c].pc \in Unpublished /\ uncommitted[cp[c].id].st = "pending" /\ cp[c].id # None
  BY ChunkAssumption DEF Publishes, IInv, TypeOK, OwnersDistinct, CompactorsOwn, SliceIds, Unpublished, None
<1>2. Publishable(cp[c].id)
  BY <1>1 DEF Publishable
<1>3. \A w \in Writers : wr[w].pc = "uploaded" => wr[w].id # cp[c].id
  BY DEF IInv, OwnersDistinct, WritersOwn
<1>4. \A b \in Compactors : cp'[b].pc \in Holding => cp'[b].id # cp[c].id
  BY <1>1 DEF Publishes, OnlyCp, IInv, OwnersDistinct, CompactorsOwn, Holding, Unpublished
<1>5. \A g \in Collectors : gc[g].pc \in Clearing => gc[g].sid # cp[c].id
  BY <1>1, <1>2, NotCleared
<1>6. UNCHANGED <<nextId, wr, gc>> /\ uncommitted'[cp[c].id].st = "none"
  BY DEF Publishes
<1> QED
  BY <1>1, <1>2, <1>3, <1>4, <1>5, <1>6 DEF Underway

\* The list gains the entry just published and nothing else.
LEMMA ListSources ==
  ASSUME IInv, AnyStep, NEW e \in slices'
  PROVE  \/ \E f \in slices : /\ e.id = f.id /\ e.seq = f.seq /\ e.off = f.off /\ e.len <= f.len
         \/ \E w \in Writers : Commits(w) /\ e = Pushed(w)
         \/ \E c \in Compactors : Publishes(c) /\ e = MergedEntry(c)
<1>0. \A f \in slices : f.len \in Nat /\ f.off \in Nat
  BY ChunkAssumption DEF IInv, TypeOK, SliceDesc, Units
<1>1. CASE e \in slices
  BY <1>0, <1>1
<1>2. ASSUME NEW t \in Truncaters, Cuts(t)
      PROVE  \E f \in slices : e.id = f.id /\ e.seq = f.seq /\ e.off = f.off /\ e.len <= f.len
  <2>1. tr[t].cutoff \in Nat /\ slices' = Trimmed(slices, tr[t].cutoff)
    BY <1>2 DEF Cuts, Units
  <2>2. PICK f \in slices : /\ f.off < tr[t].cutoff
           /\ e = [f EXCEPT !.len = IF End(f) > tr[t].cutoff THEN tr[t].cutoff - f.off ELSE f.len]
    BY <2>1 DEF Trimmed
  <2>3. f \in SliceDesc
    BY DEF IInv, TypeOK
  <2>4. /\ e.id = f.id /\ e.seq = f.seq /\ e.off = f.off
        /\ e.len = IF End(f) > tr[t].cutoff THEN tr[t].cutoff - f.off ELSE f.len
    BY <2>2, <2>3 DEF SliceDesc
  <2> QED
    BY <1>0, <2>1, <2>4 DEF End
<1>3. ASSUME NEW w \in Writers, Commits(w) PROVE e \in slices \/ e = Pushed(w)
  BY <1>3 DEF Commits
<1>4. ASSUME NEW c \in Compactors, Publishes(c) PROVE e = MergedEntry(c)
  BY <1>4 DEF Publishes
<1>5. ASSUME NEW c \in Compactors, Lightens(c) PROVE e \in slices
  BY <1>5 DEF Lightens
<1>6. ASSUME NEW g \in Collectors, Marks(g) PROVE e \in slices
  BY <1>6 DEF Marks
<1> QED
  BY <1>1, <1>2, <1>3, <1>4, <1>5, <1>6, Frame

\* Where the records of the delayed ledger come from
LEMMA DelayedSources ==
  ASSUME AnyStep, NEW d \in delayed'
  PROVE  \/ Known(d)
         \/ \E t \in Truncaters : Cuts(t) /\ \E e \in Beyond(tr[t].cutoff) : d = Sentence(e)
         \/ \E c \in Compactors : /\ Lightens(c) \/ Publishes(c)
                                  /\ \E e \in cp[c].snap : d = Sentence(e)
<1>1. CASE d \in delayed
  BY <1>1 DEF Known
<1>2. ASSUME NEW t \in Truncaters, Cuts(t)
      PROVE  d \in delayed \/ \E e \in Beyond(tr[t].cutoff) : d = Sentence(e)
  BY <1>2 DEF Cuts, Condemns
<1>3. ASSUME NEW c \in Compactors, Lightens(c) \/ Publishes(c)
      PROVE  d \in delayed \/ \E e \in cp[c].snap : d = Sentence(e)
  BY <1>3 DEF Lightens, Publishes, Condemns
<1>4. ASSUME NEW g \in Collectors, Marks(g) \/ Expunges(g) PROVE Known(d) \/ d \in delayed
  BY <1>4 DEF Marks, Expunges
<1> QED
  BY <1>1, <1>2, <1>3, <1>4, Frame

\* What enters the list's memory was on it, or has just been published.
LEMMA ListedStep ==
  ASSUME IInv, AnyStep, NEW s \in SliceIds, Listed(s)'
  PROVE  Listed(s) \/ ~Underway(s)'
<1>1. CASE s \in Ids(slices')
  <2>1. PICK e \in slices' : e.id = s
    BY <1>1 DEF Ids
  <2>2. ASSUME NEW w \in Writers, Commits(w), e = Pushed(w) PROVE ~Underway(s)'
    BY <2>1, <2>2, CommitSettles DEF Pushed
  <2>3. ASSUME NEW c \in Compactors, Publishes(c), e = MergedEntry(c) PROVE ~Underway(s)'
    BY <2>1, <2>3, PublishSettles DEF MergedEntry
  <2> QED
    BY <2>1, <2>2, <2>3, ListSources DEF Listed, Ids
<1>2. ASSUME NEW c \in Compactors, s \in Ids(cp'[c].snap) PROVE Listed(s)
  <2>1. CASE cp'[c] = cp[c]
    BY <1>2, <2>1 DEF Listed
  <2>2. CASE CompactorStep(c)
    <3>1. cp'[c].snap \in {cp[c].snap, slices, {}}
      BY <2>2 DEF CompactorStep, Looks, Advances, Stops, Lightens, Merges, Stores, Publishes,
        Confirms, Cleans
    <3> QED
      BY <1>2, <3>1 DEF Listed, Ids
  <2> QED
    BY <2>1, <2>2, CompactorFrame
<1>3. ASSUME NEW c \in Compactors, cp'[c].pc = "confirm", cp'[c].id = s
      PROVE  Listed(s) \/ ~Underway(s)'
  <2>1. CASE cp'[c] = cp[c]
    BY <1>3, <2>1 DEF Listed
  <2>2. CASE Publishes(c)
    BY <1>3, <2>2, PublishSettles DEF Publishes
  <2>3. CASE Looks(c) \/ Advances(c) \/ Stops(c) \/ Lightens(c) \/ Merges(c) \/ Stores(c)
             \/ Confirms(c) \/ Cleans(c)
    BY <1>3, <2>3 DEF Looks, Advances, Stops, Lightens, Merges, Stores,
        Confirms, Cleans, Holding, Unpublished
  <2> QED
    BY <2>1, <2>2, <2>3, CompactorFrame DEF CompactorStep
<1>4. ASSUME NEW d \in delayed', d.sid = s PROVE Listed(s)
  BY <1>4, DelayedSources DEF Known, Sentence, Beyond, Listed, Ids
<1>5. ASSUME NEW g \in Collectors, gc'[g].pc \in Ending, gc'[g].sid = s PROVE Listed(s)
  <2>1. CASE gc'[g] = gc[g]
    BY <1>5, <2>1 DEF Listed
  <2>2. CASE CollectorStep(g)
    BY <1>5, <2>2 DEF CollectorStep, Picks, Quits, Marks, Erases, Expunges, Claims, Forgets,
      Listed, Ending
  <2> QED
    BY <2>1, <2>2, CollectorFrame
<1> QED
  BY <1>1, <1>2, <1>3, <1>4, <1>5 DEF Listed

\* No step makes a listed slice one that is underway.
LEMMA ApartStep ==
  ASSUME IInv, Apart, AnyStep
  PROVE  Apart'
<1> SUFFICES ASSUME NEW s \in SliceIds, Listed(s)', Underway(s)' PROVE FALSE
  BY DEF Apart
<1> TypeOK
  BY DEF IInv
<1> QED
  BY UnderwayStep, ListedStep DEF Apart

----------------------------------------------------------------------------
(* The blocks of slices under way. *)

\* A block appears only where its owner puts it.
LEMMA BlockSources ==
  ASSUME AnyStep, NEW s \in SliceIds, NEW u \in Units
  PROVE  \/ blocks'[s][u] \in {blocks[s][u], Absent}
         \/ s = nextId /\ \E w \in Writers : Uploads(w)
         \/ \E c \in Compactors : Stores(c) /\ s = cp[c].id
<1>1. ASSUME NEW w \in Writers, Uploads(w) PROVE s = nextId \/ blocks'[s] = blocks[s]
  BY <1>1 DEF Uploads
<1>2. ASSUME NEW c \in Compactors, Stores(c) PROVE s = cp[c].id \/ blocks'[s] = blocks[s]
  BY <1>2 DEF Stores
<1>3. ASSUME NEW c \in Compactors, Cleans(c) PROVE blocks'[s][u] \in {blocks[s][u], Absent}
  BY <1>3 DEF Cleans
<1>4. ASSUME NEW g \in Collectors, Erases(g) PROVE blocks'[s][u] \in {blocks[s][u], Absent}
  BY <1>4 DEF Erases
<1> QED
  BY <1>1, <1>2, <1>3, <1>4, Frame

\* The blocks of what is on the list, or can still get there, stay.
LEMMA BlocksStay ==
  ASSUME IInv, AnyStep, NEW s \in SliceIds, s < nextId,
         Publishable(s) \/ s \in Ids(slices),
         ~ \E c \in Compactors : Stores(c) /\ s = cp[c].id
  PROVE  blocks'[s] = blocks[s]
<1>0. ~Gone(s) /\ s # nextId
  <2>1. s \in Nat /\ nextId \in Nat
    BY ChunkAssumption DEF IInv, TypeOK, SliceIds
  <2> QED
    BY <2>1 DEF Gone, Settled
<1>1. ASSUME NEW w \in Writers, Uploads(w) PROVE blocks'[s] = blocks[s]
  BY <1>0, <1>1 DEF Uploads
<1>2. ASSUME NEW c \in Compactors, Stores(c) PROVE blocks'[s] = blocks[s]
  BY <1>2 DEF Stores
<1>3. ASSUME NEW c \in Compactors, Cleans(c) PROVE blocks'[s] = blocks[s]
  BY <1>0, <1>3 DEF Cleans, IInv, CondemnedGone, OwnedOffList
<1>4. ASSUME NEW g \in Collectors, Erases(g) PROVE blocks'[s] = blocks[s]
  BY <1>0, <1>4 DEF Erases, IInv, CondemnedGone, CollectorsGone, Condemning
<1> QED
  BY <1>1, <1>2, <1>3, <1>4, Frame

\* A reservation keeps its size.
LEMMA LedgerSources ==
  ASSUME AnyStep, NEW s \in SliceIds, uncommitted'[s].st # "none"
  PROVE  \/ uncommitted[s].st # "none" /\ uncommitted'[s].sz = uncommitted[s].sz
         \/ s = nextId /\ \E c \in Compactors : Merges(c)
<1>1. ASSUME NEW c \in Compactors, Merges(c) PROVE s = nextId \/ uncommitted'[s] = uncommitted[s]
  BY <1>1 DEF Merges
<1>2. ASSUME NEW c \in Compactors, Publishes(c) \/ Confirms(c) PROVE uncommitted'[s] = uncommitted[s]
  BY <1>2 DEF Publishes, Confirms
<1>3. ASSUME NEW g \in Collectors, Forgets(g) PROVE uncommitted'[s] = uncommitted[s]
  BY <1>3 DEF Forgets
<1>4. ASSUME NEW g \in Collectors, Claims(g)
      PROVE  uncommitted[s].st # "none" /\ uncommitted'[s].sz = uncommitted[s].sz
  BY <1>4 DEF Claims
<1> QED
  BY <1>1, <1>2, <1>3, <1>4, Frame

\* The blocks of an unpublished slice are those its owner put there.
LEMMA ExactStep ==
  ASSUME IInv, Exact, AnyStep
  PROVE  Exact'
<1>0. /\ TypeOK /\ nextId \in Nat /\ nextId' \in Nat /\ nextId <= nextId'
      /\ \A s \in SliceIds : s \in Nat
  BY Growing, ChunkAssumption DEF IInv, SliceIds
<1>1. FreshEmpty'
  <2> SUFFICES ASSUME NEW s \in SliceIds, s >= nextId', NEW u \in Units PROVE blocks'[s][u] = Absent
    BY DEF FreshEmpty
  <2>1. blocks[s][u] = Absent
    BY <1>0 DEF Exact, FreshEmpty
  <2>2. ASSUME NEW w \in Writers, Uploads(w) PROVE s # nextId
    BY <1>0, <2>2 DEF Uploads
  <2>3. ASSUME NEW c \in Compactors, Stores(c) PROVE s # cp[c].id
    BY <1>0, <2>3, HoldersKnown DEF Stores, Holding, Unpublished
  <2> QED
    BY <2>1, <2>2, <2>3, BlockSources
<1>2. WritersExact'
  <2> SUFFICES ASSUME NEW w \in Writers, wr'[w].pc = "uploaded", NEW u \in Units
               PROVE  blocks'[wr'[w].id][u] = IF u < wr'[w].len THEN wr'[w].id ELSE Absent
    BY DEF WritersExact
  <2>1. CASE wr'[w] = wr[w]
    <3>1. wr[w].pc = "uploaded" /\ wr[w].id \in SliceIds /\ wr[w].id < nextId
      BY <2>1 DEF IInv, TypeOK, OwnersDistinct, WritersOwn, WriterState
    <3>2. Publishable(wr[w].id)
      BY <3>1 DEF Publishable
    <3>3. ~ \E c \in Compactors : Stores(c) /\ wr[w].id = cp[c].id
      BY <3>1 DEF IInv, OwnersDistinct, WritersOwn
    <3>4. blocks'[wr[w].id] = blocks[wr[w].id]
      BY <3>1, <3>2, <3>3, BlocksStay
    <3> QED
      BY <2>1, <3>1, <3>4 DEF Exact, WritersExact
  <2>2. CASE WriterStep(w)
    BY <2>2 DEF WriterStep, Uploads, Commits, Fails
  <2> QED
    BY <2>1, <2>2, WriterFrame
<1>3. MergesExact'
  <2> SUFFICES ASSUME NEW c \in Compactors, cp'[c].pc \in Holding
               PROVE  /\ cp'[c].snap # {}
                      /\ \A u \in Units : ~(u < OccupiedEnd(cp'[c].snap)) =>
                           /\ blocks'[cp'[c].id][u] = Absent
                           /\ cp'[c].pc = "upload" => cp'[c].buf[u] = Absent
                      /\ uncommitted'[cp'[c].id].st # "none" =>
                           uncommitted'[cp'[c].id].sz = OccupiedEnd(cp'[c].snap)
    BY DEF MergesExact
  <2>1. CASE cp'[c] = cp[c]
    <3>1. cp[c].pc \in Holding /\ cp[c].id \in SliceIds /\ cp[c].id < nextId /\ cp[c].id # None
      BY <1>0, <2>1, HoldersKnown DEF SliceIds, None
    <3>2. ASSUME NEW u \in Units, ~(u < OccupiedEnd(cp[c].snap)) PROVE blocks'[cp[c].id][u] = Absent
      <4>1. blocks[cp[c].id][u] = Absent
        BY <3>1, <3>2 DEF Exact, MergesExact
      <4>2. ASSUME NEW b \in Compactors, Stores(b) PROVE cp[c].id # cp[b].id
        <5>1. b # c
          BY <2>1, <4>2 DEF Stores
        <5> QED
          BY <3>1, <5>1 DEF IInv, OwnersDistinct, CompactorsOwn
      <4> QED
        BY <1>0, <3>1, <4>1, <4>2, BlockSources
    <3>3. uncommitted'[cp[c].id].st # "none" => uncommitted'[cp[c].id].sz = OccupiedEnd(cp[c].snap)
      BY <1>0, <3>1, LedgerSources DEF Exact, MergesExact
    <3> QED
      BY <2>1, <3>1, <3>2, <3>3 DEF Exact, MergesExact
  <2>2. CASE Advances(c)
    BY <2>2 DEF Advances, Exact, MergesExact, Holding
  <2>3. CASE Merges(c)
    <3>1. cp[c].snap # {}
      BY <2>3 DEF Merges, IInv, BlocksBehind, SnapsKnown
    <3>2. \A u \in Units : blocks[nextId][u] = Absent
      BY <1>0, <2>3 DEF Merges, Exact, FreshEmpty
    <3> QED
      BY <2>3, <3>1, <3>2 DEF Merges
  <2>4. CASE Stores(c)
    BY <2>4 DEF Stores, Exact, MergesExact, Holding, Unpublished
  <2>5. CASE Looks(c) \/ Stops(c) \/ Lightens(c) \/ Publishes(c) \/ Confirms(c) \/ Cleans(c)
    BY <2>5 DEF Looks, Stops, Lightens, Publishes, Confirms, Cleans, Holding, Unpublished
  <2> QED
    BY <2>1, <2>2, <2>3, <2>4, <2>5, CompactorFrame DEF CompactorStep
<1> QED
  BY <1>1, <1>2, <1>3 DEF Exact

----------------------------------------------------------------------------
(* Snapshots against the list. *)

\* The version never goes back, and moves when the list changes.
LEMMA Versions ==
  ASSUME IInv, AnyStep
  PROVE  VersionMoves
<1> version \in Nat
  BY DEF IInv, TypeOK
<1>1. CASE UNCHANGED <<slices, version, physical>>
  BY <1>1 DEF VersionMoves
<1>2. ASSUME NEW w \in Writers, Commits(w) PROVE VersionMoves
  BY <1>2 DEF Commits, VersionMoves
<1>3. ASSUME NEW t \in Truncaters, Cuts(t) PROVE VersionMoves
  <2>1. slices = {} => slices' = {}
    BY <1>3 DEF Cuts, Trimmed
  <2> QED
    BY <1>3, <2>1 DEF Cuts, VersionMoves
<1>4. ASSUME NEW c \in Compactors, Lightens(c) \/ Publishes(c) PROVE VersionMoves
  BY <1>4 DEF Lightens, Publishes, VersionMoves
<1>5. ASSUME NEW g \in Collectors, Marks(g) PROVE VersionMoves
  BY <1>5 DEF Marks, VersionMoves
<1> QED
  BY <1>1, <1>2, <1>3, <1>4, <1>5, Frame

\* Trimming an entry keeps all but its length.
LEMMA TrimmedFrom ==
  ASSUME NEW es \in SUBSET SliceDesc, NEW cutoff \in Units
  PROVE  /\ \A f \in Trimmed(es, cutoff) : \E e \in es :
              /\ e.off < cutoff
              /\ f = [seq |-> e.seq, id |-> e.id, off |-> e.off,
                      len |-> IF End(e) > cutoff THEN cutoff - e.off ELSE e.len]
         /\ \A e \in es : e.off < cutoff =>
              [seq |-> e.seq, id |-> e.id, off |-> e.off,
               len |-> IF End(e) > cutoff THEN cutoff - e.off ELSE e.len] \in Trimmed(es, cutoff)
<1> DEFINE Trim(e) == [e EXCEPT !.len = IF End(e) > cutoff THEN cutoff - e.off ELSE e.len]
<1>1. Trimmed(es, cutoff) = {Trim(e) : e \in {f \in es : f.off < cutoff}}
  BY DEF Trimmed
<1>2. ASSUME NEW e \in es
      PROVE  Trim(e) = [seq |-> e.seq, id |-> e.id, off |-> e.off,
                        len |-> IF End(e) > cutoff THEN cutoff - e.off ELSE e.len]
  BY DEF SliceDesc
<1> HIDE DEF Trim
<1> QED
  BY <1>1, <1>2

\* A slice under way has no entry, in the list or in a snapshot.
LEMMA UnderwayUnlisted ==
  ASSUME IInv, Apart, NEW s \in SliceIds, Underway(s)
  PROVE  /\ \A e \in slices : e.id # s
         /\ \A c \in Compactors : \A e \in cp[c].snap : e.id # s
BY DEF Apart, Listed, Ids

\* What is published was under way.
LEMMA PublishedUnderway ==
  ASSUME IInv
  PROVE  /\ \A w \in Writers : Commits(w) => wr[w].id \in SliceIds /\ Underway(wr[w].id)
         /\ \A c \in Compactors : Publishes(c) => cp[c].id \in SliceIds /\ Underway(cp[c].id)
<1>1. ASSUME NEW w \in Writers, Commits(w) PROVE wr[w].id \in SliceIds /\ Underway(wr[w].id)
  BY <1>1 DEF Commits, Underway, IInv, TypeOK, OwnersDistinct, WritersOwn, WriterState
<1>2. ASSUME NEW c \in Compactors, Publishes(c) PROVE cp[c].id \in SliceIds /\ Underway(cp[c].id)
  BY <1>2 DEF Publishes, Underway
<1> QED
  BY <1>1, <1>2

\* Entries keep their place and only get shorter; snapshots compare with the list.
LEMMA SnapshotsStep ==
  ASSUME IInv, TypeOK', Apart, Snapshots, AnyStep
  PROVE  Snapshots'
<1>0. version \in Nat /\ slices \in SUBSET SliceDesc /\ \A e \in slices : e.seq \in Nat /\ e.len \in Nat
  BY ChunkAssumption DEF IInv, TypeOK, SliceDesc
<1>1. Unique(slices)'
  <2>1. CASE UNCHANGED <<slices, version, physical>>
    BY <2>1 DEF Snapshots, Unique
  <2>2. ASSUME NEW w \in Writers, Commits(w) PROVE Unique(slices)'
    <3>1. \A e \in slices : e.id # Pushed(w).id /\ e.seq # Pushed(w).seq
      <4>1. \A e \in slices : e.id # wr[w].id
        BY <2>2, PublishedUnderway, UnderwayUnlisted
      <4>2. \A e \in slices : e.seq # version + 1
        BY <1>0 DEF IInv, NamedSettled
      <4> QED
        BY <4>1, <4>2 DEF Pushed
    <3>2. slices' = slices \cup {Pushed(w)}
      BY <2>2 DEF Commits
    <3> QED
      BY <3>1, <3>2 DEF Snapshots, Unique
  <2>3. ASSUME NEW t \in Truncaters, Cuts(t) PROVE Unique(slices)'
    <3> SUFFICES ASSUME NEW e \in slices', NEW f \in slices', e.id = f.id \/ e.seq = f.seq
                 PROVE  e = f
      BY DEF Unique
    <3>1. tr[t].cutoff \in Units /\ slices' = Trimmed(slices, tr[t].cutoff)
      BY <2>3 DEF Cuts
    <3>2. PICK x \in slices : e = [seq |-> x.seq, id |-> x.id, off |-> x.off,
             len |-> IF End(x) > tr[t].cutoff THEN tr[t].cutoff - x.off ELSE x.len]
      BY <1>0, <3>1, TrimmedFrom
    <3>3. PICK y \in slices : f = [seq |-> y.seq, id |-> y.id, off |-> y.off,
             len |-> IF End(y) > tr[t].cutoff THEN tr[t].cutoff - y.off ELSE y.len]
      BY <1>0, <3>1, TrimmedFrom
    <3>4. x = y
      BY <3>2, <3>3 DEF Snapshots, Unique
    <3> QED
      BY <3>2, <3>3, <3>4
  <2>4. ASSUME NEW c \in Compactors, Lightens(c) PROVE Unique(slices)'
    BY <2>4 DEF Lightens, Snapshots, Unique
  <2>5. ASSUME NEW c \in Compactors, Publishes(c) PROVE Unique(slices)'
    BY <2>5 DEF Publishes, Unique
  <2>6. ASSUME NEW g \in Collectors, Marks(g) PROVE Unique(slices)'
    BY <2>6 DEF Marks, Snapshots, Unique
  <2> QED
    BY <2>1, <2>2, <2>3, <2>4, <2>5, <2>6, Frame
<1>2. ASSUME NEW c \in Compactors PROVE cp'[c].snap \in {cp[c].snap, slices, {}}
  <2>1. CASE CompactorStep(c)
    BY <2>1 DEF CompactorStep, Looks, Advances, Stops, Lightens, Merges, Stores, Publishes,
      Confirms, Cleans
  <2> QED
    BY <2>1, CompactorFrame
<1>3. ASSUME NEW c \in Compactors PROVE Unique(cp'[c].snap)
  BY <1>2 DEF Snapshots, Unique
<1>4. ASSUME NEW c \in Compactors, NEW e \in slices', NEW f \in cp'[c].snap PROVE Shorter(e, f)
  <2>1. f \in cp[c].snap \/ f \in slices
    BY <1>2
  <2>2. \A g \in slices : Shorter(g, f)
    BY <1>0, <2>1 DEF Snapshots, Unique, Shorter
  <2>3. f.len \in Nat
    BY <1>0, <2>1, ChunkAssumption DEF IInv, TypeOK, CompactorState, SliceDesc
  <2>4. ASSUME NEW g \in slices, e.id = g.id, e.seq = g.seq, e.off = g.off, e.len <= g.len
        PROVE  Shorter(e, f)
    <3>1. e.len \in Nat /\ g.len \in Nat
      BY <1>0, ChunkAssumption DEF TypeOK, SliceDesc
    <3>2. CASE g.id = f.id
      <4>1. g.seq = f.seq /\ g.off = f.off /\ g.len <= f.len
        BY <2>2, <3>2 DEF Shorter
      <4> QED
        BY <2>3, <2>4, <3>1, <4>1 DEF Shorter
    <3>3. CASE g.id # f.id
      BY <2>4, <3>3 DEF Shorter
    <3> QED
      BY <3>2, <3>3
  <2>5. ASSUME NEW w \in Writers, Commits(w), e = Pushed(w) PROVE e.id # f.id
    BY <2>1, <2>5, PublishedUnderway, UnderwayUnlisted DEF Pushed
  <2>6. ASSUME NEW b \in Compactors, Publishes(b), e = MergedEntry(b) PROVE e.id # f.id
    BY <2>1, <2>6, PublishedUnderway, UnderwayUnlisted DEF MergedEntry
  <2> QED
    BY <2>4, <2>5, <2>6, ListSources DEF Shorter
<1>5. ASSUME NEW c \in Compactors, cp'[c].pc = "heavycas", cp'[c].rver = version'
      PROVE  SameSlices(slices', cp'[c].snap)
  <2>1. CASE cp'[c] = cp[c]
    <3>1. cp[c].rver <= version /\ cp[c].rver \in Nat
      BY DEF IInv, CasCoherent, TypeOK, CompactorState
    <3>2. version' = version /\ slices' = slices
      BY <1>0, <1>5, <2>1, <3>1, Versions DEF VersionMoves
    <3> QED
      BY <1>5, <2>1, <3>2 DEF Snapshots
  <2>2. CASE CompactorStep(c)
    BY <1>5, <2>2 DEF CompactorStep, Looks, Advances, Stops, Lightens, Merges, Stores, Publishes,
      Confirms, Cleans, Holding, Unpublished
  <2> QED
    BY <2>1, <2>2, CompactorFrame
<1> QED
  BY <1>1, <1>3, <1>4, <1>5 DEF Snapshots

----------------------------------------------------------------------------
(* The ledgers and the collectors. *)

\* A list is finite: its entries have different identifiers.
LEMMA ListFinite ==
  ASSUME IInv
  PROVE  IsFiniteSet(slices)
<1> DEFINE f == [e \in slices |-> e.id]
<1>1. f \in Injection(slices, SliceIds)
  BY DEF Injection, IsInjective, IInv, TypeOK, SliceDesc, NamedSettled
<1>2. IsFiniteSet(SliceIds)
  BY FS_Interval, ChunkAssumption DEF SliceIds
<1> HIDE DEF f
<1> QED
  BY <1>1, <1>2, FS_Injection

\* The list a merge replaces is the list it merged.
LEMMA MergedAll ==
  ASSUME IInv, Snapshots, NEW c \in Compactors, Publishes(c)
  PROVE  cp[c].snap = slices
<1>1. SameSlices(slices, cp[c].snap)
  BY DEF Publishes, Snapshots
<1>2. ASSUME NEW e \in cp[c].snap PROVE e \in slices
  <2>1. PICK f \in slices : f.id = e.id /\ f.off = e.off /\ f.len = e.len
    BY <1>1 DEF SameSlices
  <2>2. f.seq = e.seq
    BY <2>1 DEF Snapshots, Shorter
  <2>3. e \in SliceDesc /\ f \in SliceDesc
    BY DEF IInv, TypeOK, CompactorState
  <2> QED
    BY <2>1, <2>2, <2>3 DEF SliceDesc
<1>3. Cardinality(slices) = Cardinality(cp[c].snap)
  BY <1>1 DEF SameSlices
<1>4. cp[c].snap \in SUBSET slices
  BY <1>2
<1> QED
  BY <1>3, <1>4, ListFinite, FS_Subset

\* Records written by one script agree on the size of a slice.
LEMMA SentencesAgree ==
  ASSUME IInv, DelayedKeys, NEW es, Unique(es), Condemns(es),
         version' \in Nat, version' >= version,
         es # {} => version' = version + 1
  PROVE  DelayedKeys'
<1>0. version \in Nat /\ \A d \in delayed : d.at \in Nat
  BY DEF IInv, TypeOK, DelayedRecord
<1>1. ASSUME NEW d \in delayed' PROVE d \in delayed \/ \E e \in es : d = Sentence(e)
  BY DEF Condemns
<1>2. ASSUME NEW e \in es PROVE Sentence(e).at = version + 1 /\ Sentence(e).sid = e.id
  BY DEF Sentence
<1>3. ASSUME NEW d \in delayed' PROVE d.at <= version'
  <2>1. CASE d \in delayed
    BY <1>0, <2>1 DEF DelayedKeys
  <2>2. ASSUME NEW e \in es, d = Sentence(e) PROVE d.at <= version'
    BY <1>0, <1>2, <2>2
  <2> QED
    BY <1>1, <2>1, <2>2
<1>4. ASSUME NEW d \in delayed', NEW r \in delayed', d.sid = r.sid, d.at = r.at PROVE d.sz = r.sz
  <2>1. CASE d \in delayed /\ r \in delayed
    BY <1>4, <2>1 DEF DelayedKeys
  <2>2. ASSUME NEW q \in delayed, NEW e \in es PROVE q.at # Sentence(e).at
    BY <1>0, <1>2 DEF DelayedKeys
  <2>3. ASSUME NEW x \in es, NEW y \in es, d = Sentence(x), r = Sentence(y) PROVE d.sz = r.sz
    BY <1>2, <1>4, <2>3 DEF Unique
  <2> QED
    BY <1>1, <1>4, <2>1, <2>2, <2>3
<1> QED
  BY <1>3, <1>4 DEF DelayedKeys

\* A delayed record added by a step has a key of its own: it carries a
\* version that no record had before.
LEMMA DelayedKeysStep ==
  ASSUME IInv, Snapshots, DelayedKeys, AnyStep
  PROVE  DelayedKeys'
<1>0. version \in Nat /\ version' \in Nat /\ version' >= version /\ \A d \in delayed : d.at \in Nat
  BY Versions DEF VersionMoves, IInv, TypeOK, DelayedRecord
<1>1. CASE \A d \in delayed' : Known(d)
  BY <1>0, <1>1 DEF DelayedKeys, Known
<1>2. ASSUME NEW t \in Truncaters, Cuts(t) PROVE DelayedKeys'
  <2>1. Unique(Beyond(tr[t].cutoff)) /\ Condemns(Beyond(tr[t].cutoff))
    BY <1>2 DEF Cuts, Beyond, Snapshots, Unique
  <2>2. Beyond(tr[t].cutoff) # {} => version' = version + 1
    BY <1>2 DEF Cuts, Beyond
  <2> QED
    BY <1>0, <2>1, <2>2, SentencesAgree
<1>3. ASSUME NEW c \in Compactors, Lightens(c) PROVE DelayedKeys'
  <2> DEFINE es == {e \in cp[c].snap : e.id \in ReplacedIds(cp[c].snap)}
  <2>1. Unique(es) /\ Condemns(es) /\ version' = version + 1
    BY <1>3 DEF Lightens, Snapshots, Unique
  <2> HIDE DEF es
  <2> QED
    BY <1>0, <2>1, SentencesAgree
<1>4. ASSUME NEW c \in Compactors, Publishes(c) PROVE DelayedKeys'
  <2>1. Unique(cp[c].snap) /\ Condemns(cp[c].snap) /\ version' = version + 1
    BY <1>4 DEF Publishes, Snapshots
  <2> QED
    BY <1>0, <2>1, SentencesAgree
<1>5. ASSUME NEW g \in Collectors, Marks(g) \/ Expunges(g) PROVE \A d \in delayed' : Known(d)
  BY <1>5 DEF Marks, Expunges, Known
<1>6. delayed' = delayed => \A d \in delayed' : Known(d)
  BY DEF Known
<1> QED
  BY <1>1, <1>2, <1>3, <1>4, <1>5, <1>6, Frame

\* A record that is not known is newer than any version read.
LEMMA NewRecords ==
  ASSUME AnyStep, NEW d \in delayed'
  PROVE  Known(d) \/ d.at = version + 1
BY DelayedSources DEF Sentence

\* A collector's copy of a delayed record stays right.
LEMMA DelayedPassStep ==
  ASSUME IInv, Apart, DelayedKeys, DelayedPass, AnyStep
  PROVE  DelayedPass'
<1> SUFFICES ASSUME NEW g \in Collectors, gc'[g].pc \in Ending
             PROVE  /\ gc'[g].at <= version'
                    /\ \A d \in delayed' : d.sid = gc'[g].sid /\ d.at = gc'[g].at => d.sz = gc'[g].sz
                    /\ gc'[g].pc = "confirm" =>
                         \A u \in Units : u < gc'[g].sz => blocks'[gc'[g].sid][u] = Absent
  BY DEF DelayedPass
<1>0. /\ version \in Nat /\ version' \in Nat /\ version' >= version /\ gc[g].at \in Nat
      /\ \A d \in delayed : d.at \in Nat
  BY Versions DEF VersionMoves, IInv, TypeOK, CollectorState, DelayedRecord
<1>1. CASE gc'[g] = gc[g]
  <2>1. /\ gc[g].at <= version
        /\ \A d \in delayed : d.sid = gc[g].sid /\ d.at = gc[g].at => d.sz = gc[g].sz
        /\ gc[g].pc = "confirm" => \A u \in Units : u < gc[g].sz => blocks[gc[g].sid][u] = Absent
    BY <1>1 DEF DelayedPass
  <2>2. ASSUME NEW d \in delayed', d.sid = gc[g].sid, d.at = gc[g].at PROVE d.sz = gc[g].sz
    BY <1>0, <2>1, <2>2, NewRecords DEF Known
  <2>3. ASSUME gc[g].pc = "confirm", NEW u \in Units, u < gc[g].sz PROVE blocks'[gc[g].sid][u] = Absent
    <3>1. gc[g].sid \in SliceIds /\ gc[g].sid < nextId
      BY <2>3 DEF IInv, CondemnedGone, CollectorsGone, Condemning, Gone, Settled
    <3>2. Listed(gc[g].sid)
      BY <2>3 DEF Listed, Ending
    <3>3. ASSUME NEW c \in Compactors, Stores(c) PROVE gc[g].sid # cp[c].id
      BY <3>1, <3>2, <3>3 DEF Apart, Underway, Stores, Holding, Unpublished
    <3>4. gc[g].sid # nextId
      BY <3>1, ChunkAssumption DEF IInv, TypeOK, SliceIds
    <3> QED
      BY <2>1, <2>3, <3>1, <3>3, <3>4, BlockSources
  <2> QED
    BY <1>0, <1>1, <2>1, <2>2, <2>3
<1>2. CASE Picks(g)
  <2>1. PICK d \in delayed : gc'[g].sid = d.sid /\ gc'[g].sz = d.sz /\ gc'[g].at = d.at
    BY <1>2 DEF Picks, Ending
  <2>2. gc'[g].pc # "confirm" /\ delayed' = delayed
    BY <1>2 DEF Picks
  <2> QED
    BY <1>0, <2>1, <2>2 DEF DelayedKeys
<1>3. CASE Marks(g)
  <2>1. gc[g].at <= version /\ \A d \in delayed : d.sid = gc[g].sid /\ d.at = gc[g].at => d.sz = gc[g].sz
    BY <1>3 DEF Marks, DelayedPass, Ending
  <2> QED
    BY <1>0, <1>3, <2>1 DEF Marks, Known
<1>4. CASE Erases(g)
  <2>1. gc[g].pc = "erase"
    BY <1>4 DEF Erases, Ending
  <2>2. gc[g].at <= version /\ \A d \in delayed : d.sid = gc[g].sid /\ d.at = gc[g].at => d.sz = gc[g].sz
    BY <2>1 DEF DelayedPass, Ending
  <2> QED
    BY <1>0, <1>4, <2>1, <2>2 DEF Erases, Ending
<1>5. CASE Quits(g) \/ Expunges(g) \/ Claims(g) \/ Forgets(g)
  BY <1>5 DEF Quits, Expunges, Claims, Forgets, Ending
<1> QED
  BY <1>1, <1>2, <1>3, <1>4, <1>5, CollectorFrame DEF CollectorStep

\* Only a merge reserves.
LEMMA PendingSources ==
  ASSUME AnyStep, NEW s \in SliceIds, uncommitted'[s].st = "pending"
  PROVE  uncommitted[s].st = "pending" \/ (s = nextId /\ \E c \in Compactors : Merges(c))
<1>1. ASSUME NEW c \in Compactors, Merges(c) PROVE s = nextId \/ uncommitted[s].st = "pending"
  BY <1>1 DEF Merges
<1>2. ASSUME NEW c \in Compactors, Publishes(c) \/ Confirms(c) PROVE uncommitted[s].st = "pending"
  BY <1>2 DEF Publishes, Confirms
<1>3. ASSUME NEW g \in Collectors, Claims(g) \/ Forgets(g) PROVE uncommitted[s].st = "pending"
  BY <1>3 DEF Claims, Forgets
<1> QED
  BY <1>1, <1>2, <1>3, Frame

\* An owner keeps its slice, publishes it, leaves it to the ledger, or is known
\* to have abandoned it.
LEMMA HeldMoves ==
  ASSUME IInv, MergesExact, AnyStep, NEW s \in SliceIds, NEW u \in Units, Held(s),
         blocks[s][u] # Absent, blocks'[s][u] # Absent
  PROVE  \/ Held(s)'
         \/ uncommitted'[s].st = "pending" /\ u < uncommitted'[s].sz
         \/ uncommitted[s].st = "pending" /\ \E e \in slices' : e.id = s /\ u < e.len
<1>1. CASE s \in abandoned
  BY <1>1, Growing DEF Held, IInv
<1>2. ASSUME NEW c \in Compactors, cp[c].pc \in Holding, cp[c].id = s
      PROVE  \/ Held(s)'
             \/ uncommitted'[s].st = "pending" /\ u < uncommitted'[s].sz
             \/ uncommitted[s].st = "pending" /\ \E e \in slices' : e.id = s /\ u < e.len
  <2>1. u < OccupiedEnd(cp[c].snap)
    BY <1>2 DEF MergesExact
  <2>2. uncommitted[s].st = "pending" => u < uncommitted[s].sz
    BY <1>2, <2>1 DEF MergesExact
  <2>3. CASE cp'[c] = cp[c] \/ Advances(c) \/ Stores(c)
    <3>1. cp'[c].pc \in Holding /\ cp'[c].id = s
      BY <1>2, <2>3 DEF Advances, Stores, Holding, Unpublished
    <3> QED
      BY <3>1 DEF Held
  <2>4. CASE Stops(c)
    BY <1>2, <2>2, <2>4 DEF Stops, Held
  <2>5. CASE Cleans(c)
    BY <1>2, <2>1, <2>2, <2>5 DEF Cleans, Held
  <2>6. CASE Publishes(c)
    BY <1>2, <2>1, <2>6 DEF Publishes, MergedEntry
  <2>7. CASE Looks(c) \/ Lightens(c) \/ Merges(c) \/ Confirms(c)
    BY <1>2, <2>7 DEF Looks, Lightens, Merges, Confirms, Holding, Unpublished
  <2> QED
    BY <2>3, <2>4, <2>5, <2>6, <2>7, CompactorFrame DEF CompactorStep
<1> QED
  BY <1>1, <1>2 DEF Held

\* A collector's copy of a reservation stays right.
LEMMA OrphanPassStep ==
  ASSUME IInv, MergesExact, OrphanPass, AnyStep
  PROVE  OrphanPass'
<1> SUFFICES ASSUME NEW g \in Collectors, gc'[g].pc \in {"orphanlist", "claim"} \cup Clearing
             PROVE  /\ gc'[g].sid < nextId' /\ gc'[g].rver <= version'
                    /\ uncommitted'[gc'[g].sid].st # "none" =>
                         uncommitted'[gc'[g].sid].sz = gc'[g].sz
                    /\ gc'[g].pc = "claim" /\ gc'[g].rver = version' =>
                         \A s : s = gc'[g].sid => gc'[g].found = Extents(s)'
                    /\ gc'[g].pc \in Clearing => uncommitted'[gc'[g].sid].st # "pending"
                    /\ gc'[g].pc = "forget" => \A u \in Units : u < gc'[g].sz =>
                         blocks'[gc'[g].sid][u] = Absent \/ \A s : s = gc'[g].sid => Held(s)'
  BY DEF OrphanPass
<1>0. /\ version \in Nat /\ version' \in Nat /\ version' >= version /\ gc[g].rver \in Nat
      /\ nextId \in Nat /\ nextId' \in Nat /\ nextId <= nextId'
      /\ \A s \in SliceIds : s \in Nat
  <2>1. TypeOK
    BY DEF IInv
  <2>2. nextId \in Nat /\ nextId' \in Nat /\ nextId <= nextId'
    BY <2>1, Growing
  <2>3. version \in Nat /\ gc[g].rver \in Nat
    BY <2>1 DEF TypeOK, CollectorState
  <2>4. version' \in Nat /\ version' >= version
    BY Versions DEF VersionMoves
  <2> QED
    BY <2>2, <2>3, <2>4, ChunkAssumption DEF SliceIds
<1>s. gc[g].pc # "idle" => gc[g].sid \in SliceIds
  BY DEF IInv, CondemnedGone, CollectorsGone
<1>1. CASE gc'[g] = gc[g]
  <2>1. /\ gc[g].sid < nextId /\ gc[g].rver <= version /\ gc[g].sid \in SliceIds
        /\ uncommitted[gc[g].sid].st # "none" => uncommitted[gc[g].sid].sz = gc[g].sz
        /\ gc[g].pc = "claim" /\ gc[g].rver = version => gc[g].found = Extents(gc[g].sid)
        /\ gc[g].pc \in Clearing => uncommitted[gc[g].sid].st # "pending"
        /\ gc[g].pc = "forget" => \A u \in Units : u < gc[g].sz =>
             blocks[gc[g].sid][u] = Absent \/ Held(gc[g].sid)
    BY <1>1, <1>s DEF OrphanPass, Clearing
  <2>2. uncommitted'[gc[g].sid].st # "none" => uncommitted'[gc[g].sid].sz = gc[g].sz
    BY <1>0, <2>1, LedgerSources
  <2>3. ASSUME gc[g].pc = "claim", gc[g].rver = version', NEW s, s = gc[g].sid
        PROVE  gc[g].found = Extents(s)'
    <3>1. version' = version /\ slices' = slices
      BY <1>0, <2>1, <2>3, Versions DEF VersionMoves
    <3> QED
      BY <2>1, <2>3, <3>1 DEF Extents
  <2>4. gc[g].pc \in Clearing => uncommitted'[gc[g].sid].st # "pending"
    BY <1>0, <2>1, PendingSources
  <2>5. ASSUME gc[g].pc = "forget", NEW u \in Units, u < gc[g].sz,
               blocks'[gc[g].sid][u] # Absent, NEW s, s = gc[g].sid
        PROVE  Held(s)'
    <3>1. CASE blocks[s][u] = Absent
      <4>1. PICK c \in Compactors : Stores(c) /\ s = cp[c].id
        BY <1>0, <2>1, <2>5, <3>1, BlockSources
      <4> QED
        BY <4>1 DEF Stores, Held, Holding, Unpublished
    <3>2. CASE blocks[s][u] # Absent
      <4>1. Held(s) /\ uncommitted[s].st # "pending" /\ uncommitted'[s].st # "pending"
        BY <2>1, <2>4, <2>5, <3>2 DEF Clearing
      <4> QED
        BY <2>1, <2>5, <3>2, <4>1, HeldMoves
    <3> QED
      BY <3>1, <3>2
  <2> QED
    BY <1>0, <1>1, <2>1, <2>2, <2>3, <2>4, <2>5
<1>2. CASE Picks(g)
  <2>1. CASE gc'[g].pc \in {"orphanlist", "eraseorphan"}
    <3>1. /\ gc'[g].sid \in SliceIds /\ uncommitted[gc'[g].sid].st # "none"
          /\ gc'[g].sz = uncommitted[gc'[g].sid].sz /\ gc'[g].rver <= version
          /\ gc'[g].pc = "eraseorphan" => uncommitted[gc'[g].sid].st # "pending"
          /\ UNCHANGED <<version, uncommitted, nextId>>
      BY <1>2, <2>1 DEF Picks
    <3>2. gc'[g].sid < nextId
      BY <3>1 DEF IInv, OwnersDistinct
    <3> QED
      BY <2>1, <3>1, <3>2 DEF Clearing
  <2>2. CASE gc'[g].pc = "claim"
    <3>1. /\ gc[g].pc = "orphanlist" /\ gc'[g].sid = gc[g].sid /\ gc'[g].sz = gc[g].sz
          /\ gc'[g].rver = gc[g].rver /\ gc'[g].found = Extents(gc[g].sid)
          /\ UNCHANGED <<slices, version, uncommitted, nextId>>
      BY <1>2, <2>2 DEF Picks
    <3>2. \A s : s = gc'[g].sid => gc'[g].found = Extents(s)'
      BY <3>1 DEF Extents
    <3> QED
      BY <2>2, <3>1, <3>2 DEF OrphanPass, Clearing
  <2> QED
    BY <1>2, <2>1, <2>2 DEF Picks, Clearing
<1>3. CASE Erases(g)
  BY <1>3 DEF Erases, OrphanPass, Clearing
<1>4. CASE Claims(g)
  BY <1>0, <1>4 DEF Claims, OrphanPass, Clearing
<1>5. CASE Quits(g) \/ Marks(g) \/ Expunges(g) \/ Forgets(g)
  BY <1>5 DEF Quits, Marks, Expunges, Forgets, Clearing
<1> QED
  BY <1>1, <1>2, <1>3, <1>4, <1>5, CollectorFrame DEF CollectorStep

----------------------------------------------------------------------------
(* Every object has an owner. *)

\* The entries of the list keep what they account for, or hand it to the ledger.
LEMMA EntriesAccount ==
  ASSUME IInv, TypeOK', Snapshots, AnyStep, NEW e \in slices, NEW u \in Units,
         u < Larger(e.len, physical[e.id]), NEW s, s = e.id
  PROVE  \/ \E f \in slices' : f.id = s /\ u < Larger(f.len, physical'[s])
         \/ \E d \in delayed' : d.sid = s /\ u < d.sz
<1>0. /\ s \in SliceIds /\ e.len \in Nat /\ e.off \in Nat /\ physical[s] \in Nat
      /\ physical'[s] \in Nat /\ u \in Nat /\ slices \in SUBSET SliceDesc
  BY ChunkAssumption DEF IInv, TypeOK, SliceDesc, Units
<1>1. CASE UNCHANGED <<slices, version, physical>>
  BY <1>1
<1>2. ASSUME NEW w \in Writers, Commits(w) PROVE e \in slices' /\ physical' = physical
  BY <1>2 DEF Commits
<1>3. ASSUME NEW es, Condemns(es), NEW f \in es, f.id = s, e.len <= f.len, f.len \in Nat
      PROVE  \E d \in delayed' : d.sid = s /\ u < d.sz
  <2>1. Sentence(f) \in delayed' /\ Sentence(f).sid = s
    BY <1>3 DEF Condemns, Sentence
  <2>2. Sentence(f).sz = Larger(f.len, physical[s])
    BY <1>3 DEF Sentence
  <2>3. u < Larger(f.len, physical[s])
    BY <1>0, <1>3 DEF Larger
  <2> QED
    BY <2>1, <2>2, <2>3
<1>4. ASSUME NEW t \in Truncaters, Cuts(t)
      PROVE  \/ \E f \in slices' : f.id = s /\ u < Larger(f.len, physical'[s])
             \/ \E d \in delayed' : d.sid = s /\ u < d.sz
  <2>1. tr[t].cutoff \in Units /\ tr[t].cutoff \in Nat
    BY <1>4, ChunkAssumption DEF Cuts, Units
  <2>2. CASE e.off >= tr[t].cutoff
    <3>1. Condemns(Beyond(tr[t].cutoff)) /\ e \in Beyond(tr[t].cutoff)
      BY <1>4, <2>2 DEF Cuts, Beyond
    <3>2. e.len <= e.len
      BY <1>0
    <3> QED
      BY <1>0, <1>3, <3>1, <3>2
  <2>3. CASE e.off < tr[t].cutoff
    <3> DEFINE f == [seq |-> e.seq, id |-> e.id, off |-> e.off,
                     len |-> IF End(e) > tr[t].cutoff THEN tr[t].cutoff - e.off ELSE e.len]
    <3>1. f \in slices'
      BY <1>0, <1>4, <2>1, <2>3, TrimmedFrom DEF Cuts
    <3>2. physical'[s] >= IF End(e) > tr[t].cutoff THEN Larger(e.len, physical[s])
                          ELSE physical[s]
      BY <1>4, <2>3 DEF Cuts
    <3>3. f.id = s /\ f.len = IF End(e) > tr[t].cutoff THEN tr[t].cutoff - e.off ELSE e.len
      OBVIOUS
    <3>4. f.len \in Nat
      BY <3>1, ChunkAssumption DEF TypeOK, SliceDesc
    <3> HIDE DEF f
    <3>5. CASE End(e) > tr[t].cutoff
      <4>1. physical'[s] >= Larger(e.len, physical[s])
        BY <3>2, <3>5
      <4> QED
        BY <1>0, <3>1, <3>3, <3>4, <4>1 DEF Larger
    <3>6. CASE ~(End(e) > tr[t].cutoff)
      <4>1. physical'[s] >= physical[s] /\ f.len = e.len
        BY <3>2, <3>3, <3>6
      <4> QED
        BY <1>0, <3>1, <3>3, <4>1 DEF Larger
    <3> QED
      BY <3>5, <3>6
  <2> QED
    BY <1>0, <2>1, <2>2, <2>3
<1>5. ASSUME NEW c \in Compactors, Lightens(c)
      PROVE  \/ \E f \in slices' : f.id = s /\ u < Larger(f.len, physical'[s])
             \/ \E d \in delayed' : d.sid = s /\ u < d.sz
  <2>1. CASE s \in ReplacedIds(cp[c].snap)
    <3>1. PICK f \in cp[c].snap : f.id = s
      BY <2>1 DEF ReplacedIds, Ids
    <3>2. e.len <= f.len /\ f.len \in Nat
      BY <3>1, ChunkAssumption DEF Snapshots, Shorter, IInv, TypeOK, CompactorState, SliceDesc
    <3>3. Condemns({x \in cp[c].snap : x.id \in ReplacedIds(cp[c].snap)})
      BY <1>5 DEF Lightens
    <3>4. f \in {x \in cp[c].snap : x.id \in ReplacedIds(cp[c].snap)}
      BY <2>1, <3>1
    <3> QED
      BY <1>3, <3>1, <3>2, <3>3, <3>4
  <2>2. CASE s \notin ReplacedIds(cp[c].snap)
    BY <1>0, <1>5, <2>2 DEF Lightens
  <2> QED
    BY <2>1, <2>2
<1>6. ASSUME NEW c \in Compactors, Publishes(c)
      PROVE  \E d \in delayed' : d.sid = s /\ u < d.sz
  <2>1. e \in cp[c].snap /\ Condemns(cp[c].snap) /\ e.len <= e.len
    BY <1>0, <1>6, MergedAll DEF Publishes
  <2> QED
    BY <1>0, <1>3, <2>1
<1>7. ASSUME NEW g \in Collectors, Marks(g) PROVE slices' = slices /\ physical' = physical
  BY <1>7 DEF Marks
<1> QED
  BY <1>1, <1>2, <1>4, <1>5, <1>6, <1>7, Frame

\* The delayed ledger accounts for what it did until the objects are gone.
LEMMA DelayedAccounts ==
  ASSUME IInv, DelayedPass, AnyStep, NEW d \in delayed, NEW u \in Units, u < d.sz,
         blocks[d.sid][u] # Absent
  PROVE  \E e \in delayed' : e.sid = d.sid /\ u < e.sz
<1>1. ASSUME NEW es, Condemns(es) PROVE d \in delayed'
  BY <1>1 DEF Condemns
<1>2. ASSUME NEW t \in Truncaters, Cuts(t) PROVE d \in delayed'
  BY <1>1, <1>2 DEF Cuts
<1>3. ASSUME NEW c \in Compactors, Lightens(c) \/ Publishes(c) PROVE d \in delayed'
  BY <1>1, <1>3 DEF Lightens, Publishes
<1>4. ASSUME NEW g \in Collectors, Marks(g) PROVE \E e \in delayed' : e.sid = d.sid /\ u < e.sz
  BY <1>4 DEF Marks
<1>5. ASSUME NEW g \in Collectors, Expunges(g) PROVE d \in delayed'
  <2>1. ASSUME d.sid = gc[g].sid, d.at = gc[g].at PROVE FALSE
    BY <1>5, <2>1 DEF Expunges, DelayedPass, Ending
  <2> QED
    BY <1>5, <2>1 DEF Expunges
<1> QED
  BY <1>2, <1>3, <1>4, <1>5, Frame

\* A reservation accounts for its slice until its owner or a collector is done.
LEMMA LedgerAccounts ==
  ASSUME IInv, Apart, OrphanPass, AnyStep, NEW s \in SliceIds, NEW u \in Units,
         uncommitted[s].st # "none", u < uncommitted[s].sz, blocks[s][u] # Absent
  PROVE  (uncommitted'[s].st # "none" /\ u < uncommitted'[s].sz) \/ Held(s)
<1>0. s < nextId /\ s \in Nat /\ nextId \in Nat
  BY ChunkAssumption DEF IInv, OwnersDistinct, TypeOK, SliceIds
<1>1. ASSUME NEW c \in Compactors, Merges(c) PROVE uncommitted'[s] = uncommitted[s]
  BY <1>0, <1>1 DEF Merges
<1>2. ASSUME NEW c \in Compactors, Publishes(c) PROVE uncommitted'[s] = uncommitted[s] \/ Held(s)
  BY <1>2 DEF Publishes, Held, Holding, Unpublished
<1>3. ASSUME NEW c \in Compactors, Confirms(c) PROVE uncommitted'[s] = uncommitted[s]
  <2>1. CASE s = cp[c].id
    BY <1>3, <2>1 DEF Confirms, Apart, Listed, Underway
  <2> QED
    BY <1>3, <2>1 DEF Confirms
<1>4. ASSUME NEW g \in Collectors, Claims(g)
      PROVE  uncommitted'[s].st # "none" /\ uncommitted'[s].sz = uncommitted[s].sz
  BY <1>4 DEF Claims
<1>5. ASSUME NEW g \in Collectors, Forgets(g) PROVE uncommitted'[s] = uncommitted[s] \/ Held(s)
  <2>1. CASE s = gc[g].sid
    BY <1>5, <2>1 DEF Forgets, OrphanPass, Clearing
  <2> QED
    BY <1>5, <2>1 DEF Forgets
<1> QED
  BY <1>1, <1>2, <1>3, <1>4, <1>5, Frame

\* Every object keeps an owner.
LEMMA AccountedStep ==
  ASSUME IInv, TypeOK', Apart, Exact, Snapshots, Passes, Accounted, AnyStep
  PROVE  Accounted'
<1> SUFFICES ASSUME NEW s \in SliceIds, NEW u \in Units, blocks'[s][u] # Absent PROVE Owned(s, u)'
  BY DEF Accounted
<1>0. /\ u \in Nat /\ physical'[s] \in Nat
      /\ \A e \in slices' : e.len \in Nat
  BY ChunkAssumption DEF TypeOK, SliceDesc, Units
<1>1. ASSUME s = nextId, NEW w \in Writers, Uploads(w) PROVE Owned(s, u)'
  BY <1>1 DEF Uploads, Owned
<1>2. ASSUME NEW c \in Compactors, Stores(c), s = cp[c].id PROVE Owned(s, u)'
  <2>1. Held(s)'
    BY <1>2 DEF Stores, Held, Holding, Unpublished
  <2> QED
    BY <2>1 DEF Owned
<1>3. CASE blocks[s][u] # Absent
  <2>0. Owned(s, u)
    BY <1>3 DEF Accounted
  <2>1. ASSUME NEW e \in slices', e.id = s, u < e.len PROVE Owned(s, u)'
    BY <1>0, <2>1 DEF Owned, Larger
  <2>2. ASSUME Held(s) PROVE Owned(s, u)'
    <3>1. \/ Held(s)'
          \/ uncommitted'[s].st = "pending" /\ u < uncommitted'[s].sz
          \/ \E e \in slices' : e.id = s /\ u < e.len
      BY <1>3, <2>2, HeldMoves DEF Exact
    <3> QED
      BY <2>1, <3>1 DEF Owned
  <2>3. ASSUME NEW w \in Writers, wr[w].pc = "uploaded", wr[w].id = s PROVE Owned(s, u)'
    <3>1. CASE wr'[w] = wr[w]
      BY <2>3, <3>1 DEF Owned
    <3>2. CASE Commits(w)
      <4>1. u < wr[w].len
        BY <1>3, <2>3 DEF Exact, WritersExact
      <4>2. Pushed(w) \in slices' /\ Pushed(w).id = s /\ Pushed(w).len = wr[w].len
        BY <2>3, <3>2 DEF Commits, Pushed
      <4> QED
        BY <2>1, <4>1, <4>2
    <3>3. CASE Uploads(w) \/ Fails(w)
      BY <2>3, <3>3 DEF Uploads, Fails, Owned, Held
    <3> QED
      BY <3>1, <3>2, <3>3, WriterFrame DEF WriterStep
  <2>4. ASSUME NEW e \in slices, e.id = s, u < Larger(e.len, physical[s]) PROVE Owned(s, u)'
    <3>1. \/ \E f \in slices' : f.id = s /\ u < Larger(f.len, physical'[s])
          \/ \E d \in delayed' : d.sid = s /\ u < d.sz
      BY <2>4, EntriesAccount
    <3> QED
      BY <3>1 DEF Owned
  <2>5. ASSUME NEW d \in delayed, d.sid = s, u < d.sz PROVE Owned(s, u)'
    BY <1>3, <2>5, DelayedAccounts DEF Passes, Owned
  <2>6. ASSUME uncommitted[s].st # "none", u < uncommitted[s].sz PROVE Owned(s, u)'
    <3>1. (uncommitted'[s].st # "none" /\ u < uncommitted'[s].sz) \/ Held(s)
      BY <1>3, <2>6, LedgerAccounts DEF Passes
    <3> QED
      BY <2>2, <3>1 DEF Owned
  <2> QED
    BY <2>0, <2>2, <2>3, <2>4, <2>5, <2>6 DEF Owned
<1> QED
  BY <1>1, <1>2, <1>3, BlockSources

----------------------------------------------------------------------------
(* What readers see. *)

\* The newest entry over a position is the one that shows.
Topmost(es, e, p) ==
  /\ e \in es /\ Covers(e, p)
  /\ \A f \in es : Covers(f, p) /\ f # e => f.seq < e.seq

\* Where a topmost slice covers a position, its block is what a reader sees.
LEMMA VisibleTop ==
  ASSUME NEW es \in SUBSET SliceDesc, NEW blk, NEW p, NEW e, Topmost(es, e, p)
  PROVE  VisibleAt(es, blk, p) = blk[e.id][p - e.off]
<1> DEFINE over == {f \in es : Covers(f, p)}
<1>1. e \in over /\ \A f \in over : f.seq \in Nat
  BY DEF Topmost, SliceDesc
<1>2. \A f \in over : f.seq <= e.seq
  BY <1>1 DEF Topmost
<1>3. \A f \in over : (\A g \in over : g.seq <= f.seq) => f = e
  BY <1>1 DEF Topmost
<1>4. (CHOOSE f \in over : \A g \in over : g.seq <= f.seq) = e
  <2> HIDE DEF over
  <2> QED
    BY <1>1, <1>2, <1>3
<1>5. over # {}
  BY <1>1
<1> QED
  BY <1>4, <1>5 DEF VisibleAt

\* Where nothing lies over a position there is a hole.
LEMMA VisibleHole ==
  ASSUME NEW es, NEW blk, NEW p, \A e \in es : ~Covers(e, p)
  PROVE  VisibleAt(es, blk, p) = Hole
BY DEF VisibleAt

\* With different sequence numbers there is a newest entry over every position
\* that has any.
LEMMA TopmostExists ==
  ASSUME NEW es \in SUBSET SliceDesc, Unique(es), NEW B \in Nat, \A e \in es : e.seq <= B,
         NEW p
  PROVE  (\A e \in es : ~Covers(e, p)) \/ \E e : Topmost(es, e, p)
<1> SUFFICES ASSUME NEW x \in es, Covers(x, p) PROVE \E e : Topmost(es, e, p)
  OBVIOUS
<1> DEFINE S == {e.seq : e \in {f \in es : Covers(f, p)}}
<1>1. S \subseteq Nat /\ S # {} /\ \A n \in S : n <= B
  BY DEF SliceDesc
<1>2. PICK m \in S : \A n \in S : n <= m
  <2> HIDE DEF S
  <2> QED
    BY <1>1, MaxExists
<1>3. PICK e \in es : Covers(e, p) /\ e.seq = m
  OBVIOUS
<1>4. ASSUME NEW f \in es, Covers(f, p), f # e PROVE f.seq < e.seq
  <2>1. f.seq \in S /\ f.seq # e.seq
    BY <1>4 DEF Unique
  <2>2. f.seq <= m /\ f.seq \in Nat /\ m \in Nat
    BY <1>1, <1>2, <2>1
  <2> QED
    BY <1>3, <2>1, <2>2
<1> QED
  BY <1>3, <1>4 DEF Topmost

\* The list, and every snapshot, has a newest entry over every covered position.
LEMMA ListTopmost ==
  ASSUME IInv, Snapshots, NEW p
  PROVE  /\ (\A e \in slices : ~Covers(e, p)) \/ \E e : Topmost(slices, e, p)
         /\ \A c \in Compactors :
              (\A e \in cp[c].snap : ~Covers(e, p)) \/ \E e : Topmost(cp[c].snap, e, p)
<1>1. slices \in SUBSET SliceDesc /\ version \in Nat /\ Unique(slices) /\ \A e \in slices : e.seq <= version
  BY DEF IInv, TypeOK, NamedSettled, Snapshots
<1>2. ASSUME NEW c \in Compactors
      PROVE  /\ cp[c].snap \in SUBSET SliceDesc /\ Unique(cp[c].snap)
             /\ \A e \in cp[c].snap : e.seq <= version
  BY DEF IInv, TypeOK, CompactorState, NamedSettled, Snapshots
<1>3. ASSUME NEW c \in Compactors
      PROVE  (\A e \in cp[c].snap : ~Covers(e, p)) \/ \E e : Topmost(cp[c].snap, e, p)
  BY <1>1, <1>2, TopmostExists
<1> QED
  BY <1>1, <1>3, TopmostExists

\* Only the blocks of the entries matter.
LEMMA VisibleSame ==
  ASSUME NEW es \in SUBSET SliceDesc, NEW p, NEW b1, NEW b2,
         \A e \in es : b1[e.id] = b2[e.id],
         (\A e \in es : ~Covers(e, p)) \/ \E e : Topmost(es, e, p)
  PROVE  VisibleAt(es, b1, p) = VisibleAt(es, b2, p)
<1>1. CASE \A e \in es : ~Covers(e, p)
  BY <1>1, VisibleHole
<1>2. ASSUME NEW e, Topmost(es, e, p) PROVE VisibleAt(es, b1, p) = VisibleAt(es, b2, p)
  <2>1. e \in es
    BY <1>2 DEF Topmost
  <2> QED
    BY <1>2, <2>1, VisibleTop
<1> QED
  BY <1>1, <1>2

\* The blocks of the list's slices stay.
LEMMA ListedBlocks ==
  ASSUME IInv, AnyStep, NEW e \in slices
  PROVE  blocks'[e.id] = blocks[e.id]
<1>1. e.id \in SliceIds /\ e.id \in Ids(slices) /\ e.id < nextId
  BY DEF IInv, TypeOK, SliceDesc, Ids, NamedSettled, Settled
<1>2. ~ \E c \in Compactors : Stores(c) /\ e.id = cp[c].id
  BY <1>1 DEF Stores, IInv, CondemnedGone, OwnedOffList, Unpublished
<1> QED
  BY <1>1, <1>2, BlocksStay

\* What a light pass found covered stays covered.
LEMMA LightStep ==
  ASSUME IInv, Apart, Snapshots, LightCovered, AnyStep
  PROVE  LightCovered'
<1> SUFFICES ASSUME NEW c \in Compactors, cp'[c].pc \in Light, NEW e \in slices',
                    e.id \in ReplacedIds(cp'[c].snap)
             PROVE  \E f \in slices' : Under(e, f)
  BY DEF LightCovered
<1>0. /\ slices \in SUBSET SliceDesc /\ version \in Nat
      /\ \A f \in slices : f.seq \in Nat /\ f.off \in Nat /\ f.len \in Nat /\ f.seq <= version
  BY ChunkAssumption DEF IInv, TypeOK, SliceDesc, Units, NamedSettled
<1>1. CASE Looks(c)
  <2>1. slices' = slices
    BY <1>1 DEF Looks
  <2>2. CASE cp'[c].snap = cp[c].snap /\ cp[c].pc \in Light
    BY <2>1, <2>2 DEF LightCovered
  <2>3. CASE cp'[c].snap = slices
    <3>1. e \notin RemoveFullyCovered(slices)
      BY <2>3 DEF ReplacedIds, Ids
    <3> QED
      BY <2>1, <3>1 DEF RemoveFullyCovered, Under
  <2> QED
    BY <1>1, <2>2, <2>3 DEF Looks
<1>2. CASE CompactorStep(c) /\ ~Looks(c)
  BY <1>2 DEF CompactorStep, Advances, Stops, Lightens, Merges, Stores, Publishes,
      Confirms, Cleans, Light, Holding, Unpublished
<1>3. CASE cp'[c] = cp[c]
  <2>0. e.id \in Ids(cp[c].snap) /\ cp[c].pc \in Light
    BY <1>3 DEF ReplacedIds
  <2>1. \A f \in slices : f.id = e.id => \E g \in slices : Under(f, g)
    BY <1>3 DEF LightCovered
  <2>2. CASE UNCHANGED <<slices, version, physical>>
    BY <2>1, <2>2
  <2>3. ASSUME NEW w \in Writers, Commits(w) PROVE \E f \in slices' : Under(e, f)
    <3>1. \A f \in cp[c].snap : f.id # wr[w].id
      BY <2>3, PublishedUnderway, UnderwayUnlisted
    <3>2. e.id # wr[w].id
      BY <2>0, <3>1 DEF Ids
    <3>3. e \in slices
      BY <2>3, <3>2 DEF Commits, Pushed
    <3> QED
      BY <2>1, <2>3, <3>3 DEF Commits
  <2>4. ASSUME NEW t \in Truncaters, Cuts(t) PROVE \E f \in slices' : Under(e, f)
    <3>1. tr[t].cutoff \in Units /\ slices' = Trimmed(slices, tr[t].cutoff) /\ tr[t].cutoff \in Nat
      BY <2>4, ChunkAssumption DEF Cuts, Units
    <3>2. PICK x \in slices : /\ x.off < tr[t].cutoff
             /\ e = [seq |-> x.seq, id |-> x.id, off |-> x.off,
                     len |-> IF End(x) > tr[t].cutoff THEN tr[t].cutoff - x.off ELSE x.len]
      BY <1>0, <3>1, TrimmedFrom
    <3>3. PICK y \in slices : Under(x, y)
      BY <2>1, <3>2
    <3>4. y.off < tr[t].cutoff
      BY <1>0, <3>1, <3>2, <3>3 DEF Under
    <3> DEFINE f == [seq |-> y.seq, id |-> y.id, off |-> y.off,
                     len |-> IF End(y) > tr[t].cutoff THEN tr[t].cutoff - y.off ELSE y.len]
    <3>5. f \in slices'
      BY <1>0, <3>1, <3>4, TrimmedFrom
    <3>6. Under(e, f)
      <4>1. /\ e.seq = x.seq /\ e.off = x.off
            /\ e.len = IF End(x) > tr[t].cutoff THEN tr[t].cutoff - x.off ELSE x.len
        BY <3>2
      <4>2. /\ f.seq = y.seq /\ f.off = y.off
            /\ f.len = IF End(y) > tr[t].cutoff THEN tr[t].cutoff - y.off ELSE y.len
        OBVIOUS
      <4> HIDE DEF f
      <4> QED
        BY <1>0, <3>1, <3>3, <4>1, <4>2 DEF Under, End
    <3> QED
      BY <3>5, <3>6
  <2>5. ASSUME NEW b \in Compactors, Lightens(b) PROVE \E f \in slices' : Under(e, f)
    <3>1. e \in slices /\ slices' = {f \in slices : f.id \notin ReplacedIds(cp[b].snap)}
          /\ cp[b].pc \in Light
      BY <2>5 DEF Lightens, Light
    <3> DEFINE S == {f.seq : f \in {g \in slices : Under(e, g)}}
    <3>2. S \subseteq Nat /\ S # {} /\ \A n \in S : n <= version
      BY <1>0, <2>1, <3>1
    <3>3. PICK m \in S : \A n \in S : n <= m
      <4> HIDE DEF S
      <4> QED
        BY <1>0, <3>2, MaxExists
    <3>4. PICK f \in slices : Under(e, f) /\ f.seq = m
      OBVIOUS
    <3>5. ASSUME f.id \in ReplacedIds(cp[b].snap) PROVE FALSE
      <4>1. PICK g \in slices : Under(f, g)
        BY <3>1, <3>5 DEF LightCovered
      <4>2. Under(e, g)
        BY <1>0, <3>1, <3>4, <4>1 DEF Under, End
      <4>3. g.seq <= m
        BY <3>3, <4>2
      <4> QED
        BY <1>0, <3>4, <4>1, <4>3 DEF Under
    <3> QED
      BY <3>1, <3>4, <3>5
  <2>6. ASSUME NEW b \in Compactors, Publishes(b) PROVE \E f \in slices' : Under(e, f)
    <3>1. \A f \in cp[c].snap : f.id # cp[b].id
      BY <2>6, PublishedUnderway, UnderwayUnlisted
    <3> QED
      BY <2>0, <2>6, <3>1 DEF Publishes, MergedEntry, Ids
  <2>7. ASSUME NEW g \in Collectors, Marks(g) PROVE \E f \in slices' : Under(e, f)
    BY <2>1, <2>7 DEF Marks
  <2> QED
    BY <2>2, <2>3, <2>4, <2>5, <2>6, <2>7, Frame
<1> QED
  BY <1>1, <1>2, <1>3, CompactorFrame

\* A snapshot that the list still holds was held before the step, and reads the same.
LEMMA SnapReads ==
  ASSUME IInv, TypeOK', Apart, Snapshots, AnyStep, NEW c \in Compactors,
         cp[c].snap \subseteq slices', NEW p
  PROVE  /\ cp[c].snap \subseteq slices
         /\ VisibleAt(cp[c].snap, blocks', p) = VisibleAt(cp[c].snap, blocks, p)
<1>1. ASSUME NEW e \in cp[c].snap PROVE e \in slices
  <2>1. e \in slices' /\ e \in SliceDesc /\ e.len \in Nat
    BY ChunkAssumption DEF IInv, TypeOK, CompactorState, SliceDesc
  <2>2. ASSUME NEW f \in slices, e.id = f.id, e.seq = f.seq, e.off = f.off, e.len <= f.len
        PROVE  e = f
    <3>1. f.len <= e.len
      BY <2>2 DEF Snapshots, Shorter
    <3>2. f \in SliceDesc /\ f.len \in Nat
      BY ChunkAssumption DEF IInv, TypeOK, SliceDesc
    <3>3. e.len = f.len
      BY <2>1, <2>2, <3>1, <3>2
    <3> QED
      BY <2>1, <2>2, <3>2, <3>3 DEF SliceDesc
  <2>3. ASSUME NEW w \in Writers, Commits(w), e = Pushed(w) PROVE FALSE
    BY <2>3, PublishedUnderway, UnderwayUnlisted DEF Pushed
  <2>4. ASSUME NEW b \in Compactors, Publishes(b), e = MergedEntry(b) PROVE FALSE
    BY <2>4, PublishedUnderway, UnderwayUnlisted DEF MergedEntry
  <2> QED
    BY <2>1, <2>2, <2>3, <2>4, ListSources
<1>2. \A e \in cp[c].snap : blocks'[e.id] = blocks[e.id]
  BY <1>1, ListedBlocks
<1>3. cp[c].snap \in SUBSET SliceDesc
  BY DEF IInv, TypeOK, CompactorState
<1>4. (\A e \in cp[c].snap : ~Covers(e, p)) \/ \E e : Topmost(cp[c].snap, e, p)
  BY ListTopmost
<1>5. ASSUME NEW b1, b1 = blocks' PROVE VisibleAt(cp[c].snap, b1, p) = VisibleAt(cp[c].snap, blocks, p)
  BY <1>2, <1>3, <1>4, <1>5, VisibleSame
<1> QED
  BY <1>1, <1>5

\* A merge holds what readers see, as long as they see its snapshot.
LEMMA MergeStep ==
  ASSUME IInv, TypeOK', Apart, Snapshots, MergeCurrent, AnyStep
  PROVE  MergeCurrent'
<1> SUFFICES ASSUME NEW c \in Compactors, cp'[c].pc \in Unpublished, cp'[c].snap \subseteq slices',
                    NEW u \in Units, u < OccupiedEnd(cp'[c].snap)
             PROVE  /\ cp'[c].pc = "upload" => cp'[c].buf[u] = VisibleAt(cp'[c].snap, blocks', u)
                    /\ cp'[c].pc # "upload" /\ uncommitted'[cp'[c].id].st = "pending" =>
                         blocks'[cp'[c].id][u] = VisibleAt(cp'[c].snap, blocks', u)
  BY DEF MergeCurrent
<1>1. ASSUME cp'[c].snap = cp[c].snap
      PROVE  /\ cp[c].snap \subseteq slices
             /\ VisibleAt(cp[c].snap, blocks', u) = VisibleAt(cp[c].snap, blocks, u)
  BY <1>1, SnapReads
<1>2. CASE cp'[c] = cp[c]
  <2>1. /\ cp[c].pc \in Unpublished /\ cp[c].id \in SliceIds /\ cp[c].id < nextId
        /\ cp[c].id # None /\ cp[c].id # nextId
    <3>1. cp[c].pc \in Unpublished /\ cp[c].id \in SliceIds /\ cp[c].id < nextId
      BY <1>2, HoldersKnown DEF Holding
    <3>2. nextId \in Nat /\ \A s \in SliceIds : s \in Nat /\ s # None
      BY ChunkAssumption DEF IInv, TypeOK, SliceIds, None
    <3> QED
      BY <3>1, <3>2
  <2>2. ASSUME cp[c].pc # "upload", uncommitted'[cp[c].id].st = "pending"
        PROVE  uncommitted[cp[c].id].st = "pending" /\ blocks'[cp[c].id] = blocks[cp[c].id]
    <3>1. uncommitted[cp[c].id].st = "pending"
      BY <2>1, <2>2, PendingSources
    <3>2. Publishable(cp[c].id)
      BY <2>1, <3>1 DEF Publishable
    <3>3. ~ \E b \in Compactors : Stores(b) /\ cp[c].id = cp[b].id
      BY <1>2, <2>1, <2>2 DEF Stores, IInv, OwnersDistinct, CompactorsOwn
    <3> QED
      BY <2>1, <3>1, <3>2, <3>3, BlocksStay
  <2> QED
    BY <1>1, <1>2, <2>1, <2>2 DEF MergeCurrent
<1>3. CASE Advances(c)
  <2>1. /\ cp'[c].snap = cp[c].snap /\ cp'[c].id = cp[c].id /\ cp'[c].pc # "upload"
        /\ cp[c].pc \in Unpublished /\ cp[c].pc # "upload"
        /\ UNCHANGED <<blocks, uncommitted>>
    BY <1>3 DEF Advances
  <2> QED
    BY <1>1, <2>1 DEF MergeCurrent
<1>4. CASE Merges(c)
  BY <1>4 DEF Merges
<1>5. CASE Stores(c)
  <2>1. /\ cp'[c].snap = cp[c].snap /\ cp'[c].id = cp[c].id /\ cp'[c].pc # "upload"
        /\ cp[c].pc = "upload" /\ blocks'[cp[c].id] = cp[c].buf
    BY <1>5 DEF Stores
  <2>2. cp[c].buf[u] = VisibleAt(cp[c].snap, blocks, u)
    BY <1>1, <2>1 DEF MergeCurrent, Unpublished
  <2> QED
    BY <1>1, <2>1, <2>2
<1>6. CASE Looks(c) \/ Stops(c) \/ Lightens(c) \/ Publishes(c) \/ Confirms(c) \/ Cleans(c)
  BY <1>6 DEF Looks, Stops, Lightens, Publishes, Confirms, Cleans, Holding, Unpublished
<1> QED
  BY <1>2, <1>3, <1>4, <1>5, <1>6, CompactorFrame DEF CompactorStep

\* A slice is published once.
LEMMA AppliedStep ==
  ASSUME IInv, AppliedOnce, AnyStep
  PROVE  AppliedOnce'
<1>0. /\ TypeOK /\ nextId \in Nat /\ nextId' \in Nat /\ nextId <= nextId'
      /\ \A s \in committed : s \in Nat
  <2>1. TypeOK
    BY DEF IInv
  <2>2. committed \subseteq SliceIds
    BY <2>1 DEF TypeOK
  <2>3. \A s \in committed : s \in Nat
    BY <2>2, ChunkAssumption DEF SliceIds
  <2> QED
    BY <2>1, <2>3, Growing
<1>1. \A w \in Writers : Commits(w) => wr[w].id < nextId /\ wr[w].id \in Nat
  BY PublishedUnderway, ChunkAssumption DEF IInv, OwnersDistinct, WritersOwn, SliceIds
<1>2. ASSUME NEW s \in committed' PROVE s < nextId'
  <2>1. s \in committed \/ \E w \in Writers : Commits(w) /\ s = wr[w].id
    BY Frame DEF Commits
  <2> QED
    BY <1>0, <1>1, <2>1 DEF AppliedOnce
<1>3. ASSUME NEW v \in Writers, wr'[v].pc = "uploaded" PROVE wr'[v].id \notin committed'
  <2>1. CASE wr'[v] = wr[v]
    <3>1. wr[v].id \notin committed
      BY <1>3, <2>1 DEF AppliedOnce
    <3>2. ASSUME NEW w \in Writers, Commits(w) PROVE wr[v].id # wr[w].id
      BY <1>3, <2>1, <3>2 DEF Commits, IInv, OwnersDistinct, WritersOwn
    <3>3. \A s \in committed' : s \in committed \/ \E w \in Writers : Commits(w) /\ s = wr[w].id
      BY Frame DEF Commits
    <3> QED
      BY <2>1, <3>1, <3>2, <3>3
  <2>2. CASE Uploads(v)
    BY <1>0, <2>2 DEF Uploads, AppliedOnce
  <2>3. CASE Commits(v) \/ Fails(v)
    BY <1>3, <2>3 DEF Commits, Fails
  <2> QED
    BY <2>1, <2>2, <2>3, WriterFrame DEF WriterStep
<1> QED
  BY <1>2, <1>3 DEF AppliedOnce

----------------------------------------------------------------------------
(* Writes and truncations change what readers see as ChunkContent says;    *)
(* every other step leaves it alone.                                       *)

\* A write shows its own bytes where it lies and nothing else.
LEMMA CommitShows ==
  ASSUME IInv, Apart, Exact, Snapshots, AnyStep, NEW w \in Writers, Commits(w), NEW p \in Units
  PROVE  VisibleAt(slices', blocks', p) =
           IF wr[w].off <= p /\ p < wr[w].off + wr[w].len THEN wr[w].id
           ELSE VisibleAt(slices, blocks, p)
<1>0. /\ slices \in SUBSET SliceDesc /\ version \in Nat
      /\ \A e \in slices : e.seq \in Nat /\ e.seq <= version
  BY DEF IInv, TypeOK, SliceDesc, NamedSettled
<1>1. /\ slices' = slices \cup {Pushed(w)} /\ blocks' = blocks /\ wr[w].pc = "uploaded"
  BY DEF Commits
<1>2. /\ wr[w].off \in Units /\ wr[w].len \in 1 .. ChunkLen /\ End(wr[w]) <= ChunkLen
      /\ wr[w].id \in SliceIds
  <2>1. wr[w] \in WriterState
    BY DEF IInv, TypeOK
  <2> QED
    BY <1>1, <2>1, PublishedUnderway, ChunkAssumption DEF WriterState
<1>3. Pushed(w) \in SliceDesc /\ Covers(Pushed(w), p) = (wr[w].off <= p /\ p < wr[w].off + wr[w].len)
  BY <1>0, <1>2, ChunkAssumption DEF Pushed, SliceDesc, Covers, End
<1>4. ASSUME NEW es, es = slices \cup {Pushed(w)}
      PROVE  VisibleAt(es, blocks, p) =
               IF wr[w].off <= p /\ p < wr[w].off + wr[w].len THEN wr[w].id
               ELSE VisibleAt(slices, blocks, p)
  <2>0. es \in SUBSET SliceDesc
    BY <1>0, <1>3, <1>4
  <2>1. CASE Covers(Pushed(w), p)
    <3>1. Topmost(es, Pushed(w), p)
      BY <1>0, <1>4, <2>1 DEF Topmost, Pushed
    <3>2. VisibleAt(es, blocks, p) = blocks[wr[w].id][p - wr[w].off]
      <4>1. Pushed(w).id = wr[w].id /\ Pushed(w).off = wr[w].off
        BY DEF Pushed
      <4> QED
        BY <2>0, <3>1, <4>1, VisibleTop
    <3>3. p - wr[w].off \in Units /\ p - wr[w].off < wr[w].len
      <4>1. wr[w].off <= p /\ p < wr[w].off + wr[w].len
        BY <1>3, <2>1
      <4>2. /\ p \in Nat /\ p <= ChunkLen - 1 /\ ChunkLen \in Nat
            /\ wr[w].off \in Nat /\ wr[w].len \in Nat
        BY <1>2, ChunkAssumption DEF Units
      <4>3. /\ p - wr[w].off \in 0 .. ChunkLen - 1
            /\ p - wr[w].off < wr[w].len
        BY <4>1, <4>2
      <4> QED
        BY <4>3 DEF Units
    <3> QED
      BY <1>1, <1>3, <2>1, <3>2, <3>3 DEF Exact, WritersExact
  <2>2. CASE ~Covers(Pushed(w), p)
    <3>1. VisibleAt(es, blocks, p) = VisibleAt(slices, blocks, p)
      <4>1. CASE \A e \in slices : ~Covers(e, p)
        <5>1. \A e \in es : ~Covers(e, p)
          BY <1>4, <2>2, <4>1
        <5> QED
          BY <4>1, <5>1, VisibleHole
      <4>2. ASSUME NEW e, Topmost(slices, e, p)
            PROVE  VisibleAt(es, blocks, p) = VisibleAt(slices, blocks, p)
        <5>1. Topmost(es, e, p)
          BY <1>4, <2>2, <4>2 DEF Topmost
        <5> QED
          BY <1>0, <2>0, <4>2, <5>1, VisibleTop
      <4> QED
        BY <4>1, <4>2, ListTopmost
    <3> QED
      BY <1>3, <2>2, <3>1
  <2> QED
    BY <2>1, <2>2
<1> QED
  BY <1>1, <1>4

\* A truncation shows nothing from the cutoff on and changes nothing before it.
LEMMA CutShows ==
  ASSUME IInv, Snapshots, AnyStep, NEW t \in Truncaters, Cuts(t), NEW p \in Units
  PROVE  VisibleAt(slices', blocks', p) =
           IF p < tr[t].cutoff THEN VisibleAt(slices, blocks, p) ELSE Hole
<1>0. /\ slices \in SUBSET SliceDesc
      /\ \A e \in slices : e.seq \in Nat /\ e.off \in Nat /\ e.len \in Nat
  BY ChunkAssumption DEF IInv, TypeOK, SliceDesc, Units
<1>1. /\ tr[t].cutoff \in Units /\ tr[t].cutoff \in Nat /\ p \in Nat
      /\ slices' = Trimmed(slices, tr[t].cutoff) /\ blocks' = blocks
  BY ChunkAssumption DEF Cuts, Units
<1> DEFINE Trim(e) == [seq |-> e.seq, id |-> e.id, off |-> e.off,
                       len |-> IF End(e) > tr[t].cutoff THEN tr[t].cutoff - e.off ELSE e.len]
<1>2. ASSUME NEW e \in slices, e.off < tr[t].cutoff
      PROVE  Covers(Trim(e), p) = (Covers(e, p) /\ p < tr[t].cutoff)
  BY <1>0, <1>1, <1>2 DEF Covers, End
<1>3. ASSUME NEW e \in slices, Covers(e, p), p < tr[t].cutoff PROVE e.off < tr[t].cutoff
  BY <1>0, <1>1, <1>3 DEF Covers
<1>4. ASSUME NEW es, es = Trimmed(slices, tr[t].cutoff)
      PROVE  VisibleAt(es, blocks, p) =
               IF p < tr[t].cutoff THEN VisibleAt(slices, blocks, p) ELSE Hole
  <2>0. /\ es \in SUBSET SliceDesc
        /\ \A f \in es : \E e \in slices : e.off < tr[t].cutoff /\ f = Trim(e)
        /\ \A e \in slices : e.off < tr[t].cutoff => Trim(e) \in es
    BY <1>0, <1>1, <1>4, TrimmedFrom, TrimmedType
  <2>1. \A e \in slices : Trim(e).seq = e.seq /\ Trim(e).id = e.id /\ Trim(e).off = e.off
    OBVIOUS
  <2> HIDE DEF Trim
  <2>2. CASE (\A e \in slices : ~Covers(e, p)) \/ ~(p < tr[t].cutoff)
    <3>1. \A f \in es : ~Covers(f, p)
      BY <1>2, <2>0, <2>2
    <3> QED
      BY <2>2, <3>1, VisibleHole
  <2>3. ASSUME NEW e, Topmost(slices, e, p), p < tr[t].cutoff
        PROVE  VisibleAt(es, blocks, p) = VisibleAt(slices, blocks, p)
    <3>1. e \in slices /\ Covers(e, p) /\ e.off < tr[t].cutoff
      BY <1>3, <2>3 DEF Topmost
    <3>2. Trim(e) \in es /\ Covers(Trim(e), p)
      BY <1>2, <2>0, <2>3, <3>1
    <3>3. ASSUME NEW f \in es, Covers(f, p), f # Trim(e) PROVE f.seq < Trim(e).seq
      <4>1. PICK x \in slices : x.off < tr[t].cutoff /\ f = Trim(x)
        BY <2>0
      <4>2. Covers(x, p) /\ x # e
        BY <1>2, <3>3, <4>1
      <4> QED
        BY <2>1, <2>3, <3>1, <4>1, <4>2 DEF Topmost
    <3>4. Topmost(es, Trim(e), p)
      BY <3>2, <3>3 DEF Topmost
    <3>5. VisibleAt(es, blocks, p) = blocks[e.id][p - e.off]
      BY <2>0, <2>1, <3>1, <3>4, VisibleTop
    <3> QED
      BY <1>0, <2>3, <3>5, VisibleTop
  <2> QED
    BY <2>2, <2>3, ListTopmost
<1> QED
  BY <1>1, <1>4

\* Dropping covered slices shows nothing new.
LEMMA LightShows ==
  ASSUME IInv, Snapshots, LightCovered, AnyStep, NEW c \in Compactors, Lightens(c), NEW p \in Units
  PROVE  VisibleAt(slices', blocks', p) = VisibleAt(slices, blocks, p)
<1>0. /\ slices \in SUBSET SliceDesc
      /\ \A e \in slices : e.seq \in Nat /\ e.off \in Nat /\ e.len \in Nat
  BY ChunkAssumption DEF IInv, TypeOK, SliceDesc, Units
<1>1. /\ slices' = {e \in slices : e.id \notin ReplacedIds(cp[c].snap)} /\ blocks' = blocks
      /\ cp[c].pc \in Light
  BY DEF Lightens, Light
<1>2. ASSUME NEW es, es = {e \in slices : e.id \notin ReplacedIds(cp[c].snap)}
      PROVE  VisibleAt(es, blocks, p) = VisibleAt(slices, blocks, p)
  <2>1. CASE \A e \in slices : ~Covers(e, p)
    BY <1>2, <2>1, VisibleHole
  <2>2. ASSUME NEW e, Topmost(slices, e, p)
        PROVE  VisibleAt(es, blocks, p) = VisibleAt(slices, blocks, p)
    <3>1. e \in slices /\ Covers(e, p)
      BY <2>2 DEF Topmost
    <3>2. ASSUME NEW f \in slices, Under(e, f) PROVE FALSE
      <4>1. f.off <= e.off /\ e.off + e.len <= f.off + f.len /\ e.seq < f.seq
        BY <1>0, <3>1, <3>2 DEF Under, End
      <4>2. p \in Nat /\ e.off <= p /\ p < e.off + e.len
        BY <3>1, ChunkAssumption DEF Covers, End, Units
      <4>3. f.off <= p /\ p < f.off + f.len
        BY <1>0, <3>1, <4>1, <4>2
      <4>4. Covers(f, p)
        BY <4>3 DEF Covers, End
      <4>5. f # e
        BY <1>0, <3>1, <4>1
      <4>6. f.seq < e.seq
        BY <2>2, <4>4, <4>5 DEF Topmost
      <4> QED
        BY <1>0, <3>1, <4>1, <4>6
    <3>3. e \in es
      BY <1>1, <1>2, <3>1, <3>2 DEF LightCovered
    <3>4. Topmost(es, e, p) /\ es \in SUBSET SliceDesc
      BY <1>0, <1>2, <2>2, <3>3 DEF Topmost
    <3> QED
      BY <1>0, <2>2, <3>4, VisibleTop
  <2> QED
    BY <2>1, <2>2, ListTopmost
<1> QED
  BY <1>1, <1>2

\* A merge shows what the slices it replaces showed.
LEMMA MergeShows ==
  ASSUME IInv, Snapshots, MergeCurrent, AnyStep, NEW c \in Compactors, Publishes(c), NEW p \in Units
  PROVE  VisibleAt(slices', blocks', p) = VisibleAt(slices, blocks, p)
<1>0. /\ slices \in SUBSET SliceDesc /\ cp[c].snap = slices /\ slices # {} /\ version \in Nat
  BY MergedAll DEF Publishes, IInv, TypeOK, BlocksBehind, SnapsKnown, Unpublished
<1>1. slices' = {MergedEntry(c)} /\ blocks' = blocks
  BY DEF Publishes
<1>2. /\ OccupiedEnd(slices) \in 1 .. ChunkLen /\ \A e \in slices : End(e) <= OccupiedEnd(slices)
  BY <1>0, OccupiedEndMax
<1>3. /\ MergedEntry(c) \in SliceDesc /\ MergedEntry(c).id = cp[c].id /\ MergedEntry(c).off = 0
      /\ Covers(MergedEntry(c), p) = (p < OccupiedEnd(slices))
  <2>1. cp[c].id \in SliceIds /\ 0 \in Units /\ p \in Nat
    BY ChunkAssumption DEF Publishes, Units
  <2> QED
    BY <1>0, <1>2, <2>1, ChunkAssumption DEF MergedEntry, SliceDesc, Covers, End
<1>4. ASSUME NEW es, es = {MergedEntry(c)}
      PROVE  VisibleAt(es, blocks, p) = VisibleAt(slices, blocks, p)
  <2>1. CASE p < OccupiedEnd(slices)
    <3>1. Topmost(es, MergedEntry(c), p) /\ es \in SUBSET SliceDesc
      BY <1>3, <1>4, <2>1 DEF Topmost
    <3>2. VisibleAt(es, blocks, p) = blocks[cp[c].id][p - 0]
      BY <1>3, <3>1, VisibleTop
    <3>3. blocks[cp[c].id][p] = VisibleAt(slices, blocks, p)
      BY <1>0, <2>1 DEF MergeCurrent, Publishes, Unpublished
    <3>4. p - 0 = p
      BY ChunkAssumption DEF Units
    <3> QED
      BY <3>2, <3>3, <3>4
  <2>2. CASE ~(p < OccupiedEnd(slices))
    <3>1. \A e \in es : ~Covers(e, p)
      BY <1>3, <1>4, <2>2
    <3>2. ASSUME NEW e \in slices PROVE ~Covers(e, p)
      <4>1. e.off \in Nat /\ e.len \in Nat /\ p \in Nat /\ End(e) <= OccupiedEnd(slices)
        BY <1>0, <1>2, ChunkAssumption DEF SliceDesc, Units
      <4> QED
        BY <1>2, <2>2, <4>1 DEF Covers, End
    <3> QED
      BY <3>1, <3>2, VisibleHole
  <2> QED
    BY <2>1, <2>2
<1> QED
  BY <1>1, <1>4

\* Blocks that come and go are not those of the list.
LEMMA QuietShows ==
  ASSUME IInv, Snapshots, AnyStep, slices' = slices, NEW p
  PROVE  VisibleAt(slices', blocks', p) = VisibleAt(slices, blocks, p)
<1>1. \A e \in slices : blocks'[e.id] = blocks[e.id]
  BY ListedBlocks
<1>2. slices \in SUBSET SliceDesc
  BY DEF IInv, TypeOK
<1>3. ASSUME NEW b1, b1 = blocks' PROVE VisibleAt(slices, b1, p) = VisibleAt(slices, blocks, p)
  BY <1>1, <1>2, <1>3, ListTopmost, VisibleSame
<1> QED
  BY <1>3

\* Every step is a step of ChunkContent, or shows nothing.
LEMMA ContentStep ==
  ASSUME JInv, AnyStep
  PROVE  [Content!Next]_<<Visible(slices, blocks), committed>>
<1> USE DEF JInv
<1>1. ASSUME NEW w \in Writers, Commits(w) PROVE Content!Next
  <2>1. /\ wr[w].id \in SliceIds /\ wr[w].off \in Content!Positions /\ wr[w].len \in 1 .. ChunkLen
        /\ wr[w].id \notin committed /\ committed' = committed \cup {wr[w].id}
    <3>1. wr[w] \in WriterState /\ wr[w].pc = "uploaded"
      BY <1>1 DEF IInv, TypeOK, Commits
    <3> QED
      BY <1>1, <3>1, PublishedUnderway, ChunkAssumption
      DEF WriterState, Commits, Shown, AppliedOnce, Content!Positions, Units
  <2>2. \A p \in Units : VisibleAt(slices', blocks', p) =
           IF wr[w].off <= p /\ p < wr[w].off + wr[w].len THEN wr[w].id
           ELSE VisibleAt(slices, blocks, p)
    BY <1>1, CommitShows
  <2>3. Content!Write(wr[w].id, wr[w].off, wr[w].len)
    BY <2>1, <2>2 DEF Content!Write, Content!Positions, Units, Visible
  <2> QED
    BY <2>1, <2>3 DEF Content!Next
<1>2. ASSUME NEW t \in Truncaters, Cuts(t) PROVE Content!Next
  <2>1. tr[t].cutoff \in Content!Positions /\ committed' = committed
    BY <1>2 DEF Cuts, Content!Positions, Units
  <2>2. \A p \in Units : VisibleAt(slices', blocks', p) =
           IF p < tr[t].cutoff THEN VisibleAt(slices, blocks, p) ELSE Hole
    BY <1>2, CutShows
  <2>3. Content!Truncate(tr[t].cutoff)
    BY <2>1, <2>2 DEF Content!Truncate, Content!Positions, Units, Visible, Hole
  <2> QED
    BY <2>1, <2>3 DEF Content!Next
<1>3. ASSUME \A p \in Units : VisibleAt(slices', blocks', p) = VisibleAt(slices, blocks, p),
             ~ \E w \in Writers : Commits(w)
      PROVE  UNCHANGED <<Visible(slices, blocks), committed>>
  BY <1>3, Frame DEF Visible
<1>4. ASSUME NEW c \in Compactors, Lightens(c) \/ Publishes(c)
      PROVE  \A p \in Units : VisibleAt(slices', blocks', p) = VisibleAt(slices, blocks, p)
  BY <1>4, LightShows, MergeShows DEF Shown
<1>5. ASSUME NEW g \in Collectors, Marks(g) PROVE slices' = slices
  BY <1>5 DEF Marks
<1>6. slices' = slices => \A p \in Units : VisibleAt(slices', blocks', p) = VisibleAt(slices, blocks, p)
  BY QuietShows
<1> QED
  BY <1>1, <1>2, <1>3, <1>4, <1>5, <1>6, Frame

----------------------------------------------------------------------------
(* The theorems. *)

\* The empty chunk satisfies the invariant.
LEMMA InitJInv == Init => JInv
<1> SUFFICES ASSUME Init PROVE JInv
  OBVIOUS
<1>1. IInv
  BY InitIInv
<1>2. IdleOwnsNothing
  BY DEF Init, IdleOwnsNothing, WriterIdle, CompactorIdle
<1>3. Apart
  BY DEF Init, Apart, Listed, Ids, CompactorIdle, CollectorIdle, Ending
<1>4. Exact
  BY DEF Init, Exact, FreshEmpty, WritersExact, MergesExact, NoBlocks, WriterIdle, CompactorIdle,
    Holding, Unpublished
<1>5. Snapshots
  BY DEF Init, Snapshots, Unique, CompactorIdle
<1>6. Passes
  BY DEF Init, Passes, DelayedKeys, DelayedPass, OrphanPass, CollectorIdle, Ending, Clearing
<1>7. Accounted
  BY DEF Init, Accounted, NoBlocks
<1>8. Shown
  BY DEF Init, Shown, LightCovered, MergeCurrent, AppliedOnce, CompactorIdle, WriterIdle, Light,
    Unpublished
<1> QED
  BY <1>1, <1>2, <1>3, <1>4, <1>5, <1>6, <1>7, <1>8 DEF JInv

\* Every step keeps it.
LEMMA NextJInv == JInv /\ [Next]_vars => JInv'
<1> SUFFICES ASSUME JInv, [Next]_vars PROVE JInv'
  OBVIOUS
<1>0. IInv /\ Exact /\ MergesExact /\ Passes /\ OrphanPass /\ Shown
  BY DEF JInv, Exact, Passes
<1>1. IInv' /\ TypeOK'
  BY <1>0, NextIInv DEF IInv
<1>2. AnyStep
  BY <1>0, StepIsOne
<1>3. IdleOwnsNothing' /\ Apart' /\ Exact' /\ Snapshots'
  BY <1>0, <1>1, <1>2, IdleStep, ApartStep, ExactStep, SnapshotsStep DEF JInv
<1>4. Passes'
  BY <1>0, <1>2, DelayedKeysStep, DelayedPassStep, OrphanPassStep DEF JInv, Passes
<1>5. Accounted'
  BY <1>0, <1>1, <1>2, AccountedStep DEF JInv
<1>6. Shown'
  BY <1>0, <1>1, <1>2, LightStep, MergeStep, AppliedStep DEF JInv, Shown
<1> QED
  BY <1>1, <1>3, <1>4, <1>5, <1>6 DEF JInv

\* Hence it holds of every reachable state.
LEMMA ContentInductive == Spec => []JInv
BY InitJInv, NextJInv, PTL DEF Spec

\* For any number of writers, truncaters, compactors and collectors, and any
\* chunk length: every object in the store belongs to a slice of the list, to
\* a ledger record that will delete it, or to a process at work on it, unless
\* its owner is known to have stopped without a record of it.
THEOREM NoLeak == Spec => []NoLeakedBlock
<1>1. JInv => NoLeakedBlock
  <2> SUFFICES ASSUME JInv, NEW s \in SliceIds, NEW u \in Units, blocks[s][u] # Absent
               PROVE  \/ s \in abandoned
                      \/ \E w \in Writers : wr[w].id = s
                      \/ \E c \in Compactors : cp[c].id = s
                      \/ \E e \in slices : e.id = s /\ u < Larger(e.len, physical[s])
                      \/ \E d \in delayed : d.sid = s /\ u < d.sz
                      \/ uncommitted[s].st # "none" /\ u < uncommitted[s].sz
    BY DEF NoLeakedBlock
  <2>1. Owned(s, u)
    BY DEF JInv, Accounted
  <2> QED
    BY <2>1 DEF Owned, Held
<1> QED
  BY <1>1, ContentInductive, PTL

\* Readers of the chunk see the content that the writes, each applied once,
\* and the truncations alone produce: compaction and collection, however they
\* interleave and whatever stops half-way, implement the chunk that has
\* neither (ChunkContent).
THEOREM ContentRefined == Spec => ContentSpec
<1>1. Init => Content!Init
  <2> SUFFICES ASSUME Init PROVE Content!Init
    OBVIOUS
  <2>1. \A p \in Units : VisibleAt(slices, blocks, p) = Hole
    BY VisibleHole DEF Init
  <2> QED
    BY <2>1 DEF Init, Content!Init, Content!Positions, Units, Visible, Hole
<1>2. JInv /\ [Next]_vars => [Content!Next]_<<Visible(slices, blocks), committed>>
  <2> SUFFICES ASSUME JInv, [Next]_vars
               PROVE  [Content!Next]_<<Visible(slices, blocks), committed>>
    OBVIOUS
  <2>1. AnyStep
    BY StepIsOne DEF JInv, Exact, Passes
  <2> QED
    BY <2>1, ContentStep
<1> QED
  BY <1>1, <1>2, ContentInductive, PTL DEF Spec, ContentSpec, Content!Spec
=============================================================================
