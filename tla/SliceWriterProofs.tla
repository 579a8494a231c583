------------------------- MODULE SliceWriterProofs -------------------------
(***************************************************************************)
(* Proofs about SliceWriter, for any number of writes, flushes,            *)
(* truncations, commit tasks, retries and faults.                          *)
(***************************************************************************)
EXTENDS SliceWriter, FiniteSetTheorems, SequenceTheorems, TLAPS

----------------------------------------------------------------------------
(* The inductive invariant.                                                *)

States == {"none", "Writable", "Readonly", "Uploaded", "Failed", "Committed"}
Uploads == {"none", "id", "put", "try", "front", "write"}
TaskPcs == {"none", "top", "empty", "look", "stalled", "write", "move", "pop"}
FlushPcs == {"none", "begin", "freeze", "wait", "release", "done", "clear", "bump"}

SliceType == [state : States, frozen_epoch : 0 .. MaxCalls, meta_write_started : BOOLEAN,
              upload : Uploads, attempts : 0 .. MaxRetries]
ChunkType == [present : BOOLEAN, deque : Seq(Slices), recent : SUBSET Slices,
              commit_started : BOOLEAN]
TaskType == [pc : TaskPcs, slice : Slices \cup {NoSlice}, failures : 0 .. MaxRetries]
FlushType == [pc : FlushPcs, slices : SUBSET Slices, gen : Nat, known : SUBSET Slices,
              ok : BOOLEAN]
SharedType == [order : 0 .. MaxWrites, write_gen : Nat, last_flushed_gen : Nat,
               error : BOOLEAN, flush_waiting : 0 .. 2, parked : Slices \cup {NoSlice},
               woken : {"no", "waiting", "woken"}, epoch : 0 .. MaxCalls,
               lock : {"free", "write", "truncate"}, faults : Nat]
HistType == [acked : SUBSET Slices, before : [Slices -> SUBSET Slices],
             flushed : SUBSET Slices, calls : 0 .. MaxCalls, cut : SUBSET Slices,
             concurrent : SUBSET Slices, evicted : SUBSET Slices, late : SUBSET Slices,
             again : SUBSET Slices]

\* Every variable is a record, or a function to records, of its kind.
Records ==
  /\ slices \in [Slices -> SliceType]
  /\ chunk \in ChunkType
  /\ tasks \in [Tasks -> TaskType]
  /\ flushes \in [FlushCallers -> FlushType]
  /\ shared \in SharedType
  /\ meta \in Seq(Slices)
  /\ hist \in HistType

\* The epoch moves once per truncation, at its end.
EpochBound == shared.epoch + (IF flushes["truncate"].pc = "none" THEN 0 ELSE 1) <= hist.calls

\* Callers between the start and the end of the flush gate.
InGate(c) == IF flushes[c].pc \in {"freeze", "wait", "release"} THEN 1 ELSE 0
GateCounts == shared.flush_waiting = InGate("fsync") + InGate("truncate")

\* The slices that a write was acknowledged for, and who may name them.
Known(S) == S \subseteq hist.acked
Naming ==
  /\ \A s \in hist.acked : s <= shared.order
  /\ shared.parked # NoSlice => shared.parked <= shared.order /\ shared.parked \notin hist.acked
  /\ \A s \in Slices \ hist.acked : slices[s] = NewSlice
  /\ \A s \in Slices : Known(hist.before[s]) /\ \A r \in hist.before[s] : r < s
  /\ Known(ToSet(chunk.deque))
  /\ Known(ToSet(meta))
  /\ \A t \in Tasks : tasks[t].pc \in {"look", "stalled", "write"} => tasks[t].slice \in hist.acked
  /\ \A c \in FlushCallers : Known(flushes[c].slices) /\ Known(flushes[c].known)

\* The deque is in the order of the writes.
Sorted == \A i, j \in DOMAIN chunk.deque : i < j => chunk.deque[i] < chunk.deque[j]

\* State, upload task and claim of a slice agree.
SliceShape(s) ==
  /\ slices[s].state \in {"none", "Writable"} =>
        slices[s].upload = "none" /\ ~ slices[s].meta_write_started
  /\ slices[s].state = "Readonly" => slices[s].upload \in {"id", "put"}
  /\ slices[s].upload \in {"id", "put"} =>
        slices[s].state \in {"Readonly", "Failed"} /\ ~ slices[s].meta_write_started

\* One task at most writes a slice, and it has the claim.
Writes(t, s) == tasks[t].pc = "write" /\ tasks[t].slice = s
Claims(s) ==
  /\ Writing(s) => slices[s].meta_write_started
  /\ \A t \in Tasks : Writes(t, s) =>
        /\ slices[s].upload \notin {"front", "write"}
        /\ \A u \in Tasks : Writes(u, s) => u = t

\* Nobody will write the slice's metadata again.
Sealed(s) ==
  /\ slices[s].state \in {"Committed", "Failed"}
  /\ slices[s].upload \in {"none", "try"}
  /\ ~ Writing(s)
Settled(s) == Sealed(s) \/ s \in hist.evicted \/ s \in hist.late

\* A flush may count the slice.
Done(s) == s \in ToSet(meta) \/ s \in hist.concurrent \/ s \in hist.evicted
Kept(s) == Settled(s) /\ (Done(s) \/ shared.error)
Safe(s) == Settled(s) /\ Done(s)

Ends(s) ==
  /\ slices[s].state \in {"Committed", "Failed"} => Sealed(s) \/ s \in hist.late
  /\ slices[s].state = "Committed" => Done(s)
  /\ slices[s].state = "Failed" => shared.error
  /\ Stale(s) => s \in hist.concurrent

\* A slice that has left the deque is kept.
Held(s) == s \in hist.acked => s \in ToSet(chunk.deque) \/ Kept(s)

\* What is published was published once, behind all its caller knew of.
Behind(s) == \A r \in hist.before[s] : Settled(r)
Published(s) ==
  /\ s \in ToSet(meta) /\ s \notin hist.again => slices[s].meta_write_started /\ ~ Writing(s)
  /\ s \in ToSet(meta) \/ slices[s].upload = "write" => Behind(s)
  /\ s \in hist.cut => Sealed(s) \/ s \in hist.evicted
Fronted == \A t \in Tasks : tasks[t].pc \in {"look", "stalled", "write"} => Behind(tasks[t].slice)

\* What a flush has made sure of, at each of its steps.
FlushSound(c) ==
  LET f == flushes[c] IN
  /\ f.gen <= shared.write_gen
  /\ f.pc = "wait" =>
        /\ \A s \in f.known : s \in f.slices \/ Kept(s)
        /\ shared.write_gen = f.gen => \A s \in hist.acked : s \in f.slices \/ Kept(s)
  /\ f.pc \in {"release", "done", "clear", "bump"} /\ f.ok => \A s \in f.known : Safe(s)
  /\ f.pc = "release" /\ f.ok /\ shared.write_gen = f.gen => \A s \in hist.acked : Safe(s)
Flushed ==
  /\ shared.last_flushed_gen <= shared.write_gen
  /\ shared.write_gen = shared.last_flushed_gen => \A s \in hist.acked : Safe(s)
  /\ \A s \in hist.flushed : Done(s)

\* The entry of the map has a task as long as it says so.
Tended ==
  /\ ~ chunk.present => chunk = Absent
  /\ chunk.deque # <<>> => chunk.commit_started
  /\ chunk.commit_started => \E t \in Tasks : tasks[t].pc # "none"

IInv ==
  /\ Records /\ EpochBound /\ GateCounts
  /\ Naming /\ Sorted
  /\ \A s \in Slices : SliceShape(s) /\ Claims(s) /\ Ends(s) /\ Held(s) /\ Published(s)
  /\ Fronted
  /\ PublishedInOrder /\ PublishedOnce /\ TruncatedStaysGone
  /\ \A c \in FlushCallers : FlushSound(c)
  /\ Flushed
  /\ Tended

----------------------------------------------------------------------------
(* Sequences.                                                              *)

\* An empty sequence has no members.
LEMMA NoMembers == ToSet(<<>>) = {}
BY DEF ToSet

\* Appending adds one member, at the end.
LEMMA AppendMembers ==
  ASSUME NEW d \in Seq(Slices), NEW s \in Slices
  PROVE  /\ Append(d, s) \in Seq(Slices)
         /\ ToSet(Append(d, s)) = ToSet(d) \cup {s}
         /\ DOMAIN Append(d, s) = 1 .. Len(d) + 1
         /\ DOMAIN d = 1 .. Len(d) /\ Len(d) \in Nat
         /\ \A i \in 1 .. Len(d) : Append(d, s)[i] = d[i]
         /\ Append(d, s)[Len(d) + 1] = s
<1>1. /\ Append(d, s) \in Seq(Slices)
      /\ DOMAIN Append(d, s) = 1 .. Len(d) + 1
      /\ DOMAIN d = 1 .. Len(d) /\ Len(d) \in Nat
      /\ \A i \in 1 .. Len(d) : Append(d, s)[i] = d[i]
      /\ Append(d, s)[Len(d) + 1] = s
  OBVIOUS
<1>2. ToSet(Append(d, s)) = ToSet(d) \cup {s}
  <2>1. ASSUME NEW x \in ToSet(Append(d, s)) PROVE x \in ToSet(d) \cup {s}
    BY <1>1, <2>1 DEF ToSet
  <2>2. ASSUME NEW x \in ToSet(d) PROVE x \in ToSet(Append(d, s))
    <3>1. PICK i \in 1 .. Len(d) : x = d[i]
      BY <1>1 DEF ToSet
    <3>2. i \in 1 .. Len(d) + 1 /\ Append(d, s)[i] = x
      BY <1>1, <3>1
    <3> QED BY <1>1, <3>2 DEF ToSet
  <2>3. s \in ToSet(Append(d, s))
    <3>1. Len(d) + 1 \in 1 .. Len(d) + 1
      BY <1>1
    <3> QED BY <1>1, <3>1 DEF ToSet
  <2> QED BY <2>1, <2>2, <2>3
<1> QED BY <1>1, <1>2

\* The first member and the others.
LEMMA FrontMembers ==
  ASSUME NEW d \in Seq(Slices), d # <<>>
  PROVE  /\ Head(d) \in Slices /\ Tail(d) \in Seq(Slices)
         /\ ToSet(d) = {Head(d)} \cup ToSet(Tail(d))
         /\ DOMAIN d = 1 .. Len(d) /\ DOMAIN Tail(d) = 1 .. Len(d) - 1
         /\ Len(d) \in Nat /\ Len(d) >= 1 /\ Head(d) = d[1]
         /\ \A i \in 1 .. Len(d) - 1 : Tail(d)[i] = d[i + 1]
<1>1. /\ Tail(d) \in Seq(Slices)
      /\ DOMAIN d = 1 .. Len(d) /\ DOMAIN Tail(d) = 1 .. Len(d) - 1
      /\ Len(d) \in Nat /\ Len(d) >= 1 /\ Head(d) = d[1]
      /\ \A i \in 1 .. Len(d) - 1 : Tail(d)[i] = d[i + 1]
  OBVIOUS
<1>2. Head(d) \in Slices
  BY <1>1
<1>3. ASSUME NEW x \in ToSet(d) PROVE x \in {Head(d)} \cup ToSet(Tail(d))
  <2>1. PICK i \in 1 .. Len(d) : x = d[i]
    BY <1>1 DEF ToSet
  <2>2. CASE i = 1
    BY <1>1, <2>1, <2>2
  <2>3. CASE i # 1
    <3>1. i - 1 \in 1 .. Len(d) - 1 /\ Tail(d)[i - 1] = x
      BY <1>1, <2>1, <2>3
    <3> QED BY <1>1, <3>1 DEF ToSet
  <2> QED BY <2>2, <2>3
<1>4. ASSUME NEW x \in ToSet(Tail(d)) PROVE x \in ToSet(d)
  <2>1. PICK i \in 1 .. Len(d) - 1 : x = Tail(d)[i]
    BY <1>1 DEF ToSet
  <2>2. i + 1 \in 1 .. Len(d) /\ d[i + 1] = x
    BY <1>1, <2>1
  <2> QED BY <1>1, <2>2 DEF ToSet
<1>5. Head(d) \in ToSet(d)
  <2>1. 1 \in 1 .. Len(d)
    BY <1>1
  <2> QED BY <1>1, <2>1 DEF ToSet
<1> QED BY <1>1, <1>2, <1>3, <1>4, <1>5

\* In a sorted sequence the places of the members below s are the first ones.
LEMMA PlacesBelow ==
  ASSUME NEW d \in Seq(Slices), NEW s \in Slices,
         \A i, j \in DOMAIN d : i < j => d[i] < d[j],
         NEW at, at = Cardinality({i \in DOMAIN d : d[i] < s})
  PROVE  /\ at \in 0 .. Len(d)
         /\ \A i \in 1 .. at : d[i] < s
         /\ \A i \in at + 1 .. Len(d) : ~ (d[i] < s)
<1> DEFINE B == {i \in DOMAIN d : d[i] < s}
<1>0. PICK n \in Nat : n = Len(d)
  OBVIOUS
<1>1. s \in Nat /\ DOMAIN d = 1 .. n /\ \A i \in 1 .. n : d[i] \in Nat
  BY <1>0, SliceWriterAssumption DEF Slices
<1>2. IsFiniteSet(1 .. n) /\ Cardinality(1 .. n) = n
  <2>1. IsFiniteSet(1 .. n) /\ Cardinality(1 .. n) = IF 1 > n THEN 0 ELSE n - 1 + 1
    BY ONLY n \in Nat, FS_Interval
  <2> QED BY ONLY n \in Nat, <2>1
<1>3. B \subseteq 1 .. n
  BY <1>1
<1>4. IsFiniteSet(B) /\ at \in Nat /\ at <= n
  BY <1>2, <1>3, FS_Subset, FS_CardinalityType
<1>5. ASSUME NEW i \in B PROVE i <= at
  <2>1. 1 .. i \subseteq B
    <3>1. ASSUME NEW j \in 1 .. i PROVE j \in B
      <4>1. i \in 1 .. n /\ d[i] < s /\ j \in 1 .. n
        BY <1>1, <1>5, <3>1
      <4>2. CASE j = i
        BY <1>5, <4>2
      <4>3. CASE j # i
        <5>1. d[j] < d[i]
          BY <1>1, <4>1, <4>3, <3>1
        <5>2. d[j] < s
          BY <1>1, <4>1, <5>1 DEF Slices
        <5> QED BY <1>1, <4>1, <5>2
      <4> QED BY <4>2, <4>3
    <3> QED BY <3>1
  <2>2. i \in Nat /\ IsFiniteSet(1 .. i) /\ Cardinality(1 .. i) = i
    <3>1. i \in 1 .. n
      BY <1>3, <1>5
    <3>2. i \in Nat /\ 1 \in Int /\ i \in Int
      BY <1>1, <3>1
    <3> QED BY <1>1, <3>1, <3>2, FS_Interval
  <2> QED BY <1>4, <2>1, <2>2, FS_Subset
<1>6. B = 1 .. at
  <2>1. B \subseteq 1 .. at
    BY <1>1, <1>3, <1>5
  <2>2. IsFiniteSet(1 .. at) /\ Cardinality(1 .. at) = at
    BY <1>4, FS_Interval
  <2> QED BY <2>1, <2>2, FS_Subset
<1> HIDE DEF B
<1>7. \A i \in 1 .. n : i \in B <=> d[i] < s
  BY <1>1 DEF B
<1>8. \A i \in 1 .. at : d[i] < s
  BY ONLY <1>1, <1>4, <1>6, <1>7
<1>9. \A i \in at + 1 .. n : ~ (d[i] < s)
  BY ONLY <1>1, <1>4, <1>6, <1>7
<1> QED BY <1>0, <1>1, <1>4, <1>8, <1>9

\* A slice that is not there yet is put where its number says.
LEMMA Inserted ==
  ASSUME NEW d \in Seq(Slices), NEW s \in Slices, s \notin ToSet(d),
         \A i, j \in DOMAIN d : i < j => d[i] < d[j],
         NEW at, at = Cardinality({i \in DOMAIN d : d[i] < s}),
         NEW e, e = SubSeq(d, 1, at) \o <<s>> \o SubSeq(d, at + 1, Len(d))
  PROVE  /\ e \in Seq(Slices) /\ e # <<>>
         /\ ToSet(e) = ToSet(d) \cup {s}
         /\ \A i, j \in DOMAIN e : i < j => e[i] < e[j]
<1>0. PICK n \in Nat : n = Len(d)
  OBVIOUS
<1>1. s \in Nat /\ DOMAIN d = 1 .. n /\ \A i \in 1 .. n : d[i] \in Nat /\ d[i] \in Slices
  BY ONLY <1>0, SliceWriterAssumption, d \in Seq(Slices), s \in Slices DEF Slices
<1>2. /\ at \in 0 .. n
      /\ \A i \in 1 .. at : d[i] < s
      /\ \A i \in at + 1 .. n : ~ (d[i] < s)
  BY <1>0, PlacesBelow
<1>3. \A i \in at + 1 .. n : s < d[i]
  <2>1. ASSUME NEW i \in at + 1 .. n PROVE s < d[i]
    <3>1. i \in 1 .. n /\ d[i] # s
      BY ONLY <1>0, <1>1, <1>2, s \notin ToSet(d), i \in at + 1 .. n DEF ToSet
    <3> QED BY ONLY <1>0, <1>1, <1>2, <3>1, i \in at + 1 .. n
  <2> QED BY <2>1
<1>4. /\ e \in Seq(Slices) /\ Len(e) = n + 1
      /\ \A i \in 1 .. at : e[i] = d[i]
      /\ e[at + 1] = s
      /\ \A i \in at + 2 .. n + 1 : e[i] = d[i - 1]
  <2>1. PICK lo : lo = SubSeq(d, 1, at)
    OBVIOUS
  <2>2. PICK hi : hi = SubSeq(d, at + 1, n)
    OBVIOUS
  <2>3. lo \in Seq(Slices) /\ Len(lo) = at /\ \A i \in 1 .. at : lo[i] = d[i]
    BY ONLY <1>0, <1>2, d \in Seq(Slices), <2>1
  <2>4. hi \in Seq(Slices) /\ Len(hi) = n - at /\ \A i \in 1 .. n - at : hi[i] = d[at + i]
    BY ONLY <1>0, <1>2, d \in Seq(Slices), <2>2
  <2>5. PICK m : m = lo \o <<s>>
    OBVIOUS
  <2>6. m \in Seq(Slices) /\ Len(m) = at + 1 /\ m[at + 1] = s /\ \A i \in 1 .. at : m[i] = d[i]
    <3>1. m \in Seq(Slices) /\ Len(m) = Len(lo) + 1
      BY ONLY <2>3, <2>5, s \in Slices
    <3>2. \A i \in 1 .. Len(m) : m[i] = IF i <= Len(lo) THEN lo[i] ELSE <<s>>[i - Len(lo)]
      BY ONLY <2>3, <2>5, s \in Slices
    <3>3. Len(m) = at + 1 /\ at + 1 \in 1 .. at + 1 /\ ~ (at + 1 <= at) /\ (at + 1) - at = 1
      BY ONLY <2>3, <3>1, <1>0, <1>2
    <3>4. m[at + 1] = <<s>>[1]
      BY ONLY <2>3, <3>2, <3>3
    <3>5. ASSUME NEW i \in 1 .. at PROVE m[i] = d[i]
      <4>1. i \in 1 .. at + 1 /\ i <= at
        BY ONLY i \in 1 .. at, <1>0, <1>2
      <4> QED BY ONLY <2>3, <3>2, <3>3, <4>1, i \in 1 .. at
    <3> QED BY <3>1, <3>3, <3>4, <3>5
  <2>7. e = m \o hi
    BY <1>0, <2>1, <2>2, <2>5
  <2>0. m \in Seq(Slices) /\ hi \in Seq(Slices)
    BY <2>4, <2>6
  <2>8. e \in Seq(Slices) /\ Len(e) = n + 1
    <3>1. e \in Seq(Slices) /\ Len(e) = Len(m) + Len(hi)
      BY ONLY <2>0, <2>7
    <3> QED BY ONLY <2>4, <2>6, <3>1, <1>0, <1>2
  <2>9. (\A i \in 1 .. at : e[i] = d[i]) /\ e[at + 1] = s
    BY ONLY <2>4, <2>6, <2>7, <1>0, <1>2
  <2>10. ASSUME NEW i \in at + 2 .. n + 1 PROVE e[i] = d[i - 1]
    <3>1. i - (at + 1) \in 1 .. n - at /\ e[i] = hi[i - (at + 1)] /\ at + (i - (at + 1)) = i - 1
      BY ONLY <2>4, <2>6, <2>7, <1>0, <1>2, i \in at + 2 .. n + 1
    <3>2. hi[i - (at + 1)] = d[at + (i - (at + 1))]
      BY ONLY <2>4, <3>1
    <3> QED BY ONLY <3>1, <3>2
  <2> QED BY ONLY <2>8, <2>9, <2>10
<1>10. DOMAIN e = 1 .. n + 1
  BY ONLY <1>0, <1>4
<1>11. \A i \in 1 .. at : e[i] = d[i]
  BY ONLY <1>4
<1>12. e[at + 1] = s
  BY ONLY <1>4
<1>13. \A i \in at + 2 .. n + 1 : e[i] = d[i - 1]
  BY ONLY <1>4
<1>h. \A i, j \in 1 .. n : i < j => d[i] < d[j]
  BY ONLY <1>1, \A i, j \in DOMAIN d : i < j => d[i] < d[j]
<1>14. ToSet(e) = ToSet(d) \cup {s}
  <2>1. ASSUME NEW x \in ToSet(e) PROVE x \in ToSet(d) \cup {s}
    <3>1. PICK i \in 1 .. n + 1 : x = e[i]
      BY ONLY <1>0, <1>10, <2>1 DEF ToSet
    <3>2. CASE i \in 1 .. at
      BY ONLY <1>0, <1>1, <1>2, <1>11, <3>1, <3>2 DEF ToSet
    <3>3. CASE i = at + 1
      BY ONLY <1>0, <1>12, <3>1, <3>3
    <3>4. CASE i \in at + 2 .. n + 1
      <4>1. i - 1 \in 1 .. n /\ x = d[i - 1]
        BY ONLY <1>0, <1>1, <1>2, <1>13, <3>1, <3>4
      <4> QED BY ONLY <1>0, <1>1, <4>1 DEF ToSet
    <3> QED BY ONLY <1>0, <1>1, <1>2, <3>2, <3>3, <3>4
  <2>2. ASSUME NEW x \in ToSet(d) PROVE x \in ToSet(e)
    <3>1. PICK i \in 1 .. n : x = d[i]
      BY ONLY <1>0, <1>1 DEF ToSet
    <3>2. CASE i \in 1 .. at
      BY ONLY <1>0, <1>1, <1>2, <1>10, <1>11, <3>1, <3>2 DEF ToSet
    <3>3. CASE i \in at + 1 .. n
      <4>1. i + 1 \in at + 2 .. n + 1 /\ i + 1 \in 1 .. n + 1
        BY ONLY <1>0, <1>1, <1>2, <3>3
      <4>2. e[i + 1] = d[(i + 1) - 1] /\ (i + 1) - 1 = i
        BY ONLY <1>0, <1>1, <1>13, <4>1
      <4> QED BY ONLY <1>0, <1>10, <3>1, <4>1, <4>2 DEF ToSet
    <3> QED BY ONLY <1>0, <1>1, <1>2, <3>2, <3>3
  <2>3. s \in ToSet(e)
    <3>1. at + 1 \in 1 .. n + 1
      BY ONLY <1>0, <1>1, <1>2
    <3> QED BY ONLY <1>0, <1>10, <1>12, <3>1 DEF ToSet
  <2> QED BY ONLY <1>0, <2>1, <2>2, <2>3
<1>15. ASSUME NEW i \in 1 .. n + 1, NEW j \in 1 .. n + 1, i < j PROVE e[i] < e[j]
  <2>0. s \in Nat /\ at \in Nat
    BY ONLY <1>0, <1>1, <1>2 DEF Slices
  <2>1. CASE j <= at
    <3>1. i \in 1 .. at /\ j \in 1 .. at /\ i \in 1 .. n /\ j \in 1 .. n
      BY ONLY <1>0, <1>1, <1>2, <1>15, <2>1
    <3> QED BY ONLY <1>0, <1>1, <1>h, <1>11, <1>15, <3>1
  <2>2. CASE j = at + 1
    <3>1. i \in 1 .. at
      BY ONLY <1>0, <1>15, <2>0, <2>2
    <3> QED BY ONLY <1>0, <1>2, <1>11, <1>12, <2>2, <3>1
  <2>3. CASE i = at + 1
    <3>1. j \in at + 2 .. n + 1 /\ j - 1 \in at + 1 .. n
      BY ONLY <1>0, <1>1, <1>15, <2>0, <2>3
    <3> QED BY ONLY <1>0, <1>3, <1>12, <1>13, <2>3, <3>1
  <2>4. CASE i <= at /\ j >= at + 2
    <3>1. i \in 1 .. at /\ j \in at + 2 .. n + 1 /\ i \in 1 .. n /\ j - 1 \in 1 .. n /\ i < j - 1
      BY ONLY <1>0, <1>1, <1>2, <1>15, <2>0, <2>4
    <3> QED BY ONLY <1>0, <1>1, <1>11, <1>13, <1>h, <3>1
  <2>5. CASE i >= at + 2
    <3>1. i \in at + 2 .. n + 1 /\ j \in at + 2 .. n + 1 /\ i - 1 \in 1 .. n /\ j - 1 \in 1 .. n
          /\ i - 1 < j - 1
      BY ONLY <1>0, <1>1, <1>2, <1>15, <2>0, <2>5
    <3> QED BY ONLY <1>0, <1>1, <1>13, <1>h, <3>1
  <2> QED BY ONLY <1>0, <1>1, <1>15, <2>0, <2>1, <2>2, <2>3, <2>4, <2>5
<1>16. e # <<>>
  BY ONLY <1>0, <1>4
<1> QED BY ONLY <1>4, <1>10, <1>14, <1>15, <1>16

\* The same, for the deque Place makes.
PlacedAt(d, s) ==
  LET at == Cardinality({i \in DOMAIN d : d[i] < s})
  IN  SubSeq(d, 1, at) \o <<s>> \o SubSeq(d, at + 1, Len(d))

\* What Inserted says of it.
LEMMA Placed ==
  ASSUME NEW d \in Seq(Slices), NEW s \in Slices, s \notin ToSet(d),
         \A i, j \in DOMAIN d : i < j => d[i] < d[j],
         NEW e, e = PlacedAt(d, s)
  PROVE  /\ e \in Seq(Slices) /\ e # <<>>
         /\ ToSet(e) = ToSet(d) \cup {s}
         /\ \A i, j \in DOMAIN e : i < j => e[i] < e[j]
<1> DEFINE at == Cardinality({i \in DOMAIN d : d[i] < s})
<1>1. e = SubSeq(d, 1, at) \o <<s>> \o SubSeq(d, at + 1, Len(d))
  BY DEF PlacedAt
<1> QED BY <1>1, Inserted

----------------------------------------------------------------------------
(* What every step keeps.                                                  *)

\* Nothing that is settled or done becomes unsettled or undone.
Steady ==
  /\ hist.acked \subseteq hist'.acked
  /\ hist.evicted \subseteq hist'.evicted
  /\ hist.late \subseteq hist'.late
  /\ shared.error => shared'.error
  /\ \A s \in Slices : (Sealed(s) => Sealed(s)') /\ (Done(s) => Done(s)')

\* So what is settled, kept or safe stays so.
LEMMA Carried ==
  ASSUME Steady, NEW s \in Slices
  PROVE  /\ Settled(s) => Settled(s)'
         /\ Kept(s) => Kept(s)'
         /\ Safe(s) => Safe(s)'
<1>1. (Sealed(s) => Sealed(s)') /\ (Done(s) => Done(s)') /\ (shared.error => shared'.error)
  BY DEF Steady
<1>2. (s \in hist.evicted => s \in hist'.evicted) /\ (s \in hist.late => s \in hist'.late)
  BY DEF Steady
<1>3. Settled(s) => Settled(s)'
  BY <1>1, <1>2 DEF Settled
<1> QED BY <1>1, <1>3 DEF Kept, Safe

\* Steps of upload and commit tasks leave the callers' side of the history and
\* of the shared state alone.
HistLight ==
  /\ hist'.acked = hist.acked /\ hist'.before = hist.before /\ hist'.flushed = hist.flushed
  /\ hist'.calls = hist.calls /\ hist'.cut = hist.cut /\ hist'.concurrent = hist.concurrent
  /\ hist.evicted \subseteq hist'.evicted /\ hist.late \subseteq hist'.late
  /\ hist.again \subseteq hist'.again
SharedLight ==
  /\ shared'.order = shared.order /\ shared'.write_gen = shared.write_gen
  /\ shared'.last_flushed_gen = shared.last_flushed_gen
  /\ shared'.flush_waiting = shared.flush_waiting
  /\ shared'.parked = shared.parked /\ shared'.epoch = shared.epoch
  /\ shared.error => shared'.error

\* Leaving them alone altogether is one way to do so.
LEMMA UnchangedLight ==
  /\ UNCHANGED hist => HistLight
  /\ UNCHANGED shared => SharedLight
BY DEF HistLight, SharedLight

\* The list stays, or grows by a slice that somebody writes and that has
\* nothing unsettled before it.
Listing ==
  \/ meta' = meta
  \/ \E s \in hist.acked : meta' = Append(meta, s) /\ Writing(s) /\ Behind(s)

\* The list loses nothing.
LEMMA ListingGrows ==
  ASSUME Records, Listing, NEW r, r \in ToSet(meta)
  PROVE  r \in ToSet(meta')
<1>1. CASE meta' = meta
  BY <1>1
<1>2. CASE \E s \in hist.acked : meta' = Append(meta, s)
  <2>1. PICK s \in hist.acked : meta' = Append(meta, s)
    BY <1>2
  <2>2. s \in Slices /\ meta \in Seq(Slices)
    BY <2>1 DEF Records, HistType
  <2> QED BY <2>1, <2>2, AppendMembers
<1> QED BY <1>1, <1>2 DEF Listing

\* Such a step is steady if it unseals nothing.
LEMMA LightSteady ==
  ASSUME Records, HistLight, SharedLight, Listing,
         \A s \in Slices : Sealed(s) => Sealed(s)'
  PROVE  Steady
<1>1. ASSUME NEW s \in Slices, Done(s) PROVE Done(s)'
  <2>1. CASE s \in ToSet(meta)
    BY <2>1, ListingGrows DEF Done
  <2>2. CASE s \in hist.concurrent \/ s \in hist.evicted
    BY <2>2 DEF Done, HistLight
  <2> QED BY <1>1, <2>1, <2>2 DEF Done
<1> QED BY <1>1 DEF Steady, HistLight, SharedLight

\* What is before a slice stays behind it.
LEMMA BehindCarried ==
  ASSUME Records, Steady, NEW s \in Slices, hist'.before[s] = hist.before[s], Behind(s)
  PROVE  Behind(s)'
<1>1. ASSUME NEW r \in hist.before[s] PROVE Settled(r)'
  <2>1. r \in Slices
    BY <1>1 DEF Records, HistType
  <2> QED BY <1>1, <2>1, Carried DEF Behind
<1> QED BY <1>1 DEF Behind

\* The list stays in order and has nothing twice.
LEMMA ListingSound ==
  ASSUME Records, Listing, Naming, HistLight, PublishedInOrder, PublishedOnce, TruncatedStaysGone,
         \A s \in Slices : Published(s)
  PROVE  PublishedInOrder' /\ PublishedOnce' /\ TruncatedStaysGone'
<1>0. /\ hist'.before = hist.before
      /\ hist.evicted \subseteq hist'.evicted /\ hist.late \subseteq hist'.late
      /\ hist.again \subseteq hist'.again /\ hist'.cut = hist.cut
  BY DEF HistLight
<1>1. CASE meta' = meta
  BY <1>0, <1>1 DEF PublishedInOrder, PublishedOnce, TruncatedStaysGone
<1>2. CASE \E s \in hist.acked : meta' = Append(meta, s) /\ Writing(s) /\ Behind(s)
  <2>1. PICK s \in hist.acked : meta' = Append(meta, s) /\ Writing(s) /\ Behind(s)
    BY <1>2
  <2>2. s \in Slices /\ meta \in Seq(Slices)
    BY <2>1 DEF Records, HistType
  <2>3. /\ DOMAIN meta' = 1 .. Len(meta) + 1
        /\ DOMAIN meta = 1 .. Len(meta) /\ Len(meta) \in Nat
        /\ \A i \in 1 .. Len(meta) : meta'[i] = meta[i]
        /\ meta'[Len(meta) + 1] = s
    BY <2>1, <2>2, AppendMembers
  <2>4. \A i \in 1 .. Len(meta) : meta[i] \in ToSet(meta) /\ meta[i] \in Slices
    BY <2>2, <2>3 DEF ToSet
  <2>5. ASSUME NEW i \in 1 .. Len(meta), s \in hist.before[meta[i]]
        PROVE  s \in hist.evicted \cup hist.late
    <3>1. Settled(s)
      BY <2>4, <2>5 DEF Published, Behind
    <3> QED BY <2>1, <3>1 DEF Settled, Sealed
  <2>6. ASSUME NEW i \in 1 .. Len(meta), s = meta[i] PROVE s \in hist.again
    BY <2>1, <2>4, <2>6 DEF Published
  <2>7. ASSUME NEW i \in DOMAIN meta', NEW j \in DOMAIN meta', i < j
        PROVE  meta'[j] \notin hist'.before[meta'[i]] \ (hist'.evicted \cup hist'.late)
    <3>1. i \in 1 .. Len(meta) /\ meta'[i] = meta[i]
      BY <2>3, <2>7
    <3>2. CASE j = Len(meta) + 1
      BY <1>0, <2>3, <2>5, <3>1, <3>2
    <3>3. CASE j # Len(meta) + 1
      <4>1. j \in 1 .. Len(meta) /\ meta'[j] = meta[j]
        BY <2>3, <2>7, <3>3
      <4>2. meta[j] \notin hist.before[meta[i]] \ (hist.evicted \cup hist.late)
        BY <2>3, <2>7, <3>1, <4>1 DEF PublishedInOrder
      <4> QED BY <1>0, <3>1, <4>1, <4>2
    <3> QED BY <3>2, <3>3
  <2>8. ASSUME NEW i \in DOMAIN meta', NEW j \in DOMAIN meta', i # j, meta'[i] = meta'[j]
        PROVE  meta'[i] \in hist'.again
    <3>1. CASE i = Len(meta) + 1 \/ j = Len(meta) + 1
      <4>1. PICK k \in 1 .. Len(meta) : meta'[i] = s /\ s = meta[k]
        BY <2>3, <2>8, <3>1
      <4> QED BY <1>0, <2>6, <4>1
    <3>2. CASE i # Len(meta) + 1 /\ j # Len(meta) + 1
      <4>1. i \in 1 .. Len(meta) /\ j \in 1 .. Len(meta) /\ meta[i] = meta[j] /\ meta'[i] = meta[i]
        BY <2>3, <2>8, <3>2
      <4>2. meta[i] \in hist.again
        BY <2>3, <2>8, <4>1 DEF PublishedOnce
      <4> QED BY <1>0, <4>1, <4>2
    <3> QED BY <3>1, <3>2
  <2>9. TruncatedStaysGone'
    <3>1. ToSet(meta') = ToSet(meta) \cup {s}
      BY <2>1, <2>2, AppendMembers
    <3>2. s \in hist.cut => s \in hist.evicted
      BY <2>1, <2>2 DEF Published, Sealed
    <3> QED BY <1>0, <3>1, <3>2 DEF TruncatedStaysGone
  <2> QED BY <2>7, <2>8, <2>9 DEF PublishedInOrder, PublishedOnce
<1> QED BY <1>1, <1>2 DEF Listing

\* A flush keeps what it has made sure of.
LEMMA QuietFlush ==
  ASSUME Records, EpochBound, GateCounts, \A c \in FlushCallers : FlushSound(c), Flushed,
         Steady, HistLight, SharedLight, flushes' = flushes
  PROVE  EpochBound' /\ GateCounts' /\ (\A c \in FlushCallers : FlushSound(c)') /\ Flushed'
<1>1. EpochBound' /\ GateCounts'
  BY DEF EpochBound, GateCounts, InGate, HistLight, SharedLight
<1>2. \A s \in Slices : (Kept(s) => Kept(s)') /\ (Safe(s) => Safe(s)') /\ (Done(s) => Done(s)')
  BY Carried DEF Steady
<1>3. hist.acked \subseteq Slices /\ hist.flushed \subseteq Slices
  BY DEF Records, HistType
<1>4. ASSUME NEW c \in FlushCallers PROVE FlushSound(c)'
  <2>1. flushes[c].known \subseteq Slices
    BY DEF Records, FlushType
  <2>2. FlushSound(c) /\ flushes'[c] = flushes[c]
    BY <1>4
  <2>3. shared'.write_gen = shared.write_gen /\ hist'.acked = hist.acked
    BY DEF SharedLight, HistLight
  <2> QED BY <1>2, <1>3, <2>1, <2>2, <2>3 DEF FlushSound
<1>5. Flushed'
  <2>1. /\ shared'.write_gen = shared.write_gen /\ hist'.acked = hist.acked
        /\ shared'.last_flushed_gen = shared.last_flushed_gen /\ hist'.flushed = hist.flushed
    BY DEF SharedLight, HistLight
  <2> QED BY <1>2, <1>3, <2>1 DEF Flushed
<1> QED BY <1>1, <1>4, <1>5

----------------------------------------------------------------------------
(* Slices a step does not touch.                                           *)

SameSlice(s) ==
  /\ slices'[s] = slices[s]
  /\ \A t \in Tasks : Writes(t, s)' <=> Writes(t, s)

\* Such a slice is written and sealed as before.
LEMMA SameWriting ==
  ASSUME NEW s \in Slices, SameSlice(s)
  PROVE  (Writing(s)' <=> Writing(s)) /\ (Sealed(s)' <=> Sealed(s))
<1>1. slices'[s] = slices[s] /\ \A t \in Tasks : Writes(t, s)' <=> Writes(t, s)
  BY DEF SameSlice
<1>2. Writing(s)' <=> Writing(s)
  BY <1>1 DEF Writing, Writes
<1> QED BY <1>1, <1>2 DEF Sealed

\* Its shape and its claim are as before.
LEMMA SameShape ==
  ASSUME NEW s \in Slices, SameSlice(s), SliceShape(s), Claims(s)
  PROVE  SliceShape(s)' /\ Claims(s)'
<1>1. slices'[s] = slices[s] /\ \A t \in Tasks : Writes(t, s)' <=> Writes(t, s)
  BY DEF SameSlice
<1>2. SliceShape(s)'
  BY <1>1 DEF SliceShape
<1>3. Claims(s)'
  BY <1>1, SameWriting DEF Claims
<1> QED BY <1>2, <1>3

\* What its end means is as before.
LEMMA SameEnds ==
  ASSUME NEW s \in Slices, SameSlice(s), Ends(s), Steady, HistLight, SharedLight
  PROVE  Ends(s)'
<1>1. slices'[s] = slices[s]
  BY DEF SameSlice
<1>2. (Sealed(s)' <=> Sealed(s)) /\ (Done(s) => Done(s)')
  BY SameWriting DEF Steady
<1>3. /\ s \in hist.late => s \in hist'.late
      /\ shared.error => shared'.error
      /\ shared'.epoch = shared.epoch
      /\ hist'.concurrent = hist.concurrent
  BY DEF HistLight, SharedLight
<1> QED BY <1>1, <1>2, <1>3 DEF Ends, Stale

\* A slice stays held if it stays in the deque or is kept.
LEMMA HeldKeeps ==
  ASSUME NEW s \in Slices, Held(s), Steady, hist'.acked = hist.acked,
         s \in ToSet(chunk.deque) => s \in ToSet(chunk'.deque) \/ Kept(s)'
  PROVE  Held(s)'
BY Carried DEF Held

\* What is published of it is as before, if it is not appended.
LEMMA SamePublished ==
  ASSUME NEW s \in Slices, SameSlice(s), Published(s), Records, Steady, HistLight,
         s \in ToSet(meta') => s \in ToSet(meta)
  PROVE  Published(s)'
<1>1. slices'[s] = slices[s]
  BY DEF SameSlice
<1>2. (Sealed(s)' <=> Sealed(s)) /\ (Writing(s)' <=> Writing(s))
  BY SameWriting
<1>3. /\ hist'.before[s] = hist.before[s] /\ hist'.cut = hist.cut
      /\ s \in hist.again => s \in hist'.again
      /\ s \in hist.evicted => s \in hist'.evicted
  BY DEF HistLight
<1>4. Behind(s) => Behind(s)'
  BY <1>3, BehindCarried
<1> QED BY <1>1, <1>2, <1>3, <1>4 DEF Published

\* A step of an upload or commit task: what is left to show.
LEMMA WorkStep ==
  ASSUME IInv, Records', HistLight, SharedLight, Listing, flushes' = flushes,
         \A s \in Slices \ hist.acked : slices'[s] = slices[s],
         ToSet(chunk'.deque) \subseteq hist.acked, Sorted', Tended',
         \A s \in Slices : Sealed(s) => Sealed(s)',
         \A s \in Slices : SliceShape(s)' /\ Claims(s)' /\ Ends(s)' /\ Held(s)' /\ Published(s)',
         \A t \in Tasks : \/ tasks'[t] = tasks[t]
                          \/ tasks'[t].pc \notin {"look", "stalled", "write"}
                          \/ tasks'[t].slice \in hist.acked /\ Behind(tasks'[t].slice)
  PROVE  IInv'
<1>1. Steady
  BY LightSteady DEF IInv
<1>2. EpochBound' /\ GateCounts' /\ (\A c \in FlushCallers : FlushSound(c)') /\ Flushed'
  BY <1>1, QuietFlush DEF IInv
<1>3. PublishedInOrder' /\ PublishedOnce' /\ TruncatedStaysGone'
  BY ListingSound DEF IInv
<1>4. /\ Naming /\ Fronted
      /\ hist'.acked = hist.acked /\ hist'.before = hist.before
      /\ shared'.order = shared.order /\ shared'.parked = shared.parked
      /\ hist.acked \subseteq Slices
  BY DEF IInv, HistLight, SharedLight, Records, HistType
<1>5. ToSet(meta') \subseteq hist.acked
  <2>1. CASE meta' = meta
    BY <1>4, <2>1 DEF Naming, Known
  <2>2. CASE \E s \in hist.acked : meta' = Append(meta, s)
    <3>1. PICK s \in hist.acked : meta' = Append(meta, s)
      BY <2>2
    <3>2. s \in Slices /\ meta \in Seq(Slices)
      BY <1>4, <3>1 DEF IInv, Records
    <3> QED BY <1>4, <3>1, <3>2, AppendMembers DEF Naming, Known
  <2> QED BY <2>1, <2>2 DEF Listing
<1>6. \A t \in Tasks : tasks'[t].pc \in {"look", "stalled", "write"} =>
         tasks'[t].slice \in hist.acked /\ Behind(tasks'[t].slice)
  BY <1>4 DEF Naming, Fronted
<1>7. Naming'
  BY <1>4, <1>5, <1>6 DEF Naming, Known
<1>8. Fronted'
  <2>1. ASSUME NEW t \in Tasks, tasks'[t].pc \in {"look", "stalled", "write"}
        PROVE  Behind(tasks[t].slice)'
    <3>1. PICK s \in Slices : s = tasks'[t].slice /\ Behind(s)
      BY <1>4, <1>6, <2>1
    <3>2. hist'.before[s] = hist.before[s]
      BY <1>4
    <3>3. Behind(s)'
      BY <1>1, <3>1, <3>2, BehindCarried DEF IInv
    <3> QED BY <3>1, <3>3 DEF Behind
  <2> QED BY <2>1 DEF Fronted
<1> QED BY <1>2, <1>3, <1>7, <1>8 DEF IInv

\* A step of one slice's upload task.
LEMMA OneSlice ==
  ASSUME IInv, NEW s \in Slices, s \in hist.acked, NEW x \in SliceType,
         slices' = [slices EXCEPT ![s] = x], UNCHANGED <<chunk, tasks, flushes>>,
         HistLight, SharedLight, hist' \in HistType, shared' \in SharedType,
         Listing, meta' = meta \/ meta' = Append(meta, s),
         Sealed(s) => Sealed(s)', SliceShape(s)', Claims(s)', Ends(s)',
         s \in ToSet(meta') /\ s \notin hist'.again => x.meta_write_started /\ ~ Writing(s)',
         s \in ToSet(meta') \/ x.upload = "write" => Behind(s),
         s \in hist.cut => Sealed(s)' \/ s \in hist'.evicted
  PROVE  IInv'
<1>0. Records
  BY DEF IInv
<1>1. meta' \in Seq(Slices) /\ (\A r \in Slices : r # s /\ r \in ToSet(meta') => r \in ToSet(meta))
  <2>1. meta \in Seq(Slices)
    BY <1>0 DEF Records
  <2>2. CASE meta' = meta
    BY <2>1, <2>2
  <2>3. CASE meta' = Append(meta, s)
    BY <2>1, <2>3, AppendMembers
  <2> QED BY <2>2, <2>3
<1>2. slices' \in [Slices -> SliceType] /\ slices'[s] = x
      /\ \A r \in Slices : r # s => slices'[r] = slices[r]
  BY <1>0 DEF Records
<1>3. Records'
  BY <1>0, <1>1, <1>2 DEF Records
<1>4. \A r \in Slices : r # s => SameSlice(r)
  BY <1>2 DEF SameSlice, Writes
<1>5. \A r \in Slices : Sealed(r) => Sealed(r)'
  BY <1>4, SameWriting
<1>6. Steady
  BY <1>0, <1>5, LightSteady
<1>7. ASSUME NEW r \in Slices PROVE SliceShape(r)' /\ Claims(r)' /\ Ends(r)' /\ Held(r)' /\ Published(r)'
  <2>1. CASE r = s
    <3>1. hist'.before[s] = hist.before[s] /\ hist'.cut = hist.cut
      BY DEF HistLight
    <3>2. Behind(s) => Behind(s)'
      BY <1>0, <1>6, <3>1, BehindCarried
    <3>3. Published(s)'
      BY <1>2, <3>1, <3>2 DEF Published
    <3>4. Held(s) /\ hist'.acked = hist.acked /\ chunk' = chunk
      BY DEF IInv, HistLight
    <3>5. Held(s)'
      BY <1>6, <3>4, HeldKeeps
    <3> QED BY <2>1, <3>3, <3>5
  <2>2. CASE r # s
    <3>1. SameSlice(r) /\ SliceShape(r) /\ Claims(r) /\ Ends(r) /\ Published(r)
      BY <1>4, <2>2 DEF IInv
    <3>2. chunk' = chunk /\ hist'.acked = hist.acked /\ Held(r)
      BY DEF HistLight, IInv
    <3>3. SliceShape(r)' /\ Claims(r)'
      BY <3>1, SameShape
    <3>4. Ends(r)'
      BY <1>6, <3>1, SameEnds
    <3>6. Held(r)'
      BY <1>6, <3>2, HeldKeeps
    <3>5. Published(r)'
      BY <1>0, <1>1, <1>6, <2>2, <3>1, SamePublished
    <3> QED BY <3>3, <3>4, <3>5, <3>6
  <2> QED BY <2>1, <2>2
<1>8. \A r \in Slices \ hist.acked : slices'[r] = slices[r]
  BY <1>2
<1>9. ToSet(chunk'.deque) \subseteq hist.acked /\ Sorted' /\ Tended'
  BY DEF IInv, Naming, Known, Sorted, Tended
<1>10. \A t \in Tasks : tasks'[t] = tasks[t]
  OBVIOUS
<1> QED BY <1>3, <1>5, <1>7, <1>8, <1>9, <1>10, WorkStep

\* Freezing: the slice was writable, so nobody has claimed it.
LEMMA FreezeKeeps ==
  ASSUME IInv, NEW s \in Slices, Freeze(s)
  PROVE  IInv'
<1>1. Records /\ SliceShape(s) /\ Claims(s) /\ Ends(s) /\ Published(s) /\ Naming
  BY DEF IInv
<1>2. PICK x : x = Frozen(s)
  OBVIOUS
<1>3. /\ s \in ToSet(chunk.deque) /\ slices[s].state = "Writable"
      /\ slices' = [slices EXCEPT ![s] = x]
      /\ UNCHANGED <<chunk, tasks, flushes, shared, meta, hist>>
  BY <1>2 DEF Freeze
<1>4. /\ x \in SliceType /\ x.state = "Readonly" /\ x.frozen_epoch = shared.epoch
      /\ x.upload = "id" /\ x.meta_write_started = slices[s].meta_write_started
  <2>1. slices[s] \in SliceType /\ shared.epoch \in 0 .. MaxCalls
    BY <1>1 DEF Records, SharedType
  <2>2. x = [slices[s] EXCEPT !.state = "Readonly", !.frozen_epoch = shared.epoch, !.upload = "id"]
    BY <1>2 DEF Frozen
  <2> QED BY <2>1, <2>2 DEF SliceType, States, Uploads
<1>5. slices'[s] = x /\ s \in hist.acked
  BY <1>1, <1>3 DEF Records, Naming, Known
<1>6. slices[s].upload = "none" /\ ~ slices[s].meta_write_started
  BY <1>1, <1>3 DEF SliceShape
<1>7. ~ Writing(s) /\ ~ Sealed(s)
  BY <1>1, <1>3, <1>6 DEF Claims, Sealed
<1>8. ~ Writing(s)' /\ \A t \in Tasks : ~ Writes(t, s)'
  BY <1>3, <1>4, <1>5, <1>7 DEF Writing, Writes
<1>9. SliceShape(s)' /\ Claims(s)'
  BY <1>4, <1>5, <1>6, <1>8 DEF SliceShape, Claims
<1>10. Ends(s)'
  BY <1>3, <1>4, <1>5 DEF Ends, Stale
<1>11. hist' \in HistType /\ shared' \in SharedType /\ Listing /\ HistLight /\ SharedLight
  BY <1>1, <1>3, UnchangedLight DEF Records, Listing
<1>12. s \in ToSet(meta) /\ s \notin hist.again => FALSE
  BY <1>1, <1>6 DEF Published
<1>13. (s \in ToSet(meta) => Behind(s)) /\ (s \in hist.cut => s \in hist.evicted)
  BY <1>1, <1>7 DEF Published
<1> QED BY <1>3, <1>4, <1>5, <1>7, <1>9, <1>10, <1>11, <1>12, <1>13, OneSlice

\* Only a slice of an acknowledged write has an upload task.
LEMMA Uploading ==
  ASSUME IInv, NEW s \in Slices, slices[s].upload # "none"
  PROVE  /\ s \in hist.acked
         /\ slices[s].state \notin {"none", "Writable"}
         /\ slices[s] \in SliceType
BY DEF IInv, Naming, NewSlice, SliceShape, Records

\* Another error is counted, or reported.
LEMMA ErrorsLight ==
  ASSUME Records
  PROVE  /\ Counted \in SharedType /\ [Counted EXCEPT !.error = TRUE] \in SharedType
         /\ (shared' = Counted => SharedLight)
         /\ (shared' = [Counted EXCEPT !.error = TRUE] => SharedLight /\ shared'.error)
<1>1. shared \in SharedType
  BY DEF Records
<1>2. PICK q : q = Counted
  OBVIOUS
<1>3. /\ q \in SharedType
      /\ q.order = shared.order /\ q.write_gen = shared.write_gen
      /\ q.last_flushed_gen = shared.last_flushed_gen
      /\ q.flush_waiting = shared.flush_waiting
      /\ q.parked = shared.parked /\ q.epoch = shared.epoch /\ q.error = shared.error
  <2>1. shared.faults + 1 \in Nat /\ q = [shared EXCEPT !.faults = shared.faults + 1]
    BY <1>1, <1>2 DEF Counted, SharedType
  <2> QED BY <1>1, <2>1 DEF SharedType
<1>4. [q EXCEPT !.error = TRUE] \in SharedType
  BY <1>3 DEF SharedType
<1>5. shared' = q => SharedLight
  BY <1>3 DEF SharedLight
<1>6. shared' = [q EXCEPT !.error = TRUE] => SharedLight /\ shared'.error
  BY <1>3 DEF SharedLight, SharedType
<1> QED BY <1>2, <1>3, <1>4, <1>5, <1>6

\* The slice's identifier, then its blocks: nobody can have claimed it yet.
LEMMA UploadKeeps ==
  ASSUME IInv, NEW s \in Slices, Upload(s)
  PROVE  IInv'
<1>1. Records /\ SliceShape(s) /\ Claims(s) /\ Ends(s) /\ Published(s)
  BY DEF IInv
<1>2. /\ slices[s].upload \in {"id", "put"}
      /\ UNCHANGED <<chunk, tasks, flushes, meta, hist>>
  BY DEF Upload
<1>3. s \in hist.acked /\ slices[s] \in SliceType
  BY <1>2, Uploading
<1>4. slices[s].state \in {"Readonly", "Failed"} /\ ~ slices[s].meta_write_started
  BY <1>1, <1>2 DEF SliceShape
<1>5. ~ Writing(s) /\ ~ Sealed(s) /\ \A t \in Tasks : ~ Writes(t, s)
  BY <1>1, <1>2, <1>4 DEF Claims, Sealed, Writing, Writes
<1>6. slices[s].state = "Failed" => s \in hist.late /\ shared.error
  BY <1>1, <1>5 DEF Ends
<1>7. hist' \in HistType /\ Listing /\ HistLight
  BY <1>1, <1>2, UnchangedLight DEF Records, Listing
<1>8. s \in ToSet(meta) /\ s \notin hist.again => FALSE
  BY <1>1, <1>4 DEF Published
<1>9. (s \in ToSet(meta) => Behind(s)) /\ (s \in hist.cut => s \in hist.evicted)
  BY <1>1, <1>5 DEF Published
<1>10. \A t \in Tasks : ~ Writes(t, s)'
  BY <1>2, <1>5 DEF Writes
<1>11. CASE /\ UNCHANGED shared
            /\ slices' = [slices EXCEPT ![s] =
                 IF @.upload = "id" THEN [@ EXCEPT !.upload = "put"]
                                    ELSE [@ EXCEPT !.state = "Uploaded", !.upload = "try"]]
  <2>1. PICK x : x = IF slices[s].upload = "id" THEN [slices[s] EXCEPT !.upload = "put"]
                     ELSE [slices[s] EXCEPT !.state = "Uploaded", !.upload = "try"]
    OBVIOUS
  <2>2. slices' = [slices EXCEPT ![s] = x] /\ slices'[s] = x
    BY <1>1, <1>11, <2>1 DEF Records
  <2>3. /\ x \in SliceType /\ x.meta_write_started = slices[s].meta_write_started
        /\ x.frozen_epoch = slices[s].frozen_epoch
        /\ \/ x.upload = "put" /\ x.state = slices[s].state
           \/ x.upload = "try" /\ x.state = "Uploaded"
    BY <1>2, <1>3, <2>1 DEF SliceType, States, Uploads
  <2>4. ~ Writing(s)'
    BY <1>10, <2>2, <2>3 DEF Writing, Writes
  <2>5. SliceShape(s)' /\ Claims(s)'
    BY <1>4, <1>10, <2>2, <2>3, <2>4 DEF SliceShape, Claims
  <2>6. Ends(s)'
    BY <1>1, <1>2, <1>4, <1>6, <1>11, <2>2, <2>3 DEF Ends, Stale
  <2>7. shared' \in SharedType /\ SharedLight
    BY <1>1, <1>11, UnchangedLight DEF Records
  <2>8. x.upload # "write"
    BY <2>3
  <2> QED BY <1>2, <1>3, <1>5, <1>7, <1>8, <1>9, <2>2, <2>3, <2>5, <2>6, <2>7, <2>8, OneSlice
<1>12. CASE /\ slices' = [slices EXCEPT ![s] = [Failed(s) EXCEPT !.upload = "none"]]
            /\ shared' = [Counted EXCEPT !.error = TRUE]
  <2>1. PICK x : x = [Failed(s) EXCEPT !.upload = "none"]
    OBVIOUS
  <2>2. slices' = [slices EXCEPT ![s] = x] /\ slices'[s] = x
    BY <1>1, <1>12, <2>1 DEF Records
  <2>3. /\ x \in SliceType /\ x.meta_write_started = slices[s].meta_write_started
        /\ x.frozen_epoch = slices[s].frozen_epoch /\ x.upload = "none" /\ x.state = "Failed"
    BY <1>2, <1>3, <2>1 DEF Failed, SliceType, States, Uploads
  <2>4. ~ Writing(s)'
    BY <1>10, <2>2, <2>3 DEF Writing, Writes
  <2>5. SliceShape(s)' /\ Claims(s)' /\ Sealed(s)'
    BY <1>4, <1>10, <2>2, <2>3, <2>4 DEF SliceShape, Claims, Sealed
  <2>6. shared' \in SharedType /\ SharedLight /\ shared'.error /\ shared'.epoch = shared.epoch
    BY <1>1, <1>12, ErrorsLight DEF SharedLight
  <2>7. Ends(s)'
    BY <1>1, <1>2, <2>2, <2>3, <2>5, <2>6 DEF Ends, Stale
  <2>8. x.upload # "write"
    BY <2>3
  <2> QED BY <1>2, <1>3, <1>7, <1>8, <1>9, <2>2, <2>3, <2>5, <2>6, <2>7, <2>8, OneSlice
<1> QED BY <1>11, <1>12 DEF Upload

\* A stale slice that somebody writes is late.
LEMMA FoundStaleLight ==
  ASSUME Records, NEW s \in Slices, hist' = FoundStale(s)
  PROVE  /\ hist' \in HistType /\ HistLight
         /\ hist'.again = hist.again /\ hist'.evicted = hist.evicted
         /\ Writing(s) => s \in hist'.late
<1>1. hist \in HistType
  BY DEF Records
<1>2. CASE Writing(s)
  <2>1. hist' = [hist EXCEPT !.late = @ \cup {s}]
    BY <1>2 DEF FoundStale
  <2> QED BY <1>1, <2>1 DEF HistType, HistLight
<1>3. CASE ~ Writing(s)
  BY <1>1, <1>3, UnchangedLight DEF FoundStale
<1> QED BY <1>2, <1>3

\* The claim is taken only when nobody has it.
LEMMA TryClaimKeeps ==
  ASSUME IInv, NEW s \in Slices, TryClaim(s)
  PROVE  IInv'
<1>1. Records /\ SliceShape(s) /\ Claims(s) /\ Ends(s) /\ Published(s)
  BY DEF IInv
<1>2. slices[s].upload = "try" /\ UNCHANGED <<chunk, tasks, flushes, shared, meta>>
  BY DEF TryClaim
<1>3. /\ s \in hist.acked /\ slices[s] \in SliceType
      /\ slices[s].state \in {"Uploaded", "Committed", "Failed"}
  BY <1>1, <1>2, Uploading DEF SliceShape, SliceType, States
<1>4. PICK x : x =
           IF slices[s].state # "Uploaded" THEN [slices[s] EXCEPT !.upload = "none"]
           ELSE IF Stale(s) THEN [slices[s] EXCEPT !.state = "Committed", !.upload = "none"]
           ELSE IF slices[s].meta_write_started THEN [slices[s] EXCEPT !.upload = "none"]
           ELSE [slices[s] EXCEPT !.meta_write_started = TRUE, !.upload = "front"]
  OBVIOUS
<1>5. slices' = [slices EXCEPT ![s] = x] /\ slices'[s] = x
  BY <1>1, <1>4 DEF TryClaim, Records
<1>6. shared' \in SharedType /\ SharedLight /\ Listing
  BY <1>1, <1>2, UnchangedLight DEF Records, Listing
<1>7. \A t \in Tasks : Writes(t, s)' <=> Writes(t, s)
  BY <1>2 DEF Writes
<1>8. Writing(s) <=> \E t \in Tasks : Writes(t, s)
  BY <1>2 DEF Writing, Writes
<1>9. s \in ToSet(meta) => Behind(s)
  BY <1>1 DEF Published
<1>10. CASE slices[s].state = "Uploaded" /\ Stale(s)
  <2>1. hist' = FoundStale(s)
    BY <1>10 DEF TryClaim
  <2>2. /\ hist' \in HistType /\ HistLight
        /\ hist'.again = hist.again /\ hist'.evicted = hist.evicted
        /\ Writing(s) => s \in hist'.late
    BY <1>1, <2>1, FoundStaleLight
  <2>3. /\ x \in SliceType /\ x.meta_write_started = slices[s].meta_write_started
        /\ x.frozen_epoch = slices[s].frozen_epoch /\ x.upload = "none" /\ x.state = "Committed"
    BY <1>3, <1>4, <1>10 DEF SliceType, States, Uploads
  <2>4. Writing(s)' <=> Writing(s)
    BY <1>5, <1>7, <1>8, <2>3 DEF Writing, Writes
  <2>5. SliceShape(s)' /\ Claims(s)'
    BY <1>1, <1>5, <1>7, <2>3, <2>4 DEF SliceShape, Claims
  <2>6. Sealed(s)' \/ s \in hist'.late
    BY <1>5, <2>2, <2>3, <2>4 DEF Sealed
  <2>7. s \in hist.concurrent /\ hist'.concurrent = hist.concurrent
    BY <1>1, <1>10, <2>2 DEF Ends, HistLight
  <2>8. Ends(s)'
    BY <1>2, <1>5, <2>3, <2>6, <2>7 DEF Ends, Done, Stale
  <2>9. ~ Sealed(s) /\ (s \in hist.cut => s \in hist.evicted) /\ x.upload # "write"
    BY <1>1, <1>10, <2>3 DEF Sealed, Published
  <2>10. s \in ToSet(meta) /\ s \notin hist.again => x.meta_write_started /\ ~ Writing(s)'
    BY <1>1, <2>3, <2>4 DEF Published
  <2> QED BY <1>2, <1>3, <1>5, <1>6, <1>9, <2>2, <2>3, <2>5, <2>8, <2>9, <2>10, OneSlice
<1>11. CASE ~ (slices[s].state = "Uploaded" /\ Stale(s))
  <2>1. UNCHANGED hist
    BY <1>11 DEF TryClaim
  <2>2. hist' \in HistType /\ HistLight
    BY <1>1, <2>1, UnchangedLight DEF Records
  <2>3. CASE slices[s].state # "Uploaded" \/ slices[s].meta_write_started
    <3>1. /\ x \in SliceType /\ x.meta_write_started = slices[s].meta_write_started
          /\ x.frozen_epoch = slices[s].frozen_epoch /\ x.upload = "none"
          /\ x.state = slices[s].state
      BY <1>3, <1>4, <1>11, <2>3 DEF SliceType, States, Uploads
    <3>2. Writing(s)' <=> Writing(s)
      BY <1>5, <1>7, <1>8, <3>1 DEF Writing, Writes
    <3>3. SliceShape(s)' /\ Claims(s)'
      BY <1>1, <1>3, <1>5, <1>7, <3>1, <3>2 DEF SliceShape, Claims
    <3>4. Sealed(s) => Sealed(s)'
      BY <1>5, <3>1, <3>2 DEF Sealed
    <3>5. Ends(s)'
      BY <1>1, <1>2, <1>5, <2>1, <3>1, <3>4 DEF Ends, Done, Stale
    <3>6. (s \in hist.cut => Sealed(s)' \/ s \in hist'.evicted) /\ x.upload # "write"
      BY <1>1, <2>1, <3>1, <3>4 DEF Published
    <3>7. s \in ToSet(meta) /\ s \notin hist.again => x.meta_write_started /\ ~ Writing(s)'
      BY <1>1, <3>1, <3>2 DEF Published
    <3> QED BY <1>2, <1>3, <1>5, <1>6, <1>9, <2>1, <2>2, <3>1, <3>3, <3>4, <3>5, <3>6, <3>7, OneSlice
  <2>4. CASE slices[s].state = "Uploaded" /\ ~ slices[s].meta_write_started
    <3>1. /\ x \in SliceType /\ x.meta_write_started
          /\ x.frozen_epoch = slices[s].frozen_epoch /\ x.upload = "front"
          /\ x.state = "Uploaded"
      BY <1>3, <1>4, <1>11, <2>4 DEF SliceType, States, Uploads
    <3>2. \A t \in Tasks : ~ Writes(t, s)'
      BY <1>1, <1>7, <1>8, <2>4 DEF Claims
    <3>3. SliceShape(s)' /\ Claims(s)'
      BY <1>5, <3>1, <3>2 DEF SliceShape, Claims
    <3>4. ~ Sealed(s)
      BY <2>4 DEF Sealed
    <3>5. Ends(s)'
      BY <1>1, <1>2, <1>5, <2>1, <3>1 DEF Ends, Stale
    <3>6. (s \in hist.cut => s \in hist'.evicted) /\ x.upload # "write"
      BY <1>1, <2>1, <3>1, <3>4 DEF Published
    <3>7. s \in ToSet(meta) /\ s \notin hist.again => FALSE
      BY <1>1, <2>4 DEF Published
    <3> QED BY <1>2, <1>3, <1>5, <1>6, <1>9, <2>1, <2>2, <3>1, <3>3, <3>4, <3>5, <3>6, <3>7, OneSlice
  <2> QED BY <2>3, <2>4
<1> QED BY <1>10, <1>11

\* What is before the front slice has left the deque.
LEMMA FrontBehind ==
  ASSUME IInv, NEW s, IsFront(s)
  PROVE  s \in Slices /\ s \in hist.acked /\ s \in ToSet(chunk.deque) /\ Behind(s)
<1>1. chunk.deque \in Seq(Slices) /\ chunk.deque # <<>> /\ s = Head(chunk.deque)
  BY DEF IInv, Records, ChunkType, IsFront
<1>2. /\ s \in Slices /\ s \in ToSet(chunk.deque)
      /\ DOMAIN chunk.deque = 1 .. Len(chunk.deque) /\ Len(chunk.deque) \in Nat
      /\ Len(chunk.deque) >= 1 /\ s = chunk.deque[1]
  BY <1>1, FrontMembers
<1>3. s \in hist.acked
  BY <1>2 DEF IInv, Naming, Known
<1>4. ASSUME NEW r \in hist.before[s] PROVE Settled(r)
  <2>1. r \in Slices /\ r \in hist.acked /\ r < s
    BY <1>2 DEF IInv, Naming, Known, Records, HistType
  <2>2. ASSUME r \in ToSet(chunk.deque) PROVE FALSE
    <3>1. PICK i \in 1 .. Len(chunk.deque) : r = chunk.deque[i]
      BY <1>2, <2>2 DEF ToSet
    <3>2. r \in Nat /\ s \in Nat
      BY <1>2, <2>1, SliceWriterAssumption DEF Slices
    <3>3. CASE i = 1
      BY <1>2, <2>1, <3>1, <3>2, <3>3
    <3>4. CASE i # 1
      <4>1. 1 \in DOMAIN chunk.deque /\ i \in DOMAIN chunk.deque /\ 1 < i
        BY <1>2, <3>1, <3>4
      <4>2. s < r
        BY <1>2, <3>1, <4>1 DEF IInv, Sorted
      <4> QED BY <2>1, <3>2, <4>2
    <3> QED BY <3>3, <3>4
  <2>3. Held(r)
    BY <2>1 DEF IInv
  <2> QED BY <2>1, <2>2, <2>3 DEF Held, Kept
<1> QED BY <1>2, <1>3, <1>4 DEF Behind

\* The upload task goes on only with the front slice; otherwise the claim is
\* given back.
LEMMA TryFrontKeeps ==
  ASSUME IInv, NEW s \in Slices, TryFront(s)
  PROVE  IInv'
<1>1. Records /\ SliceShape(s) /\ Claims(s) /\ Ends(s) /\ Published(s)
  BY DEF IInv
<1>2. slices[s].upload = "front" /\ UNCHANGED <<chunk, tasks, flushes, shared, meta, hist>>
  BY DEF TryFront
<1>3. /\ s \in hist.acked /\ slices[s] \in SliceType
      /\ slices[s].state \in {"Uploaded", "Committed", "Failed"}
  BY <1>1, <1>2, Uploading DEF SliceShape, SliceType, States
<1>4. PICK x : x =
           IF IsFront(s) THEN [slices[s] EXCEPT !.upload = "write"]
           ELSE [slices[s] EXCEPT !.upload = "none", !.meta_write_started = FALSE]
  OBVIOUS
<1>5. slices' = [slices EXCEPT ![s] = x] /\ slices'[s] = x
  BY <1>1, <1>4 DEF TryFront, Records
<1>6. /\ shared' \in SharedType /\ SharedLight /\ Listing
      /\ hist' \in HistType /\ HistLight
  BY <1>1, <1>2, UnchangedLight DEF Records, Listing
<1>7. Writing(s) /\ ~ Sealed(s) /\ slices[s].meta_write_started
  BY <1>1, <1>2 DEF Writing, Sealed, Claims
<1>8. \A t \in Tasks : ~ Writes(t, s)'
  BY <1>1, <1>2 DEF Claims, Writes
<1>9. s \in ToSet(meta) /\ s \notin hist.again => FALSE
  BY <1>1, <1>7 DEF Published
<1>10. (s \in ToSet(meta) => Behind(s)) /\ (s \in hist.cut => s \in hist.evicted)
  BY <1>1, <1>7 DEF Published
<1>11. /\ x \in SliceType /\ x.state = slices[s].state
       /\ x.frozen_epoch = slices[s].frozen_epoch
       /\ \/ IsFront(s) /\ x.upload = "write" /\ x.meta_write_started
          \/ ~ IsFront(s) /\ x.upload = "none" /\ ~ x.meta_write_started
  BY <1>3, <1>4, <1>7 DEF SliceType, States, Uploads
<1>12. x.upload = "write" => Behind(s)
  BY <1>11, FrontBehind
<1>13. SliceShape(s)'
  BY <1>3, <1>5, <1>11 DEF SliceShape
<1>14. Writing(s)' => x.meta_write_started
  BY <1>5, <1>8, <1>11 DEF Writing, Writes
<1>15. Claims(s)'
  BY <1>5, <1>8, <1>14 DEF Claims
<1>16. Ends(s)'
  BY <1>1, <1>2, <1>5, <1>7, <1>11 DEF Ends, Done, Stale
<1> QED BY <1>2, <1>3, <1>5, <1>6, <1>7, <1>9, <1>10, <1>11, <1>12, <1>13, <1>15, <1>16, OneSlice

\* What the store's answer to a metadata write changes.
LEMMA AnswerLight ==
  ASSUME Records, NEW s \in hist.acked, NEW answer \in Answers, Applied(answer, s),
         Writing(s), Behind(s)
  PROVE  /\ answer \in {"ok", "retry", "fatal"}
         /\ hist' \in HistType /\ HistLight /\ hist'.evicted = hist.evicted
         /\ Listing /\ (meta' = meta \/ meta' = Append(meta, s))
         /\ answer = "ok" => s \in ToSet(meta')
         /\ answer # "ok" /\ s \in ToSet(meta') =>
               s \in hist'.again \/ (s \in ToSet(meta) /\ hist' = hist)
<1>0. hist \in HistType /\ meta \in Seq(Slices) /\ s \in Slices
  BY DEF Records, HistType
<1>1. answer \in {"ok", "retry", "fatal"}
  BY DEF Answers
<1>2. CASE meta' = meta /\ hist' = hist /\ answer # "ok"
  BY <1>0, <1>1, <1>2, UnchangedLight DEF Listing
<1>3. CASE meta' = Append(meta, s) /\ hist' = hist /\ answer = "ok"
  <2>1. Listing
    BY <1>3 DEF Listing
  <2> QED BY <1>0, <1>3, <2>1, AppendMembers, UnchangedLight
<1>4. CASE meta' = Append(meta, s) /\ hist' = [hist EXCEPT !.again = @ \cup {s}] /\ answer # "ok"
  <2>1. Listing
    BY <1>4 DEF Listing
  <2>2. hist' \in HistType /\ HistLight /\ hist'.evicted = hist.evicted /\ s \in hist'.again
    BY <1>0, <1>4 DEF HistType, HistLight
  <2> QED BY <1>1, <1>4, <2>1, <2>2
<1> QED BY <1>2, <1>3, <1>4 DEF Applied

\* What follows an answer of the store is light, and reports a fatal error.
LEMMA AfterLight ==
  ASSUME Records, NEW answer \in {"ok", "retry", "fatal"}, shared' = After(answer)
  PROVE  shared' \in SharedType /\ SharedLight /\ (answer = "fatal" => shared'.error)
<1>1. CASE answer = "ok"
  BY <1>1, UnchangedLight DEF After, Records
<1>2. CASE answer = "retry"
  BY <1>2, ErrorsLight DEF After
<1>3. CASE answer = "fatal"
  BY <1>3, ErrorsLight DEF After
<1> QED BY <1>1, <1>2, <1>3

\* The metadata write of the upload task.
LEMMA TryWriteKeeps ==
  ASSUME IInv, NEW s \in Slices, TryWrite(s)
  PROVE  IInv'
<1>1. Records /\ SliceShape(s) /\ Claims(s) /\ Ends(s) /\ Published(s)
  BY DEF IInv
<1>2. slices[s].upload = "write" /\ UNCHANGED <<chunk, tasks, flushes>>
  BY DEF TryWrite
<1>3. /\ s \in hist.acked /\ slices[s] \in SliceType
      /\ slices[s].state \in {"Uploaded", "Committed", "Failed"}
  BY <1>1, <1>2, Uploading DEF SliceShape, SliceType, States
<1>4. PICK answer \in Answers :
       /\ Applied(answer, s)
       /\ slices' = [slices EXCEPT ![s] =
            CASE answer = "ok"    -> [@ EXCEPT !.state = "Committed", !.upload = "none", !.attempts = 0]
              [] answer = "fatal" -> [@ EXCEPT !.state = "Failed", !.upload = "none", !.attempts = 0]
              [] answer = "retry" ->
                   IF @.attempts + 1 < MaxRetries
                   THEN [@ EXCEPT !.attempts = slices[s].attempts + 1]
                   ELSE [@ EXCEPT !.upload = "none", !.meta_write_started = FALSE, !.attempts = 0]]
       /\ shared' = After(answer)
  BY DEF TryWrite
<1>5. PICK x : x = slices'[s]
  OBVIOUS
<1>6. slices' = [slices EXCEPT ![s] = x] /\ slices'[s] = x
  <2>1. slices \in [Slices -> SliceType]
    BY <1>1 DEF Records
  <2>2. PICK y : slices' = [slices EXCEPT ![s] = y]
    BY ONLY <1>4
  <2> QED BY ONLY <1>5, <2>1, <2>2, s \in Slices
<1>7. Writing(s) /\ ~ Sealed(s) /\ slices[s].meta_write_started /\ Behind(s)
  BY <1>1, <1>2 DEF Writing, Sealed, Claims, Published
<1>8. \A t \in Tasks : ~ Writes(t, s)'
  BY <1>1, <1>2 DEF Claims, Writes
<1>9. /\ answer \in {"ok", "retry", "fatal"}
      /\ hist' \in HistType /\ HistLight /\ hist'.evicted = hist.evicted
      /\ Listing /\ (meta' = meta \/ meta' = Append(meta, s))
      /\ answer = "ok" => s \in ToSet(meta')
      /\ answer # "ok" /\ s \in ToSet(meta') =>
            s \in hist'.again \/ (s \in ToSet(meta) /\ hist' = hist)
  BY <1>1, <1>3, <1>4, <1>7, AnswerLight
<1>10. shared' \in SharedType /\ SharedLight /\ (answer = "fatal" => shared'.error)
  BY <1>1, <1>4, <1>9, AfterLight
<1>11. s \in ToSet(meta) /\ s \notin hist.again => FALSE
  BY <1>1, <1>7 DEF Published
<1>12. s \in hist.cut => s \in hist.evicted
  BY <1>1, <1>7 DEF Published
<1>13. x \in SliceType /\ x.frozen_epoch = slices[s].frozen_epoch
       /\ \/ answer = "ok" /\ x.state = "Committed" /\ x.upload = "none" /\ x.meta_write_started
          \/ answer = "fatal" /\ x.state = "Failed" /\ x.upload = "none" /\ x.meta_write_started
          \/ /\ answer = "retry" /\ x.state = slices[s].state
             /\ \/ x.upload = "write" /\ x.meta_write_started
                \/ x.upload = "none" /\ ~ x.meta_write_started
  <2>1. slices[s].attempts \in Nat /\ slices[s].attempts + 1 \in Nat /\ MaxRetries \in Nat
        /\ (slices[s].attempts + 1 < MaxRetries => slices[s].attempts + 1 \in 0 .. MaxRetries)
        /\ 0 \in 0 .. MaxRetries
    BY <1>3, SliceWriterAssumption DEF SliceType
  <2>2. CASE answer = "ok"
    <3>1. x = [slices[s] EXCEPT !.state = "Committed", !.upload = "none", !.attempts = 0]
      BY <1>1, <1>4, <1>5, <2>2 DEF Records
    <3> QED BY <1>3, <1>7, <2>1, <2>2, <3>1 DEF SliceType, States, Uploads
  <2>3. CASE answer = "fatal"
    <3>1. x = [slices[s] EXCEPT !.state = "Failed", !.upload = "none", !.attempts = 0]
      BY <1>1, <1>4, <1>5, <2>3 DEF Records
    <3> QED BY <1>3, <1>7, <2>1, <2>3, <3>1 DEF SliceType, States, Uploads
  <2>4. CASE answer = "retry"
    <3>1. CASE slices[s].attempts + 1 < MaxRetries
      <4>1. x = [slices[s] EXCEPT !.attempts = slices[s].attempts + 1]
        BY <1>1, <1>4, <1>5, <2>4, <3>1 DEF Records
      <4> QED BY <1>2, <1>3, <1>7, <2>1, <2>4, <3>1, <4>1 DEF SliceType, States, Uploads
    <3>2. CASE ~ (slices[s].attempts + 1 < MaxRetries)
      <4>1. x = [slices[s] EXCEPT !.upload = "none", !.meta_write_started = FALSE, !.attempts = 0]
        BY <1>1, <1>4, <1>5, <2>4, <3>2 DEF Records
      <4> QED BY <1>3, <1>7, <2>1, <2>4, <4>1 DEF SliceType, States, Uploads
    <3> QED BY <3>1, <3>2
  <2> QED BY <1>9, <2>2, <2>3, <2>4
<1>14. SliceShape(s)'
  BY <1>3, <1>6, <1>13 DEF SliceShape
<1>15. /\ Writing(s)' => x.meta_write_started
       /\ x.upload = "none" => ~ Writing(s)'
  BY <1>6, <1>8, <1>13 DEF Writing, Writes
<1>16. Claims(s)'
  BY <1>6, <1>8, <1>15 DEF Claims
<1>17. shared'.epoch = shared.epoch /\ hist'.concurrent = hist.concurrent
       /\ (shared.error => shared'.error) /\ (s \in hist.late => s \in hist'.late)
  BY <1>9, <1>10 DEF SharedLight, HistLight
<1>18. Stale(s)' => s \in hist'.concurrent
  BY <1>1, <1>6, <1>13, <1>17 DEF Ends, Stale
<1>19. Ends(s)'
  <2>1. CASE answer = "ok" \/ answer = "fatal"
    <3>1. Sealed(s)'
      BY <1>6, <1>13, <1>15, <2>1 DEF Sealed
    <3> QED BY <1>6, <1>9, <1>10, <1>13, <1>18, <2>1, <3>1 DEF Ends, Done
  <2>2. CASE answer = "retry"
    <3>1. x.state = slices[s].state
      BY <1>13, <2>2
    <3>2. Done(s) => Done(s)'
      BY <1>1, <1>9, <1>17, ListingGrows DEF Done
    <3> QED BY <1>1, <1>6, <1>7, <1>17, <1>18, <3>1, <3>2 DEF Ends
  <2> QED BY <1>9, <2>1, <2>2
<1>20. s \in ToSet(meta') /\ s \notin hist'.again => x.meta_write_started /\ ~ Writing(s)'
  BY <1>9, <1>11, <1>13, <1>15
<1> QED BY <1>2, <1>3, <1>6, <1>7, <1>9, <1>10, <1>12, <1>13, <1>14, <1>16, <1>19, <1>20, OneSlice

----------------------------------------------------------------------------
(* Commit tasks.                                                           *)

\* A step of task t that touches the slices in T.
LEMMA TaskStep ==
  ASSUME IInv, NEW t \in Tasks, NEW y \in TaskType, tasks' = [tasks EXCEPT ![t] = y],
         NEW T \in SUBSET hist.acked,
         slices' \in [Slices -> SliceType], \A r \in Slices \ T : slices'[r] = slices[r],
         y.pc = "write" => y.slice \in T,
         tasks[t].pc = "write" => tasks[t].slice \in T,
         y.pc \in {"look", "stalled", "write"} => y.slice \in hist.acked /\ Behind(y.slice),
         flushes' = flushes, HistLight, SharedLight, hist' \in HistType, shared' \in SharedType,
         Listing, meta' \in Seq(Slices),
         \A r \in Slices \ T : r \in ToSet(meta') => r \in ToSet(meta),
         chunk' \in ChunkType, Sorted', Tended',
         ToSet(chunk'.deque) \subseteq ToSet(chunk.deque),
         \A r \in ToSet(chunk.deque) :
            r \in ToSet(chunk'.deque) \/ Kept(r) \/ r \in hist'.evicted,
         \A r \in T :
            /\ Sealed(r) => Sealed(r)'
            /\ SliceShape(r)' /\ Claims(r)' /\ Ends(r)'
            /\ r \in ToSet(meta') /\ r \notin hist'.again =>
                  slices'[r].meta_write_started /\ ~ Writing(r)'
            /\ r \in ToSet(meta') \/ slices'[r].upload = "write" => Behind(r)
            /\ r \in hist.cut => Sealed(r)' \/ r \in hist'.evicted
  PROVE  IInv'
<1>0. Records /\ hist.acked \subseteq Slices
  BY DEF IInv, Records, HistType
<1>1. tasks' \in [Tasks -> TaskType] /\ tasks'[t] = y /\ \A u \in Tasks : u # t => tasks'[u] = tasks[u]
  BY <1>0 DEF Records
<1>2. Records'
  BY <1>0, <1>1 DEF Records
<1>3. ASSUME NEW r \in Slices \ T PROVE SameSlice(r)
  <2>1. ASSUME NEW u \in Tasks PROVE Writes(u, r)' <=> Writes(u, r)
    <3>1. CASE u = t
      BY <1>1, <1>3, <3>1 DEF Writes
    <3>2. CASE u # t
      BY <1>1, <3>2 DEF Writes
    <3> QED BY <3>1, <3>2
  <2> QED BY <1>3, <2>1 DEF SameSlice
<1>4. \A r \in Slices : Sealed(r) => Sealed(r)'
  BY <1>3, SameWriting
<1>5. Steady
  BY <1>0, <1>4, LightSteady
<1>6. ASSUME NEW r \in Slices PROVE Held(r)'
  <2>1. Held(r) /\ hist'.acked = hist.acked
    BY DEF IInv, HistLight
  <2>2. r \in hist'.evicted => Kept(r)'
    BY DEF Kept, Settled, Done
  <2>3. Kept(r) => Kept(r)'
    BY <1>5, Carried
  <2> QED BY <1>5, <2>1, <2>2, <2>3, HeldKeeps
<1>7. ASSUME NEW r \in Slices PROVE SliceShape(r)' /\ Claims(r)' /\ Ends(r)' /\ Published(r)'
  <2>1. CASE r \in T
    <3>1. hist'.before[r] = hist.before[r] /\ hist'.cut = hist.cut
      BY DEF HistLight
    <3>2. Behind(r) => Behind(r)'
      BY <1>0, <1>5, <3>1, BehindCarried
    <3>3. Published(r)'
      BY <2>1, <3>1, <3>2 DEF Published
    <3> QED BY <2>1, <3>3
  <2>2. CASE r \notin T
    <3>1. SameSlice(r) /\ SliceShape(r) /\ Claims(r) /\ Ends(r) /\ Published(r)
      BY <1>3, <2>2 DEF IInv
    <3>2. SliceShape(r)' /\ Claims(r)'
      BY <3>1, SameShape
    <3>3. Ends(r)'
      BY <1>5, <3>1, SameEnds
    <3>4. r \in ToSet(meta') => r \in ToSet(meta)
      BY <2>2
    <3>5. Published(r)'
      BY <1>0, <1>5, <3>1, <3>4, SamePublished
    <3> QED BY <3>2, <3>3, <3>5
  <2> QED BY <2>1, <2>2
<1>8. \A r \in Slices \ hist.acked : slices'[r] = slices[r]
  OBVIOUS
<1>9. ToSet(chunk'.deque) \subseteq hist.acked
  BY DEF IInv, Naming, Known
<1>10. \A u \in Tasks : \/ tasks'[u] = tasks[u]
                        \/ tasks'[u].pc \notin {"look", "stalled", "write"}
                        \/ tasks'[u].slice \in hist.acked /\ Behind(tasks'[u].slice)
  BY <1>1
<1> QED BY <1>2, <1>4, <1>6, <1>7, <1>8, <1>9, <1>10, WorkStep

\* A step that only moves the task along and takes slices from the deque.
LEMMA TaskMoves ==
  ASSUME IInv, NEW t \in Tasks, NEW y \in TaskType, tasks' = [tasks EXCEPT ![t] = y],
         UNCHANGED <<slices, flushes, shared, meta>>,
         tasks[t].pc # "write", y.pc # "write",
         y.pc \in {"look", "stalled"} => y.slice \in hist.acked /\ Behind(y.slice),
         HistLight, hist' \in HistType,
         chunk' \in ChunkType, Sorted', Tended',
         ToSet(chunk'.deque) \subseteq ToSet(chunk.deque),
         \A r \in ToSet(chunk.deque) :
            r \in ToSet(chunk'.deque) \/ Kept(r) \/ r \in hist'.evicted
  PROVE  IInv'
<1>1. PICK T \in SUBSET hist.acked : T = {}
  OBVIOUS
<1>2. /\ slices' \in [Slices -> SliceType] /\ shared' \in SharedType /\ meta' \in Seq(Slices)
      /\ SharedLight /\ Listing
  BY UnchangedLight DEF IInv, Records, Listing
<1>3. \A r \in Slices \ T : slices'[r] = slices[r] /\ (r \in ToSet(meta') => r \in ToSet(meta))
  OBVIOUS
<1>4. flushes' = flushes
  OBVIOUS
<1>5. \A r \in T : FALSE
  BY <1>1
<1>6. y.pc \in {"look", "stalled", "write"} => y.slice \in hist.acked /\ Behind(y.slice)
  OBVIOUS
<1> QED BY <1>2, <1>3, <1>4, <1>5, <1>6, TaskStep

\* The task that starts over, moves on or ends.
LEMMA TaskGoes ==
  ASSUME Records, NEW t \in Tasks, NEW pc \in TaskPcs \ {"none"}, Goto(t, pc)
  PROVE  \E y \in TaskType :
           /\ tasks' = [tasks EXCEPT ![t] = y] /\ y.pc = pc
           /\ y.slice = IF pc \in {"top", "pop", "move"} THEN NoSlice ELSE tasks[t].slice
           /\ tasks'[t].pc = pc
<1>1. tasks[t] \in TaskType /\ tasks \in [Tasks -> TaskType]
  BY DEF Records
<1>2. PICK n \in Slices \cup {NoSlice} :
         n = IF pc \in {"top", "pop", "move"} THEN NoSlice ELSE tasks[t].slice
  BY <1>1 DEF TaskType
<1>3. PICK y : y = [pc |-> pc, slice |-> n, failures |-> tasks[t].failures]
  OBVIOUS
<1>4. y \in TaskType /\ y.pc = pc /\ y.slice = n
  BY <1>1, <1>3 DEF TaskType
<1>5. tasks' = [tasks EXCEPT ![t] = [pc |-> pc, slice |-> n, failures |-> tasks[t].failures]]
  BY <1>2 DEF Goto
<1>6. tasks' = [tasks EXCEPT ![t] = y]
  BY ONLY <1>3, <1>5
<1> QED BY <1>1, <1>2, <1>4, <1>6

\* The same for a task that ends.
LEMMA TaskEnds ==
  ASSUME Records, NEW t \in Tasks, End(t)
  PROVE  NoTask \in TaskType /\ tasks' = [tasks EXCEPT ![t] = NoTask] /\ NoTask.pc = "none"
BY SliceWriterAssumption DEF End, NoTask, TaskType, TaskPcs, NoSlice

\* The entry of the map is gone.
LEMMA AbsentSound ==
  /\ Absent \in ChunkType /\ Absent.deque = <<>> /\ ToSet(Absent.deque) = {}
  /\ ~ Absent.present /\ ~ Absent.commit_started /\ Absent.recent = {}
  /\ chunk' = Absent => Sorted' /\ Tended'
<1>1. /\ Absent \in ChunkType /\ Absent.deque = <<>>
      /\ ~ Absent.present /\ ~ Absent.commit_started /\ Absent.recent = {}
  BY DEF Absent, ChunkType
<1>2. ToSet(Absent.deque) = {}
  BY <1>1, NoMembers
<1>3. chunk' = Absent => Sorted' /\ Tended'
  BY <1>1 DEF Sorted, Tended
<1> QED BY <1>1, <1>2, <1>3

\* A task is alive, so the chunk is still tended when it does not change.
LEMMA StillTended ==
  ASSUME IInv, NEW t \in Tasks, tasks' \in [Tasks -> TaskType], tasks'[t].pc # "none"
  PROVE  /\ chunk' = chunk => Sorted' /\ Tended' /\ chunk' \in ChunkType
         /\ (chunk.present => chunk'.present) /\ chunk'.commit_started = chunk.commit_started
            /\ (chunk'.deque # <<>> => chunk.deque # <<>>) /\ chunk.present => Tended'
BY DEF IInv, Records, Sorted, Tended

\* The front slice is taken, if the chunk and a slice are there.
LEMMA CommitTopKeeps ==
  ASSUME IInv, NEW t \in Tasks, CommitTop(t)
  PROVE  IInv'
<1>1. /\ Records /\ Tended /\ Sorted /\ tasks[t].pc = "top"
      /\ UNCHANGED <<slices, chunk, flushes, shared, meta, hist>>
  BY DEF IInv, CommitTop, At
<1>2. hist' \in HistType /\ HistLight /\ chunk' \in ChunkType /\ Sorted'
  BY <1>1, UnchangedLight DEF Records, Sorted
<1>3. \A r \in ToSet(chunk.deque) : r \in ToSet(chunk'.deque)
  BY <1>1
<1>4. CASE ~ chunk.present
  <2>1. NoTask \in TaskType /\ tasks' = [tasks EXCEPT ![t] = NoTask] /\ NoTask.pc = "none"
    BY <1>1, <1>4, TaskEnds DEF CommitTop
  <2>2. chunk' = Absent
    BY <1>1, <1>4 DEF Tended
  <2>3. Tended'
    BY <2>2, AbsentSound
  <2> QED BY <1>1, <1>2, <1>3, <2>1, <2>3, TaskMoves
<1>5. CASE chunk.present /\ chunk.deque = <<>>
  <2>1. Goto(t, "empty")
    BY <1>5 DEF CommitTop
  <2>2. PICK y \in TaskType : tasks' = [tasks EXCEPT ![t] = y] /\ y.pc = "empty"
    BY <1>1, <2>1, TaskGoes DEF TaskPcs
  <2>3. tasks' \in [Tasks -> TaskType] /\ tasks'[t].pc # "none"
    BY <1>1, <2>2 DEF Records
  <2>4. Tended'
    BY <1>1, <2>3, StillTended
  <2> QED BY <1>1, <1>2, <1>3, <2>2, <2>4, TaskMoves
<1>6. CASE chunk.present /\ chunk.deque # <<>>
  <2>1. PICK h : h = Head(chunk.deque)
    OBVIOUS
  <2>2. h \in Slices /\ h \in hist.acked /\ Behind(h)
    BY <1>6, <2>1, FrontBehind DEF IsFront
  <2>3. tasks' = [tasks EXCEPT ![t].pc = "look", ![t].slice = h]
    BY <1>6, <2>1 DEF CommitTop
  <2>4. PICK y : y = [tasks[t] EXCEPT !.pc = "look", !.slice = h]
    OBVIOUS
  <2>5. y \in TaskType /\ y.pc = "look" /\ y.slice = h
    BY <1>1, <2>2, <2>4 DEF Records, TaskType, TaskPcs
  <2>6. tasks' = [tasks EXCEPT ![t] = y]
    BY <1>1, <2>3, <2>4 DEF Records
  <2>7. tasks' \in [Tasks -> TaskType] /\ tasks'[t].pc # "none"
    BY <1>1, <2>5, <2>6 DEF Records
  <2>8. Tended'
    BY <1>1, <2>7, StillTended
  <2> QED BY <1>1, <1>2, <1>3, <2>2, <2>5, <2>6, <2>8, TaskMoves
<1> QED BY <1>4, <1>5, <1>6

\* What leaves uncommitted is evicted.
LEMMA EvictedLight ==
  ASSUME Records, NEW G \in SUBSET Slices, hist' = Evicted(G)
  PROVE  /\ hist' \in HistType /\ HistLight
         /\ \A r \in G : slices[r].state = "Committed" \/ r \in hist'.evicted
<1>1. hist \in HistType
  BY DEF Records
<1>2. PICK E \in SUBSET Slices : E = {s \in G : slices[s].state # "Committed"}
  OBVIOUS
<1>3. hist' = [hist EXCEPT !.evicted = hist.evicted \cup E]
  BY <1>2 DEF Evicted
<1>4. hist' \in HistType /\ HistLight /\ hist'.evicted = hist.evicted \cup E
  BY <1>1, <1>3 DEF HistType, HistLight
<1> QED BY <1>2, <1>4

\* A slice that has ended needs no place in the deque.
LEMMA EndedKept ==
  ASSUME IInv, NEW r \in Slices, slices[r].state \in {"Committed", "Failed"}
  PROVE  Kept(r)
BY DEF IInv, Ends, Kept, Settled

\* Nothing is left to commit: the chunk is removed, or kept for its readers.
LEMMA CommitEmptyKeeps ==
  ASSUME IInv, NEW t \in Tasks, CommitEmpty(t)
  PROVE  IInv'
<1>1. /\ Records /\ Tended /\ Sorted /\ tasks[t].pc = "empty"
      /\ UNCHANGED <<slices, flushes, shared, meta>>
  BY DEF IInv, CommitEmpty, At
<1>2. chunk \in ChunkType /\ ToSet(chunk.deque) \subseteq Slices
  BY DEF IInv, Records, Naming, Known, HistType
<1>3. CASE chunk.recent = {}
  <2>1. NoTask \in TaskType /\ tasks' = [tasks EXCEPT ![t] = NoTask] /\ NoTask.pc = "none"
    BY <1>1, <1>3, TaskEnds DEF CommitEmpty
  <2>2. chunk' = Absent /\ hist' = Evicted(ToSet(chunk.deque))
    BY <1>3 DEF CommitEmpty
  <2>3. /\ hist' \in HistType /\ HistLight
        /\ \A r \in ToSet(chunk.deque) : slices[r].state = "Committed" \/ r \in hist'.evicted
    BY <1>1, <1>2, <2>2, EvictedLight
  <2>4. \A r \in ToSet(chunk.deque) : Kept(r) \/ r \in hist'.evicted
    BY <1>2, <2>3, EndedKept
  <2>5. chunk' \in ChunkType /\ ToSet(chunk'.deque) \subseteq ToSet(chunk.deque) /\ Sorted' /\ Tended'
    BY <2>2, AbsentSound
  <2> QED BY <1>1, <2>1, <2>3, <2>4, <2>5, TaskMoves
<1>4. CASE chunk.recent # {} /\ chunk.deque # <<>>
  <2>1. Goto(t, "top") /\ UNCHANGED <<chunk, hist>>
    BY <1>4 DEF CommitEmpty
  <2>2. PICK y \in TaskType : tasks' = [tasks EXCEPT ![t] = y] /\ y.pc = "top"
    BY <1>1, <2>1, TaskGoes DEF TaskPcs
  <2>3. tasks' \in [Tasks -> TaskType] /\ tasks'[t].pc # "none"
    BY <1>1, <2>2 DEF Records
  <2>4. Tended' /\ Sorted' /\ chunk' \in ChunkType
    BY <2>1, <2>3, StillTended
  <2>5. hist' \in HistType /\ HistLight
    BY <1>1, <2>1, UnchangedLight DEF Records
  <2>6. \A r \in ToSet(chunk.deque) : r \in ToSet(chunk'.deque)
    BY <2>1
  <2> QED BY <1>1, <2>1, <2>2, <2>4, <2>5, <2>6, TaskMoves
<1>5. CASE chunk.recent # {} /\ chunk.deque = <<>>
  <2>1. NoTask \in TaskType /\ tasks' = [tasks EXCEPT ![t] = NoTask] /\ NoTask.pc = "none"
    BY <1>1, <1>5, TaskEnds DEF CommitEmpty
  <2>2. chunk' = [chunk EXCEPT !.commit_started = FALSE] /\ UNCHANGED hist
    BY <1>5 DEF CommitEmpty
  <2>3. /\ chunk' \in ChunkType /\ chunk'.deque = chunk.deque /\ ~ chunk'.commit_started
        /\ chunk'.present = chunk.present
    BY <1>2, <2>2 DEF ChunkType
  <2>4. Sorted'
    BY <1>1, <2>3 DEF Sorted
  <2>5. chunk.present
    BY <1>1, <1>5, AbsentSound DEF Tended
  <2>6. Tended'
    BY <1>5, <2>3, <2>5 DEF Tended
  <2>7. hist' \in HistType /\ HistLight
    BY <1>1, <2>2, UnchangedLight DEF Records
  <2>8. \A r \in ToSet(chunk.deque) : r \in ToSet(chunk'.deque)
    BY <2>3
  <2>9. ToSet(chunk'.deque) \subseteq ToSet(chunk.deque)
    BY <2>3
  <2> QED BY <1>1, <2>1, <2>3, <2>4, <2>6, <2>7, <2>8, <2>9, TaskMoves
<1> QED BY <1>3, <1>4, <1>5

\* The front slice and the rest of the deque.
LEMMA PoppedFront ==
  ASSUME IInv
  PROVE  /\ Rest \in Seq(Slices) /\ Popped \subseteq Slices
         /\ ToSet(chunk.deque) = Popped \cup ToSet(Rest)
         /\ \A i, j \in DOMAIN Rest : i < j => Rest[i] < Rest[j]
         /\ Rest # <<>> => chunk.deque # <<>>
<1> DEFINE d == chunk.deque
<1>1. d \in Seq(Slices) /\ Sorted
  BY DEF IInv, Records, ChunkType
<1>2. CASE d = <<>>
  <2>1. Rest = <<>> /\ Popped = {}
    BY <1>2 DEF Rest, Popped
  <2>2. ToSet(d) = {} /\ ToSet(Rest) = {}
    BY <1>2, <2>1, NoMembers
  <2> QED BY <1>2, <2>1, <2>2
<1>3. CASE d # <<>>
  <2>1. Rest = Tail(d) /\ Popped = {Head(d)}
    BY <1>3 DEF Rest, Popped
  <2>2. /\ Head(d) \in Slices /\ Tail(d) \in Seq(Slices)
        /\ ToSet(d) = {Head(d)} \cup ToSet(Tail(d))
        /\ DOMAIN d = 1 .. Len(d) /\ DOMAIN Tail(d) = 1 .. Len(d) - 1
        /\ Len(d) \in Nat
        /\ \A i \in 1 .. Len(d) - 1 : Tail(d)[i] = d[i + 1]
    BY <1>1, <1>3, FrontMembers
  <2>3. \A i, j \in DOMAIN d : i < j => d[i] < d[j]
    BY <1>1 DEF Sorted
  <2>4. ASSUME NEW i \in DOMAIN Tail(d), NEW j \in DOMAIN Tail(d), i < j
        PROVE  Tail(d)[i] < Tail(d)[j]
    <3>1. /\ i \in 1 .. Len(d) - 1 /\ j \in 1 .. Len(d) - 1
          /\ i + 1 \in DOMAIN d /\ j + 1 \in DOMAIN d /\ i + 1 < j + 1
      BY <2>2, <2>4
    <3>2. d[i + 1] < d[j + 1]
      BY ONLY <2>3, <3>1
    <3> QED BY <2>2, <3>1, <3>2
  <2> QED BY <1>3, <2>1, <2>2, <2>4
<1> QED BY <1>2, <1>3

\* The committed slice leaves: the front one, whichever it is.
LEMMA CommitMoveKeeps ==
  ASSUME IInv, NEW t \in Tasks, CommitMove(t)
  PROVE  IInv'
<1>1. /\ Records /\ Tended /\ Sorted /\ tasks[t].pc = "move"
      /\ UNCHANGED <<slices, flushes, shared, meta>>
      /\ hist' = Evicted(Popped) /\ Goto(t, "top")
      /\ chunk' = [chunk EXCEPT !.deque = Rest,
                     !.recent = @ \cup {s \in Popped : slices[s].state # "Committed"}]
  BY DEF IInv, CommitMove, At
<1>2. /\ Rest \in Seq(Slices) /\ Popped \subseteq Slices
      /\ ToSet(chunk.deque) = Popped \cup ToSet(Rest)
      /\ \A i, j \in DOMAIN Rest : i < j => Rest[i] < Rest[j]
      /\ Rest # <<>> => chunk.deque # <<>>
  BY PoppedFront
<1>3. /\ hist' \in HistType /\ HistLight
      /\ \A r \in Popped : slices[r].state = "Committed" \/ r \in hist'.evicted
  BY <1>1, <1>2, EvictedLight
<1>4. PICK y \in TaskType : tasks' = [tasks EXCEPT ![t] = y] /\ y.pc = "top"
  BY <1>1, TaskGoes DEF TaskPcs
<1>5. tasks' \in [Tasks -> TaskType] /\ tasks'[t].pc # "none"
  BY <1>1, <1>4 DEF Records
<1>6. /\ chunk' \in ChunkType /\ chunk'.deque = Rest /\ chunk'.present = chunk.present
      /\ chunk'.commit_started = chunk.commit_started
  <2>1. PICK R \in SUBSET Slices :
          R = chunk.recent \cup {s \in Popped : slices[s].state # "Committed"}
    BY <1>1, <1>2 DEF Records, ChunkType
  <2>2. chunk' = [chunk EXCEPT !.deque = Rest, !.recent = R]
    BY <1>1, <2>1
  <2> QED BY <1>1, <1>2, <2>2 DEF Records, ChunkType
<1>7. Sorted'
  BY <1>2, <1>6 DEF Sorted
<1>8. Tended'
  <2>1. CASE chunk.present
    BY <1>1, <1>2, <1>5, <1>6, <2>1 DEF Tended
  <2>2. CASE ~ chunk.present
    <3>1. chunk = Absent
      BY <1>1, <2>2 DEF Tended
    <3>2. Rest = <<>> /\ Popped = {}
      BY <3>1, AbsentSound DEF Rest, Popped
    <3>3. chunk' = Absent
      BY <1>1, <3>1, <3>2 DEF Absent
    <3> QED BY <3>3, AbsentSound
  <2> QED BY <2>1, <2>2
<1>9. \A r \in ToSet(chunk.deque) : r \in ToSet(chunk'.deque) \/ Kept(r) \/ r \in hist'.evicted
  BY <1>2, <1>3, <1>6, EndedKept
<1>10. ToSet(chunk'.deque) \subseteq ToSet(chunk.deque)
  BY <1>2, <1>6
<1> QED BY <1>1, <1>3, <1>4, <1>6, <1>7, <1>8, <1>9, <1>10, TaskMoves

\* The failed slice leaves, with the chunk if it was the last one.
LEMMA CommitPopKeeps ==
  ASSUME IInv, NEW t \in Tasks, CommitPop(t)
  PROVE  IInv'
<1>1. /\ Records /\ Tended /\ Sorted /\ tasks[t].pc = "pop"
      /\ UNCHANGED <<slices, flushes, shared, meta>>
      /\ hist' = Evicted({s \in Popped : slices[s].state # "Failed"})
  BY DEF IInv, CommitPop, At
<1>2. /\ Rest \in Seq(Slices) /\ Popped \subseteq Slices
      /\ ToSet(chunk.deque) = Popped \cup ToSet(Rest)
      /\ \A i, j \in DOMAIN Rest : i < j => Rest[i] < Rest[j]
      /\ Rest # <<>> => chunk.deque # <<>>
  BY PoppedFront
<1>3. PICK G \in SUBSET Slices : G = {s \in Popped : slices[s].state # "Failed"}
  BY <1>2
<1>4. /\ hist' \in HistType /\ HistLight
      /\ \A r \in G : slices[r].state = "Committed" \/ r \in hist'.evicted
  BY <1>1, <1>3, EvictedLight
<1>5. \A r \in Popped : Kept(r) \/ r \in hist'.evicted
  BY <1>2, <1>3, <1>4, EndedKept
<1>6. CASE Rest = <<>> /\ chunk.recent = {}
  <2>1. NoTask \in TaskType /\ tasks' = [tasks EXCEPT ![t] = NoTask] /\ NoTask.pc = "none"
    BY <1>1, <1>6, TaskEnds DEF CommitPop
  <2>2. chunk' = Absent
    BY <1>6 DEF CommitPop
  <2>3. chunk' \in ChunkType /\ ToSet(chunk'.deque) \subseteq ToSet(chunk.deque) /\ Sorted' /\ Tended'
    BY <2>2, AbsentSound
  <2>4. ToSet(Rest) = {}
    BY <1>6, NoMembers
  <2> QED BY <1>1, <1>2, <1>4, <1>5, <2>1, <2>3, <2>4, TaskMoves
<1>7. CASE ~ (Rest = <<>> /\ chunk.recent = {})
  <2>1. chunk' = [chunk EXCEPT !.deque = Rest] /\ Goto(t, "top")
    BY <1>7 DEF CommitPop
  <2>2. PICK y \in TaskType : tasks' = [tasks EXCEPT ![t] = y] /\ y.pc = "top"
    BY <1>1, <2>1, TaskGoes DEF TaskPcs
  <2>3. tasks' \in [Tasks -> TaskType] /\ tasks'[t].pc # "none"
    BY <1>1, <2>2 DEF Records
  <2>4. /\ chunk' \in ChunkType /\ chunk'.deque = Rest /\ chunk'.present = chunk.present
        /\ chunk'.commit_started = chunk.commit_started
    BY <1>1, <1>2, <2>1 DEF Records, ChunkType
  <2>5. Sorted'
    BY <1>2, <2>4 DEF Sorted
  <2>6. chunk.present
    <3>1. ASSUME ~ chunk.present PROVE FALSE
      <4>1. chunk = Absent
        BY <1>1, <3>1 DEF Tended
      <4>2. Rest = <<>> /\ chunk.recent = {}
        BY <4>1, AbsentSound DEF Rest
      <4> QED BY <1>7, <4>2
    <3> QED BY <3>1
  <2>7. Tended'
    BY <1>1, <1>2, <2>3, <2>4, <2>6 DEF Tended
  <2>8. \A r \in ToSet(chunk.deque) : r \in ToSet(chunk'.deque) \/ Kept(r) \/ r \in hist'.evicted
    BY <1>2, <1>5, <2>4
  <2>9. ToSet(chunk'.deque) \subseteq ToSet(chunk.deque)
    BY <1>2, <2>4
  <2> QED BY <1>1, <1>4, <2>2, <2>4, <2>5, <2>7, <2>8, <2>9, TaskMoves
<1> QED BY <1>6, <1>7

\* The slice a task looks at.
LEMMA Looking ==
  ASSUME IInv, NEW t \in Tasks, tasks[t].pc \in {"look", "stalled", "write"},
         NEW s, s = tasks[t].slice
  PROVE  /\ s \in hist.acked /\ s \in Slices /\ Behind(s) /\ slices[s] \in SliceType
         /\ Records /\ SliceShape(s) /\ Claims(s) /\ Ends(s) /\ Published(s)
<1>1. s \in hist.acked /\ Behind(s)
  BY DEF IInv, Naming, Fronted
<1>2. s \in Slices
  BY <1>1 DEF IInv, Records, HistType
<1> QED BY <1>1, <1>2 DEF IInv, Records

\* A task that only goes on, and leaves everything else alone.
LEMMA TaskGoesOn ==
  ASSUME IInv, NEW t \in Tasks, NEW pc \in TaskPcs \ {"none", "write"}, Goto(t, pc),
         tasks[t].pc # "write", UNCHANGED <<slices, chunk, flushes, shared, meta, hist>>,
         pc \in {"look", "stalled"} => tasks[t].pc \in {"look", "stalled"}
  PROVE  IInv'
<1>1. Records
  BY DEF IInv
<1>2. PICK y \in TaskType :
         /\ tasks' = [tasks EXCEPT ![t] = y] /\ y.pc = pc
         /\ y.slice = IF pc \in {"top", "pop", "move"} THEN NoSlice ELSE tasks[t].slice
  BY <1>1, TaskGoes
<1>3. tasks' \in [Tasks -> TaskType] /\ tasks'[t].pc # "none"
  BY <1>1, <1>2 DEF Records
<1>4. chunk' = chunk
  OBVIOUS
<1>5. Tended' /\ Sorted' /\ chunk' \in ChunkType
  BY <1>3, <1>4, StillTended
<1>6. hist' \in HistType /\ HistLight
  BY <1>1, UnchangedLight DEF Records
<1>7. \A r \in ToSet(chunk.deque) : r \in ToSet(chunk'.deque)
  BY <1>4
<1>8. y.pc \in {"look", "stalled"} => y.slice \in hist.acked /\ Behind(y.slice)
  <2>1. ASSUME y.pc \in {"look", "stalled"} PROVE y.slice = tasks[t].slice
    BY <1>2, <2>1
  <2> QED BY <1>2, <2>1, Looking
<1>9. y.pc # "write"
  BY <1>2
<1> QED BY <1>2, <1>4, <1>5, <1>6, <1>7, <1>8, <1>9, TaskMoves

\* A stale slice counts as committed; an uploaded one that nobody has claimed
\* is claimed.
LEMMA CommitLookKeeps ==
  ASSUME IInv, NEW t \in Tasks, CommitLook(t)
  PROVE  IInv'
<1>1. PICK s : s = tasks[t].slice
  OBVIOUS
<1>2. tasks[t].pc = "look" /\ UNCHANGED <<chunk, flushes, shared, meta>>
  BY DEF CommitLook, At
<1>3. /\ s \in hist.acked /\ s \in Slices /\ Behind(s) /\ slices[s] \in SliceType
      /\ Records /\ SliceShape(s) /\ Claims(s) /\ Ends(s) /\ Published(s)
  BY <1>1, <1>2, Looking
<1>4. slices[s].state \in States
  BY <1>3 DEF SliceType
<1>5. /\ chunk' = chunk /\ flushes' = flushes /\ meta' = meta /\ meta' \in Seq(Slices)
      /\ shared' \in SharedType /\ SharedLight /\ Listing
      /\ \A r \in ToSet(chunk.deque) : r \in ToSet(chunk'.deque)
      /\ ToSet(chunk'.deque) \subseteq ToSet(chunk.deque)
  BY <1>2, <1>3, UnchangedLight DEF Records, Listing
<1>6. CASE slices[s].state = "Failed"
  <2>1. Goto(t, "pop") /\ UNCHANGED <<slices, hist>>
    BY <1>1, <1>6 DEF CommitLook
  <2> QED BY <1>2, <2>1, TaskGoesOn DEF TaskPcs
<1>7. CASE slices[s].state = "Committed"
  <2>1. Goto(t, "move") /\ UNCHANGED <<slices, hist>>
    BY <1>1, <1>7 DEF CommitLook
  <2> QED BY <1>2, <2>1, TaskGoesOn DEF TaskPcs
<1>8. CASE slices[s].state = "Uploaded" /\ ~ Stale(s) /\ slices[s].meta_write_started
  <2>1. Goto(t, "top") /\ UNCHANGED <<slices, hist>>
    BY <1>1, <1>8 DEF CommitLook
  <2> QED BY <1>2, <2>1, TaskGoesOn DEF TaskPcs
<1>9. CASE slices[s].state \in {"none", "Writable", "Readonly"}
  <2>1. (Goto(t, "top") \/ Goto(t, "stalled")) /\ UNCHANGED <<slices, hist>>
    BY <1>1, <1>9 DEF CommitLook
  <2> QED BY <1>2, <2>1, TaskGoesOn DEF TaskPcs
<1>10. CASE slices[s].state = "Uploaded" /\ Stale(s)
  <2>1. /\ Goto(t, "move") /\ hist' = FoundStale(s)
        /\ slices' = [slices EXCEPT ![s].state = "Committed"]
    BY <1>1, <1>10 DEF CommitLook
  <2>2. PICK y \in TaskType : tasks' = [tasks EXCEPT ![t] = y] /\ y.pc = "move"
    BY <1>3, <2>1, TaskGoes DEF TaskPcs
  <2>3. /\ tasks' \in [Tasks -> TaskType] /\ tasks'[t].pc = "move"
        /\ \A u \in Tasks : u # t => tasks'[u] = tasks[u]
    BY <1>3, <2>2 DEF Records
  <2>4. Tended' /\ Sorted' /\ chunk' \in ChunkType
    BY <1>5, <2>3, StillTended
  <2>5. /\ hist' \in HistType /\ HistLight
        /\ hist'.again = hist.again /\ hist'.evicted = hist.evicted
        /\ Writing(s) => s \in hist'.late
    BY <1>3, <2>1, FoundStaleLight
  <2>6. /\ slices' \in [Slices -> SliceType] /\ slices'[s].state = "Committed"
        /\ slices'[s].meta_write_started = slices[s].meta_write_started
        /\ slices'[s].frozen_epoch = slices[s].frozen_epoch
        /\ slices'[s].upload = slices[s].upload
        /\ \A r \in Slices \ {s} : slices'[r] = slices[r]
    BY <1>3, <2>1 DEF Records, SliceType, States
  <2>7. \A u \in Tasks : Writes(u, s)' <=> Writes(u, s)
    BY <1>2, <2>3 DEF Writes
  <2>8. Writing(s)' <=> Writing(s)
    BY <2>6, <2>7 DEF Writing, Writes
  <2>9. slices[s].upload \notin {"id", "put"}
    BY <1>3, <1>10 DEF SliceShape
  <2>10. SliceShape(s)' /\ Claims(s)'
    BY <1>3, <2>6, <2>7, <2>8, <2>9 DEF SliceShape, Claims
  <2>11. Sealed(s)' \/ s \in hist'.late
    <3>1. slices[s].upload \in Uploads
      BY <1>3 DEF SliceType
    <3>2. ~ Writing(s) => slices[s].upload \notin {"front", "write"}
      BY DEF Writing
    <3> QED BY <2>5, <2>6, <2>8, <2>9, <3>1, <3>2 DEF Sealed, Uploads
  <2>12. s \in hist.concurrent /\ hist'.concurrent = hist.concurrent
    BY <1>3, <1>10, <2>5 DEF Ends, HistLight
  <2>13. Ends(s)'
    BY <1>2, <2>6, <2>11, <2>12 DEF Ends, Done, Stale
  <2>14. ~ Sealed(s) /\ (s \in hist.cut => s \in hist.evicted)
    BY <1>3, <1>10 DEF Sealed, Published
  <2>15. s \in ToSet(meta) /\ s \notin hist.again => slices[s].meta_write_started /\ ~ Writing(s)
    BY <1>3 DEF Published
  <2>16. PICK T \in SUBSET hist.acked : T = {s}
    BY <1>3
  <2>17. \A r \in T :
            /\ Sealed(r) => Sealed(r)'
            /\ SliceShape(r)' /\ Claims(r)' /\ Ends(r)'
            /\ r \in ToSet(meta') /\ r \notin hist'.again =>
                  slices'[r].meta_write_started /\ ~ Writing(r)'
            /\ r \in ToSet(meta') \/ slices'[r].upload = "write" => Behind(r)
            /\ r \in hist.cut => Sealed(r)' \/ r \in hist'.evicted
    BY <1>3, <1>5, <2>5, <2>6, <2>8, <2>10, <2>13, <2>14, <2>15, <2>16
  <2>18. \A r \in Slices \ T : slices'[r] = slices[r]
    BY <2>6, <2>16
  <2>19. /\ y.pc # "write" /\ y.pc \notin {"look", "stalled", "write"} /\ tasks[t].pc # "write"
         /\ \A r \in Slices \ T : r \in ToSet(meta') => r \in ToSet(meta)
    BY <1>2, <1>5, <2>2
  <2>20. /\ flushes' = flushes /\ meta' \in Seq(Slices) /\ shared' \in SharedType
         /\ SharedLight /\ Listing /\ ToSet(chunk'.deque) \subseteq ToSet(chunk.deque)
         /\ \A r \in ToSet(chunk.deque) : r \in ToSet(chunk'.deque)
    BY <1>5
  <2>21. /\ tasks' = [tasks EXCEPT ![t] = y] /\ hist' \in HistType /\ HistLight
         /\ slices' \in [Slices -> SliceType]
    BY <2>2, <2>5, <2>6
  <2> QED BY <2>4, <2>17, <2>18, <2>19, <2>20, <2>21, TaskStep
<1>11. CASE slices[s].state = "Uploaded" /\ ~ Stale(s) /\ ~ slices[s].meta_write_started
  <2>1. /\ Goto(t, "write") /\ hist' = hist
        /\ slices' = [slices EXCEPT ![s].meta_write_started = TRUE]
    BY <1>1, <1>11 DEF CommitLook
  <2>2. PICK y \in TaskType : tasks' = [tasks EXCEPT ![t] = y] /\ y.pc = "write" /\ y.slice = s
    BY <1>1, <1>3, <2>1, TaskGoes DEF TaskPcs
  <2>3. /\ tasks' \in [Tasks -> TaskType] /\ tasks'[t].pc = "write" /\ tasks'[t].slice = s
        /\ \A u \in Tasks : u # t => tasks'[u] = tasks[u]
    BY <1>3, <2>2 DEF Records
  <2>4. Tended' /\ Sorted' /\ chunk' \in ChunkType
    BY <1>5, <2>3, StillTended
  <2>5. hist' \in HistType /\ HistLight
    BY <1>3, <2>1, UnchangedLight DEF Records
  <2>6. /\ slices' \in [Slices -> SliceType] /\ slices'[s].state = "Uploaded"
        /\ slices'[s].meta_write_started
        /\ slices'[s].frozen_epoch = slices[s].frozen_epoch
        /\ slices'[s].upload = slices[s].upload
        /\ \A r \in Slices \ {s} : slices'[r] = slices[r]
    BY <1>3, <1>11, <2>1 DEF Records, SliceType, States
  <2>7. slices[s].upload \notin {"id", "put"} /\ ~ Writing(s)
    BY <1>3, <1>11 DEF SliceShape, Claims
  <2>8. slices[s].upload \notin {"front", "write"} /\ \A u \in Tasks : ~ Writes(u, s)
    BY <2>7 DEF Writing, Writes
  <2>9. \A u \in Tasks : Writes(u, s)' => u = t
    BY <2>3, <2>8 DEF Writes
  <2>10. SliceShape(s)' /\ Claims(s)'
    BY <2>6, <2>7, <2>8, <2>9 DEF SliceShape, Claims
  <2>11. Ends(s)'
    BY <1>2, <1>3, <2>1, <2>6 DEF Ends, Stale
  <2>12. ~ Sealed(s) /\ (s \in hist.cut => s \in hist.evicted)
    BY <1>3, <1>11 DEF Sealed, Published
  <2>13. s \in ToSet(meta) /\ s \notin hist.again => FALSE
    BY <1>3, <1>11 DEF Published
  <2>14. PICK T \in SUBSET hist.acked : T = {s}
    BY <1>3
  <2>15. \A r \in T :
            /\ Sealed(r) => Sealed(r)'
            /\ SliceShape(r)' /\ Claims(r)' /\ Ends(r)'
            /\ r \in ToSet(meta') /\ r \notin hist'.again =>
                  slices'[r].meta_write_started /\ ~ Writing(r)'
            /\ r \in ToSet(meta') \/ slices'[r].upload = "write" => Behind(r)
            /\ r \in hist.cut => Sealed(r)' \/ r \in hist'.evicted
    BY <1>3, <1>5, <2>1, <2>10, <2>11, <2>12, <2>13, <2>14
  <2>16. \A r \in Slices \ T : slices'[r] = slices[r]
    BY <2>6, <2>14
  <2>17. /\ y.slice \in T /\ y.slice \in hist.acked /\ Behind(y.slice) /\ tasks[t].pc # "write"
         /\ \A r \in Slices \ T : r \in ToSet(meta') => r \in ToSet(meta)
    BY <1>2, <1>3, <1>5, <2>2, <2>14
  <2> QED BY <1>5, <2>2, <2>4, <2>5, <2>6, <2>15, <2>16, <2>17, TaskStep
<1> QED BY <1>4, <1>6, <1>7, <1>8, <1>9, <1>10, <1>11 DEF States

\* The slice is given up, and late from now on.
LEMMA CommitStalledKeeps ==
  ASSUME IInv, NEW t \in Tasks, CommitStalled(t)
  PROVE  IInv'
<1>1. PICK s : s = tasks[t].slice
  OBVIOUS
<1>2. /\ tasks[t].pc = "stalled" /\ UNCHANGED <<chunk, flushes, meta>>
      /\ slices' = [slices EXCEPT ![s] = Failed(s)]
      /\ shared' = [Counted EXCEPT !.error = TRUE]
      /\ hist' = [hist EXCEPT !.late = @ \cup {s}]
      /\ Goto(t, "pop")
  BY <1>1 DEF CommitStalled, At
<1>3. /\ s \in hist.acked /\ s \in Slices /\ Behind(s) /\ slices[s] \in SliceType
      /\ Records /\ SliceShape(s) /\ Claims(s) /\ Ends(s) /\ Published(s)
  BY <1>1, <1>2, Looking
<1>4. /\ chunk' = chunk /\ flushes' = flushes /\ meta' = meta /\ meta' \in Seq(Slices)
      /\ Listing
      /\ \A r \in ToSet(chunk.deque) : r \in ToSet(chunk'.deque)
      /\ ToSet(chunk'.deque) \subseteq ToSet(chunk.deque)
  BY <1>2, <1>3 DEF Records, Listing
<1>5. shared' \in SharedType /\ SharedLight /\ shared'.error /\ shared'.epoch = shared.epoch
  BY <1>2, <1>3, ErrorsLight DEF SharedLight
<1>6. /\ hist' \in HistType /\ HistLight /\ s \in hist'.late
      /\ hist'.again = hist.again /\ hist'.evicted = hist.evicted
      /\ hist'.concurrent = hist.concurrent
  BY <1>2, <1>3 DEF Records, HistType, HistLight
<1>7. PICK y \in TaskType : tasks' = [tasks EXCEPT ![t] = y] /\ y.pc = "pop"
  BY <1>2, <1>3, TaskGoes DEF TaskPcs
<1>8. /\ tasks' \in [Tasks -> TaskType] /\ tasks'[t].pc = "pop"
      /\ \A u \in Tasks : u # t => tasks'[u] = tasks[u]
  BY <1>3, <1>7 DEF Records
<1>9. Tended' /\ Sorted' /\ chunk' \in ChunkType
  BY <1>4, <1>8, StillTended
<1>10. /\ slices' \in [Slices -> SliceType] /\ slices'[s].state = "Failed"
       /\ slices'[s].meta_write_started = slices[s].meta_write_started
       /\ slices'[s].frozen_epoch = slices[s].frozen_epoch
       /\ slices'[s].upload = slices[s].upload
       /\ \A r \in Slices \ {s} : slices'[r] = slices[r]
  BY <1>2, <1>3 DEF Failed, Records, SliceType, States
<1>11. \A u \in Tasks : Writes(u, s)' <=> Writes(u, s)
  BY <1>2, <1>8 DEF Writes
<1>12. Writing(s)' <=> Writing(s)
  BY <1>10, <1>11 DEF Writing, Writes
<1>13. SliceShape(s)' /\ Claims(s)'
  BY <1>3, <1>10, <1>11, <1>12 DEF SliceShape, Claims
<1>14. Sealed(s) => Sealed(s)'
  BY <1>10, <1>12 DEF Sealed
<1>15. Ends(s)'
  BY <1>3, <1>5, <1>6, <1>10 DEF Ends, Stale
<1>16. /\ s \in ToSet(meta) /\ s \notin hist.again => slices[s].meta_write_started /\ ~ Writing(s)
       /\ s \in hist.cut => Sealed(s) \/ s \in hist.evicted
  BY <1>3 DEF Published
<1>17. PICK T \in SUBSET hist.acked : T = {s}
  BY <1>3
<1>18. \A r \in T :
            /\ Sealed(r) => Sealed(r)'
            /\ SliceShape(r)' /\ Claims(r)' /\ Ends(r)'
            /\ r \in ToSet(meta') /\ r \notin hist'.again =>
                  slices'[r].meta_write_started /\ ~ Writing(r)'
            /\ r \in ToSet(meta') \/ slices'[r].upload = "write" => Behind(r)
            /\ r \in hist.cut => Sealed(r)' \/ r \in hist'.evicted
  BY <1>3, <1>4, <1>6, <1>10, <1>12, <1>13, <1>14, <1>15, <1>16, <1>17
<1>19. \A r \in Slices \ T : slices'[r] = slices[r]
  BY <1>10, <1>17
<1>20. /\ y.pc # "write" /\ y.pc \notin {"look", "stalled", "write"} /\ tasks[t].pc # "write"
       /\ \A r \in Slices \ T : r \in ToSet(meta') => r \in ToSet(meta)
  BY <1>2, <1>4, <1>7
<1> QED BY <1>4, <1>5, <1>6, <1>7, <1>9, <1>10, <1>18, <1>19, <1>20, TaskStep

\* The task's metadata write ends: no one else has the claim.
LEMMA CommitWriteKeeps ==
  ASSUME IInv, NEW t \in Tasks, CommitWrite(t)
  PROVE  IInv'
<1>1. PICK s : s = tasks[t].slice
  OBVIOUS
<1>2. PICK n : n = tasks[t].failures + 1
  OBVIOUS
<1>3. tasks[t].pc = "write" /\ UNCHANGED <<chunk, flushes>>
  BY DEF CommitWrite, At
<1>4. /\ s \in hist.acked /\ s \in Slices /\ Behind(s) /\ slices[s] \in SliceType
      /\ Records /\ SliceShape(s) /\ Claims(s) /\ Ends(s) /\ Published(s)
  BY <1>1, <1>3, Looking
<1>5. PICK answer \in Answers :
          /\ Applied(answer, s)
          /\ CASE answer = "ok" ->
                    /\ slices' = [slices EXCEPT ![s].state = "Committed"]
                    /\ tasks' = [tasks EXCEPT ![t] = [NoTask EXCEPT !.pc = "move"]]
                    /\ shared' = After(answer)
               [] answer = "retry" /\ n < MaxRetries ->
                    /\ tasks' = [tasks EXCEPT ![t] = [NoTask EXCEPT !.pc = "top", !.failures = n]]
                    /\ shared' = After(answer)
                    /\ UNCHANGED slices
               [] OTHER ->
                    /\ slices' = [slices EXCEPT ![s] = Failed(s)]
                    /\ shared' = After("fatal")
                    /\ tasks' = [tasks EXCEPT ![t] = [NoTask EXCEPT !.pc = "pop"]]
  BY <1>1, <1>2 DEF CommitWrite
<1>6. Writes(t, s) /\ Writing(s) /\ ~ Sealed(s)
  BY <1>1, <1>3 DEF Writes, Writing, Sealed
<1>7. /\ slices[s].meta_write_started /\ slices[s].upload \notin {"front", "write"}
      /\ \A u \in Tasks : Writes(u, s) => u = t
  BY <1>4, <1>6 DEF Claims
<1>8. slices[s].upload \in {"none", "try"} /\ slices[s].state \notin {"none", "Writable", "Readonly"}
  BY <1>4, <1>7 DEF SliceShape, SliceType, Uploads
<1>9. /\ answer \in {"ok", "retry", "fatal"}
      /\ hist' \in HistType /\ HistLight /\ hist'.evicted = hist.evicted
      /\ Listing /\ (meta' = meta \/ meta' = Append(meta, s))
      /\ answer = "ok" => s \in ToSet(meta')
      /\ answer # "ok" /\ s \in ToSet(meta') =>
            s \in hist'.again \/ (s \in ToSet(meta) /\ hist' = hist)
  BY <1>4, <1>5, <1>6, AnswerLight
<1>10. /\ NoTask \in TaskType /\ [NoTask EXCEPT !.pc = "move"] \in TaskType
       /\ [NoTask EXCEPT !.pc = "pop"] \in TaskType
       /\ n < MaxRetries => [NoTask EXCEPT !.pc = "top", !.failures = n] \in TaskType
  <2>1. n \in Nat /\ MaxRetries \in Nat
    <3>1. tasks[t].failures \in 0 .. MaxRetries
      BY <1>4 DEF Records, TaskType
    <3> QED BY <1>2, <3>1, SliceWriterAssumption
  <2>2. 0 \in 0 .. MaxRetries /\ (n < MaxRetries => n \in 0 .. MaxRetries)
    BY <2>1
  <2>3. \A pc \in TaskPcs : [NoTask EXCEPT !.pc = pc] \in TaskType
    BY <2>2 DEF NoTask, TaskType, NoSlice
  <2>4. NoTask \in TaskType
    BY <2>2 DEF NoTask, TaskType, TaskPcs, NoSlice
  <2>5. ASSUME n < MaxRetries PROVE [NoTask EXCEPT !.pc = "top", !.failures = n] \in TaskType
    BY <2>2, <2>5 DEF NoTask, TaskType, TaskPcs, NoSlice
  <2> QED BY <2>3, <2>4, <2>5 DEF TaskPcs
<1>11. \E y \in TaskType :
          /\ tasks' = [tasks EXCEPT ![t] = y] /\ y.pc \in {"move", "top", "pop"}
          /\ slices' \in [Slices -> SliceType]
          /\ slices'[s].upload = slices[s].upload /\ slices'[s].meta_write_started
          /\ slices'[s].frozen_epoch = slices[s].frozen_epoch
          /\ \A r \in Slices \ {s} : slices'[r] = slices[r]
          /\ shared' \in SharedType /\ SharedLight
          /\ \/ slices'[s].state = "Committed" /\ answer = "ok"
             \/ slices'[s].state = "Failed" /\ shared'.error
             \/ slices'[s].state = slices[s].state
  <2>1. CASE answer = "ok"
    <3>1. /\ slices' = [slices EXCEPT ![s].state = "Committed"]
          /\ tasks' = [tasks EXCEPT ![t] = [NoTask EXCEPT !.pc = "move"]]
          /\ shared' = After(answer)
      BY <1>5, <2>1
    <3>2. shared' \in SharedType /\ SharedLight
      BY <1>4, <1>9, <3>1, AfterLight
    <3>3. /\ slices' \in [Slices -> SliceType] /\ slices'[s].state = "Committed"
          /\ slices'[s].upload = slices[s].upload /\ slices'[s].meta_write_started
          /\ slices'[s].frozen_epoch = slices[s].frozen_epoch
          /\ \A r \in Slices \ {s} : slices'[r] = slices[r]
      BY <1>4, <1>7, <3>1 DEF Records, SliceType, States
    <3>4. [NoTask EXCEPT !.pc = "move"].pc = "move"
      BY DEF NoTask
    <3> QED BY <1>10, <2>1, <3>1, <3>2, <3>3, <3>4
  <2>2. CASE answer = "retry" /\ n < MaxRetries
    <3>1. /\ tasks' = [tasks EXCEPT ![t] = [NoTask EXCEPT !.pc = "top", !.failures = n]]
          /\ shared' = After(answer) /\ slices' = slices
      BY <1>5, <2>2
    <3>2. shared' \in SharedType /\ SharedLight
      BY <1>4, <1>9, <3>1, AfterLight
    <3>3. slices' \in [Slices -> SliceType] /\ slices'[s].meta_write_started
      BY <1>4, <1>7, <3>1 DEF Records
    <3>4. [NoTask EXCEPT !.pc = "top", !.failures = n].pc = "top"
      BY DEF NoTask
    <3> QED BY <1>10, <2>2, <3>1, <3>2, <3>3, <3>4
  <2>3. CASE answer # "ok" /\ ~ (answer = "retry" /\ n < MaxRetries)
    <3>1. /\ slices' = [slices EXCEPT ![s] = Failed(s)]
          /\ shared' = After("fatal")
          /\ tasks' = [tasks EXCEPT ![t] = [NoTask EXCEPT !.pc = "pop"]]
      BY <1>5, <2>3
    <3>2. shared' \in SharedType /\ SharedLight /\ shared'.error
      BY <1>4, <3>1, AfterLight
    <3>3. /\ slices' \in [Slices -> SliceType] /\ slices'[s].state = "Failed"
          /\ slices'[s].upload = slices[s].upload /\ slices'[s].meta_write_started
          /\ slices'[s].frozen_epoch = slices[s].frozen_epoch
          /\ \A r \in Slices \ {s} : slices'[r] = slices[r]
      BY <1>4, <1>7, <3>1 DEF Failed, Records, SliceType, States
    <3>4. [NoTask EXCEPT !.pc = "pop"].pc = "pop"
      BY DEF NoTask
    <3> QED BY <1>10, <3>1, <3>2, <3>3, <3>4
  <2> QED BY <2>1, <2>2, <2>3
<1>12. PICK y \in TaskType :
          /\ tasks' = [tasks EXCEPT ![t] = y] /\ y.pc \in {"move", "top", "pop"}
          /\ slices' \in [Slices -> SliceType]
          /\ slices'[s].upload = slices[s].upload /\ slices'[s].meta_write_started
          /\ slices'[s].frozen_epoch = slices[s].frozen_epoch
          /\ \A r \in Slices \ {s} : slices'[r] = slices[r]
          /\ shared' \in SharedType /\ SharedLight
          /\ \/ slices'[s].state = "Committed" /\ answer = "ok"
             \/ slices'[s].state = "Failed" /\ shared'.error
             \/ slices'[s].state = slices[s].state
  BY <1>11
<1>13. /\ tasks' \in [Tasks -> TaskType] /\ tasks'[t].pc \in {"move", "top", "pop"}
       /\ \A u \in Tasks : u # t => tasks'[u] = tasks[u]
  BY <1>4, <1>12 DEF Records
<1>14. Tended' /\ Sorted' /\ chunk' \in ChunkType
  BY <1>3, <1>13, StillTended
<1>15. \A u \in Tasks : ~ Writes(u, s)'
  BY <1>7, <1>13 DEF Writes
<1>16. ~ Writing(s)'
  BY <1>8, <1>12, <1>15 DEF Writing, Writes
<1>17. SliceShape(s)' /\ Claims(s)'
  BY <1>8, <1>12, <1>15, <1>16 DEF SliceShape, Claims
<1>18. slices'[s].state \in {"Committed", "Failed"} => Sealed(s)'
  BY <1>8, <1>12, <1>16 DEF Sealed
<1>19. Ends(s)'
  <2>1. /\ shared'.epoch = shared.epoch /\ hist'.concurrent = hist.concurrent
        /\ shared.error => shared'.error
    BY <1>9, <1>12 DEF SharedLight, HistLight
  <2>2. Done(s) => Done(s)'
    BY <1>4, <1>9, <2>1, ListingGrows DEF Done
  <2>3. Stale(s)' => s \in hist'.concurrent
    BY <1>4, <1>12, <2>1 DEF Ends, Stale
  <2>4. slices'[s].state = "Committed" => Done(s)'
    BY <1>4, <1>9, <1>12, <2>2 DEF Ends, Done
  <2>5. slices'[s].state = "Failed" => shared'.error
    BY <1>4, <1>12, <2>1 DEF Ends
  <2> QED BY <1>18, <2>3, <2>4, <2>5 DEF Ends
<1>20. s \in hist.cut => s \in hist'.evicted
  BY <1>4, <1>6, <1>9 DEF Published
<1>21. PICK T \in SUBSET hist.acked : T = {s}
  BY <1>4
<1>22. \A r \in T :
            /\ Sealed(r) => Sealed(r)'
            /\ SliceShape(r)' /\ Claims(r)' /\ Ends(r)'
            /\ r \in ToSet(meta') /\ r \notin hist'.again =>
                  slices'[r].meta_write_started /\ ~ Writing(r)'
            /\ r \in ToSet(meta') \/ slices'[r].upload = "write" => Behind(r)
            /\ r \in hist.cut => Sealed(r)' \/ r \in hist'.evicted
  BY <1>4, <1>6, <1>12, <1>16, <1>17, <1>19, <1>20, <1>21
<1>23. \A r \in Slices \ T : slices'[r] = slices[r]
  BY <1>12, <1>21
<1>24. /\ meta' \in Seq(Slices)
       /\ \A r \in Slices \ T : r \in ToSet(meta') => r \in ToSet(meta)
  <2>1. meta \in Seq(Slices)
    BY <1>4 DEF Records
  <2> QED BY <1>4, <1>9, <1>21, <2>1, AppendMembers
<1>25. /\ y.pc # "write" /\ y.pc \notin {"look", "stalled", "write"} /\ tasks[t].slice \in T
  BY <1>1, <1>12, <1>21
<1>26. /\ flushes' = flushes /\ ToSet(chunk'.deque) \subseteq ToSet(chunk.deque)
       /\ \A r \in ToSet(chunk.deque) : r \in ToSet(chunk'.deque)
  BY <1>3
<1>27. /\ tasks' = [tasks EXCEPT ![t] = y] /\ hist' \in HistType /\ HistLight /\ Listing
       /\ slices' \in [Slices -> SliceType] /\ shared' \in SharedType /\ SharedLight
  BY <1>9, <1>12
<1> QED BY <1>14, <1>22, <1>23, <1>24, <1>25, <1>26, <1>27, TaskStep

\* Every step of a commit task.
LEMMA CommitKeeps ==
  ASSUME IInv, NEW t \in Tasks, Commit(t)
  PROVE  IInv'
BY CommitTopKeeps, CommitEmptyKeeps, CommitLookKeeps, CommitStalledKeeps, CommitWriteKeeps,
   CommitMoveKeeps, CommitPopKeeps DEF Commit

\* Every step of an upload task.
LEMMA UploadStepKeeps ==
  ASSUME IInv, NEW s \in Slices, Freeze(s) \/ UploadStep(s)
  PROVE  IInv'
BY FreezeKeeps, UploadKeeps, TryClaimKeeps, TryFrontKeeps, TryWriteKeeps DEF UploadStep

\* Only a chunk without waiting slices is dropped.
LEMMA DrainKeeps ==
  ASSUME IInv, Drain
  PROVE  IInv'
<1>1. /\ Records /\ Sorted /\ Tended /\ chunk.present
      /\ chunk' = IF chunk.deque = <<>> THEN Absent ELSE [chunk EXCEPT !.recent = {}]
      /\ UNCHANGED <<slices, tasks, flushes, shared, meta, hist>>
  BY DEF IInv, Drain
<1>2. chunk' \in ChunkType /\ Sorted' /\ Tended' /\ ToSet(chunk'.deque) = ToSet(chunk.deque)
  <2>1. CASE chunk.deque = <<>>
    <3>1. chunk' = Absent /\ ToSet(chunk.deque) = {}
      BY <1>1, <2>1, NoMembers
    <3> QED BY <3>1, AbsentSound
  <2>2. CASE chunk.deque # <<>>
    <3>1. /\ chunk' \in ChunkType /\ chunk'.deque = chunk.deque /\ chunk'.present
          /\ chunk'.commit_started = chunk.commit_started
      BY <1>1, <2>2 DEF Records, ChunkType
    <3> QED BY <1>1, <3>1 DEF Sorted, Tended
  <2> QED BY <2>1, <2>2
<1>3. Records' /\ HistLight /\ SharedLight /\ Listing
  BY <1>1, <1>2, UnchangedLight DEF Records, Listing
<1>4. \A s \in Slices : SameSlice(s)
  BY <1>1 DEF SameSlice, Writes
<1>5. \A s \in Slices : Sealed(s) => Sealed(s)'
  BY <1>4, SameWriting
<1>6. Steady
  BY <1>1, <1>3, <1>5, LightSteady
<1>7. ASSUME NEW s \in Slices
      PROVE  SliceShape(s)' /\ Claims(s)' /\ Ends(s)' /\ Held(s)' /\ Published(s)'
  <2>1. SameSlice(s) /\ SliceShape(s) /\ Claims(s) /\ Ends(s) /\ Held(s) /\ Published(s)
    BY <1>4 DEF IInv
  <2>2. SliceShape(s)' /\ Claims(s)'
    BY <2>1, SameShape
  <2>3. Ends(s)'
    BY <1>3, <1>6, <2>1, SameEnds
  <2>4. Held(s)'
    BY <1>1, <1>2, <1>6, <2>1, HeldKeeps
  <2>5. Published(s)'
    BY <1>1, <1>3, <1>6, <2>1, SamePublished
  <2> QED BY <2>2, <2>3, <2>4, <2>5
<1>8. ToSet(chunk'.deque) \subseteq hist.acked
  BY <1>2 DEF IInv, Naming, Known
<1> QED BY <1>1, <1>2, <1>3, <1>5, <1>7, <1>8, WorkStep

----------------------------------------------------------------------------
(* Callers: steps that leave slices and tasks alone.                       *)

\* What the callers' steps do to the state the tasks share with them.
CallerLight ==
  /\ UNCHANGED <<slices, tasks>>
  /\ hist'.acked = hist.acked /\ hist'.evicted = hist.evicted /\ hist'.again = hist.again
  /\ hist.late \subseteq hist'.late /\ hist.concurrent \subseteq hist'.concurrent
  /\ shared'.error = shared.error
  /\ meta' = meta \/ (meta' = <<>> /\ hist.acked \subseteq hist'.concurrent)

\* Such a step is steady and touches no slice.
LEMMA CallerSteady ==
  ASSUME IInv, CallerLight
  PROVE  Steady /\ \A s \in Slices : SameSlice(s)
<1>1. \A s \in Slices : SameSlice(s)
  BY DEF CallerLight, SameSlice, Writes
<1>2. \A s \in Slices : Sealed(s) => Sealed(s)'
  BY <1>1, SameWriting
<1>3. ASSUME NEW s \in Slices, Done(s) PROVE Done(s)'
  <2>1. CASE s \in ToSet(meta)
    <3>1. s \in hist.acked
      BY <2>1 DEF IInv, Naming, Known
    <3> QED BY <2>1, <3>1 DEF CallerLight, Done
  <2>2. CASE s \in hist.concurrent \/ s \in hist.evicted
    BY <2>2 DEF CallerLight, Done
  <2> QED BY <1>3, <2>1, <2>2 DEF Done
<1> QED BY <1>1, <1>2, <1>3 DEF Steady, CallerLight

\* Such a step: what is left to show.
LEMMA CallerStep ==
  ASSUME IInv, Records', CallerLight,
         \A r \in hist.acked : hist'.before[r] = hist.before[r],
         \A r \in Slices : \A x \in hist'.before[r] : x \in hist.acked /\ x < r,
         \A s \in Slices : Stale(s)' => Stale(s) \/ s \in hist'.concurrent,
         \A s \in hist'.cut : s \in hist.cut \/ Sealed(s) \/ s \in hist.evicted,
         meta' = <<>> \/ hist'.cut = hist.cut,
         chunk' = chunk \/ (chunk' = Absent /\ \A s \in ToSet(chunk.deque) : Kept(s)'),
         shared'.order >= shared.order,
         shared'.parked # NoSlice =>
            shared'.parked <= shared'.order /\ shared'.parked \notin hist.acked,
         \A c \in FlushCallers :
            flushes'[c].slices \subseteq hist.acked /\ flushes'[c].known \subseteq hist.acked,
         EpochBound', GateCounts', \A c \in FlushCallers : FlushSound(c)', Flushed'
  PROVE  IInv'
<1>0. /\ Records /\ Naming /\ Sorted /\ Tended /\ Fronted /\ PublishedInOrder /\ PublishedOnce
      /\ TruncatedStaysGone /\ hist.acked \subseteq Slices
  BY DEF IInv, Records, HistType
<1>1. Steady /\ \A s \in Slices : SameSlice(s)
  BY CallerSteady
<1>2. /\ slices' = slices /\ tasks' = tasks
      /\ hist'.acked = hist.acked /\ hist'.evicted = hist.evicted /\ hist'.again = hist.again
      /\ hist.late \subseteq hist'.late /\ hist.concurrent \subseteq hist'.concurrent
      /\ shared'.error = shared.error
      /\ meta' = meta \/ meta' = <<>>
  BY DEF CallerLight
<1>3. Sorted' /\ Tended' /\ ToSet(chunk'.deque) \subseteq hist.acked
  <2>1. CASE chunk' = chunk
    BY <1>0, <1>2, <2>1 DEF Sorted, Tended, Naming, Known
  <2>2. CASE chunk' = Absent
    BY <2>2, AbsentSound
  <2> QED BY <2>1, <2>2
<1>4. ToSet(meta') \subseteq hist.acked /\ ToSet(meta') \subseteq ToSet(meta)
  BY <1>0, <1>2, NoMembers DEF Naming, Known
<1>5. ASSUME NEW s \in hist.acked, Behind(s) PROVE Behind(s)'
  <2>1. s \in Slices /\ hist'.before[s] = hist.before[s]
    BY <1>0
  <2> QED BY <1>0, <1>1, <1>5, <2>1, BehindCarried
<1>6. Naming'
  <2>1. \A s \in hist'.acked : s <= shared'.order
    <3>1. ASSUME NEW s \in hist.acked PROVE s <= shared'.order
      <4>1. s <= shared.order /\ s \in Nat /\ shared.order \in Nat /\ shared'.order \in Nat
        BY <1>0, SliceWriterAssumption DEF Naming, Records, SharedType, Slices
      <4> QED BY <4>1
    <3> QED BY <1>2, <3>1
  <2>2. \A s \in Slices \ hist'.acked : slices'[s] = NewSlice
    BY <1>0, <1>2 DEF Naming
  <2>3. \A s \in Slices : hist'.before[s] \subseteq hist'.acked /\ \A r \in hist'.before[s] : r < s
    BY <1>2
  <2>4. \A t \in Tasks : tasks'[t].pc \in {"look", "stalled", "write"} => tasks'[t].slice \in hist'.acked
    BY <1>0, <1>2 DEF Naming
  <2> QED BY <1>2, <1>3, <1>4, <2>1, <2>2, <2>3, <2>4 DEF Naming, Known
<1>7. Fronted'
  <2>1. ASSUME NEW t \in Tasks, tasks'[t].pc \in {"look", "stalled", "write"}
        PROVE  Behind(tasks[t].slice)'
    <3>1. PICK s \in hist.acked : s = tasks[t].slice /\ Behind(s)
      BY <1>0, <1>2, <2>1 DEF Naming, Fronted
    <3>2. Behind(s)'
      BY <1>5, <3>1
    <3> QED BY <1>2, <3>1, <3>2 DEF Behind
  <2> QED BY <2>1 DEF Fronted
<1>8. PublishedInOrder' /\ PublishedOnce'
  <2>1. CASE meta' = meta
    <3>1. \A i \in DOMAIN meta : meta[i] \in hist.acked
      BY <1>0 DEF Naming, Known, ToSet
    <3>2. \A i \in DOMAIN meta : hist'.before[meta[i]] = hist.before[meta[i]]
      BY <3>1
    <3> QED BY <1>0, <1>2, <2>1, <3>2 DEF PublishedInOrder, PublishedOnce
  <2>2. CASE meta' = <<>>
    BY <2>2 DEF PublishedInOrder, PublishedOnce
  <2> QED BY <1>2, <2>1, <2>2
<1>9. ASSUME NEW s \in Slices
      PROVE  SliceShape(s)' /\ Claims(s)' /\ Ends(s)' /\ Held(s)' /\ Published(s)'
  <2>1. SameSlice(s) /\ SliceShape(s) /\ Claims(s) /\ Ends(s) /\ Held(s) /\ Published(s)
    BY <1>1 DEF IInv
  <2>2. (Writing(s)' <=> Writing(s)) /\ (Sealed(s)' <=> Sealed(s)) /\ (Done(s) => Done(s)')
    BY <1>1, <2>1, SameWriting DEF Steady
  <2>3. SliceShape(s)' /\ Claims(s)'
    BY <2>1, SameShape
  <2>4. Ends(s)'
    BY <1>2, <2>1, <2>2 DEF Ends
  <2>5. s \in ToSet(chunk.deque) => s \in ToSet(chunk'.deque) \/ Kept(s)'
    OBVIOUS
  <2>6. Held(s)'
    BY <1>1, <1>2, <2>1, <2>5, HeldKeeps
  <2>7. s \in ToSet(meta') \/ slices'[s].upload = "write" => Behind(s)'
    <3>1. slices[s].upload = "write" => s \in hist.acked
      BY Uploading
    <3>2. s \in ToSet(meta') \/ slices'[s].upload = "write" => s \in hist.acked /\ Behind(s)
      BY <1>2, <1>4, <2>1, <3>1 DEF Published
    <3> QED BY <1>5, <3>2
  <2>8. Published(s)'
    BY <1>2, <1>4, <2>1, <2>2, <2>7 DEF Published
  <2> QED BY <2>3, <2>4, <2>6, <2>8
<1>10. TruncatedStaysGone'
  <2>1. CASE meta' = <<>>
    BY <2>1, NoMembers DEF TruncatedStaysGone
  <2>2. CASE meta' = meta /\ hist'.cut = hist.cut
    BY <1>0, <1>2, <2>2 DEF TruncatedStaysGone
  <2> QED BY <1>2, <2>1, <2>2
<1> QED BY <1>3, <1>6, <1>7, <1>8, <1>9, <1>10 DEF IInv

\* Steps that leave the chunk, the list and the history alone, too.
LEMMA QuietCaller ==
  ASSUME IInv, UNCHANGED <<slices, chunk, tasks, meta, hist>>, shared' \in SharedType,
         flushes' \in [FlushCallers -> FlushType],
         shared'.error = shared.error, shared'.epoch = shared.epoch,
         shared'.order = shared.order, shared'.parked \in {shared.parked, NoSlice},
         \A c \in FlushCallers :
            flushes'[c].slices \subseteq hist.acked /\ flushes'[c].known \subseteq hist.acked,
         EpochBound', GateCounts', \A c \in FlushCallers : FlushSound(c)', Flushed'
  PROVE  IInv'
<1>1. Records /\ Naming
  BY DEF IInv
<1>2. Records'
  BY <1>1 DEF Records
<1>3. CallerLight
  BY DEF CallerLight
<1>4. \A s \in Slices : Stale(s)' => Stale(s)
  BY DEF Stale
<1>5. shared'.order >= shared.order
  <2>1. shared.order \in Int
    BY <1>1, SliceWriterAssumption DEF Records, SharedType
  <2> QED BY <2>1
<1>6. shared'.parked # NoSlice =>
            shared'.parked <= shared'.order /\ shared'.parked \notin hist.acked
  BY <1>1 DEF Naming
<1>7. \A r \in Slices : \A x \in hist'.before[r] : x \in hist.acked /\ x < r
  BY <1>1 DEF Naming, Known
<1>8. /\ \A r \in hist.acked : hist'.before[r] = hist.before[r]
      /\ hist'.cut = hist.cut
      /\ chunk' = chunk
  OBVIOUS
<1> QED BY <1>2, <1>3, <1>4, <1>5, <1>6, <1>7, <1>8, CallerStep

\* With nothing else changed, a slice is as safe as before.
LEMMA QuietSafe ==
  ASSUME UNCHANGED <<slices, tasks, meta, hist>>, shared'.error = shared.error, NEW s
  PROVE  /\ Kept(s)' <=> Kept(s)
         /\ Safe(s)' <=> Safe(s)
         /\ Done(s)' <=> Done(s)
<1>1. (Writing(s)' <=> Writing(s)) /\ (Sealed(s)' <=> Sealed(s))
  BY DEF Writing, Sealed
<1>2. (Settled(s)' <=> Settled(s)) /\ (Done(s)' <=> Done(s))
  BY <1>1 DEF Settled, Done
<1> QED BY <1>2 DEF Kept, Safe

\* A flush that is not under way in this step keeps what it has made sure of.
LEMMA OtherFlush ==
  ASSUME IInv, Steady, NEW d \in FlushCallers, flushes'[d] = flushes[d],
         shared'.write_gen = shared.write_gen, hist'.acked = hist.acked
  PROVE  FlushSound(d)'
<1>1. \A s \in Slices : (Kept(s) => Kept(s)') /\ (Safe(s) => Safe(s)')
  BY Carried
<1>2. FlushSound(d) /\ hist.acked \subseteq Slices /\ flushes[d].known \subseteq Slices
  BY DEF IInv, Records, HistType, FlushType
<1> QED BY <1>1, <1>2 DEF FlushSound

\* What flushes have made sure of stays, and what is done may be added.
LEMMA FlushedKeeps ==
  ASSUME IInv, Steady, shared'.write_gen = shared.write_gen, hist'.acked = hist.acked,
         shared'.last_flushed_gen = shared.last_flushed_gen,
         \A s \in hist'.flushed : s \in hist.flushed \/ (s \in Slices /\ Done(s))
  PROVE  Flushed'
<1>1. \A s \in Slices : (Safe(s) => Safe(s)') /\ (Done(s) => Done(s)')
  BY Carried DEF Steady
<1>2. Flushed /\ hist.acked \subseteq Slices /\ hist.flushed \subseteq Slices
  BY DEF IInv, Records, HistType
<1> QED BY <1>1, <1>2 DEF Flushed

\* The gate counts the callers inside.
InPc(pc) == IF pc \in {"freeze", "wait", "release"} THEN 1 ELSE 0
\* A caller that goes in or out moves the counter with it.
LEMMA GateShift ==
  ASSUME Records, GateCounts, NEW c \in FlushCallers, NEW f \in FlushType,
         flushes' = [flushes EXCEPT ![c] = f],
         shared'.flush_waiting = shared.flush_waiting + InPc(f.pc) - InPc(flushes[c].pc)
  PROVE  GateCounts' /\ shared'.flush_waiting \in 0 .. 2
<1>1. flushes \in [FlushCallers -> FlushType] /\ "fsync" \in FlushCallers /\ "truncate" \in FlushCallers
  BY DEF Records, FlushCallers
<1>2. InGate("fsync") = InPc(flushes["fsync"].pc) /\ InGate("truncate") = InPc(flushes["truncate"].pc)
  BY DEF InGate, InPc
<1>3. InGate("fsync")' = InPc(flushes'["fsync"].pc) /\ InGate("truncate")' = InPc(flushes'["truncate"].pc)
  BY DEF InGate, InPc
<1>4. \A pc : InPc(pc) \in {0, 1}
  BY DEF InPc
<1>5. shared.flush_waiting = InPc(flushes["fsync"].pc) + InPc(flushes["truncate"].pc)
  BY <1>2 DEF GateCounts
<1>6. CASE c = "fsync"
  <2>1. flushes'["fsync"] = f /\ flushes'["truncate"] = flushes["truncate"]
    BY <1>1, <1>6
  <2>2. shared'.flush_waiting = InPc(f.pc) + InPc(flushes["truncate"].pc)
    BY <1>4, <1>5, <1>6
  <2>3. shared'.flush_waiting \in 0 .. 2
    BY ONLY <1>4, <2>2
  <2> QED BY <1>3, <2>1, <2>2, <2>3 DEF GateCounts
<1>7. CASE c = "truncate"
  <2>1. flushes'["truncate"] = f /\ flushes'["fsync"] = flushes["fsync"]
    BY <1>1, <1>7
  <2>2. shared'.flush_waiting = InPc(flushes["fsync"].pc) + InPc(f.pc)
    BY <1>4, <1>5, <1>7
  <2>3. shared'.flush_waiting \in 0 .. 2
    BY ONLY <1>4, <2>2
  <2> QED BY <1>3, <2>1, <2>2, <2>3 DEF GateCounts
<1> QED BY <1>6, <1>7 DEF FlushCallers

\* A step of flush that changes no slice.
LEMMA FlushStep ==
  ASSUME IInv, NEW c \in FlushCallers, NEW f \in FlushType, flushes' = [flushes EXCEPT ![c] = f],
         UNCHANGED <<slices, chunk, tasks, meta, hist>>,
         f.pc # "none", flushes[c].pc # "none",
         f.slices \subseteq hist.acked, f.known = flushes[c].known,
         NEW n, n = shared.flush_waiting + InPc(f.pc) - InPc(flushes[c].pc),
         NEW w, NEW g \in Nat, NEW k \in Nat,
         shared' = [shared EXCEPT !.flush_waiting = n, !.woken = w,
                                  !.last_flushed_gen = g, !.faults = k],
         w \in {"no", "waiting", "woken"}, FlushSound(c)',
         \/ g = shared.last_flushed_gen
         \/ /\ g <= shared.write_gen
            /\ shared.write_gen = g => \A s \in hist.acked : Safe(s)
  PROVE  IInv'
<1>1. Records /\ GateCounts /\ EpochBound /\ Flushed
  BY DEF IInv
<1>2. n \in 0 .. 2 /\ GateCounts'
  <2>1. shared'.flush_waiting = n
    BY <1>1 DEF Records, SharedType
  <2> QED BY <1>1, <2>1, GateShift
<1>3. /\ shared' \in SharedType /\ shared'.error = shared.error /\ shared'.epoch = shared.epoch
      /\ shared'.order = shared.order /\ shared'.parked = shared.parked
      /\ shared'.write_gen = shared.write_gen /\ shared'.last_flushed_gen = g
  BY <1>1, <1>2 DEF Records, SharedType
<1>4. /\ flushes' \in [FlushCallers -> FlushType] /\ flushes'[c] = f
      /\ \A d \in FlushCallers : d # c => flushes'[d] = flushes[d]
  BY <1>1 DEF Records
<1>5. \A d \in FlushCallers :
         flushes'[d].slices \subseteq hist.acked /\ flushes'[d].known \subseteq hist.acked
  BY <1>4 DEF IInv, Naming, Known
<1>6. EpochBound'
  <2>1. (flushes'["truncate"].pc = "none") <=> (flushes["truncate"].pc = "none")
    BY <1>4 DEF FlushCallers
  <2> QED BY <1>1, <1>3, <2>1 DEF EpochBound
<1>7. Steady
  BY <1>3, CallerSteady DEF CallerLight
<1>8. \A d \in FlushCallers : FlushSound(d)'
  BY <1>3, <1>4, <1>7, OtherFlush
<1>9. Flushed'
  <2>1. CASE g = shared.last_flushed_gen
    BY <1>3, <1>7, <2>1, FlushedKeeps
  <2>2. CASE g <= shared.write_gen /\ (shared.write_gen = g => \A s \in hist.acked : Safe(s))
    <3>1. \A s : (Safe(s)' <=> Safe(s)) /\ (Done(s)' <=> Done(s))
      BY <1>3, QuietSafe
    <3> QED BY <1>1, <1>3, <2>2, <3>1 DEF Flushed
  <2> QED BY <2>1, <2>2
<1> QED BY <1>2, <1>3, <1>4, <1>5, <1>6, <1>8, <1>9, QuietCaller

\* Without an error, nothing in the writer means nothing left to do.
LEMMA FlushBeginKeeps ==
  ASSUME IInv, NEW c \in FlushCallers, FlushBegin(c)
  PROVE  IInv'
<1>1. /\ Records /\ Flushed /\ Tended /\ FlushSound(c) /\ GateCounts
      /\ flushes[c].pc = "begin" /\ UNCHANGED <<slices, chunk, tasks, meta, hist>>
  BY DEF IInv, FlushBegin, FAt
<1>2. /\ flushes[c] \in FlushType /\ flushes \in [FlushCallers -> FlushType]
      /\ shared \in SharedType /\ hist.acked \subseteq Slices
  BY <1>1 DEF Records, HistType
<1>3. flushes[c].slices \subseteq hist.acked /\ flushes[c].known \subseteq hist.acked
  BY DEF IInv, Naming, Known
<1>4. CASE shared.error \/ ~ chunk.present \/ shared.write_gen = shared.last_flushed_gen
  <2>1. /\ flushes' = [flushes EXCEPT ![c].pc = "done", ![c].ok = ~ shared.error]
        /\ UNCHANGED shared
    BY <1>4 DEF FlushBegin
  <2>2. PICK f : f = [flushes[c] EXCEPT !.pc = "done", !.ok = ~ shared.error]
    OBVIOUS
  <2>3. /\ f \in FlushType /\ f.pc = "done" /\ f.ok = ~ shared.error
        /\ f.slices = flushes[c].slices /\ f.known = flushes[c].known /\ f.gen = flushes[c].gen
    BY <1>2, <2>2 DEF FlushType, FlushPcs, SharedType
  <2>4. flushes' = [flushes EXCEPT ![c] = f]
    BY <1>2, <2>1, <2>2
  <2>5. InPc(f.pc) = 0 /\ InPc(flushes[c].pc) = 0
    BY <1>1, <2>3 DEF InPc
  <2>6. PICK n \in Int : n = shared.flush_waiting
    BY <1>2 DEF SharedType
  <2>11. n = shared.flush_waiting + InPc(f.pc) - InPc(flushes[c].pc)
    BY <2>5, <2>6
  <2>12. shared' = [shared EXCEPT !.flush_waiting = n,
            !.woken = shared.woken, !.last_flushed_gen = shared.last_flushed_gen,
            !.faults = shared.faults]
    BY <1>2, <2>1, <2>6 DEF SharedType
  <2>7. ASSUME ~ shared.error, NEW s \in hist.acked PROVE Safe(s)
    <3>1. CASE ~ chunk.present
      <4>1. ToSet(chunk.deque) = {}
        BY <1>1, <3>1, AbsentSound DEF Tended
      <4>2. Kept(s)
        BY <1>2, <4>1 DEF IInv, Held
      <4> QED BY <2>7, <4>2 DEF Kept, Safe
    <3>2. CASE shared.write_gen = shared.last_flushed_gen
      BY <1>1, <2>7, <3>2 DEF Flushed
    <3> QED BY <1>4, <2>7, <3>1, <3>2
  <2>8. FlushSound(c)'
    <3>1. flushes'[c] = f /\ shared' = shared /\ hist' = hist
      BY <1>1, <1>2, <2>1, <2>4
    <3>2. \A s : Safe(s)' <=> Safe(s)
      BY <1>1, <2>1, QuietSafe
    <3> QED BY <1>1, <1>3, <2>3, <2>7, <3>1, <3>2 DEF FlushSound
  <2>9. /\ shared.last_flushed_gen \in Nat /\ shared.faults \in Nat
        /\ shared.woken \in {"no", "waiting", "woken"}
    BY <1>2 DEF SharedType
  <2>10. f.pc # "none" /\ flushes[c].pc # "none" /\ f.slices \subseteq hist.acked
    BY <1>1, <1>3, <2>3
  <2> QED BY <1>1, <2>3, <2>4, <2>8, <2>9, <2>10, <2>11, <2>12, FlushStep
<1>5. CASE ~ (shared.error \/ ~ chunk.present \/ shared.write_gen = shared.last_flushed_gen)
  <2>1. /\ flushes' = [flushes EXCEPT ![c].pc = "freeze", ![c].gen = shared.write_gen]
        /\ shared' = [shared EXCEPT !.flush_waiting = @ + 1]
    BY <1>5 DEF FlushBegin
  <2>2. PICK f : f = [flushes[c] EXCEPT !.pc = "freeze", !.gen = shared.write_gen]
    OBVIOUS
  <2>3. /\ f \in FlushType /\ f.pc = "freeze" /\ f.gen = shared.write_gen
        /\ f.slices = flushes[c].slices /\ f.known = flushes[c].known
    BY <1>2, <2>2 DEF FlushType, FlushPcs, SharedType
  <2>4. flushes' = [flushes EXCEPT ![c] = f]
    BY <1>2, <2>1, <2>2
  <2>5. InPc(f.pc) = 1 /\ InPc(flushes[c].pc) = 0
    BY <1>1, <2>3 DEF InPc
  <2>6. PICK n \in Int : n = shared.flush_waiting + 1
    BY <1>2 DEF SharedType
  <2>10. n = shared.flush_waiting + InPc(f.pc) - InPc(flushes[c].pc)
    <3>1. shared.flush_waiting \in Int
      BY <1>2 DEF SharedType
    <3> QED BY <2>5, <2>6, <3>1
  <2>11. shared' = [shared EXCEPT !.flush_waiting = n,
            !.woken = shared.woken, !.last_flushed_gen = shared.last_flushed_gen,
            !.faults = shared.faults]
    BY <1>2, <2>1, <2>6 DEF SharedType
  <2>7. FlushSound(c)'
    <3>1. flushes'[c] = f /\ shared'.write_gen = shared.write_gen /\ shared.write_gen \in Nat
      BY <1>2, <2>1, <2>4 DEF SharedType
    <3> QED BY <2>3, <3>1 DEF FlushSound
  <2>8. /\ shared.last_flushed_gen \in Nat /\ shared.faults \in Nat
        /\ shared.woken \in {"no", "waiting", "woken"}
    BY <1>2 DEF SharedType
  <2>9. f.pc # "none" /\ flushes[c].pc # "none" /\ f.slices \subseteq hist.acked
    BY <1>1, <1>3, <2>3
  <2> QED BY <1>1, <2>3, <2>4, <2>7, <2>8, <2>9, <2>10, <2>11, FlushStep
<1> QED BY <1>4, <1>5

\* The flush has an error to report, or every slice it waits for is committed.
LEMMA FlushWaitKeeps ==
  ASSUME IInv, NEW c \in FlushCallers, FlushWait(c)
  PROVE  IInv'
<1>1. /\ Records /\ FlushSound(c) /\ flushes[c].pc = "wait"
      /\ UNCHANGED <<slices, chunk, tasks, shared, meta, hist>>
  BY DEF IInv, FlushWait, FAt
<1>2. /\ flushes[c] \in FlushType /\ flushes \in [FlushCallers -> FlushType]
      /\ shared \in SharedType /\ hist.acked \subseteq Slices
  BY <1>1 DEF Records, HistType
<1>3. flushes[c].slices \subseteq hist.acked /\ flushes[c].known \subseteq hist.acked
  BY DEF IInv, Naming, Known
<1>4. ASSUME NEW f \in FlushType, flushes' = [flushes EXCEPT ![c] = f],
             f.pc \in {"freeze", "release"}, f.slices = flushes[c].slices,
             f.known = flushes[c].known, FlushSound(c)'
      PROVE  IInv'
  <2>1. PICK n \in Int : n = shared.flush_waiting
    BY <1>2 DEF SharedType
  <2>2. InPc(f.pc) = 1 /\ InPc(flushes[c].pc) = 1
    BY <1>1, <1>4 DEF InPc
  <2>3. n = shared.flush_waiting + InPc(f.pc) - InPc(flushes[c].pc)
    BY <2>1, <2>2
  <2>5. PICK w \in {"no", "waiting", "woken"}, g \in Nat, k \in Nat :
           w = shared.woken /\ g = shared.last_flushed_gen /\ k = shared.faults
    BY <1>2 DEF SharedType
  <2>4. shared' = [shared EXCEPT !.flush_waiting = n, !.woken = w,
                                 !.last_flushed_gen = g, !.faults = k]
    BY <1>1, <1>2, <2>1, <2>5 DEF SharedType
  <2>6. f.pc # "none" /\ flushes[c].pc # "none" /\ f.slices \subseteq hist.acked
    BY <1>1, <1>3, <1>4
  <2>7. UNCHANGED <<slices, chunk, tasks, meta, hist>>
    BY <1>1
  <2> QED BY <1>4, <2>3, <2>4, <2>5, <2>6, <2>7, FlushStep
<1>5. \A s : Safe(s)' <=> Safe(s)
  BY <1>1, QuietSafe
<1>6. CASE flushes' = [flushes EXCEPT ![c].pc = "release", ![c].ok = FALSE]
  <2>1. PICK f : f = [flushes[c] EXCEPT !.pc = "release", !.ok = FALSE]
    OBVIOUS
  <2>2. /\ f \in FlushType /\ f.pc = "release" /\ f.ok = FALSE
        /\ f.slices = flushes[c].slices /\ f.known = flushes[c].known /\ f.gen = flushes[c].gen
    BY <1>2, <2>1 DEF FlushType, FlushPcs
  <2>3. flushes' = [flushes EXCEPT ![c] = f] /\ flushes'[c] = f
    BY <1>2, <1>6, <2>1
  <2>4. FlushSound(c)'
    BY <1>1, <2>2, <2>3 DEF FlushSound
  <2> QED BY <1>4, <2>2, <2>3, <2>4
<1>7. CASE /\ ~ shared.error
           /\ \A s \in flushes[c].slices : slices[s].state = "Committed"
           /\ flushes' = [flushes EXCEPT ![c] =
                 IF shared.write_gen = @.gen THEN [@ EXCEPT !.pc = "release", !.ok = TRUE]
                 ELSE [@ EXCEPT !.pc = "freeze", !.gen = shared.write_gen]]
  <2>1. ASSUME NEW s \in hist.acked, s \in flushes[c].slices \/ Kept(s) PROVE Safe(s)
    <3>1. Kept(s)
      BY <1>2, <1>7, <2>1, EndedKept
    <3> QED BY <1>7, <3>1 DEF Kept, Safe
  <2>2. CASE shared.write_gen = flushes[c].gen
    <3>1. PICK f : f = [flushes[c] EXCEPT !.pc = "release", !.ok = TRUE]
      OBVIOUS
    <3>2. /\ f \in FlushType /\ f.pc = "release" /\ f.ok = TRUE
          /\ f.slices = flushes[c].slices /\ f.known = flushes[c].known /\ f.gen = flushes[c].gen
      BY <1>2, <3>1 DEF FlushType, FlushPcs
    <3>3. flushes' = [flushes EXCEPT ![c] = f] /\ flushes'[c] = f
      BY <1>2, <1>7, <2>2, <3>1
    <3>4. (\A s \in f.known : Safe(s)) /\ (\A s \in hist.acked : Safe(s))
      BY <1>1, <1>3, <2>1, <2>2, <3>2 DEF FlushSound
    <3>5. FlushSound(c)'
      BY <1>1, <1>5, <3>2, <3>3, <3>4 DEF FlushSound
    <3> QED BY <1>4, <3>2, <3>3, <3>5
  <2>3. CASE shared.write_gen # flushes[c].gen
    <3>1. PICK f : f = [flushes[c] EXCEPT !.pc = "freeze", !.gen = shared.write_gen]
      OBVIOUS
    <3>2. /\ f \in FlushType /\ f.pc = "freeze" /\ f.gen = shared.write_gen
          /\ f.slices = flushes[c].slices /\ f.known = flushes[c].known
      BY <1>2, <3>1 DEF FlushType, FlushPcs, SharedType
    <3>3. flushes' = [flushes EXCEPT ![c] = f] /\ flushes'[c] = f
      BY <1>2, <1>7, <2>3, <3>1
    <3>4. FlushSound(c)'
      <4>1. shared.write_gen \in Nat
        BY <1>2 DEF SharedType
      <4> QED BY <1>1, <3>2, <3>3, <4>1 DEF FlushSound
    <3> QED BY <1>4, <3>2, <3>3, <3>4
  <2> QED BY <2>2, <2>3
<1> QED BY <1>6, <1>7 DEF FlushWait

\* The deadline runs out: the flush has made sure of nothing.
LEMMA FlushDeadlineKeeps ==
  ASSUME IInv, NEW c \in FlushCallers, FlushDeadline(c)
  PROVE  IInv'
<1>1. /\ Records /\ FlushSound(c) /\ flushes[c].pc = "wait"
      /\ flushes' = [flushes EXCEPT ![c].pc = "release", ![c].ok = FALSE]
      /\ UNCHANGED <<slices, chunk, tasks, meta, hist>> /\ shared' = Counted
  BY DEF IInv, FlushDeadline, FAt
<1>2. /\ flushes[c] \in FlushType /\ flushes \in [FlushCallers -> FlushType]
      /\ shared \in SharedType
  BY <1>1 DEF Records
<1>3. PICK f : f = [flushes[c] EXCEPT !.pc = "release", !.ok = FALSE]
  OBVIOUS
<1>4. /\ f \in FlushType /\ f.pc = "release" /\ f.ok = FALSE
      /\ f.slices = flushes[c].slices /\ f.known = flushes[c].known /\ f.gen = flushes[c].gen
  BY <1>2, <1>3 DEF FlushType, FlushPcs
<1>5. flushes' = [flushes EXCEPT ![c] = f] /\ flushes'[c] = f
  BY <1>1, <1>2, <1>3
<1>6. PICK n \in Int : n = shared.flush_waiting
  BY <1>2 DEF SharedType
<1>7. InPc(f.pc) = 1 /\ InPc(flushes[c].pc) = 1
  BY <1>1, <1>4 DEF InPc
<1>8. n = shared.flush_waiting + InPc(f.pc) - InPc(flushes[c].pc)
  BY <1>6, <1>7
<1>9. PICK k \in Nat : k = shared.faults + 1
  BY <1>2 DEF SharedType
<1>13. PICK w \in {"no", "waiting", "woken"}, g \in Nat :
         w = shared.woken /\ g = shared.last_flushed_gen
  BY <1>2 DEF SharedType
<1>10. shared' = [shared EXCEPT !.flush_waiting = n, !.woken = w,
                                !.last_flushed_gen = g, !.faults = k]
  BY <1>1, <1>2, <1>6, <1>9, <1>13 DEF SharedType, Counted
<1>11. shared'.write_gen = shared.write_gen
  BY <1>2, <1>10 DEF SharedType
<1>12. FlushSound(c)'
  BY <1>1, <1>4, <1>5, <1>11 DEF FlushSound
<1>14. f.pc # "none" /\ flushes[c].pc # "none" /\ f.slices \subseteq hist.acked
  BY <1>1, <1>4 DEF IInv, Naming, Known
<1>15. UNCHANGED <<slices, chunk, tasks, meta, hist>>
  BY <1>1
<1> QED BY <1>4, <1>5, <1>8, <1>10, <1>12, <1>13, <1>14, <1>15, FlushStep

\* A good flush records the generation it made sure of.
LEMMA FlushReleaseKeeps ==
  ASSUME IInv, NEW c \in FlushCallers, FlushRelease(c)
  PROVE  IInv'
<1>1. /\ Records /\ FlushSound(c) /\ flushes[c].pc = "release"
      /\ flushes' = [flushes EXCEPT ![c].pc = "done"]
      /\ UNCHANGED <<slices, chunk, tasks, meta, hist>>
  BY DEF IInv, FlushRelease, FAt
<1>2. /\ flushes[c] \in FlushType /\ flushes \in [FlushCallers -> FlushType]
      /\ shared \in SharedType
  BY <1>1 DEF Records
<1>3. PICK f : f = [flushes[c] EXCEPT !.pc = "done"]
  OBVIOUS
<1>4. /\ f \in FlushType /\ f.pc = "done" /\ f.ok = flushes[c].ok
      /\ f.slices = flushes[c].slices /\ f.known = flushes[c].known /\ f.gen = flushes[c].gen
  BY <1>2, <1>3 DEF FlushType, FlushPcs
<1>5. flushes' = [flushes EXCEPT ![c] = f] /\ flushes'[c] = f
  BY <1>1, <1>2, <1>3
<1>6. PICK n \in Int : n = shared.flush_waiting - 1
  BY <1>2 DEF SharedType
<1>7. InPc(f.pc) = 0 /\ InPc(flushes[c].pc) = 1 /\ shared.flush_waiting \in Int
  BY <1>1, <1>2, <1>4 DEF InPc, SharedType
<1>8. n = shared.flush_waiting + InPc(f.pc) - InPc(flushes[c].pc)
  BY <1>6, <1>7
<1>9. PICK w \in {"no", "waiting", "woken"} :
        w = IF shared.flush_waiting = 1 /\ shared.woken = "waiting" THEN "woken" ELSE shared.woken
  BY <1>2 DEF SharedType
<1>10. PICK g \in Nat : g = IF flushes[c].ok THEN flushes[c].gen ELSE shared.last_flushed_gen
  BY <1>2 DEF SharedType, FlushType
<1>11. shared' = [shared EXCEPT !.flush_waiting = n, !.woken = w, !.last_flushed_gen = g,
                                !.faults = shared.faults]
  BY <1>2, <1>6, <1>9, <1>10 DEF FlushRelease, SharedType
<1>12. shared'.write_gen = shared.write_gen /\ shared'.error = shared.error
  BY <1>2, <1>11 DEF SharedType
<1>13. \A s : Safe(s)' <=> Safe(s)
  BY <1>1, <1>12, QuietSafe
<1>14. FlushSound(c)'
  BY <1>1, <1>4, <1>5, <1>12, <1>13 DEF FlushSound
<1>15. \/ g = shared.last_flushed_gen
       \/ /\ g <= shared.write_gen
          /\ shared.write_gen = g => \A s \in hist.acked : Safe(s)
  BY <1>1, <1>10 DEF FlushSound
<1>16. f.pc # "none" /\ flushes[c].pc # "none" /\ f.slices \subseteq hist.acked /\ shared.faults \in Nat
  BY <1>1, <1>2, <1>4 DEF IInv, Naming, Known, SharedType
<1> QED BY <1>1, <1>4, <1>5, <1>8, <1>11, <1>14, <1>15, <1>16, FlushStep

\* A slice that flush freezes: it was writable, so nobody has claimed it.
LEMMA FrozenSlice ==
  ASSUME IInv, NEW s \in Slices, s \in ToSet(chunk.deque), slices[s].state = "Writable",
         slices'[s] = Frozen(s), UNCHANGED <<tasks, shared, meta, hist>>
  PROVE  /\ slices'[s] \in SliceType /\ s \in hist.acked /\ ~ Sealed(s)
         /\ SliceShape(s)' /\ Claims(s)' /\ Ends(s)'
         /\ s \in ToSet(meta') /\ s \notin hist'.again =>
               slices'[s].meta_write_started /\ ~ Writing(s)'
         /\ s \in ToSet(meta') \/ slices'[s].upload = "write" => Behind(s)
         /\ s \in hist'.cut => s \in hist'.evicted
<1>1. Records /\ SliceShape(s) /\ Claims(s) /\ Ends(s) /\ Published(s) /\ Naming
  BY DEF IInv
<1>2. PICK x : x = Frozen(s)
  OBVIOUS
<1>3. /\ x \in SliceType /\ x.state = "Readonly" /\ x.frozen_epoch = shared.epoch
      /\ x.upload = "id" /\ x.meta_write_started = slices[s].meta_write_started
  <2>1. slices[s] \in SliceType /\ shared.epoch \in 0 .. MaxCalls
    BY <1>1 DEF Records, SharedType
  <2>2. x = [slices[s] EXCEPT !.state = "Readonly", !.frozen_epoch = shared.epoch, !.upload = "id"]
    BY <1>2 DEF Frozen
  <2> QED BY <2>1, <2>2 DEF SliceType, States, Uploads
<1>4. slices'[s] = x /\ s \in hist.acked
  BY <1>1, <1>2 DEF Naming, Known
<1>5. slices[s].upload = "none" /\ ~ slices[s].meta_write_started
  BY <1>1 DEF SliceShape
<1>6. ~ Writing(s) /\ ~ Sealed(s)
  BY <1>1, <1>5 DEF Claims, Sealed
<1>7. ~ Writing(s)' /\ \A t \in Tasks : ~ Writes(t, s)'
  BY <1>3, <1>4, <1>6 DEF Writing, Writes
<1>8. SliceShape(s)' /\ Claims(s)'
  BY <1>3, <1>4, <1>5, <1>7 DEF SliceShape, Claims
<1>9. Ends(s)'
  BY <1>3, <1>4 DEF Ends, Stale
<1>10. s \in ToSet(meta') /\ s \notin hist'.again => FALSE
  BY <1>1, <1>5 DEF Published
<1>11. (s \in ToSet(meta') => Behind(s)) /\ (s \in hist'.cut => s \in hist'.evicted)
  BY <1>1, <1>6 DEF Published
<1> QED BY <1>3, <1>4, <1>6, <1>8, <1>9, <1>10, <1>11

\* The flush freezes what is in the deque, and has that to wait for; what is not
\* in the deque is kept.
LEMMA FlushFreezeKeeps ==
  ASSUME IInv, NEW c \in FlushCallers, FlushFreeze(c)
  PROVE  IInv'
<1>1. /\ Records /\ Naming /\ Sorted /\ Tended /\ Fronted /\ Flushed /\ GateCounts /\ EpochBound
      /\ PublishedInOrder /\ PublishedOnce /\ TruncatedStaysGone /\ FlushSound(c)
  BY DEF IInv
<1>2. PICK now : now = ToSet(chunk.deque)
  OBVIOUS
<1>3. /\ flushes[c].pc = "freeze" /\ UNCHANGED <<chunk, tasks, shared, meta, hist>>
      /\ flushes' = [flushes EXCEPT ![c].pc = "wait", ![c].slices = now]
      /\ slices' = [s \in Slices |-> IF s \in now /\ slices[s].state = "Writable"
                                     THEN Frozen(s) ELSE slices[s]]
  BY <1>2 DEF FlushFreeze, FAt
<1>4. /\ flushes \in [FlushCallers -> FlushType] /\ flushes[c] \in FlushType
      /\ hist.acked \subseteq Slices /\ now \subseteq hist.acked
      /\ shared \in SharedType
  BY <1>1, <1>2 DEF Records, HistType, Naming, Known
<1>5. PICK f : f = [flushes[c] EXCEPT !.pc = "wait", !.slices = now]
  OBVIOUS
<1>6. /\ f \in FlushType /\ f.pc = "wait" /\ f.slices = now
      /\ f.known = flushes[c].known /\ f.gen = flushes[c].gen
  BY <1>4, <1>5 DEF FlushType, FlushPcs
<1>7. /\ flushes' = [flushes EXCEPT ![c] = f] /\ flushes' \in [FlushCallers -> FlushType]
      /\ flushes'[c] = f /\ \A d \in FlushCallers : d # c => flushes'[d] = flushes[d]
  <2>1. flushes' = [flushes EXCEPT ![c] = f]
    BY <1>3, <1>4, <1>5
  <2> QED BY <1>4, <1>6, <2>1
<1> DEFINE New == {s \in now : slices[s].state = "Writable"}
<1>8. ASSUME NEW s \in New
      PROVE  /\ slices'[s] \in SliceType /\ s \in hist.acked /\ ~ Sealed(s)
             /\ SliceShape(s)' /\ Claims(s)' /\ Ends(s)'
             /\ s \in ToSet(meta') /\ s \notin hist'.again =>
                   slices'[s].meta_write_started /\ ~ Writing(s)'
             /\ s \in ToSet(meta') \/ slices'[s].upload = "write" => Behind(s)
             /\ s \in hist'.cut => s \in hist'.evicted
  <2>1. s \in Slices /\ s \in ToSet(chunk.deque) /\ slices[s].state = "Writable"
    BY <1>2, <1>4, <1>8
  <2>2. slices'[s] = Frozen(s)
    BY <1>2, <1>3, <2>1
  <2>3. UNCHANGED <<tasks, shared, meta, hist>>
    BY <1>3
  <2> QED BY <2>1, <2>2, <2>3, FrozenSlice
<1>9. \A s \in Slices \ New : slices'[s] = slices[s] /\ SameSlice(s)
  <2>1. \A s \in Slices \ New : slices'[s] = slices[s]
    BY <1>3
  <2> QED BY <1>3, <2>1 DEF SameSlice, Writes
<1>10. slices' \in [Slices -> SliceType]
  <2>1. \A s \in Slices : slices'[s] \in SliceType
    BY <1>1, <1>8, <1>9 DEF Records
  <2>2. slices' = [s \in Slices |-> slices'[s]]
    BY <1>3
  <2> QED BY <2>1, <2>2
<1>11. Records'
  BY <1>1, <1>3, <1>7, <1>10 DEF Records
<1>12. Steady
  <2>1. \A s \in Slices : Sealed(s) => Sealed(s)'
    BY <1>8, <1>9, SameWriting
  <2> QED BY <1>3, <2>1 DEF Steady, Done
<1>13. \A d \in FlushCallers : InGate(d)' = InGate(d) /\ ((flushes'[d].pc = "none") <=> (flushes[d].pc = "none"))
  BY <1>3, <1>6, <1>7 DEF InGate
<1>14. EpochBound' /\ GateCounts'
  BY <1>1, <1>3, <1>13 DEF EpochBound, GateCounts, FlushCallers
<1>15. Naming'
  <2>1. \A s \in Slices \ hist'.acked : slices'[s] = NewSlice
    BY <1>1, <1>3, <1>4, <1>9 DEF Naming
  <2>2. \A d \in FlushCallers : flushes'[d].slices \subseteq hist'.acked /\ flushes'[d].known \subseteq hist'.acked
    BY <1>1, <1>3, <1>4, <1>6, <1>7 DEF Naming, Known
  <2> QED BY <1>1, <1>3, <2>1, <2>2 DEF Naming, Known
<1>16. \A s \in Slices : Behind(s) => Behind(s)'
  BY <1>1, <1>3, <1>12, BehindCarried
<1>17. Fronted'
  <2>1. ASSUME NEW t \in Tasks, tasks'[t].pc \in {"look", "stalled", "write"}
        PROVE  Behind(tasks[t].slice)'
    <3>1. PICK s \in Slices : s = tasks[t].slice /\ Behind(s)
      BY <1>1, <1>3, <1>4, <2>1 DEF Naming, Fronted
    <3>2. Behind(s)'
      BY <1>16, <3>1
    <3> QED BY <1>3, <3>1, <3>2 DEF Behind
  <2> QED BY <2>1 DEF Fronted
<1>18. Sorted' /\ PublishedInOrder' /\ PublishedOnce' /\ TruncatedStaysGone' /\ Tended'
  BY <1>1, <1>3 DEF Sorted, PublishedInOrder, PublishedOnce, TruncatedStaysGone, Tended
<1>19. ASSUME NEW s \in Slices
       PROVE  SliceShape(s)' /\ Claims(s)' /\ Ends(s)' /\ Held(s)' /\ Published(s)'
  <2>1. SliceShape(s) /\ Claims(s) /\ Ends(s) /\ Held(s) /\ Published(s)
    BY DEF IInv
  <2>2. Held(s)'
    <3>1. hist'.acked = hist.acked /\ chunk' = chunk
      BY <1>3
    <3> QED BY <1>12, <2>1, <3>1, HeldKeeps
  <2>3. HistLight /\ SharedLight
    BY <1>3, UnchangedLight
  <2>4. CASE s \in New
    BY <1>8, <1>16, <2>2, <2>4 DEF Published
  <2>5. CASE s \notin New
    <3>1. SameSlice(s)
      BY <1>9, <2>5
    <3>2. SliceShape(s)' /\ Claims(s)'
      BY <2>1, <3>1, SameShape
    <3>3. Ends(s)'
      BY <1>12, <2>1, <2>3, <3>1, SameEnds
    <3>4. Published(s)'
      BY <1>1, <1>3, <1>12, <2>1, <2>3, <3>1, SamePublished
    <3> QED BY <2>2, <3>2, <3>3, <3>4
  <2> QED BY <2>4, <2>5
<1>20. \A d \in FlushCallers : FlushSound(d)'
  <2>1. ASSUME NEW d \in FlushCallers, d # c PROVE FlushSound(d)'
    <3>1. flushes'[d] = flushes[d] /\ shared'.write_gen = shared.write_gen /\ hist'.acked = hist.acked
      BY <1>3, <1>7, <2>1
    <3> QED BY <1>12, <3>1, OtherFlush
  <2>2. FlushSound(c)'
    <3>1. \A s \in hist.acked : s \in now \/ Kept(s)'
      BY <1>2, <1>4, <1>12, Carried DEF IInv, Held
    <3>2. f.known \subseteq hist.acked
      BY <1>1, <1>6 DEF Naming, Known
    <3>3. f.gen <= shared.write_gen
      BY <1>1, <1>6 DEF FlushSound
    <3> QED BY <1>3, <1>6, <1>7, <3>1, <3>2, <3>3 DEF FlushSound
  <2> QED BY <2>1, <2>2
<1>21. Flushed'
  BY <1>3, <1>12, FlushedKeeps
<1> QED BY <1>11, <1>14, <1>15, <1>17, <1>18, <1>19, <1>20, <1>21 DEF IInv

\* Every step of a flush.
LEMMA FlushKeeps ==
  ASSUME IInv, NEW c \in FlushCallers, Flush(c)
  PROVE  IInv'
BY FlushBeginKeeps, FlushFreezeKeeps, FlushWaitKeeps, FlushDeadlineKeeps, FlushReleaseKeeps DEF Flush

----------------------------------------------------------------------------
(* fsync and truncate, outside the flush itself.                           *)

\* A step of one caller that is not inside the gate.
LEMMA CallerMoves ==
  ASSUME IInv, CallerLight, hist' \in HistType, shared' \in SharedType,
         NEW c \in FlushCallers, NEW f \in FlushType, flushes' = [flushes EXCEPT ![c] = f],
         InPc(f.pc) = 0, InPc(flushes[c].pc) = 0,
         f.slices \subseteq hist.acked, f.known \subseteq hist.acked, FlushSound(c)',
         shared'.flush_waiting = shared.flush_waiting, shared'.write_gen = shared.write_gen,
         shared'.last_flushed_gen = shared.last_flushed_gen,
         shared'.order = shared.order, shared'.parked = shared.parked,
         hist'.before = hist.before,
         \A s \in hist'.flushed : s \in hist.flushed \/ (s \in Slices /\ Done(s)),
         \A s \in Slices : Stale(s)' => Stale(s) \/ s \in hist'.concurrent,
         \A s \in hist'.cut : s \in hist.cut \/ Sealed(s) \/ s \in hist.evicted,
         meta' = <<>> \/ hist'.cut = hist.cut,
         chunk' = chunk \/ (chunk' = Absent /\ \A s \in ToSet(chunk.deque) : Kept(s)'),
         EpochBound'
  PROVE  IInv'
<1>1. Records /\ GateCounts /\ Naming
  BY DEF IInv
<1>2. Steady /\ hist'.acked = hist.acked
  BY CallerSteady DEF CallerLight
<1>3. /\ flushes' \in [FlushCallers -> FlushType] /\ flushes'[c] = f
      /\ \A d \in FlushCallers : d # c => flushes'[d] = flushes[d]
  BY <1>1 DEF Records
<1>4. GateCounts'
  <2>1. shared.flush_waiting \in Int
    BY <1>1 DEF Records, SharedType
  <2>2. shared'.flush_waiting = shared.flush_waiting + InPc(f.pc) - InPc(flushes[c].pc)
    BY <2>1
  <2> QED BY <1>1, <2>2, GateShift
<1>5. Records'
  <2>1. slices' = slices /\ tasks' = tasks /\ (meta' = meta \/ meta' = <<>>)
    BY DEF CallerLight
  <2>2. meta' \in Seq(Slices)
    <3>1. meta \in Seq(Slices) /\ <<>> \in Seq(Slices)
      BY <1>1 DEF Records
    <3> QED BY ONLY <2>1, <3>1
  <2>3. chunk' \in ChunkType
    BY <1>1, AbsentSound DEF Records
  <2> QED BY <1>1, <1>3, <2>1, <2>2, <2>3 DEF Records
<1>6. \A d \in FlushCallers : FlushSound(d)'
  BY <1>2, <1>3, OtherFlush
<1>7. Flushed'
  BY <1>2, FlushedKeeps
<1>8. \A d \in FlushCallers :
         flushes'[d].slices \subseteq hist.acked /\ flushes'[d].known \subseteq hist.acked
  BY <1>1, <1>3 DEF Naming, Known
<1>9. shared'.order >= shared.order
  <2>1. shared.order \in Int
    BY <1>1, SliceWriterAssumption DEF Records, SharedType
  <2> QED BY <2>1
<1>10. shared'.parked # NoSlice =>
            shared'.parked <= shared'.order /\ shared'.parked \notin hist.acked
  BY <1>1 DEF Naming
<1>11. /\ \A r \in Slices : \A x \in hist'.before[r] : x \in hist.acked /\ x < r
       /\ \A r \in hist.acked : hist'.before[r] = hist.before[r]
  BY <1>1 DEF Naming, Known
<1> QED BY <1>4, <1>5, <1>6, <1>7, <1>8, <1>9, <1>10, <1>11, CallerStep

\* A call begins with nothing made sure of.
LEMMA NewCall ==
  ASSUME NEW K, K \subseteq Slices, NEW f, f = [NoFlush EXCEPT !.pc = "begin", !.known = K]
  PROVE  /\ f \in FlushType /\ f.pc = "begin" /\ f.known = K /\ f.slices = {} /\ f.gen = 0
         /\ InPc(f.pc) = 0
<1>1. NoFlush \in FlushType
  BY DEF NoFlush, FlushType, FlushPcs
<1>2. f.pc = "begin" /\ f.known = K /\ f.slices = {} /\ f.gen = 0 /\ f \in FlushType
  BY <1>1 DEF FlushType, FlushPcs, NoFlush
<1> QED BY <1>2 DEF InPc

\* fsync begins.
LEMMA FsyncKeeps ==
  ASSUME IInv, Fsync
  PROVE  IInv'
<1>1. /\ Records /\ EpochBound /\ Naming /\ flushes["fsync"].pc = "none" /\ hist.calls < MaxCalls
      /\ UNCHANGED <<slices, chunk, tasks, shared, meta>>
  BY DEF IInv, Fsync, FAt
<1>2. PICK f : f = [NoFlush EXCEPT !.pc = "begin", !.known = hist.acked]
  OBVIOUS
<1>3. PICK k : k = hist.calls + 1
  OBVIOUS
<1>4. flushes' = [flushes EXCEPT !["fsync"] = f] /\ hist' = [hist EXCEPT !.calls = k]
  BY <1>2, <1>3 DEF Fsync
<1>5. hist \in HistType /\ hist.acked \subseteq Slices /\ flushes \in [FlushCallers -> FlushType]
      /\ "fsync" \in FlushCallers
  BY <1>1 DEF Records, HistType, FlushCallers
<1>6. /\ f \in FlushType /\ f.pc = "begin" /\ f.known = hist.acked /\ f.slices = {} /\ f.gen = 0
      /\ InPc(f.pc) = 0
  BY <1>2, <1>5, NewCall
<1>7. k \in 0 .. MaxCalls /\ hist.calls <= k /\ hist.calls \in Int
  BY <1>1, <1>3, <1>5, SliceWriterAssumption DEF HistType
<1>8. /\ hist' \in HistType /\ hist'.calls = k
      /\ hist'.acked = hist.acked /\ hist'.before = hist.before /\ hist'.flushed = hist.flushed
      /\ hist'.cut = hist.cut /\ hist'.concurrent = hist.concurrent
      /\ hist'.evicted = hist.evicted /\ hist'.late = hist.late /\ hist'.again = hist.again
  BY <1>4, <1>5, <1>7 DEF HistType
<1>9. CallerLight
  BY <1>1, <1>8 DEF CallerLight
<1>10. flushes'["fsync"] = f /\ flushes'["truncate"] = flushes["truncate"]
  BY <1>4, <1>5 DEF FlushCallers
<1>11. EpochBound'
  <2>1. shared.epoch \in Int
    BY <1>1, SliceWriterAssumption DEF Records, SharedType
  <2> QED BY <1>1, <1>7, <1>8, <1>10, <2>1 DEF EpochBound
<1>12. FlushSound("fsync")'
  <2>1. shared'.write_gen \in Nat
    BY <1>1 DEF Records, SharedType
  <2> QED BY <1>6, <1>10, <2>1 DEF FlushSound
<1>13. InPc(flushes["fsync"].pc) = 0
  BY <1>1 DEF InPc
<1>14. \A s \in Slices : Stale(s)' => Stale(s)
  BY <1>1 DEF Stale
<1>15. shared' \in SharedType /\ shared' = shared /\ chunk' = chunk
  BY <1>1 DEF Records
<1> QED BY <1>4, <1>5, <1>6, <1>8, <1>9, <1>11, <1>12, <1>13, <1>14, <1>15, CallerMoves

\* What the flush made sure of is done.
LEMMA FsyncReturnKeeps ==
  ASSUME IInv, FsyncReturn
  PROVE  IInv'
<1>1. /\ Records /\ EpochBound /\ Naming /\ FlushSound("fsync") /\ flushes["fsync"].pc = "done"
      /\ UNCHANGED <<slices, chunk, tasks, shared, meta>>
  BY DEF IInv, FsyncReturn, FAt, FlushCallers
<1>2. PICK K : K = hist.flushed \cup IF flushes["fsync"].ok THEN flushes["fsync"].known ELSE {}
  OBVIOUS
<1>3. flushes' = [flushes EXCEPT !["fsync"] = NoFlush] /\ hist' = [hist EXCEPT !.flushed = K]
  BY <1>2 DEF FsyncReturn
<1>5. hist \in HistType /\ hist.acked \subseteq Slices /\ flushes \in [FlushCallers -> FlushType]
      /\ "fsync" \in FlushCallers /\ flushes["fsync"].known \subseteq Slices
      /\ hist.flushed \subseteq Slices
  BY <1>1 DEF Records, HistType, FlushCallers, FlushType
<1>6. /\ NoFlush \in FlushType /\ NoFlush.pc = "none" /\ NoFlush.known = {} /\ NoFlush.slices = {}
      /\ NoFlush.gen = 0 /\ InPc(NoFlush.pc) = 0
  BY DEF NoFlush, FlushType, FlushPcs, InPc
<1>7. K \subseteq Slices /\ \A s \in K : s \in hist.flushed \/ (s \in Slices /\ Done(s))
  BY <1>1, <1>2, <1>5 DEF FlushSound, Safe
<1>8. /\ hist' \in HistType /\ hist'.flushed = K
      /\ hist'.acked = hist.acked /\ hist'.before = hist.before /\ hist'.calls = hist.calls
      /\ hist'.cut = hist.cut /\ hist'.concurrent = hist.concurrent
      /\ hist'.evicted = hist.evicted /\ hist'.late = hist.late /\ hist'.again = hist.again
  BY <1>3, <1>5, <1>7 DEF HistType
<1>9. CallerLight
  BY <1>1, <1>8 DEF CallerLight
<1>10. flushes'["fsync"] = NoFlush /\ flushes'["truncate"] = flushes["truncate"]
  BY <1>3, <1>5 DEF FlushCallers
<1>11. EpochBound'
  BY <1>1, <1>8, <1>10 DEF EpochBound
<1>12. FlushSound("fsync")'
  <2>1. shared'.write_gen \in Nat
    BY <1>1 DEF Records, SharedType
  <2> QED BY <1>6, <1>10, <2>1 DEF FlushSound
<1>13. InPc(flushes["fsync"].pc) = 0
  BY <1>1 DEF InPc
<1>14. \A s \in Slices : Stale(s)' => Stale(s)
  BY <1>1 DEF Stale
<1>15. shared' \in SharedType /\ shared' = shared /\ chunk' = chunk
  BY <1>1 DEF Records
<1> QED BY <1>3, <1>5, <1>6, <1>7, <1>8, <1>9, <1>11, <1>12, <1>13, <1>14, <1>15, CallerMoves

\* Truncation holds the inode's lock and flushes.
LEMMA TruncateKeeps ==
  ASSUME IInv, Truncate
  PROVE  IInv'
<1>1. /\ Records /\ EpochBound /\ Naming /\ flushes["truncate"].pc = "none" /\ hist.calls < MaxCalls
      /\ UNCHANGED <<slices, chunk, tasks, meta>>
      /\ shared' = [shared EXCEPT !.lock = "truncate"]
  BY DEF IInv, Truncate, FAt
<1>2. PICK f : f = [NoFlush EXCEPT !.pc = "begin", !.known = hist.acked]
  OBVIOUS
<1>3. PICK k : k = hist.calls + 1
  OBVIOUS
<1>4. flushes' = [flushes EXCEPT !["truncate"] = f] /\ hist' = [hist EXCEPT !.calls = k]
  BY <1>2, <1>3 DEF Truncate
<1>5. hist \in HistType /\ hist.acked \subseteq Slices /\ flushes \in [FlushCallers -> FlushType]
      /\ "truncate" \in FlushCallers
  BY <1>1 DEF Records, HistType, FlushCallers
<1>6. /\ f \in FlushType /\ f.pc = "begin" /\ f.known = hist.acked /\ f.slices = {} /\ f.gen = 0
      /\ InPc(f.pc) = 0
  BY <1>2, <1>5, NewCall
<1>7. k \in 0 .. MaxCalls /\ hist.calls \in Int
  BY <1>1, <1>3, <1>5, SliceWriterAssumption DEF HistType
<1>8. /\ hist' \in HistType /\ hist'.calls = k
      /\ hist'.acked = hist.acked /\ hist'.before = hist.before /\ hist'.flushed = hist.flushed
      /\ hist'.cut = hist.cut /\ hist'.concurrent = hist.concurrent
      /\ hist'.evicted = hist.evicted /\ hist'.late = hist.late /\ hist'.again = hist.again
  BY <1>4, <1>5, <1>7 DEF HistType
<1>15. /\ shared' \in SharedType /\ shared'.flush_waiting = shared.flush_waiting
       /\ shared'.write_gen = shared.write_gen /\ shared'.error = shared.error
       /\ shared'.last_flushed_gen = shared.last_flushed_gen /\ shared'.epoch = shared.epoch
       /\ shared'.order = shared.order /\ shared'.parked = shared.parked
  BY <1>1 DEF Records, SharedType
<1>9. CallerLight
  BY <1>1, <1>8, <1>15 DEF CallerLight
<1>10. flushes'["truncate"] = f
  BY <1>4, <1>5
<1>11. EpochBound'
  <2>1. shared.epoch \in Int
    BY <1>1, SliceWriterAssumption DEF Records, SharedType
  <2>2. shared.epoch + 0 <= hist.calls
    BY <1>1 DEF EpochBound
  <2>3. shared.epoch + 1 <= k
    BY <1>3, <1>7, <2>1, <2>2
  <2> QED BY <1>6, <1>8, <1>10, <1>15, <2>3 DEF EpochBound
<1>12. FlushSound("truncate")'
  <2>1. shared'.write_gen \in Nat
    BY <1>15 DEF SharedType
  <2> QED BY <1>6, <1>10, <2>1 DEF FlushSound
<1>13. InPc(flushes["truncate"].pc) = 0
  BY <1>1 DEF InPc
<1>14. \A s \in Slices : Stale(s)' => Stale(s)
  BY <1>1, <1>15 DEF Stale
<1>16. chunk' = chunk
  BY <1>1
<1> QED BY <1>4, <1>5, <1>6, <1>8, <1>9, <1>11, <1>12, <1>13, <1>14, <1>15, <1>16, CallerMoves

\* The flush failed: nothing is cut.
LEMMA TruncateFailsKeeps ==
  ASSUME IInv, TruncateFails
  PROVE  IInv'
<1>1. /\ Records /\ EpochBound /\ flushes["truncate"].pc = "done"
      /\ UNCHANGED <<slices, chunk, tasks, meta, hist>>
      /\ shared' = [shared EXCEPT !.lock = "free"]
      /\ flushes' = [flushes EXCEPT !["truncate"] = NoFlush]
  BY DEF IInv, TruncateFails, FAt
<1>5. hist' \in HistType /\ flushes \in [FlushCallers -> FlushType] /\ "truncate" \in FlushCallers
  BY <1>1 DEF Records, FlushCallers
<1>6. /\ NoFlush \in FlushType /\ NoFlush.pc = "none" /\ NoFlush.known = {} /\ NoFlush.slices = {}
      /\ NoFlush.gen = 0 /\ InPc(NoFlush.pc) = 0
  BY DEF NoFlush, FlushType, FlushPcs, InPc
<1>15. /\ shared' \in SharedType /\ shared'.flush_waiting = shared.flush_waiting
       /\ shared'.write_gen = shared.write_gen /\ shared'.error = shared.error
       /\ shared'.last_flushed_gen = shared.last_flushed_gen /\ shared'.epoch = shared.epoch
       /\ shared'.order = shared.order /\ shared'.parked = shared.parked
  BY <1>1 DEF Records, SharedType
<1>9. CallerLight
  BY <1>1, <1>15 DEF CallerLight
<1>10. flushes'["truncate"] = NoFlush
  BY <1>1, <1>5
<1>11. EpochBound'
  <2>1. shared.epoch \in Int /\ hist.calls \in Int
    BY <1>1, SliceWriterAssumption DEF Records, SharedType, HistType
  <2>2. shared.epoch + 1 <= hist.calls
    BY <1>1 DEF EpochBound
  <2> QED BY <1>1, <1>6, <1>10, <1>15, <2>1, <2>2 DEF EpochBound
<1>12. FlushSound("truncate")'
  <2>1. shared'.write_gen \in Nat
    BY <1>15 DEF SharedType
  <2> QED BY <1>6, <1>10, <2>1 DEF FlushSound
<1>13. InPc(flushes["truncate"].pc) = 0
  BY <1>1 DEF InPc
<1>14. \A s \in Slices : Stale(s)' => Stale(s)
  BY <1>1, <1>15 DEF Stale
<1>16. hist' = hist /\ chunk' = chunk /\ flushes' = [flushes EXCEPT !["truncate"] = NoFlush]
  BY <1>1
<1> QED BY <1>5, <1>6, <1>9, <1>11, <1>12, <1>13, <1>14, <1>15, <1>16, CallerMoves

\* The next step of a truncation whose flush was good: what it made sure of
\* stays so.
LEMMA TruncateGoes ==
  ASSUME IInv, CallerLight, NEW pc \in {"clear", "bump"}, flushes["truncate"].pc \in {"done", "clear"},
         flushes' = [flushes EXCEPT !["truncate"].pc = pc],
         hist' \in HistType, hist'.calls = hist.calls, UNCHANGED shared
  PROVE  \E f \in FlushType :
           /\ flushes' = [flushes EXCEPT !["truncate"] = f]
           /\ InPc(f.pc) = 0 /\ InPc(flushes["truncate"].pc) = 0
           /\ f.slices \subseteq hist.acked /\ f.known \subseteq hist.acked
           /\ FlushSound("truncate")' /\ EpochBound'
<1>1. Records /\ EpochBound /\ FlushSound("truncate") /\ Naming
  BY DEF IInv, FlushCallers
<1>2. flushes \in [FlushCallers -> FlushType] /\ "truncate" \in FlushCallers
  BY <1>1 DEF Records, FlushCallers
<1>3. PICK f : f = [flushes["truncate"] EXCEPT !.pc = pc]
  OBVIOUS
<1>4. /\ f \in FlushType /\ f.pc = pc /\ f.slices = flushes["truncate"].slices
      /\ f.known = flushes["truncate"].known /\ f.gen = flushes["truncate"].gen
      /\ f.ok = flushes["truncate"].ok
  BY <1>2, <1>3 DEF FlushType, FlushPcs
<1>5. flushes' = [flushes EXCEPT !["truncate"] = f] /\ flushes'["truncate"] = f
  BY <1>2, <1>3
<1>6. InPc(f.pc) = 0 /\ InPc(flushes["truncate"].pc) = 0
  BY <1>4 DEF InPc
<1>7. f.slices \subseteq hist.acked /\ f.known \subseteq hist.acked
  BY <1>1, <1>2, <1>4 DEF Naming, Known
<1>8. EpochBound'
  BY <1>1, <1>4, <1>5 DEF EpochBound
<1>9. FlushSound("truncate")'
  <2>1. f.ok => \A s \in f.known : Safe(s)
    BY <1>1, <1>4 DEF FlushSound
  <2>2. f.known \subseteq Slices
    BY <1>4 DEF FlushType
  <2>3. f.ok => \A s \in f.known : Safe(s)'
    BY <2>1, <2>2, CallerSteady, Carried
  <2>4. f.gen <= shared.write_gen
    BY <1>1, <1>4 DEF FlushSound
  <2> QED BY <1>4, <1>5, <2>3, <2>4 DEF FlushSound
<1> QED BY <1>4, <1>5, <1>6, <1>7, <1>8, <1>9

\* The cut: what the flush made sure of is sealed, or else was evicted or late.
LEMMA TruncateMetaKeeps ==
  ASSUME IInv, TruncateMeta
  PROVE  IInv'
<1>1. /\ Records /\ FlushSound("truncate") /\ flushes["truncate"].pc = "done" /\ flushes["truncate"].ok
      /\ UNCHANGED <<slices, chunk, tasks, shared>> /\ meta' = <<>>
      /\ flushes' = [flushes EXCEPT !["truncate"].pc = "clear"]
  BY DEF IInv, TruncateMeta, FAt, FlushCallers
<1>2. PICK K, M : K = hist.cut \cup (flushes["truncate"].known \ hist.late)
                  /\ M = hist.concurrent \cup hist.acked
  OBVIOUS
<1>3. /\ hist \in HistType /\ K \subseteq Slices /\ M \subseteq Slices
      /\ flushes["truncate"].known \subseteq Slices
  <2>1. flushes["truncate"] \in FlushType /\ hist \in HistType
    BY <1>1 DEF Records, FlushCallers
  <2> QED BY <1>2, <2>1 DEF HistType, FlushType
<1>4. hist' = [[hist EXCEPT !.concurrent = M] EXCEPT !.cut = K]
  BY <1>2, <1>3 DEF TruncateMeta, Meanwhile, HistType
<1>5. /\ hist' \in HistType /\ hist'.calls = hist.calls
      /\ hist'.acked = hist.acked /\ hist'.before = hist.before /\ hist'.flushed = hist.flushed
      /\ hist'.cut = K /\ hist'.concurrent = M
      /\ hist'.evicted = hist.evicted /\ hist'.late = hist.late /\ hist'.again = hist.again
  BY <1>3, <1>4 DEF HistType
<1>6. CallerLight
  BY <1>1, <1>2, <1>5 DEF CallerLight
<1>7. PICK f \in FlushType :
           /\ flushes' = [flushes EXCEPT !["truncate"] = f]
           /\ InPc(f.pc) = 0 /\ InPc(flushes["truncate"].pc) = 0
           /\ f.slices \subseteq hist.acked /\ f.known \subseteq hist.acked
           /\ FlushSound("truncate")' /\ EpochBound'
  BY <1>1, <1>5, <1>6, TruncateGoes
<1>8. \A s \in K : s \in hist.cut \/ Sealed(s) \/ s \in hist.evicted
  BY <1>1, <1>2 DEF FlushSound, Safe, Settled
<1>9. \A s \in Slices : Stale(s)' => Stale(s)
  BY <1>1 DEF Stale
<1>10. shared' \in SharedType /\ shared' = shared /\ chunk' = chunk /\ "truncate" \in FlushCallers
       /\ meta' = <<>>
  BY <1>1 DEF Records, FlushCallers
<1> QED BY <1>5, <1>6, <1>7, <1>8, <1>9, <1>10, CallerMoves

\* The writer is cleared: what was not committed yet counts as late.
LEMMA TruncateClearKeeps ==
  ASSUME IInv, TruncateClear
  PROVE  IInv'
<1>1. /\ Records /\ Naming /\ flushes["truncate"].pc = "clear"
      /\ UNCHANGED <<slices, tasks, shared, meta>> /\ chunk' = Absent
      /\ flushes' = [flushes EXCEPT !["truncate"].pc = "bump"]
  BY DEF IInv, TruncateClear, FAt
<1>2. PICK L, M : L = hist.late \cup {s \in ToSet(chunk.deque) : slices[s].state # "Committed"}
                  /\ M = hist.concurrent \cup hist.acked
  OBVIOUS
<1>3. /\ hist \in HistType /\ L \subseteq Slices /\ M \subseteq Slices
      /\ ToSet(chunk.deque) \subseteq hist.acked /\ hist.acked \subseteq Slices
  <2>1. hist \in HistType /\ ToSet(chunk.deque) \subseteq hist.acked
    BY <1>1 DEF Records, Naming, Known
  <2> QED BY <1>2, <2>1 DEF HistType
<1>4. hist' = [[hist EXCEPT !.concurrent = M] EXCEPT !.late = L]
  BY <1>2, <1>3 DEF TruncateClear, Meanwhile, HistType
<1>5. /\ hist' \in HistType /\ hist'.calls = hist.calls
      /\ hist'.acked = hist.acked /\ hist'.before = hist.before /\ hist'.flushed = hist.flushed
      /\ hist'.cut = hist.cut /\ hist'.concurrent = M
      /\ hist'.evicted = hist.evicted /\ hist'.late = L /\ hist'.again = hist.again
  BY <1>3, <1>4 DEF HistType
<1>6. CallerLight
  BY <1>1, <1>2, <1>5 DEF CallerLight
<1>7. PICK f \in FlushType :
           /\ flushes' = [flushes EXCEPT !["truncate"] = f]
           /\ InPc(f.pc) = 0 /\ InPc(flushes["truncate"].pc) = 0
           /\ f.slices \subseteq hist.acked /\ f.known \subseteq hist.acked
           /\ FlushSound("truncate")' /\ EpochBound'
  BY <1>1, <1>5, <1>6, TruncateGoes
<1>8. ASSUME NEW s \in ToSet(chunk.deque) PROVE Kept(s)'
  <2>1. s \in Slices /\ s \in hist.acked
    BY <1>3, <1>8
  <2>2. CASE slices[s].state = "Committed"
    BY <1>6, <2>1, <2>2, EndedKept, CallerSteady, Carried
  <2>3. CASE slices[s].state # "Committed"
    <3>1. s \in hist'.late /\ s \in hist'.concurrent
      BY <1>2, <1>5, <1>8, <2>1, <2>3
    <3> QED BY <3>1 DEF Kept, Settled, Done
  <2> QED BY <2>2, <2>3
<1>9. \A s \in Slices : Stale(s)' => Stale(s)
  BY <1>1 DEF Stale
<1>10. shared' \in SharedType /\ shared' = shared /\ chunk' = Absent /\ "truncate" \in FlushCallers
  BY <1>1 DEF Records, FlushCallers
<1> QED BY <1>5, <1>6, <1>7, <1>8, <1>9, <1>10, CallerMoves

\* A new epoch: a slice that it makes stale was written before the truncation
\* returned.
LEMMA TruncateBumpKeeps ==
  ASSUME IInv, TruncateBump
  PROVE  IInv'
<1>1. /\ Records /\ Naming /\ EpochBound /\ flushes["truncate"].pc = "bump"
      /\ UNCHANGED <<slices, chunk, tasks, meta>>
      /\ flushes' = [flushes EXCEPT !["truncate"] = NoFlush]
  BY DEF IInv, TruncateBump, FAt
<1>2. PICK e, M : e = shared.epoch + 1 /\ M = hist.concurrent \cup hist.acked
  OBVIOUS
<1>3. shared' = [shared EXCEPT !.epoch = e, !.lock = "free"] /\ hist' = [hist EXCEPT !.concurrent = M]
  BY <1>2 DEF TruncateBump, Meanwhile
<1>4. /\ hist \in HistType /\ M \subseteq Slices /\ shared \in SharedType
      /\ flushes \in [FlushCallers -> FlushType] /\ "truncate" \in FlushCallers
  BY <1>1, <1>2 DEF Records, HistType, FlushCallers
<1>5. e \in 0 .. MaxCalls /\ e <= hist.calls /\ e \in Int
  <2>1. shared.epoch \in 0 .. MaxCalls /\ hist.calls \in 0 .. MaxCalls
    BY <1>4 DEF SharedType, HistType
  <2>2. shared.epoch + 1 <= hist.calls
    BY <1>1 DEF EpochBound
  <2> QED BY <1>2, <2>1, <2>2, SliceWriterAssumption
<1>6. /\ hist' \in HistType /\ hist'.calls = hist.calls
      /\ hist'.acked = hist.acked /\ hist'.before = hist.before /\ hist'.flushed = hist.flushed
      /\ hist'.cut = hist.cut /\ hist'.concurrent = M
      /\ hist'.evicted = hist.evicted /\ hist'.late = hist.late /\ hist'.again = hist.again
  BY <1>3, <1>4 DEF HistType
<1>7. /\ shared' \in SharedType /\ shared'.flush_waiting = shared.flush_waiting
      /\ shared'.write_gen = shared.write_gen /\ shared'.error = shared.error
      /\ shared'.last_flushed_gen = shared.last_flushed_gen /\ shared'.epoch = e
      /\ shared'.order = shared.order /\ shared'.parked = shared.parked
  BY <1>3, <1>4, <1>5 DEF SharedType
<1>8. /\ NoFlush \in FlushType /\ NoFlush.pc = "none" /\ NoFlush.known = {} /\ NoFlush.slices = {}
      /\ NoFlush.gen = 0 /\ InPc(NoFlush.pc) = 0
  BY DEF NoFlush, FlushType, FlushPcs, InPc
<1>9. CallerLight
  BY <1>1, <1>2, <1>6, <1>7 DEF CallerLight
<1>10. flushes'["truncate"] = NoFlush
  BY <1>1, <1>4
<1>11. EpochBound'
  BY <1>5, <1>6, <1>7, <1>8, <1>10 DEF EpochBound
<1>12. FlushSound("truncate")'
  <2>1. shared'.write_gen \in Nat
    BY <1>7 DEF SharedType
  <2> QED BY <1>8, <1>10, <2>1 DEF FlushSound
<1>13. InPc(flushes["truncate"].pc) = 0
  BY <1>1 DEF InPc
<1>14. ASSUME NEW s \in Slices, Stale(s)' PROVE s \in hist'.concurrent
  <2>1. slices[s].frozen_epoch # 0
    BY <1>1, <1>14 DEF Stale
  <2>2. s \in hist.acked
    BY <1>1, <2>1 DEF Naming, NewSlice
  <2> QED BY <1>2, <1>6, <2>2
<1>15. chunk' = chunk /\ flushes' = [flushes EXCEPT !["truncate"] = NoFlush]
  BY <1>1
<1> QED BY <1>4, <1>6, <1>7, <1>8, <1>9, <1>11, <1>12, <1>13, <1>14, <1>15, CallerMoves

\* Every step of a truncation after its flush.
LEMMA TruncateStepKeeps ==
  ASSUME IInv, TruncateStep
  PROVE  IInv'
BY TruncateFailsKeeps, TruncateMetaKeeps, TruncateClearKeeps, TruncateBumpKeeps DEF TruncateStep

----------------------------------------------------------------------------
(* Writes.                                                                 *)

\* A slice enters the deque at its place, and a task looks after the chunk.
LEMMA PlaceKeeps ==
  ASSUME IInv, NEW s \in Slices, s \notin hist.acked, Place(s), UNCHANGED <<flushes, meta>>,
         hist' \in HistType, hist'.acked = hist.acked \cup {s}, hist'.flushed = hist.flushed,
         hist'.calls = hist.calls, hist'.cut = hist.cut, hist'.concurrent = hist.concurrent,
         hist'.evicted = hist.evicted, hist'.late = hist.late, hist'.again = hist.again,
         \A r \in hist.acked : hist'.before[r] = hist.before[r],
         \A r \in Slices : \A x \in hist'.before[r] : x \in hist.acked /\ x < r,
         shared' \in SharedType, shared'.error = shared.error, shared'.epoch = shared.epoch,
         shared'.flush_waiting = shared.flush_waiting,
         shared'.last_flushed_gen = shared.last_flushed_gen,
         shared'.write_gen = shared.write_gen + 1,
         shared'.order >= shared.order, s <= shared'.order,
         shared'.parked # NoSlice =>
            shared'.parked <= shared'.order /\ shared'.parked \notin hist'.acked
  PROVE  IInv'
<1>1. /\ Records /\ Naming /\ Sorted /\ Tended /\ Fronted /\ Flushed /\ GateCounts /\ EpochBound
      /\ PublishedInOrder /\ PublishedOnce /\ TruncatedStaysGone
  BY DEF IInv
<1>2. /\ slices \in [Slices -> SliceType] /\ chunk \in ChunkType /\ tasks \in [Tasks -> TaskType]
      /\ hist.acked \subseteq Slices /\ slices[s] = NewSlice
      /\ shared.write_gen \in Nat
  BY <1>1 DEF Records, HistType, Naming, SharedType
<1>3. PICK x : x = [NewSlice EXCEPT !.state = "Writable"]
  OBVIOUS
<1>4. /\ x \in SliceType /\ x.state = "Writable" /\ x.upload = "none" /\ ~ x.meta_write_started
      /\ x.frozen_epoch = 0
  <2>1. 0 \in 0 .. MaxCalls /\ 0 \in 0 .. MaxRetries
    BY SliceWriterAssumption
  <2>2. x = [state |-> "Writable", frozen_epoch |-> 0, meta_write_started |-> FALSE,
             upload |-> "none", attempts |-> 0]
    BY <1>3 DEF NewSlice
  <2> QED BY ONLY <2>1, <2>2 DEF SliceType, States, Uploads
<1>5. /\ slices' \in [Slices -> SliceType] /\ slices'[s] = x
      /\ \A r \in Slices : r # s => slices'[r] = slices[r]
  <2>1. slices' = [slices EXCEPT ![s] = x]
    BY <1>2, <1>3 DEF Place
  <2> QED BY <1>2, <1>4, <2>1
<1>6. PICK d, e : d = chunk.deque /\ e = PlacedAt(d, s)
  OBVIOUS
<1>7. chunk' = [chunk EXCEPT !.present = TRUE, !.deque = e, !.commit_started = TRUE]
  BY <1>6 DEF Place, PlacedAt
<1>8. /\ e \in Seq(Slices) /\ e # <<>> /\ ToSet(e) = ToSet(d) \cup {s}
      /\ \A i, j \in DOMAIN e : i < j => e[i] < e[j]
  <2>1. d \in Seq(Slices) /\ s \notin ToSet(d)
    BY <1>1, <1>2, <1>6 DEF ChunkType, Naming, Known
  <2>2. \A i, j \in DOMAIN d : i < j => d[i] < d[j]
    BY <1>1, <1>6 DEF Sorted
  <2>3. e = PlacedAt(d, s) /\ s \in Slices
    BY <1>6
  <2> QED BY ONLY <2>1, <2>2, <2>3, Placed
<1>9. chunk' \in ChunkType /\ chunk'.present /\ chunk'.commit_started /\ chunk'.deque = e
  BY <1>2, <1>7, <1>8 DEF ChunkType
<1>10. /\ tasks' \in [Tasks -> TaskType]
       /\ \A t \in Tasks : tasks'[t] = tasks[t] \/ (tasks[t].pc = "none" /\ tasks'[t].pc = "top")
       /\ \E t \in Tasks : tasks'[t].pc # "none"
  <2>1. CASE chunk.commit_started
    BY <1>1, <1>2, <2>1 DEF Place, Tended
  <2>2. CASE ~ chunk.commit_started
    <3>1. PICK t \in Tasks : /\ tasks[t].pc = "none"
                             /\ tasks' = [tasks EXCEPT ![t] = [NoTask EXCEPT !.pc = "top"]]
      BY <2>2 DEF Place
    <3>2. PICK y : y = [NoTask EXCEPT !.pc = "top"]
      OBVIOUS
    <3>3. y \in TaskType /\ y.pc = "top"
      BY <3>2, SliceWriterAssumption DEF NoTask, TaskType, TaskPcs, NoSlice
    <3>4. tasks' = [tasks EXCEPT ![t] = y]
      BY <3>1, <3>2
    <3> QED BY <1>2, <3>1, <3>3, <3>4
  <2> QED BY <2>1, <2>2
<1>11. Records'
  BY <1>1, <1>5, <1>9, <1>10 DEF Records
<1>12. \A r \in Slices, t \in Tasks : Writes(t, r)' <=> Writes(t, r)
  BY <1>10 DEF Writes
<1>13. \A r \in Slices : r # s => SameSlice(r)
  BY <1>5, <1>12 DEF SameSlice
<1>14. \A t \in Tasks : ~ Writes(t, s)
  BY <1>1 DEF Writes, Naming
<1>15. ~ Writing(s)' /\ \A t \in Tasks : ~ Writes(t, s)'
  BY <1>4, <1>5, <1>12, <1>14 DEF Writing, Writes
<1>16. Steady
  <2>1. ~ Sealed(s)
    BY <1>2 DEF Sealed, NewSlice
  <2>2. \A r \in Slices : Sealed(r) => Sealed(r)'
    BY <1>13, <2>1, SameWriting
  <2>3. \A r \in Slices : Done(r) => Done(r)'
    BY DEF Done
  <2> QED BY <2>2, <2>3 DEF Steady
<1>17. ASSUME NEW r \in hist.acked, Behind(r) PROVE Behind(r)'
  <2>1. r \in Slices /\ hist'.before[r] = hist.before[r]
    BY <1>2
  <2> QED BY <1>1, <1>16, <1>17, <2>1, BehindCarried
<1>18. Naming'
  <2>1. \A r \in hist'.acked : r <= shared'.order
    <3>1. ASSUME NEW r \in hist.acked PROVE r <= shared'.order
      <4>1. r <= shared.order /\ r \in Nat /\ shared.order \in Nat /\ shared'.order \in Nat
        BY <1>1, <1>2, SliceWriterAssumption DEF Naming, Records, SharedType, Slices
      <4> QED BY <4>1
    <3> QED BY <3>1
  <2>2. \A r \in Slices \ hist'.acked : slices'[r] = NewSlice
    BY <1>1, <1>5 DEF Naming
  <2>3. \A r \in Slices : hist'.before[r] \subseteq hist'.acked /\ \A q \in hist'.before[r] : q < r
    OBVIOUS
  <2>4. ToSet(chunk'.deque) \subseteq hist'.acked
    BY <1>1, <1>6, <1>8, <1>9 DEF Naming, Known
  <2>5. \A t \in Tasks : tasks'[t].pc \in {"look", "stalled", "write"} => tasks'[t].slice \in hist'.acked
    BY <1>1, <1>10 DEF Naming
  <2>6. \A c \in FlushCallers : flushes'[c].slices \subseteq hist'.acked /\ flushes'[c].known \subseteq hist'.acked
    BY <1>1 DEF Naming, Known
  <2>7. ToSet(meta') \subseteq hist'.acked
    BY <1>1 DEF Naming, Known
  <2> QED BY <2>1, <2>2, <2>3, <2>4, <2>5, <2>6, <2>7 DEF Naming, Known
<1>19. Fronted'
  <2>1. ASSUME NEW t \in Tasks, tasks'[t].pc \in {"look", "stalled", "write"}
        PROVE  Behind(tasks[t].slice)'
    <3>1. tasks'[t] = tasks[t]
      BY <1>10, <2>1
    <3>2. PICK r \in hist.acked : r = tasks[t].slice /\ Behind(r)
      BY <1>1, <2>1, <3>1 DEF Naming, Fronted
    <3>3. Behind(r)'
      BY <1>17, <3>2
    <3> QED BY <3>1, <3>2, <3>3 DEF Behind
  <2> QED BY <2>1 DEF Fronted
<1>20. PublishedInOrder' /\ PublishedOnce' /\ TruncatedStaysGone'
  <2>1. \A i \in DOMAIN meta : meta[i] \in hist.acked
    BY <1>1 DEF Naming, Known, ToSet
  <2>2. \A i \in DOMAIN meta : hist'.before[meta[i]] = hist.before[meta[i]]
    BY <2>1
  <2> QED BY <1>1, <2>2 DEF PublishedInOrder, PublishedOnce, TruncatedStaysGone
<1>21. Sorted' /\ Tended'
  BY <1>8, <1>9, <1>10 DEF Sorted, Tended
<1>22. EpochBound' /\ GateCounts'
  BY <1>1 DEF EpochBound, GateCounts, InGate
<1>23. \A r \in Slices : (Kept(r) => Kept(r)') /\ (Safe(r) => Safe(r)') /\ (Done(r) => Done(r)')
  BY <1>16, Carried DEF Steady
<1>24. ASSUME NEW c \in FlushCallers PROVE FlushSound(c)'
  <2>1. FlushSound(c) /\ flushes'[c] = flushes[c] /\ flushes[c].known \subseteq Slices /\ flushes[c].gen \in Nat
    BY <1>1 DEF IInv, Records, FlushType
  <2>2. flushes[c].gen <= shared.write_gen
    BY <2>1 DEF FlushSound
  <2>3. flushes[c].gen <= shared'.write_gen /\ shared'.write_gen # flushes[c].gen
    BY <1>2, <2>1, <2>2
  <2> QED BY <1>23, <2>1, <2>3 DEF FlushSound
<1>25. Flushed'
  <2>1. shared.last_flushed_gen \in Nat /\ hist.flushed \subseteq Slices
    BY <1>1 DEF Records, SharedType, HistType
  <2>2. shared.last_flushed_gen <= shared.write_gen
    BY <1>1 DEF Flushed
  <2>3. shared'.last_flushed_gen <= shared'.write_gen /\ shared'.write_gen # shared'.last_flushed_gen
    BY <1>2, <2>1, <2>2
  <2> QED BY <1>1, <1>23, <2>1, <2>3 DEF Flushed
<1>26. SliceShape(s)' /\ Claims(s)' /\ Ends(s)' /\ Held(s)' /\ Published(s)'
  <2>1. SliceShape(s)' /\ Claims(s)'
    BY <1>4, <1>5, <1>15 DEF SliceShape, Claims
  <2>2. Ends(s)'
    BY <1>4, <1>5 DEF Ends, Stale
  <2>3. Held(s)'
    BY <1>8, <1>9 DEF Held
  <2>4. s \notin ToSet(meta)
    BY <1>1 DEF Naming, Known
  <2>5. s \in hist.cut => s \in hist.evicted
    <3>1. Published(s) /\ ~ Sealed(s)
      BY <1>2 DEF IInv, Sealed, NewSlice
    <3> QED BY <3>1 DEF Published
  <2>6. Published(s)'
    BY <1>4, <1>5, <2>4, <2>5 DEF Published
  <2> QED BY <2>1, <2>2, <2>3, <2>6
<1>27. ASSUME NEW r \in Slices, r # s
       PROVE  SliceShape(r)' /\ Claims(r)' /\ Ends(r)' /\ Held(r)' /\ Published(r)'
  <2>1. /\ SameSlice(r) /\ slices'[r] = slices[r]
        /\ SliceShape(r) /\ Claims(r) /\ Ends(r) /\ Held(r) /\ Published(r)
    BY <1>5, <1>13, <1>27 DEF IInv
  <2>2. (Writing(r)' <=> Writing(r)) /\ (Sealed(r)' <=> Sealed(r)) /\ (Done(r) => Done(r)')
    BY <1>23, <2>1, SameWriting
  <2>3. SliceShape(r)' /\ Claims(r)'
    BY <2>1, SameShape
  <2>4. Ends(r)'
    BY <2>1, <2>2 DEF Ends, Stale
  <2>5. Held(r)'
    BY <1>6, <1>8, <1>9, <1>23, <1>27, <2>1 DEF Held
  <2>7. r \in ToSet(meta) \/ slices[r].upload = "write" => r \in hist.acked /\ Behind(r)
    <3>1. slices[r].upload = "write" => r \in hist.acked
      BY Uploading
    <3>2. r \in ToSet(meta) => r \in hist.acked
      BY <1>1 DEF Naming, Known
    <3> QED BY <2>1, <3>1, <3>2 DEF Published
  <2>8. r \in ToSet(meta) \/ slices[r].upload = "write" => Behind(r)'
    BY <1>17, <2>7
  <2>9. Published(r)'
    BY <2>1, <2>2, <2>8 DEF Published
  <2> QED BY <2>3, <2>4, <2>5, <2>9
<1> QED BY <1>11, <1>18, <1>19, <1>20, <1>21, <1>22, <1>24, <1>25, <1>26, <1>27 DEF IInv

\* The next write's slice has not been seen yet.
LEMMA NextSlice ==
  ASSUME IInv, shared.order < MaxWrites, NEW s, s = shared.order + 1
  PROVE  /\ s \in Slices /\ s \in 0 .. MaxWrites /\ s \in Nat /\ s >= shared.order /\ s \notin hist.acked
         /\ \A r \in hist.acked : r < s
         /\ shared.parked # NoSlice => shared.parked <= s /\ shared.parked # s
<1>1. /\ shared.order \in 0 .. MaxWrites /\ hist.acked \subseteq Slices
      /\ shared.parked \in Slices \cup {NoSlice}
      /\ (\A r \in hist.acked : r <= shared.order)
      /\ (shared.parked # NoSlice => shared.parked <= shared.order)
  BY DEF IInv, Records, SharedType, HistType, Naming
<1> QED BY <1>1, SliceWriterAssumption DEF Slices, NoSlice

\* A write that begins knows what was acknowledged before it.
LEMMA BeginKnows ==
  ASSUME IInv, NEW s \in Slices, s \notin hist.acked, \A r \in hist.acked : r < s, NEW h, h = Begin(s)
  PROVE  /\ h \in HistType /\ h.acked = hist.acked /\ h.flushed = hist.flushed
         /\ h.calls = hist.calls /\ h.cut = hist.cut /\ h.concurrent = hist.concurrent
         /\ h.evicted = hist.evicted /\ h.late = hist.late /\ h.again = hist.again
         /\ \A r \in hist.acked : h.before[r] = hist.before[r]
         /\ \A r \in Slices : \A x \in h.before[r] : x \in hist.acked /\ x < r
<1>1. hist \in HistType /\ Naming
  BY DEF IInv, Records
<1>2. PICK b : b = [hist.before EXCEPT ![s] = hist.acked]
  OBVIOUS
<1>3. h = [hist EXCEPT !.before = b]
  BY <1>1, <1>2 DEF Begin, HistType
<1>4. /\ b \in [Slices -> SUBSET Slices] /\ b[s] = hist.acked
      /\ \A r \in Slices : r # s => b[r] = hist.before[r]
  <2>1. hist.before \in [Slices -> SUBSET Slices] /\ hist.acked \in SUBSET Slices
    BY <1>1 DEF HistType
  <2> QED BY <1>2, <2>1
<1>5. /\ h \in HistType /\ h.acked = hist.acked /\ h.flushed = hist.flushed /\ h.before = b
      /\ h.calls = hist.calls /\ h.cut = hist.cut /\ h.concurrent = hist.concurrent
      /\ h.evicted = hist.evicted /\ h.late = hist.late /\ h.again = hist.again
  BY <1>1, <1>3, <1>4 DEF HistType
<1>6. \A r \in hist.acked : r \in Slices /\ h.before[r] = hist.before[r]
  BY <1>1, <1>4, <1>5 DEF HistType
<1>7. \A r \in Slices : \A x \in hist.before[r] : x \in hist.acked /\ x < r
  BY <1>1 DEF Naming, Known
<1>8. \A r \in Slices : \A x \in h.before[r] : x \in hist.acked /\ x < r
  BY <1>4, <1>5, <1>7
<1> QED BY <1>5, <1>6, <1>8

\* A write goes through: its slice is placed, and the write acknowledged.
LEMMA Admitted ==
  ASSUME IInv, shared.order < MaxWrites, NEW s, s = shared.order + 1, Place(s),
         UNCHANGED <<flushes, meta>>,
         shared' = [shared EXCEPT !.order = s, !.write_gen = @ + 1],
         hist' = [Begin(s) EXCEPT !.acked = @ \cup {s}]
  PROVE  IInv'
<1>1. /\ s \in Slices /\ s \in 0 .. MaxWrites /\ s >= shared.order /\ s \notin hist.acked
      /\ \A r \in hist.acked : r < s
      /\ shared.parked # NoSlice => shared.parked <= s /\ shared.parked # s
      /\ s \in Nat
  BY NextSlice
<1>2. PICK h : h = Begin(s)
  OBVIOUS
<1>3. /\ h \in HistType /\ h.acked = hist.acked /\ h.flushed = hist.flushed
      /\ h.calls = hist.calls /\ h.cut = hist.cut /\ h.concurrent = hist.concurrent
      /\ h.evicted = hist.evicted /\ h.late = hist.late /\ h.again = hist.again
      /\ \A r \in hist.acked : h.before[r] = hist.before[r]
      /\ \A r \in Slices : \A x \in h.before[r] : x \in hist.acked /\ x < r
  BY <1>1, <1>2, BeginKnows
<1>4. PICK A : A = hist.acked \cup {s}
  OBVIOUS
<1>5. hist' = [h EXCEPT !.acked = A]
  BY <1>2, <1>3, <1>4
<1>6. A \in SUBSET Slices
  BY <1>1, <1>3, <1>4 DEF HistType
<1>7. /\ hist' \in HistType /\ hist'.acked = A /\ hist'.flushed = h.flushed
      /\ hist'.calls = h.calls /\ hist'.cut = h.cut /\ hist'.concurrent = h.concurrent
      /\ hist'.evicted = h.evicted /\ hist'.late = h.late /\ hist'.again = h.again
      /\ hist'.before = h.before
  BY <1>3, <1>5, <1>6 DEF HistType
<1>8. shared \in SharedType /\ shared.write_gen \in Nat
  BY DEF IInv, Records, SharedType
<1>9. PICK g \in Nat : g = shared.write_gen + 1
  BY <1>8
<1>10. shared' = [shared EXCEPT !.order = s, !.write_gen = g]
  BY <1>8, <1>9
<1>11. /\ shared' \in SharedType /\ shared'.error = shared.error /\ shared'.epoch = shared.epoch
       /\ shared'.flush_waiting = shared.flush_waiting
       /\ shared'.last_flushed_gen = shared.last_flushed_gen
       /\ shared'.write_gen = g /\ shared'.order = s /\ shared'.parked = shared.parked
  BY <1>1, <1>8, <1>9, <1>10 DEF SharedType
<1>12. shared.parked # NoSlice => shared.parked \notin A
  BY <1>1, <1>4 DEF IInv, Naming
<1>13. s <= shared'.order
  BY <1>1, <1>11
<1>14. /\ hist'.acked = hist.acked \cup {s} /\ hist'.flushed = hist.flushed
       /\ hist'.calls = hist.calls /\ hist'.cut = hist.cut /\ hist'.concurrent = hist.concurrent
       /\ hist'.evicted = hist.evicted /\ hist'.late = hist.late /\ hist'.again = hist.again
       /\ \A r \in hist.acked : hist'.before[r] = hist.before[r]
       /\ \A r \in Slices : \A x \in hist'.before[r] : x \in hist.acked /\ x < r
  BY <1>3, <1>4, <1>7
<1>15. /\ shared'.write_gen = shared.write_gen + 1 /\ shared'.order >= shared.order
       /\ shared'.parked # NoSlice =>
             shared'.parked <= shared'.order /\ shared'.parked \notin hist'.acked
  BY <1>1, <1>7, <1>9, <1>11, <1>12
<1>16. hist' \in HistType
  BY <1>7
<1>17. /\ shared' \in SharedType /\ shared'.error = shared.error /\ shared'.epoch = shared.epoch
       /\ shared'.flush_waiting = shared.flush_waiting
       /\ shared'.last_flushed_gen = shared.last_flushed_gen
  BY <1>11
<1>18. IInv /\ s \in Slices /\ s \notin hist.acked /\ Place(s) /\ UNCHANGED <<flushes, meta>>
  BY <1>1
<1> QED BY ONLY <1>13, <1>14, <1>15, <1>16, <1>17, <1>18, PlaceKeeps

\* A write waits at the gate, with its place in the order.
LEMMA ParkKeeps ==
  ASSUME IInv, shared.order < MaxWrites, NEW s, s = shared.order + 1,
         shared' = [shared EXCEPT !.order = s, !.parked = s, !.woken = "no", !.lock = "write"],
         hist' = Begin(s), UNCHANGED <<slices, chunk, tasks, flushes, meta>>
  PROVE  IInv'
<1>1. /\ s \in Slices /\ s \in 0 .. MaxWrites /\ s >= shared.order /\ s \notin hist.acked
      /\ \A r \in hist.acked : r < s
      /\ s \in Nat
  BY NextSlice
<1>2. PICK h : h = Begin(s)
  OBVIOUS
<1>3. /\ h \in HistType /\ h.acked = hist.acked /\ h.flushed = hist.flushed
      /\ h.calls = hist.calls /\ h.cut = hist.cut /\ h.concurrent = hist.concurrent
      /\ h.evicted = hist.evicted /\ h.late = hist.late /\ h.again = hist.again
      /\ \A r \in hist.acked : h.before[r] = hist.before[r]
      /\ \A r \in Slices : \A x \in h.before[r] : x \in hist.acked /\ x < r
  BY <1>1, <1>2, BeginKnows
<1>4. hist' = h
  BY <1>2
<1>5. Records /\ shared \in SharedType /\ Naming /\ EpochBound /\ GateCounts
  BY DEF IInv, Records
<1>6. /\ shared' \in SharedType /\ shared'.error = shared.error /\ shared'.epoch = shared.epoch
      /\ shared'.flush_waiting = shared.flush_waiting /\ shared'.write_gen = shared.write_gen
      /\ shared'.last_flushed_gen = shared.last_flushed_gen
      /\ shared'.order = s /\ shared'.parked = s
  BY <1>1, <1>5 DEF SharedType
<1>7. CallerLight
  BY <1>3, <1>4, <1>6 DEF CallerLight
<1>8. Records'
  BY <1>3, <1>4, <1>5, <1>6 DEF Records
<1>9. Steady
  BY <1>7, CallerSteady
<1>10. (\A c \in FlushCallers : FlushSound(c)') /\ Flushed'
  BY <1>3, <1>4, <1>6, <1>9, OtherFlush, FlushedKeeps
<1>11. EpochBound' /\ GateCounts'
  BY <1>3, <1>4, <1>5, <1>6 DEF EpochBound, GateCounts, InGate
<1>12. \A r \in Slices : Stale(r)' => Stale(r)
  BY <1>6 DEF Stale
<1>13. \A c \in FlushCallers :
          flushes'[c].slices \subseteq hist.acked /\ flushes'[c].known \subseteq hist.acked
  BY <1>5 DEF Naming, Known
<1>14. /\ \A r \in hist.acked : hist'.before[r] = hist.before[r]
       /\ \A r \in Slices : \A x \in hist'.before[r] : x \in hist.acked /\ x < r
       /\ hist'.cut = hist.cut
  BY <1>3, <1>4
<1>15. shared'.order >= shared.order /\ shared'.parked <= shared'.order /\ shared'.parked \notin hist.acked
  BY <1>1, <1>6
<1>16. IInv /\ chunk' = chunk
  OBVIOUS
<1> QED BY ONLY <1>7, <1>8, <1>10, <1>11, <1>12, <1>13, <1>14, <1>15, <1>16, CallerStep

\* A write goes through, or waits at the gate.
LEMMA WriteKeeps ==
  ASSUME IInv, Write
  PROVE  IInv'
<1>1. CASE WriteCached
  BY <1>1, Admitted DEF WriteCached
<1>2. CASE WriteNormal /\ shared.flush_waiting = 0
  BY <1>2, Admitted DEF WriteNormal
<1>3. CASE WriteNormal /\ shared.flush_waiting # 0
  BY <1>3, ParkKeeps DEF WriteNormal
<1> QED BY <1>1, <1>2, <1>3 DEF Write

\* A write at the gate that keeps waiting.
LEMMA StillWaiting ==
  ASSUME IInv, NEW w \in {"no", "waiting", "woken"}, shared' = [shared EXCEPT !.woken = w],
         UNCHANGED <<slices, chunk, tasks, flushes, meta, hist>>
  PROVE  IInv'
<1>1. Records /\ shared \in SharedType /\ Naming
  BY DEF IInv, Records
<1>2. /\ shared' \in SharedType /\ shared'.error = shared.error /\ shared'.epoch = shared.epoch
      /\ shared'.flush_waiting = shared.flush_waiting /\ shared'.write_gen = shared.write_gen
      /\ shared'.last_flushed_gen = shared.last_flushed_gen
      /\ shared'.order = shared.order /\ shared'.parked = shared.parked
  BY <1>1 DEF SharedType
<1>3. HistLight /\ SharedLight
  BY <1>2, UnchangedLight DEF SharedLight
<1>4. CallerLight
  BY <1>2 DEF CallerLight
<1>5. Steady
  BY <1>4, CallerSteady
<1>6. EpochBound' /\ GateCounts' /\ (\A c \in FlushCallers : FlushSound(c)') /\ Flushed'
  BY <1>1, <1>3, <1>5, QuietFlush DEF IInv
<1>7. flushes' \in [FlushCallers -> FlushType]
      /\ \A c \in FlushCallers :
            flushes'[c].slices \subseteq hist.acked /\ flushes'[c].known \subseteq hist.acked
  BY <1>1 DEF Records, Naming, Known
<1>8. IInv /\ UNCHANGED <<slices, chunk, tasks, meta, hist>>
  OBVIOUS
<1> QED BY ONLY <1>2, <1>6, <1>7, <1>8, QuietCaller

\* The write at the gate registers for the wake-up.
LEMMA WriteWaitKeeps ==
  ASSUME IInv, WriteWait
  PROVE  IInv'
BY StillWaiting DEF WriteWait

\* The gate is open: the write goes through with the place it had.
LEMMA WriteResumeKeeps ==
  ASSUME IInv, WriteResume
  PROVE  IInv'
<1>1. CASE shared.flush_waiting > 0
  BY <1>1, StillWaiting DEF WriteResume
<1>2. CASE ~ (shared.flush_waiting > 0)
  <2>1. PICK s : s = shared.parked
    OBVIOUS
  <2>2. /\ s # NoSlice /\ Place(s) /\ UNCHANGED <<flushes, meta>>
        /\ shared' = [shared EXCEPT !.parked = NoSlice, !.woken = "no", !.lock = "free",
                                    !.write_gen = @ + 1]
        /\ hist' = [hist EXCEPT !.acked = @ \cup {s}]
    BY <1>2, <2>1 DEF WriteResume
  <2>3. Records /\ shared \in SharedType /\ hist \in HistType /\ Naming
    BY DEF IInv, Records
  <2>4. s \in Slices /\ s \notin hist.acked /\ s <= shared.order
    BY <2>1, <2>2, <2>3 DEF SharedType, Naming
  <2>5. PICK A : A = hist.acked \cup {s}
    OBVIOUS
  <2>6. A \in SUBSET Slices /\ hist' = [hist EXCEPT !.acked = A]
    BY <2>2, <2>3, <2>4, <2>5 DEF HistType
  <2>7. /\ hist' \in HistType /\ hist'.acked = A /\ hist'.flushed = hist.flushed
        /\ hist'.calls = hist.calls /\ hist'.cut = hist.cut /\ hist'.concurrent = hist.concurrent
        /\ hist'.evicted = hist.evicted /\ hist'.late = hist.late /\ hist'.again = hist.again
        /\ hist'.before = hist.before
    BY <2>3, <2>6 DEF HistType
  <2>8. PICK g \in Nat : g = shared.write_gen + 1
    BY <2>3 DEF SharedType
  <2>9. shared' = [shared EXCEPT !.parked = NoSlice, !.woken = "no", !.lock = "free",
                                 !.write_gen = g]
    BY <2>2, <2>3, <2>8
  <2>10. /\ shared' \in SharedType /\ shared'.error = shared.error /\ shared'.epoch = shared.epoch
         /\ shared'.flush_waiting = shared.flush_waiting
         /\ shared'.last_flushed_gen = shared.last_flushed_gen
         /\ shared'.write_gen = g /\ shared'.order = shared.order /\ shared'.parked = NoSlice
    BY <2>3, <2>8, <2>9 DEF SharedType
  <2>11. /\ hist'.acked = hist.acked \cup {s}
         /\ \A r \in hist.acked : hist'.before[r] = hist.before[r]
         /\ \A r \in Slices : \A x \in hist'.before[r] : x \in hist.acked /\ x < r
    BY <2>3, <2>5, <2>7 DEF Naming, Known
  <2>12. shared'.order >= shared.order /\ s <= shared'.order
    <3>1. shared.order \in Int
      BY <2>3, SliceWriterAssumption DEF SharedType
    <3> QED BY <2>4, <2>10, <3>1
  <2>13. shared'.write_gen = shared.write_gen + 1
    BY <2>8, <2>10
  <2>14. IInv /\ Place(s) /\ UNCHANGED <<flushes, meta>>
    BY <2>2
  <2> QED BY ONLY <2>4, <2>7, <2>10, <2>11, <2>12, <2>13, <2>14, PlaceKeeps
<1> QED BY <1>1, <1>2

----------------------------------------------------------------------------
(* The theorems.                                                           *)

\* Nothing written, nobody at work.
LEMMA InitSound == Init => IInv
<1> SUFFICES ASSUME Init PROVE IInv
  OBVIOUS
<1>1. /\ slices = [s \in Slices |-> NewSlice] /\ chunk = Absent
      /\ tasks = [t \in Tasks |-> NoTask] /\ flushes = [c \in FlushCallers |-> NoFlush]
      /\ meta = <<>>
      /\ shared = [order |-> 0, write_gen |-> 0, last_flushed_gen |-> 0, error |-> FALSE,
                   flush_waiting |-> 0, parked |-> NoSlice, woken |-> "no",
                   epoch |-> 0, lock |-> "free", faults |-> 0]
      /\ hist = [acked |-> {}, before |-> [s \in Slices |-> {}], flushed |-> {},
                 calls |-> 0, cut |-> {}, concurrent |-> {}, evicted |-> {},
                 late |-> {}, again |-> {}]
  BY DEF Init
<1>2. 0 \in 0 .. MaxCalls /\ 0 \in 0 .. MaxRetries /\ 0 \in 0 .. MaxWrites
  BY SliceWriterAssumption
<1>3. NewSlice \in SliceType
  BY ONLY <1>2 DEF NewSlice, SliceType, States, Uploads
<1>4. NoTask \in TaskType /\ NoTask.pc = "none"
  BY ONLY <1>2 DEF NoTask, TaskType, TaskPcs
<1>5. NoFlush \in FlushType /\ NoFlush.pc = "none" /\ NoFlush.gen = 0 /\ NoFlush.slices = {}
      /\ NoFlush.known = {}
  BY DEF NoFlush, FlushType, FlushPcs
<1>6. Absent \in ChunkType /\ Absent.deque = <<>> /\ ToSet(Absent.deque) = {}
      /\ ~ Absent.commit_started
  BY AbsentSound
<1>7. shared \in SharedType
  BY ONLY <1>1, <1>2 DEF SharedType
<1>8. hist \in HistType
  BY ONLY <1>1, <1>2 DEF HistType
<1>9. Records
  <2>1. slices \in [Slices -> SliceType] /\ tasks \in [Tasks -> TaskType]
        /\ flushes \in [FlushCallers -> FlushType]
    BY ONLY <1>1, <1>3, <1>4, <1>5
  <2>2. meta \in Seq(Slices)
    BY <1>1
  <2> QED BY <1>1, <1>6, <1>7, <1>8, <2>1, <2>2 DEF Records
<1>10. /\ \A s \in Slices : slices[s] = NewSlice
       /\ \A t \in Tasks : tasks[t].pc = "none"
       /\ \A c \in FlushCallers : flushes[c] = NoFlush
       /\ ToSet(meta) = {} /\ ToSet(chunk.deque) = {}
  BY <1>1, <1>4, <1>6, NoMembers
<1>11. /\ hist.acked = {} /\ \A s \in Slices : hist.before[s] = {}
       /\ hist.flushed = {} /\ hist.cut = {} /\ hist.calls = 0
  BY <1>1
<1>12. /\ shared.order = 0 /\ shared.write_gen = 0 /\ shared.last_flushed_gen = 0
       /\ shared.flush_waiting = 0 /\ shared.parked = NoSlice /\ shared.epoch = 0
  BY <1>1
<1>13. EpochBound /\ GateCounts
  BY <1>5, <1>10, <1>11, <1>12 DEF EpochBound, GateCounts, InGate, FlushCallers
<1>14. Naming
  BY <1>4, <1>5, <1>10, <1>11, <1>12 DEF Naming, Known
<1>15. Sorted /\ PublishedInOrder /\ PublishedOnce /\ TruncatedStaysGone /\ Fronted
  <2>1. Sorted
    BY <1>1, <1>6 DEF Sorted
  <2>2. PublishedInOrder /\ PublishedOnce
    BY <1>1 DEF PublishedInOrder, PublishedOnce
  <2>3. TruncatedStaysGone
    BY <1>11 DEF TruncatedStaysGone
  <2> QED BY <1>10, <2>1, <2>2, <2>3 DEF Fronted
<1>16. ASSUME NEW s \in Slices
       PROVE  SliceShape(s) /\ Claims(s) /\ Ends(s) /\ Held(s) /\ Published(s)
  <2>1. /\ slices[s].state = "none" /\ slices[s].upload = "none"
        /\ ~ slices[s].meta_write_started /\ slices[s].frozen_epoch = 0
    BY <1>10 DEF NewSlice
  <2>2. ~ Writing(s) /\ \A t \in Tasks : ~ Writes(t, s)
    BY <1>10, <2>1 DEF Writing, Writes
  <2>3. SliceShape(s) /\ Claims(s)
    BY <2>1, <2>2 DEF SliceShape, Claims
  <2>4. Ends(s)
    BY <2>1 DEF Ends, Stale
  <2>5. Held(s) /\ Published(s)
    BY <1>10, <1>11, <2>1 DEF Held, Published
  <2> QED BY <2>3, <2>4, <2>5
<1>17. \A c \in FlushCallers : FlushSound(c)
  BY <1>5, <1>10, <1>12 DEF FlushSound
<1>18. Flushed
  BY <1>11, <1>12 DEF Flushed
<1>19. Tended
  BY <1>1, <1>6 DEF Tended
<1> QED BY <1>9, <1>13, <1>14, <1>15, <1>16, <1>17, <1>18, <1>19 DEF IInv

\* A stuttering step.
LEMMA NothingMoves ==
  ASSUME IInv, UNCHANGED vars
  PROVE  IInv'
<1>1. UNCHANGED <<slices, chunk, tasks, flushes, shared, meta, hist>>
  BY DEF vars
<1>2. PICK w \in {"no", "waiting", "woken"} : w = shared.woken
  BY DEF IInv, Records, SharedType
<1>3. shared' = [shared EXCEPT !.woken = w]
  BY <1>1, <1>2 DEF IInv, Records, SharedType
<1>4. IInv /\ UNCHANGED <<slices, chunk, tasks, flushes, meta, hist>>
  BY <1>1
<1> QED BY ONLY <1>2, <1>3, <1>4, StillWaiting

\* Every step keeps the invariant.
LEMMA NextKeeps == IInv /\ [Next]_vars => IInv'
<1> SUFFICES ASSUME IInv, [Next]_vars PROVE IInv'
  OBVIOUS
<1>1. CASE Write \/ WriteWait \/ WriteResume
  BY <1>1, WriteKeeps, WriteWaitKeeps, WriteResumeKeeps
<1>2. CASE \E s \in Slices : Freeze(s) \/ UploadStep(s)
  BY <1>2, FreezeKeeps, UploadStepKeeps
<1>3. CASE \E t \in Tasks : Commit(t)
  BY <1>3, CommitKeeps
<1>4. CASE Drain
  BY <1>4, DrainKeeps
<1>5. CASE Fsync \/ FsyncReturn \/ Truncate \/ TruncateStep
  BY <1>5, FsyncKeeps, FsyncReturnKeeps, TruncateKeeps, TruncateStepKeeps
<1>6. CASE \E c \in FlushCallers : Flush(c)
  BY <1>6, FlushKeeps
<1>7. CASE UNCHANGED vars
  BY <1>7, NothingMoves
<1> QED BY <1>1, <1>2, <1>3, <1>4, <1>5, <1>6, <1>7 DEF Next

\* So it holds throughout.
LEMMA Inductive == Spec => []IInv
BY InitSound, NextKeeps, PTL DEF Spec

\* The metadata list has every slice once, in the order its callers saw, and
\* nothing a truncation has cut, whichever of the upload task's try_commit and
\* the chunk's commit_chunk appends and whatever is cleared, given up or found
\* stale meanwhile: for any number of writes, flushes, truncations and tasks.
THEOREM ListsSound == Spec => []ListSound
<1>1. IInv => ListSound
  BY DEF IInv, ListSound
<1> QED BY <1>1, Inductive, PTL

\* A chunk with slices in its deque always has a commit_chunk task, so flush
\* never has to start one.
THEOREM AlwaysTended == Spec => []ChunkTended
<1>1. IInv => ChunkTended
  <2> SUFFICES ASSUME IInv PROVE ChunkTended
    OBVIOUS
  <2>1. Records /\ Tended /\ Naming /\ hist.acked \subseteq Slices
    BY DEF IInv, Records, HistType
  <2>2. \A s \in Slices :
          /\ slices[s].state \in {"none", "Writable", "Readonly", "Uploaded", "Failed", "Committed"}
          /\ slices[s].frozen_epoch \in 0 .. MaxCalls
          /\ slices[s].meta_write_started \in BOOLEAN
          /\ slices[s].upload \in {"none", "id", "put", "try", "front", "write"}
          /\ slices[s].attempts \in 0 .. MaxRetries
    BY <2>1 DEF Records, SliceType, States, Uploads
  <2>3. \A t \in Tasks :
          /\ tasks[t].pc \in {"none", "top", "empty", "look", "stalled", "write", "move", "pop"}
          /\ tasks[t].slice \in Slices \cup {NoSlice}
          /\ tasks[t].failures \in 0 .. MaxRetries
    BY <2>1 DEF Records, TaskType, TaskPcs
  <2>4. \A c \in FlushCallers :
          /\ flushes[c].pc \in {"none", "begin", "freeze", "wait", "release", "done", "clear", "bump"}
          /\ flushes[c].slices \cup flushes[c].known \subseteq Slices
    BY <2>1 DEF Records, FlushType, FlushPcs
  <2>5. /\ chunk.present \in BOOLEAN /\ chunk.commit_started \in BOOLEAN /\ chunk.recent \subseteq Slices
        /\ shared.flush_waiting \in 0 .. 2
    BY <2>1 DEF Records, ChunkType, SharedType
  <2>6. ToSet(chunk.deque) \subseteq Slices /\ ToSet(meta) \subseteq Slices
    BY <2>1 DEF Naming, Known
  <2>7. TypeOK
    BY <2>2, <2>3, <2>4, <2>5, <2>6 DEF TypeOK
  <2>8. SomeoneCommits
    BY <2>1 DEF Tended, SomeoneCommits
  <2> QED BY <2>7, <2>8 DEF ChunkTended
<1> QED BY <1>1, Inductive, PTL

\* When fsync has reported success, every write acknowledged before the call is
\* in the metadata list, unless a truncation was under way or the slice was
\* evicted: flush_with_deadline_inner's shortcuts (nothing in the writer, the
\* generation flushed last) never skip a slice that is still on its way.
THEOREM FlushesAccount == Spec => []FlushAccountsForAll
<1>1. IInv => FlushAccountsForAll
  BY DEF IInv, Flushed, Done, FlushAccountsForAll
<1> QED BY <1>1, Inductive, PTL
=============================================================================
