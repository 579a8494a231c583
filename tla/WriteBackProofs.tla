--------------------------- MODULE WriteBackProofs ---------------------------
(* Proofs about WriteBack for any number of writes and of crashes,           *)
(* truncations, failures and metadata errors.                                *)
EXTENDS WriteBack, Integers, TLAPS

-----------------------------------------------------------------------------
(* The inductive invariant.                                                  *)

States == {"none", "Readonly", "Uploaded", "Committed", "Failed"}
Seals == {"no", "sealing", "sealed"}
Records == {"none", "staged", "sealed"}
Uploads == {"none", "after", "put", "join", "remove", "try", "write", "clean"}
StagePcs == {"none", "persist", "seal", "sealing", "reseal", "resealing",
             "front", "enter", "claim", "write", "done", "failed"}
CommitPcs == {"none", "top", "enter", "reseal", "resealing", "claim", "write", "late", "clean", "move"}
SliceRec == [state : States, staged : BOOLEAN, seal : Seals, claimed : BOOLEAN, landed : BOOLEAN]
Mounts == [order : 0 .. MaxWrites, nextid : Nat \ 0 .. MaxWrites, events : Nat, error : BOOLEAN]
ProcRec == [pc : StagePcs \cup CommitPcs, slice : Slices \cup {NoSlice}]

Types ==
    /\ slices \in [Slices -> SliceRec]
    /\ queue \in Seq(Slices)
    /\ procs \in [Procs -> ProcRec]
    /\ upload \in [Slices -> Uploads]
    /\ disk \in [Slices -> Records]
    /\ meta \in Seq([write : Slices, id : Nat])
    /\ recovery \in [pc : {"idle", "scan", "next", "write", "remove"}, todo : SUBSET Slices,
                     slice : Slices \cup {NoSlice}, id : Nat]
    /\ mount \in Mounts
    /\ hist \in [flushed : SUBSET Slices, cut : SUBSET Slices]

\* Where the commit task is with slice s.
Com(s) == IF procs[Committer].slice = s THEN procs[Committer].pc ELSE "none"
Queued(s) == \E i \in DOMAIN queue : queue[i] = s

\* Some task is between claiming the publication of s and its end; s was
\* published and nobody will publish it again.
Publishing(s) == procs[s].pc = "write" \/ upload[s] = "write" \/ Com(s) \in {"write", "late", "clean"}
Settled(s) == slices[s].claimed /\ ~Publishing(s)

\* An entry of recovery's shows the slice.
Replayed(s) == \E i \in DOMAIN meta : meta[i].write = s /\ ~Own(i)
Shown(s) == \E i \in DOMAIN meta : meta[i].write = s /\ Own(i)
Recovering(s) == s \in recovery.todo \/ (recovery.pc \in {"write", "remove"} /\ recovery.slice = s)

\* The tasks of a slice.
Shape(s) ==
    /\ procs[s].pc \in StagePcs
    /\ procs[s].pc # "none" => procs[s].slice = s
    /\ slices[s].state = "none" =>
          /\ slices[s] = NewSlice /\ procs[s].pc = "none" /\ upload[s] = "none"
          /\ Com(s) \in {"none", "top"} /\ ~Queued(s)
    /\ s > mount.order => slices[s].state = "none" /\ disk[s] = "none" /\ ~Recovering(s) /\ ~Shown(s)
    /\ procs[s].pc = "persist" => disk[s] = "none"
    /\ upload[s] \in {"remove", "try", "write", "clean"} => procs[s].pc = "done"

\* One task publishes a slice, and only from the front of the queue.
Claimed(s) ==
    /\ Publishing(s) => slices[s].claimed /\ IsFront(s) /\ slices[s].state # "Committed"
    /\ ~(procs[s].pc = "write" /\ upload[s] = "write")
    /\ Com(s) \in {"write", "late", "clean"} => procs[s].pc # "write" /\ upload[s] # "write"
    /\ slices[s].state = "Committed" => Settled(s)
    /\ slices[s].state = "Failed" =>
          /\ procs[s].pc \in {"done", "failed"} \/ Settled(s)
          /\ upload[s] # "write" /\ mount.error
    /\ procs[s].pc \in {"enter", "reseal", "resealing", "claim"} => IsFront(s) \/ Settled(s)
    /\ Com(s) \in {"enter", "reseal", "resealing", "claim"} => IsFront(s) \/ Settled(s)
    /\ Com(s) = "move" \/ upload[s] = "clean" => Settled(s)
    /\ slices[s].state # "none" => Queued(s) \/ slices[s].claimed \/ mount.error

\* One task seals a record, and finds it unless the slice is settled.
Sealed(s) ==
    /\ procs[s].pc \in {"sealing", "resealing"} \/ Com(s) = "resealing" =>
          slices[s].seal = "sealing" /\ slices[s].staged
    /\ ~(procs[s].pc \in {"sealing", "resealing"} /\ Com(s) = "resealing")
    /\ slices[s].staged /\ slices[s].seal # "sealed" => disk[s] = "staged" \/ Settled(s)
    /\ disk[s] = "sealed" \/ Recovering(s) => slices[s].seal = "sealed" \/ slices[s].state = "none"

\* What is published has its blocks, its record or a replay.
Backed(s) ==
    /\ upload[s] \in {"join", "remove", "try", "write", "clean"} => s \in objects
    /\ slices[s].state = "Uploaded" \/ Com(s) \in {"late", "clean"} => s \in objects
    /\ slices[s].seal = "sealed" /\ ~Settled(s) => s \in objects \/ disk[s] = "sealed" \/ Replayed(s)
    /\ RequireStage /\ (procs[s].pc = "write" \/ Com(s) = "write") => slices[s].seal = "sealed"
    /\ RequireStage /\ Shown(s) => s \in objects \/ disk[s] = "sealed" \/ Replayed(s)
    /\ recovery.pc = "remove" /\ recovery.slice = s =>
          Replayed(s) \/ (~Shown(s) /\ (slices[s].state = "none" \/ Settled(s)))

Sound(s) == Shape(s) /\ Claimed(s) /\ Sealed(s) /\ Backed(s)

\* The queue and the list are in the order of the writes, apart from replays,
\* and hold nothing that was cut.
Ordered ==
    /\ \A i, j \in DOMAIN queue : i < j => queue[i] < queue[j]
    /\ \A i \in DOMAIN queue : queue[i] <= mount.order /\ queue[i] \notin hist.cut
    /\ \A i \in DOMAIN meta : Own(i) => meta[i].id = meta[i].write
    /\ \A i \in DOMAIN meta : Own(i) => \A k \in DOMAIN queue : meta[i].write <= queue[k]
    /\ \A s \in hist.cut : s <= mount.order
    /\ NewestWins
    /\ TruncatedStaysGone

Global ==
    /\ procs[Committer].pc \in CommitPcs
    /\ procs[Committer].pc \notin {"none", "top"} => procs[Committer].slice \in Slices
    /\ recovery.pc \in {"write", "remove"} => recovery.slice \in Slices
    /\ recovery.pc \in {"write"} => recovery.id \in objects /\ recovery.id \notin Slices
    /\ \A i \in DOMAIN meta : ~Own(i) => meta[i].id \in objects

IInv == Types /\ Ordered /\ Global /\ \A s \in Slices : Sound(s)

-----------------------------------------------------------------------------
(* What a step leaves alone.                                                 *)

\* A step that is not about slice t.
Aside(t) ==
    /\ slices'[t] = slices[t] /\ procs'[t] = procs[t] /\ upload'[t] = upload[t] /\ disk'[t] = disk[t]
    /\ Com(t)' = Com(t) \/ {Com(t), Com(t)'} \subseteq {"none", "top"}
    /\ IsFront(t) => IsFront(t)'
    /\ Queued(t)' <=> Queued(t)
    /\ Shown(t)' => Shown(t)
    /\ Replayed(t) => Replayed(t)'
    /\ Recovering(t)' => Recovering(t)
    /\ recovery'.pc = "remove" /\ recovery'.slice = t => recovery.pc = "remove" /\ recovery.slice = t
    /\ objects \subseteq objects'
    /\ mount.order <= mount'.order
    /\ mount.error => mount'.error

\* A step of one of the tasks of slice s.
Touches(s) ==
    /\ \A t \in Slices \ {s} :
          slices'[t] = slices[t] /\ procs'[t] = procs[t] /\ upload'[t] = upload[t] /\ disk'[t] = disk[t]
    /\ \/ procs'[Committer] = procs[Committer]
       \/ /\ procs[Committer].slice = s \/ procs[Committer].pc = "top"
          /\ procs'[Committer].slice = s
          /\ procs'[Committer].pc \in CommitPcs
    /\ queue' = queue \/ (IsFront(s) /\ queue' = Tail(queue))
    /\ meta' = meta \/ (IsFront(s) /\ meta' = Append(meta, Entry(s, s)))
    /\ objects \subseteq objects'
    /\ recovery' = recovery /\ hist' = hist
    /\ mount'.order = mount.order
    /\ mount.error => mount'.error

\* What Append does to the list.
LEMMA Appended ==
    ASSUME Types, NEW e \in [write : Slices, id : Nat], meta' = Append(meta, e)
    PROVE  /\ \A i \in DOMAIN meta : i \in DOMAIN meta' /\ meta'[i] = meta[i]
           /\ Len(meta) + 1 \in DOMAIN meta' /\ meta'[Len(meta) + 1] = e
           /\ \A i \in DOMAIN meta' : i \in DOMAIN meta \/ i = Len(meta) + 1
           /\ DOMAIN meta = 1 .. Len(meta) /\ Len(meta) \in Nat
BY DEF Types

\* What Tail does to the queue.
LEMMA Shifted ==
    ASSUME Types, queue # <<>>, queue' = Tail(queue)
    PROVE  /\ \A i \in DOMAIN queue' : i + 1 \in DOMAIN queue /\ queue'[i] = queue[i + 1] /\ i + 1 > 1 /\ i \in Nat
           /\ \A i \in DOMAIN queue : i = 1 \/ (i - 1 \in DOMAIN queue' /\ queue'[i - 1] = queue[i])
           /\ 1 \in DOMAIN queue /\ queue[1] = Head(queue) /\ DOMAIN queue = 1 .. Len(queue) /\ Len(queue) \in Nat
BY DEF Types

\* The front is the smallest of the queue.
LEMMA FrontLeast ==
    ASSUME Types, Ordered, NEW s \in Slices, IsFront(s)
    PROVE  /\ 1 \in DOMAIN queue /\ queue[1] = s
           /\ \A k \in DOMAIN queue : k \in Nat /\ (k = 1 \/ s < queue[k])
           /\ Queued(s)
BY DEF Types, Ordered, IsFront, Queued, Slices

\* A step that is not about a slice keeps what is known of it.
LEMMA Elsewhere ==
    ASSUME Types, Types', NEW t \in Slices, Sound(t), Aside(t)
    PROVE  Sound(t)'
<1>. slices'[t] = slices[t] /\ procs'[t] = procs[t] /\ upload'[t] = upload[t] /\ disk'[t] = disk[t]
  BY DEF Aside
<1>0. mount.order \in Int /\ mount'.order \in Int /\ mount.order <= mount'.order /\ t \in Int
  BY DEF Types, Mounts, Aside, Slices
<1>1. Publishing(t)' <=> Publishing(t)
  BY DEF Publishing, Aside
<1>2. Settled(t)' <=> Settled(t)
  BY <1>1 DEF Settled
<1>3. Shape(t)'
  BY <1>0 DEF Sound, Shape, Aside, NewSlice
<1>4. Claimed(t)'
  BY <1>1, <1>2 DEF Sound, Claimed, Aside
<1>5. Sealed(t)'
  BY <1>2 DEF Sound, Sealed, Aside
<1>6. Backed(t)'
  BY <1>2 DEF Sound, Backed, Aside
<1>. QED  BY <1>3, <1>4, <1>5, <1>6 DEF Sound

\* For the other slices a task of s does nothing.
LEMMA OthersAside ==
    ASSUME Types, Types', NEW s \in Slices, NEW t \in Slices \ {s}, Touches(s)
    PROVE  Aside(t)
<1>1. slices'[t] = slices[t] /\ procs'[t] = procs[t] /\ upload'[t] = upload[t] /\ disk'[t] = disk[t]
  BY DEF Touches
<1>2. Com(t)' = Com(t) \/ {Com(t), Com(t)'} \subseteq {"none", "top"}
  BY DEF Touches, Com
<1>3. (IsFront(t) => IsFront(t)') /\ (Queued(t)' <=> Queued(t))
  <2>1. CASE queue' = queue
    BY <2>1 DEF IsFront, Queued
  <2>2. CASE IsFront(s) /\ queue' = Tail(queue)
    <3>1. queue # <<>> /\ Head(queue) = s
      BY <2>2 DEF IsFront
    <3>2. ~IsFront(t)
      BY <3>1 DEF IsFront
    <3>3. Queued(t)' => Queued(t)
      BY <2>2, <3>1, Shifted DEF Queued
    <3>4. Queued(t) => Queued(t)'
      <4>1. SUFFICES ASSUME NEW i \in DOMAIN queue, queue[i] = t
                     PROVE  \E k \in DOMAIN queue' : queue'[k] = t
        BY DEF Queued
      <4>2. i # 1
        BY <3>1, <4>1, <2>2, Shifted
      <4>3. i - 1 \in DOMAIN queue' /\ queue'[i - 1] = t
        BY <3>1, <4>1, <4>2, <2>2, Shifted
      <4>. QED  BY <4>3
    <3>. QED  BY <3>2, <3>3, <3>4
  <2>. QED  BY <2>1, <2>2 DEF Touches
<1>4. (Shown(t)' => Shown(t)) /\ (Replayed(t) => Replayed(t)')
  <2>1. CASE meta' = meta
    BY <2>1 DEF Shown, Replayed, Own
  <2>2. CASE meta' = Append(meta, Entry(s, s))
    <3>1. Entry(s, s) \in [write : Slices, id : Nat] /\ Entry(s, s).write = s
      BY DEF Entry, Slices
    <3>. QED  BY <3>1, <2>2, Appended DEF Shown, Replayed, Own
  <2>. QED  BY <2>1, <2>2 DEF Touches
<1>5. /\ Recovering(t)' => Recovering(t)
      /\ recovery'.pc = "remove" /\ recovery'.slice = t => recovery.pc = "remove" /\ recovery.slice = t
      /\ objects \subseteq objects'
      /\ mount.order <= mount'.order
      /\ mount.error => mount'.error
  BY DEF Touches, Recovering, Types, Mounts
<1>. QED  BY <1>1, <1>2, <1>3, <1>4, <1>5 DEF Aside

\* The order of the queue and of the list.
LEMMA TouchOrdered ==
    ASSUME Types, Types', Ordered, NEW s \in Slices, Touches(s)
    PROVE  Ordered'
<1>0. hist' = hist /\ mount'.order = mount.order /\ \A i \in DOMAIN queue : queue[i] \in Slices
  BY DEF Touches, Types
<1>1. /\ \A i, j \in DOMAIN queue' : i < j => queue'[i] < queue'[j]
      /\ \A i \in DOMAIN queue' : \E k \in DOMAIN queue : queue'[i] = queue[k]
  <2>1. CASE queue' = queue
    BY <2>1 DEF Ordered
  <2>2. CASE IsFront(s) /\ queue' = Tail(queue)
    <3>1. queue # <<>>
      BY <2>2 DEF IsFront
    <3>. QED  BY <2>2, <3>1, Shifted DEF Ordered
  <2>. QED  BY <2>1, <2>2 DEF Touches
<1>2. \A i \in DOMAIN queue' : queue'[i] <= mount'.order /\ queue'[i] \notin hist'.cut
  BY <1>0, <1>1 DEF Ordered
<1>3. \A c \in hist'.cut : c <= mount'.order
  BY <1>0 DEF Ordered
<1>4. CASE meta' = meta
  <2>1. \A i \in DOMAIN meta' : Own(i)' => \A k \in DOMAIN queue' : meta'[i].write <= queue'[k]
    BY <1>4, <1>1 DEF Ordered, Own
  <2>. QED  BY <1>0, <1>1, <1>2, <1>3, <1>4, <2>1 DEF Ordered, NewestWins, TruncatedStaysGone, Own
<1>5. CASE IsFront(s) /\ meta' = Append(meta, Entry(s, s))
  <2>1. Entry(s, s) \in [write : Slices, id : Nat] /\ Entry(s, s).write = s /\ Entry(s, s).id = s /\ s \in Int
    BY DEF Entry, Slices
  <2>2. /\ \A i \in DOMAIN meta : i \in DOMAIN meta' /\ meta'[i] = meta[i]
        /\ meta'[Len(meta) + 1] = Entry(s, s)
        /\ \A i \in DOMAIN meta' : i \in DOMAIN meta \/ i = Len(meta) + 1
        /\ DOMAIN meta = 1 .. Len(meta) /\ Len(meta) \in Nat
    BY <2>1, <1>5, Appended
  <2>3. 1 \in DOMAIN queue /\ queue[1] = s /\ \A k \in DOMAIN queue : s <= queue[k]
    BY <1>0, <1>5, <2>1, FrontLeast DEF Slices
  <2>4. \A i \in DOMAIN meta : Own(i) => meta[i].write <= s
    BY <2>3 DEF Ordered
  <2>5. s \notin hist.cut
    BY <2>3 DEF Ordered
  <2>6. \A i \in DOMAIN meta' : Own(i)' => meta'[i].id = meta'[i].write
    BY <2>1, <2>2 DEF Ordered, Own
  <2>7. \A i \in DOMAIN meta' : Own(i)' => \A k \in DOMAIN queue' : meta'[i].write <= queue'[k]
    BY <2>1, <2>2, <2>3, <1>1 DEF Ordered, Own
  <2>8. NewestWins'
    <3>1. SUFFICES ASSUME NEW i \in DOMAIN meta', NEW j \in DOMAIN meta', i < j, Own(i)', Own(j)'
                   PROVE  meta'[i].write <= meta'[j].write
      BY DEF NewestWins
    <3>2. i \in DOMAIN meta
      BY <3>1, <2>2
    <3>3. CASE j \in DOMAIN meta
      BY <3>1, <3>2, <3>3, <2>2 DEF Ordered, NewestWins, Own
    <3>4. CASE j = Len(meta) + 1
      <4>1. Own(i) /\ meta'[i] = meta[i]
        BY <3>1, <3>2, <2>2 DEF Own
      <4>. QED  BY <4>1, <3>2, <3>4, <2>1, <2>2, <2>4
    <3>. QED  BY <3>3, <3>4, <2>2
  <2>9. TruncatedStaysGone'
    BY <1>0, <2>1, <2>2, <2>5 DEF Ordered, TruncatedStaysGone, Own
  <2>. QED  BY <1>1, <1>2, <1>3, <2>6, <2>7, <2>8, <2>9 DEF Ordered
<1>. QED  BY <1>4, <1>5 DEF Touches

\* The commit task, recovery and its entries.
LEMMA TouchGlobal ==
    ASSUME Types, Types', Global, NEW s \in Slices, Touches(s)
    PROVE  Global'
<1>1. procs'[Committer].pc \in CommitPcs
  BY DEF Touches, Global
<1>2. procs'[Committer].pc \notin {"none", "top"} => procs'[Committer].slice \in Slices
  BY DEF Touches, Global
<1>3. /\ recovery'.pc \in {"write", "remove"} => recovery'.slice \in Slices
      /\ recovery'.pc \in {"write"} => recovery'.id \in objects' /\ recovery'.id \notin Slices
  BY DEF Touches, Global
<1>4. \A i \in DOMAIN meta' : ~Own(i)' => meta'[i].id \in objects'
  <2>1. CASE meta' = meta
    BY <2>1 DEF Global, Own, Touches
  <2>2. CASE meta' = Append(meta, Entry(s, s))
    <3>1. Entry(s, s) \in [write : Slices, id : Nat] /\ Entry(s, s).id = s
      BY DEF Entry, Slices
    <3>. QED  BY <3>1, <2>2, Appended DEF Global, Own, Touches
  <2>. QED  BY <2>1, <2>2 DEF Touches
<1>. QED  BY <1>1, <1>2, <1>3, <1>4 DEF Global

\* So a step of a task of s has to be looked at for s alone.
LEMMA TouchKeeps ==
    ASSUME IInv, Types', NEW s \in Slices, Touches(s), Sound(s)'
    PROVE  IInv'
<1>1. \A t \in Slices \ {s} : Sound(t)'
  BY OthersAside, Elsewhere DEF IInv
<1>2. Ordered' /\ Global'
  BY TouchOrdered, TouchGlobal DEF IInv
<1>. QED  BY <1>1, <1>2 DEF IInv

-----------------------------------------------------------------------------
(* Updates of one field.                                                     *)

\* The record of a slice with one field changed.
LEMMA SliceField ==
    ASSUME NEW x \in SliceRec, NEW v \in States, NEW q \in Seals, NEW b \in BOOLEAN
    PROVE  /\ [x EXCEPT !.state = v] \in SliceRec
           /\ [x EXCEPT !.state = v].state = v /\ [x EXCEPT !.state = v].staged = x.staged
           /\ [x EXCEPT !.state = v].seal = x.seal /\ [x EXCEPT !.state = v].claimed = x.claimed
           /\ [x EXCEPT !.seal = q] \in SliceRec
           /\ [x EXCEPT !.seal = q].state = x.state /\ [x EXCEPT !.seal = q].staged = x.staged
           /\ [x EXCEPT !.seal = q].seal = q /\ [x EXCEPT !.seal = q].claimed = x.claimed
           /\ [x EXCEPT !.claimed = b] \in SliceRec
           /\ [x EXCEPT !.claimed = b].state = x.state /\ [x EXCEPT !.claimed = b].staged = x.staged
           /\ [x EXCEPT !.claimed = b].seal = x.seal /\ [x EXCEPT !.claimed = b].claimed = b
           /\ [x EXCEPT !.staged = b] \in SliceRec
           /\ [x EXCEPT !.staged = b].state = x.state /\ [x EXCEPT !.staged = b].staged = b
           /\ [x EXCEPT !.staged = b].seal = x.seal /\ [x EXCEPT !.staged = b].claimed = x.claimed
BY DEF SliceRec

\* The slices with the state of one changed.
LEMMA StateSet ==
    ASSUME Types, NEW s \in Slices, NEW v \in States, slices' = [slices EXCEPT ![s].state = v]
    PROVE  /\ slices' \in [Slices -> SliceRec]
           /\ \A t \in Slices \ {s} : slices'[t] = slices[t]
           /\ slices'[s].state = v /\ slices'[s].staged = slices[s].staged
           /\ slices'[s].seal = slices[s].seal /\ slices'[s].claimed = slices[s].claimed
<1>1. slices \in [Slices -> SliceRec] /\ slices[s] \in SliceRec
  BY DEF Types
<1>2. slices' = [slices EXCEPT ![s] = [slices[s] EXCEPT !.state = v]]
  BY <1>1
<1>. DEFINE r == [slices[s] EXCEPT !.state = v]
<1>3. r \in SliceRec
  BY <1>1, SliceField DEF Seals
<1>4. r.state = v /\ r.staged = slices[s].staged /\ r.seal = slices[s].seal /\ r.claimed = slices[s].claimed
  BY <1>1, SliceField DEF Seals
<1>. HIDE DEF r
<1>5. slices' = [slices EXCEPT ![s] = r]
  BY <1>2 DEF r
<1>. QED  BY <1>1, <1>3, <1>4, <1>5

\* The same for the seal, the claim and the staging.
LEMMA SealSet ==
    ASSUME Types, NEW s \in Slices, NEW v \in Seals, slices' = [slices EXCEPT ![s].seal = v]
    PROVE  /\ slices' \in [Slices -> SliceRec]
           /\ \A t \in Slices \ {s} : slices'[t] = slices[t]
           /\ slices'[s].state = slices[s].state /\ slices'[s].staged = slices[s].staged
           /\ slices'[s].seal = v /\ slices'[s].claimed = slices[s].claimed
<1>1. slices \in [Slices -> SliceRec] /\ slices[s] \in SliceRec
  BY DEF Types
<1>2. slices' = [slices EXCEPT ![s] = [slices[s] EXCEPT !.seal = v]]
  BY <1>1
<1>. DEFINE r == [slices[s] EXCEPT !.seal = v]
<1>3. r \in SliceRec
  BY <1>1, SliceField DEF States
<1>4. r.state = slices[s].state /\ r.staged = slices[s].staged /\ r.seal = v /\ r.claimed = slices[s].claimed
  BY <1>1, SliceField DEF States
<1>. HIDE DEF r
<1>5. slices' = [slices EXCEPT ![s] = r]
  BY <1>2 DEF r
<1>. QED  BY <1>1, <1>3, <1>4, <1>5

LEMMA ClaimSet ==
    ASSUME Types, NEW s \in Slices, NEW v \in BOOLEAN, slices' = [slices EXCEPT ![s].claimed = v]
    PROVE  /\ slices' \in [Slices -> SliceRec]
           /\ \A t \in Slices \ {s} : slices'[t] = slices[t]
           /\ slices'[s].state = slices[s].state /\ slices'[s].staged = slices[s].staged
           /\ slices'[s].seal = slices[s].seal /\ slices'[s].claimed = v
<1>1. slices \in [Slices -> SliceRec] /\ slices[s] \in SliceRec
  BY DEF Types
<1>2. slices' = [slices EXCEPT ![s] = [slices[s] EXCEPT !.claimed = v]]
  BY <1>1
<1>. DEFINE r == [slices[s] EXCEPT !.claimed = v]
<1>3. r \in SliceRec
  BY <1>1, SliceField DEF States, Seals
<1>4. r.state = slices[s].state /\ r.staged = slices[s].staged /\ r.seal = slices[s].seal /\ r.claimed = v
  BY <1>1, SliceField DEF States, Seals
<1>. HIDE DEF r
<1>5. slices' = [slices EXCEPT ![s] = r]
  BY <1>2 DEF r
<1>. QED  BY <1>1, <1>3, <1>4, <1>5

LEMMA StagedSet ==
    ASSUME Types, NEW s \in Slices, slices' = [slices EXCEPT ![s].staged = TRUE]
    PROVE  /\ slices' \in [Slices -> SliceRec]
           /\ \A t \in Slices \ {s} : slices'[t] = slices[t]
           /\ slices'[s].state = slices[s].state /\ slices'[s].staged = TRUE
           /\ slices'[s].seal = slices[s].seal /\ slices'[s].claimed = slices[s].claimed
<1>1. slices \in [Slices -> SliceRec] /\ slices[s] \in SliceRec
  BY DEF Types
<1>2. slices' = [slices EXCEPT ![s] = [slices[s] EXCEPT !.staged = TRUE]]
  BY <1>1
<1>. DEFINE r == [slices[s] EXCEPT !.staged = TRUE]
<1>3. r \in SliceRec
  BY <1>1, SliceField DEF States, Seals
<1>4. r.state = slices[s].state /\ r.staged = TRUE /\ r.seal = slices[s].seal /\ r.claimed = slices[s].claimed
  BY <1>1, SliceField DEF States, Seals
<1>. HIDE DEF r
<1>5. slices' = [slices EXCEPT ![s] = r]
  BY <1>2 DEF r
<1>. QED  BY <1>1, <1>3, <1>4, <1>5

\* The mount's record with the error set or cleared, and with one more event.
LEMMA MountField ==
    ASSUME NEW m \in Mounts, NEW b \in BOOLEAN
    PROVE  /\ [m EXCEPT !.error = b] \in Mounts
           /\ [m EXCEPT !.error = b].order = m.order /\ [m EXCEPT !.error = b].nextid = m.nextid
           /\ [m EXCEPT !.error = b].error = b
           /\ [m EXCEPT !.events = @ + 1] \in Mounts
           /\ [m EXCEPT !.events = @ + 1].order = m.order /\ [m EXCEPT !.events = @ + 1].nextid = m.nextid
           /\ [m EXCEPT !.events = @ + 1].error = m.error
<1>. DEFINE n == Nat \ 0 .. MaxWrites
            r == 0 .. MaxWrites
            R == [order : r, nextid : n, events : Nat, error : BOOLEAN]
            x == [m EXCEPT !.error = b]
            y == [m EXCEPT !.events = @ + 1]
<1>1. m \in R /\ Mounts = R
  BY DEF Mounts
<1>. HIDE DEF n, r
<1>2. x = [order |-> m.order, nextid |-> m.nextid, events |-> m.events, error |-> b]
  BY <1>1
<1>3. y = [order |-> m.order, nextid |-> m.nextid, events |-> m.events + 1, error |-> m.error]
  BY <1>1
<1>4. x \in R /\ x.order = m.order /\ x.nextid = m.nextid /\ x.error = b
  BY <1>1, <1>2
<1>5. y \in R /\ y.order = m.order /\ y.nextid = m.nextid /\ y.error = m.error
  BY <1>1, <1>3
<1>. QED  BY <1>1, <1>4, <1>5

\* What the actions do with it.
LEMMA MountSet ==
    ASSUME Types
    PROVE  /\ {WithError, Counted, [Counted EXCEPT !.error = TRUE], [Counted EXCEPT !.error = FALSE]} \subseteq Mounts
           /\ WithError.order = mount.order /\ WithError.error = TRUE
           /\ Counted.order = mount.order /\ Counted.error = mount.error
           /\ [Counted EXCEPT !.error = TRUE].order = mount.order /\ [Counted EXCEPT !.error = TRUE].error = TRUE
           /\ [Counted EXCEPT !.error = FALSE].order = mount.order /\ [Counted EXCEPT !.error = FALSE].error = FALSE
<1>1. mount \in Mounts
  BY DEF Types
<1>2. WithError \in Mounts /\ WithError.order = mount.order /\ WithError.error = TRUE
  BY <1>1, MountField DEF WithError
<1>3. Counted \in Mounts /\ Counted.order = mount.order /\ Counted.error = mount.error
  BY <1>1, MountField DEF Counted
<1>4. /\ [Counted EXCEPT !.error = TRUE] \in Mounts
      /\ [Counted EXCEPT !.error = TRUE].order = Counted.order
      /\ [Counted EXCEPT !.error = TRUE].error = TRUE
  BY <1>3, MountField
<1>5. /\ [Counted EXCEPT !.error = FALSE] \in Mounts
      /\ [Counted EXCEPT !.error = FALSE].order = Counted.order
      /\ [Counted EXCEPT !.error = FALSE].error = FALSE
  BY <1>3, MountField
<1>. QED  BY <1>2, <1>3, <1>4, <1>5

\* The program counter of one task.
LEMMA GotoSet ==
    ASSUME Types, NEW p \in Procs, NEW v \in StagePcs \cup CommitPcs, procs' = [procs EXCEPT ![p].pc = v]
    PROVE  /\ procs' \in [Procs -> ProcRec]
           /\ \A o \in Procs \ {p} : procs'[o] = procs[o]
           /\ procs'[p].pc = v /\ procs'[p].slice = procs[p].slice
<1>1. procs \in [Procs -> ProcRec] /\ procs[p] \in ProcRec
  BY DEF Types
<1>2. procs' = [procs EXCEPT ![p] = [procs[p] EXCEPT !.pc = v]]
  BY <1>1
<1>3. /\ [procs[p] EXCEPT !.pc = v] \in ProcRec
      /\ [procs[p] EXCEPT !.pc = v].pc = v /\ [procs[p] EXCEPT !.pc = v].slice = procs[p].slice
  BY <1>1 DEF ProcRec
<1>. QED  BY <1>1, <1>2, <1>3

-----------------------------------------------------------------------------
(* The upload task.                                                          *)

\* What the state shows of a slice, when the step touches none of it.
LEMMA SameLook ==
    ASSUME NEW s \in Slices
    PROVE  /\ queue' = queue => (Queued(s)' <=> Queued(s)) /\ (IsFront(s)' <=> IsFront(s))
           /\ meta' = meta => (Shown(s)' <=> Shown(s)) /\ (Replayed(s)' <=> Replayed(s))
           /\ recovery' = recovery => (Recovering(s)' <=> Recovering(s))
           /\ procs'[Committer] = procs[Committer] => Com(s)' = Com(s)
BY DEF Queued, IsFront, Shown, Replayed, Own, Recovering, Com

LEMMA UploadPutKeeps ==
    ASSUME IInv, NEW s \in Slices, UploadPut(s)
    PROVE  IInv'
<1>. Types /\ Sound(s)
  BY DEF IInv
<1>. slices' = slices /\ queue' = queue /\ procs' = procs /\ disk' = disk /\ meta' = meta
     /\ recovery' = recovery /\ mount' = mount /\ hist' = hist
     /\ upload' = [upload EXCEPT ![s] = "join"] /\ objects' = objects \cup {s}
  BY DEF UploadPut
<1>1. Types'
  BY DEF Types, Uploads
<1>2. Touches(s)
  BY DEF Touches, Types
<1>3. upload'[s] = "join" /\ upload[s] \in {"put", "after"}
  BY DEF Types, UploadPut
<1>4. (Publishing(s)' <=> Publishing(s)) /\ (Settled(s)' <=> Settled(s))
  BY <1>3, SameLook DEF Publishing, Settled
<1>5. Shape(s)'
  BY <1>3, SameLook DEF Sound, Shape
<1>6. Claimed(s)'
  BY <1>3, <1>4, SameLook DEF Sound, Claimed
<1>7. Sealed(s)'
  BY <1>4, SameLook DEF Sound, Sealed
<1>8. Backed(s)'
  BY <1>3, <1>4, SameLook DEF Sound, Backed
<1>. QED  BY <1>1, <1>2, <1>5, <1>6, <1>7, <1>8, TouchKeeps DEF Sound

LEMMA UploadFailsKeeps ==
    ASSUME IInv, NEW s \in Slices, UploadFails(s)
    PROVE  IInv'
<1>. Types /\ Sound(s)
  BY DEF IInv
<1>. queue' = queue /\ procs' = procs /\ disk' = disk /\ objects' = objects /\ meta' = meta
     /\ recovery' = recovery /\ hist' = hist
     /\ upload' = [upload EXCEPT ![s] = "none"]
     /\ slices' = [slices EXCEPT ![s].state = "Failed"]
  BY DEF UploadFails, Failed
<1>0. /\ mount' = [Counted EXCEPT !.error = TRUE] \/ mount' = WithError
      /\ upload[s] \in {"put", "after", "join"} /\ procs[s].pc \in {"done", "failed"}
  BY DEF UploadFails, At
<1>1. Types'
  <2>1. slices' \in [Slices -> SliceRec]
    BY StateSet DEF States
  <2>2. upload' \in [Slices -> Uploads]
    BY DEF Types, Uploads
  <2>3. mount' \in Mounts
    BY <1>0, MountSet
  <2>. QED  BY <2>1, <2>2, <2>3 DEF Types
<1>2. mount'.order = mount.order /\ mount'.error = TRUE
  BY <1>0, MountSet
<1>3. Touches(s)
  BY <1>2 DEF Touches, Types
<1>4. upload'[s] = "none"
  BY DEF Types
<1>5. /\ slices'[s].state = "Failed" /\ slices'[s].staged = slices[s].staged /\ slices'[s].seal = slices[s].seal
      /\ slices'[s].claimed = slices[s].claimed
  BY StateSet DEF States
<1>6. (Publishing(s)' <=> Publishing(s)) /\ (Settled(s)' <=> Settled(s))
  BY <1>0, <1>4, <1>5, SameLook DEF Publishing, Settled
<1>7. Shape(s)'
  BY <1>0, <1>2, <1>4, <1>5, SameLook DEF Sound, Shape
<1>8. Claimed(s)'
  BY <1>0, <1>2, <1>4, <1>5, <1>6, SameLook DEF Sound, Claimed
<1>9. Sealed(s)'
  BY <1>0, <1>5, <1>6, SameLook DEF Sound, Sealed, Shape
<1>10. Backed(s)'
  BY <1>0, <1>4, <1>5, <1>6, SameLook DEF Sound, Backed, Shape
<1>. QED  BY <1>1, <1>3, <1>7, <1>8, <1>9, <1>10, TouchKeeps DEF Sound

LEMMA UploadLandsKeeps ==
    ASSUME IInv, NEW s \in Slices, UploadLands(s)
    PROVE  IInv'
<1>. Types /\ Sound(s)
  BY DEF IInv
<1>. queue' = queue /\ procs' = procs /\ disk' = disk /\ objects' = objects /\ meta' = meta
     /\ recovery' = recovery /\ hist' = hist /\ mount' = mount
     /\ upload' = [upload EXCEPT ![s] = "remove"]
  BY DEF UploadLands
<1>0. upload[s] = "join" /\ procs[s].pc = "done"
  BY DEF UploadLands, At
<1>1. /\ slices' \in [Slices -> SliceRec]
      /\ \A t \in Slices \ {s} : slices'[t] = slices[t]
      /\ slices'[s].staged = slices[s].staged /\ slices'[s].seal = slices[s].seal
      /\ slices'[s].claimed = slices[s].claimed
      /\ slices'[s].state = IF slices[s].state \in {"Readonly", "Failed"} THEN "Uploaded" ELSE slices[s].state
  <2>. DEFINE v == IF slices[s].state \in {"Readonly", "Failed"} THEN "Uploaded" ELSE slices[s].state
              r == [slices[s] EXCEPT !.landed = TRUE, !.state = v]
  <2>1. slices \in [Slices -> SliceRec] /\ slices[s] \in SliceRec /\ v \in States
    BY DEF Types, SliceRec, States
  <2>2. slices' = [slices EXCEPT ![s] = r]
    BY <2>1 DEF UploadLands
  <2>3. r \in SliceRec /\ r.staged = slices[s].staged /\ r.seal = slices[s].seal
        /\ r.claimed = slices[s].claimed /\ r.state = v
    <3>. HIDE DEF v
    <3>. QED  BY <2>1 DEF SliceRec
  <2>. HIDE DEF r
  <2>. QED  BY <2>1, <2>2, <2>3
<1>2. Types'
  BY <1>1 DEF Types, Uploads
<1>3. Touches(s)
  BY <1>1 DEF Touches, Types
<1>4. upload'[s] = "remove" /\ s \in objects /\ slices[s].state # "none"
  BY <1>0 DEF Types, Sound, Backed, Shape
<1>6. (Publishing(s)' <=> Publishing(s)) /\ (Settled(s)' <=> Settled(s))
  BY <1>0, <1>4, <1>1, SameLook DEF Publishing, Settled
<1>7. Shape(s)'
  BY <1>0, <1>1, <1>4, SameLook DEF Sound, Shape
<1>8. Claimed(s)'
  BY <1>0, <1>1, <1>4, <1>6, SameLook DEF Sound, Claimed
<1>9. Sealed(s)'
  BY <1>1, <1>4, <1>6, SameLook DEF Sound, Sealed
<1>10. Backed(s)'
  BY <1>1, <1>4, <1>6, SameLook DEF Sound, Backed
<1>. QED  BY <1>2, <1>3, <1>7, <1>8, <1>9, <1>10, TouchKeeps DEF Sound

LEMMA UploadRemoveKeeps ==
    ASSUME IInv, NEW s \in Slices, UploadRemove(s)
    PROVE  IInv'
<1>. Types /\ Sound(s)
  BY DEF IInv
<1>. slices' = slices /\ queue' = queue /\ procs' = procs /\ objects' = objects /\ meta' = meta
     /\ recovery' = recovery /\ hist' = hist /\ mount' = mount
     /\ upload' = [upload EXCEPT ![s] = "try"]
  BY DEF UploadRemove
<1>1. /\ disk' \in [Slices -> Records]
      /\ \A t \in Slices \ {s} : disk'[t] = disk[t]
      /\ disk'[s] = IF slices[s].state = "Committed" THEN "none" ELSE disk[s]
  BY DEF UploadRemove, Removed, Types, Records
<1>2. Types'
  BY <1>1 DEF Types, Uploads
<1>3. Touches(s)
  BY <1>1 DEF Touches, Types
<1>4. upload[s] = "remove" /\ upload'[s] = "try" /\ s \in objects /\ slices[s].state # "none"
  BY DEF UploadRemove, Types, Sound, Backed, Shape
<1>5. slices[s].state = "Committed" => Settled(s)
  BY DEF Sound, Claimed
<1>6. (Publishing(s)' <=> Publishing(s)) /\ (Settled(s)' <=> Settled(s))
  BY <1>4, SameLook DEF Publishing, Settled
<1>7. Shape(s)'
  BY <1>1, <1>4, SameLook DEF Sound, Shape
<1>8. Claimed(s)'
  BY <1>4, <1>6, SameLook DEF Sound, Claimed
<1>9. Sealed(s)'
  BY <1>1, <1>5, <1>6, SameLook DEF Sound, Sealed
<1>10. Backed(s)'
  BY <1>1, <1>4, <1>6, SameLook DEF Sound, Backed
<1>. QED  BY <1>2, <1>3, <1>7, <1>8, <1>9, <1>10, TouchKeeps DEF Sound

LEMMA TryClaimKeeps ==
    ASSUME IInv, NEW s \in Slices, TryClaim(s)
    PROVE  IInv'
<1>. Types /\ Sound(s)
  BY DEF IInv
<1>. queue' = queue /\ procs' = procs /\ disk' = disk /\ objects' = objects /\ meta' = meta
     /\ recovery' = recovery /\ hist' = hist /\ mount' = mount
  BY DEF TryClaim
<1>0. upload[s] = "try" /\ s \in objects /\ slices[s].state # "none"
  BY DEF TryClaim, Types, Sound, Backed, Shape
<1>1. CASE slices[s].state = "Uploaded" /\ ~slices[s].claimed /\ IsFront(s)
  <2>1. upload' = [upload EXCEPT ![s] = "write"] /\ slices' = [slices EXCEPT ![s].claimed = TRUE]
    BY <1>1 DEF TryClaim
  <2>2. Types' /\ upload'[s] = "write"
    BY <2>1, ClaimSet DEF Types, Uploads
  <2>3. Touches(s)
    BY <2>1, ClaimSet DEF Touches, Types
  <2>4. /\ slices'[s].state = "Uploaded" /\ slices'[s].staged = slices[s].staged
        /\ slices'[s].seal = slices[s].seal /\ slices'[s].claimed
    BY <2>1, <1>1, ClaimSet
  <2>5. ~Publishing(s) /\ ~Settled(s) /\ Publishing(s)' /\ ~Settled(s)'
    BY <1>1, <2>2 DEF Sound, Claimed, Publishing, Settled
  <2>6. Shape(s)'
    BY <1>0, <2>4, SameLook DEF Sound, Shape
  <2>7. Claimed(s)'
    BY <1>1, <2>2, <2>4, <2>5, SameLook DEF Sound, Claimed, Publishing
  <2>8. Sealed(s)'
    BY <1>0, <2>4, <2>5, SameLook DEF Sound, Sealed
  <2>9. Backed(s)'
    BY <1>0, <2>4, <2>5, SameLook DEF Sound, Backed
  <2>. QED  BY <2>2, <2>3, <2>6, <2>7, <2>8, <2>9, TouchKeeps DEF Sound
<1>2. CASE ~(slices[s].state = "Uploaded" /\ ~slices[s].claimed /\ IsFront(s))
  <2>1. upload' = [upload EXCEPT ![s] = "none"] /\ slices' = slices
    BY <1>2 DEF TryClaim
  <2>2. Types' /\ upload'[s] = "none"
    BY <2>1 DEF Types, Uploads
  <2>3. Touches(s)
    BY <2>1 DEF Touches, Types
  <2>5. (Publishing(s)' <=> Publishing(s)) /\ (Settled(s)' <=> Settled(s))
    BY <1>0, <2>1, <2>2, SameLook DEF Publishing, Settled
  <2>6. Shape(s)'
    BY <2>1, <2>2, SameLook DEF Sound, Shape
  <2>7. Claimed(s)'
    BY <2>1, <2>2, <2>5, SameLook DEF Sound, Claimed
  <2>8. Sealed(s)'
    BY <2>1, <2>5, SameLook DEF Sound, Sealed
  <2>9. Backed(s)'
    BY <1>0, <2>1, <2>5, SameLook DEF Sound, Backed
  <2>. QED  BY <2>2, <2>3, <2>6, <2>7, <2>8, <2>9, TouchKeeps DEF Sound
<1>. QED  BY <1>1, <1>2

\* A slice's own entry at the end of the list.
LEMMA OwnEntry ==
    ASSUME Types, NEW s \in Slices, meta' = Append(meta, Entry(s, s))
    PROVE  /\ meta' \in Seq([write : Slices, id : Nat])
           /\ Shown(s)'
           /\ Replayed(s)' <=> Replayed(s)
<1>1. Entry(s, s) \in [write : Slices, id : Nat] /\ Entry(s, s).id = s /\ Entry(s, s).write = s
  BY DEF Entry, Slices
<1>2. meta' \in Seq([write : Slices, id : Nat])
  BY <1>1 DEF Types
<1>3. Shown(s)' /\ (Replayed(s)' <=> Replayed(s))
  BY <1>1, Appended DEF Shown, Replayed, Own
<1>. QED  BY <1>2, <1>3

LEMMA TryWriteKeeps ==
    ASSUME IInv, NEW s \in Slices, TryWrite(s)
    PROVE  IInv'
<1>. Types /\ Sound(s)
  BY DEF IInv
<1>. queue' = queue /\ procs' = procs /\ disk' = disk /\ objects' = objects
     /\ recovery' = recovery /\ hist' = hist /\ mount' = mount
     /\ meta' = Append(meta, Entry(s, s))
     /\ slices' = [slices EXCEPT ![s].state = "Committed"]
     /\ upload' = [upload EXCEPT ![s] = "clean"]
  BY DEF TryWrite
<1>0. upload[s] = "write" /\ s \in objects /\ slices[s].state # "none" /\ "Committed" \in States
  BY DEF TryWrite, Sound, Backed, Shape, States
<1>1. Publishing(s) /\ IsFront(s) /\ slices[s].claimed /\ ~Settled(s)
  BY <1>0 DEF Publishing, Sound, Claimed, Settled
<1>2. Types' /\ upload'[s] = "clean"
  BY <1>0, StateSet, OwnEntry DEF Types, Uploads
<1>3. Touches(s)
  BY <1>0, <1>1, StateSet DEF Touches, Types
<1>4. /\ slices'[s].state = "Committed" /\ slices'[s].staged = slices[s].staged
      /\ slices'[s].seal = slices[s].seal /\ slices'[s].claimed
  BY <1>0, <1>1, StateSet
<1>5. ~Publishing(s)' /\ Settled(s)'
  BY <1>0, <1>2, <1>4, SameLook DEF Sound, Claimed, Publishing, Settled
<1>6. Shape(s)'
  BY <1>0, <1>2, <1>4, SameLook DEF Sound, Shape
<1>7. Claimed(s)'
  BY <1>0, <1>2, <1>4, <1>5, SameLook DEF Sound, Claimed
<1>8. Sealed(s)'
  BY <1>0, <1>4, <1>5, SameLook DEF Sound, Sealed
<1>9. Backed(s)'
  BY <1>0, <1>1, <1>4, <1>5, SameLook, OwnEntry DEF Sound, Backed
<1>. QED  BY <1>2, <1>3, <1>6, <1>7, <1>8, <1>9, TouchKeeps DEF Sound

LEMMA TryCleanKeeps ==
    ASSUME IInv, NEW s \in Slices, TryClean(s)
    PROVE  IInv'
<1>. Types /\ Sound(s)
  BY DEF IInv
<1>. slices' = slices /\ queue' = queue /\ procs' = procs /\ objects' = objects /\ meta' = meta
     /\ recovery' = recovery /\ hist' = hist /\ mount' = mount
     /\ disk' = [disk EXCEPT ![s] = "none"]
     /\ upload' = [upload EXCEPT ![s] = "none"]
  BY DEF TryClean, Removed
<1>1. upload[s] = "clean" /\ s \in objects /\ slices[s].state # "none" /\ Settled(s)
  BY DEF TryClean, Sound, Backed, Shape, Claimed
<1>2. Types' /\ upload'[s] = "none" /\ disk'[s] = "none"
  BY DEF Types, Uploads, Records
<1>3. Touches(s)
  BY DEF Touches, Types
<1>5. (Publishing(s)' <=> Publishing(s)) /\ (Settled(s)' <=> Settled(s))
  BY <1>1, <1>2, SameLook DEF Publishing, Settled
<1>6. Shape(s)'
  BY <1>1, <1>2, SameLook DEF Sound, Shape
<1>7. Claimed(s)'
  BY <1>1, <1>2, <1>5, SameLook DEF Sound, Claimed
<1>8. Sealed(s)'
  BY <1>1, <1>2, <1>5, SameLook DEF Sound, Sealed
<1>9. Backed(s)'
  BY <1>1, <1>5, SameLook DEF Sound, Backed
<1>. QED  BY <1>2, <1>3, <1>6, <1>7, <1>8, <1>9, TouchKeeps DEF Sound

-----------------------------------------------------------------------------
(* The stage sub-task and the commit task.                                   *)

\* A task that is under way works on one slice: its own, for a stage sub-task.
LEMMA OneSlice ==
    ASSUME IInv, NEW p \in Procs, procs[p].pc \notin {"none", "top"}
    PROVE  /\ procs[p].slice \in Slices
           /\ p = procs[p].slice \/ p = Committer
           /\ p # Committer => procs[p].pc \in StagePcs
           /\ p = Committer => procs[p].pc \in CommitPcs /\ Com(procs[p].slice) = procs[p].pc
           /\ Types /\ Sound(procs[p].slice)
<1>1. CASE p = Committer
  BY <1>1 DEF IInv, Global, Com, Slices, Committer
<1>2. CASE p \in Slices
  BY <1>2 DEF IInv, Sound, Shape, Slices, Committer
<1>. QED  BY <1>1, <1>2 DEF Procs

\* Its next step, seen from the slice.
Moves(p, s, old, new) ==
    \/ p = s /\ procs[s].pc = old /\ procs'[s].pc = new /\ procs'[s].slice = s /\ Com(s)' = Com(s)
    \/ p = Committer /\ procs'[s] = procs[s] /\ Com(s) = old /\ Com(s)' = new

LEMMA OneMove ==
    ASSUME IInv, NEW p \in Procs, procs[p].pc \notin {"none", "top"}, NEW v,
           NEW s \in Slices, procs[p].slice = s,
           p = Committer => v \in CommitPcs, p # Committer => v \in StagePcs,
           Goto(p, v)
    PROVE  /\ procs' \in [Procs -> ProcRec]
           /\ \A t \in Slices \ {s} : procs'[t] = procs[t]
           /\ \/ procs'[Committer] = procs[Committer]
              \/ /\ procs[Committer].slice = s /\ procs'[Committer].slice = s
                 /\ procs'[Committer].pc \in CommitPcs
           /\ Moves(p, s, procs[p].pc, v)
<1>1. (p = s \/ p = Committer) /\ Types /\ Committer \notin Slices
      /\ Committer \in Procs /\ Slices \subseteq Procs
  BY OneSlice DEF Committer, Slices, Procs
<1>2. /\ procs' \in [Procs -> ProcRec]
      /\ \A o \in Procs \ {p} : procs'[o] = procs[o]
      /\ procs'[p].pc = v /\ procs'[p].slice = s
  BY <1>1, GotoSet DEF Goto
<1>3. CASE p = s
  <2>1. procs'[Committer] = procs[Committer] /\ Com(s)' = Com(s)
    BY <1>1, <1>2, <1>3 DEF Com
  <2>2. \A t \in Slices \ {s} : procs'[t] = procs[t]
    BY <1>1, <1>2, <1>3
  <2>. QED  BY <1>2, <1>3, <2>1, <2>2 DEF Moves
<1>4. CASE p = Committer
  <2>1. \A t \in Slices : procs'[t] = procs[t]
    BY <1>1, <1>2, <1>4
  <2>2. Com(s) = procs[p].pc /\ Com(s)' = v
    BY <1>2, <1>4 DEF Com
  <2>3. v \in CommitPcs
    BY <1>1, <1>4
  <2>. QED  BY <1>1, <1>2, <1>4, <2>1, <2>2, <2>3 DEF Moves
<1>. QED  BY <1>1, <1>3, <1>4

LEMMA SealKeeps ==
    ASSUME IInv, NEW p \in Procs, NEW s \in Slices, procs[p].slice = s, Seal(p)
    PROVE  IInv'
<1>. DEFINE v == IF Sealable(s) THEN (IF procs[p].pc = "seal" THEN "sealing" ELSE "resealing")
                                ELSE (IF procs[p].pc = "seal" THEN "front" ELSE "claim")
<1>0. /\ procs[p].pc \in {"seal", "reseal"}
      /\ Goto(p, v)
      /\ slices' = IF Sealable(s) THEN [slices EXCEPT ![s].seal = "sealing"] ELSE slices
      /\ queue' = queue /\ disk' = disk /\ upload' = upload /\ objects' = objects /\ meta' = meta
      /\ recovery' = recovery /\ hist' = hist /\ mount' = mount
  BY Zenon DEF Seal, At
<1>1. /\ Types /\ Sound(s) /\ (p # Committer => procs[p].pc \in StagePcs)
      /\ (p = Committer => procs[p].pc \in CommitPcs)
  BY <1>0, OneSlice
<1>2. (p = Committer => v \in CommitPcs) /\ (p # Committer => v \in StagePcs)
  BY <1>0, <1>1 DEF CommitPcs, StagePcs
<1>. HIDE DEF v
<1>21. procs[p].pc \notin {"none", "top"} /\ Goto(p, v)
  BY <1>0
<1>3. /\ procs' \in [Procs -> ProcRec]
      /\ \A t \in Slices \ {s} : procs'[t] = procs[t]
      /\ \/ procs'[Committer] = procs[Committer]
         \/ /\ procs[Committer].slice = s /\ procs'[Committer].slice = s
            /\ procs'[Committer].pc \in CommitPcs
      /\ Moves(p, s, procs[p].pc, v)
  BY <1>2, <1>21, OneMove
<1>4. /\ slices' \in [Slices -> SliceRec]
      /\ \A t \in Slices \ {s} : slices'[t] = slices[t]
      /\ slices'[s].state = slices[s].state /\ slices'[s].staged = slices[s].staged
      /\ slices'[s].claimed = slices[s].claimed
      /\ slices'[s].seal = IF Sealable(s) THEN "sealing" ELSE slices[s].seal
  <2>1. CASE Sealable(s)
    <3>1. "sealing" \in Seals /\ slices' = [slices EXCEPT ![s].seal = "sealing"]
      BY <2>1, <1>0 DEF Seals
    <3>2. /\ slices' \in [Slices -> SliceRec]
          /\ \A t \in Slices \ {s} : slices'[t] = slices[t]
          /\ slices'[s].state = slices[s].state /\ slices'[s].staged = slices[s].staged
          /\ slices'[s].seal = "sealing" /\ slices'[s].claimed = slices[s].claimed
      BY <3>1, <1>1, SealSet
    <3>. QED  BY <2>1, <3>2
  <2>2. CASE ~Sealable(s)
    BY <2>2, <1>0, <1>1 DEF Types
  <2>. QED  BY <2>1, <2>2
<1>5. Types'
  BY <1>0, <1>1, <1>3, <1>4 DEF Types
<1>6. Touches(s)
  BY <1>0, <1>1, <1>3, <1>4 DEF Touches
<1>7. slices[s].state # "none"
  BY <1>0, <1>1, <1>3 DEF Moves, Sound, Shape
<1>8. (Publishing(s)' <=> Publishing(s)) /\ (Settled(s)' <=> Settled(s))
  BY <1>0, <1>3, <1>4 DEF Publishing, Settled, Moves, v
<1>9. v \in {"sealing", "resealing", "front", "claim"} /\ (v \in {"sealing", "resealing"} <=> Sealable(s))
      /\ (v \in {"resealing", "claim"} => procs[p].pc = "reseal")
  BY <1>0 DEF v
<1>10. Shape(s)'
  BY <1>0, <1>1, <1>3, <1>4, <1>7, <1>9, SameLook DEF Sound, Shape, Moves, StagePcs
<1>11. Claimed(s)'
  BY <1>0, <1>1, <1>3, <1>4, <1>8, <1>9, SameLook DEF Sound, Claimed, Moves
<1>12. Sealed(s)'
  BY <1>0, <1>1, <1>3, <1>4, <1>7, <1>8, <1>9, SameLook DEF Sound, Sealed, Moves, Sealable
<1>13. Backed(s)'
  BY <1>0, <1>1, <1>3, <1>4, <1>8, <1>9, SameLook DEF Sound, Backed, Moves, Sealable
<1>. QED  BY <1>1, <1>5, <1>6, <1>10, <1>11, <1>12, <1>13, TouchKeeps DEF Sound

\* A step that only moves a task on, where there is nothing to publish or to seal.
LEMMA PcOnly ==
    ASSUME IInv, NEW p \in Procs, NEW s \in Slices, procs[p].slice = s, NEW v, Goto(p, v),
           procs[p].pc \in {"front", "enter", "claim"},
           p = Committer => v \in {"top", "reseal"}, p # Committer => v \in {"enter", "reseal", "done"},
           v \in {"enter", "reseal"} => IsFront(s) \/ Settled(s),
           UNCHANGED <<slices, queue, upload, disk, objects, meta, recovery, mount, hist>>
    PROVE  IInv'
<1>0. /\ slices' = slices /\ queue' = queue /\ disk' = disk /\ upload' = upload /\ objects' = objects /\ meta' = meta
      /\ recovery' = recovery /\ hist' = hist /\ mount' = mount
  OBVIOUS
<1>1. Types /\ Sound(s)
  BY DEF IInv
<1>2. (p = Committer => v \in CommitPcs) /\ (p # Committer => v \in StagePcs) /\ procs[p].pc \notin {"none", "top"}
      /\ s # Committer
  BY DEF CommitPcs, StagePcs, Slices, Committer
<1>3. /\ procs' \in [Procs -> ProcRec]
      /\ \A t \in Slices \ {s} : procs'[t] = procs[t]
      /\ \/ procs'[Committer] = procs[Committer]
         \/ /\ procs[Committer].slice = s /\ procs'[Committer].slice = s
            /\ procs'[Committer].pc \in CommitPcs
      /\ Moves(p, s, procs[p].pc, v)
  BY <1>2, OneMove
<1>5. Types'
  BY <1>0, <1>1, <1>3 DEF Types
<1>6. Touches(s)
  BY <1>0, <1>1, <1>3 DEF Touches
<1>7. slices[s].state # "none"
  BY <1>1, <1>3 DEF Moves, Sound, Shape
<1>8. (Publishing(s)' <=> Publishing(s)) /\ (Settled(s)' <=> Settled(s))
  BY <1>0, <1>3 DEF Publishing, Settled, Moves
<1>10. Shape(s)'
  BY <1>0, <1>1, <1>2, <1>3, <1>7, SameLook DEF Sound, Shape, Moves
<1>11. Claimed(s)'
  BY <1>0, <1>1, <1>3, <1>8, SameLook DEF Sound, Claimed, Moves
<1>12. Sealed(s)'
  BY <1>0, <1>1, <1>3, <1>8, SameLook DEF Sound, Sealed, Moves
<1>13. Backed(s)'
  BY <1>0, <1>1, <1>3, <1>8, SameLook DEF Sound, Backed, Moves
<1>. QED  BY <1>1, <1>5, <1>6, <1>10, <1>11, <1>12, <1>13, TouchKeeps DEF Sound

LEMMA StageFrontKeeps ==
    ASSUME IInv, NEW s \in Slices, StageFront(s)
    PROVE  IInv'
<1>. DEFINE v == IF IsFront(s) THEN "enter" ELSE "done"
<1>1. s \in Procs /\ s # Committer
  BY DEF Procs, Committer, Slices
<1>2. procs[s].pc = "front" /\ Goto(s, v)
      /\ UNCHANGED <<slices, queue, upload, disk, objects, meta, recovery, mount, hist>>
  BY DEF StageFront, At
<1>3. procs[s].slice = s
  BY <1>2 DEF IInv, Sound, Shape
<1>4. v \in {"enter", "reseal", "done"} /\ (v \in {"enter", "reseal"} => IsFront(s))
  OBVIOUS
<1>. HIDE DEF v
<1>. QED  BY <1>1, <1>2, <1>3, <1>4, PcOnly

LEMMA EnterKeeps ==
    ASSUME IInv, NEW p \in Procs, NEW s \in Slices, procs[p].slice = s, Enter(p)
    PROVE  IInv'
<1>. DEFINE v == IF UploadDone(s) THEN Return(p) ELSE "reseal"
<1>2. procs[p].pc = "enter" /\ Goto(p, v)
      /\ UNCHANGED <<slices, queue, upload, disk, objects, meta, recovery, mount, hist>>
  BY DEF Enter, At
<1>3. IsFront(s) \/ Settled(s)
  BY <1>2, OneSlice DEF Sound, Claimed
<1>4. (p = Committer => v \in {"top", "reseal"}) /\ (p # Committer => v \in {"enter", "reseal", "done"})
  BY DEF Return
<1>. HIDE DEF v
<1>. QED  BY <1>2, <1>3, <1>4, PcOnly

LEMMA ClaimKeeps ==
    ASSUME IInv, NEW p \in Procs, NEW s \in Slices, procs[p].slice = s, Claim(p)
    PROVE  IInv'
<1>0. procs[p].pc = "claim"
  BY DEF Claim, At
<1>1. /\ Types /\ Sound(s) /\ (p # Committer => procs[p].pc \in StagePcs)
      /\ (p = Committer => procs[p].pc \in CommitPcs) /\ (IsFront(s) \/ Settled(s))
  BY <1>0, OneSlice DEF Sound, Claimed
<1>2. CASE ~(StageReady(s) /\ ~slices[s].claimed)
  <2>1. Goto(p, Return(p)) /\ UNCHANGED <<slices, queue, upload, disk, objects, meta, recovery, mount, hist>>
    BY <1>2 DEF Claim
  <2>2. (p = Committer => Return(p) = "top") /\ (p # Committer => Return(p) = "done")
    BY DEF Return
  <2>. QED  BY <1>0, <1>1, <2>1, <2>2, PcOnly
<1>3. CASE StageReady(s) /\ ~slices[s].claimed
  <2>0. /\ slices' = [slices EXCEPT ![s].claimed = TRUE] /\ Goto(p, "write")
        /\ queue' = queue /\ disk' = disk /\ upload' = upload /\ objects' = objects /\ meta' = meta
        /\ recovery' = recovery /\ hist' = hist /\ mount' = mount
    BY <1>3 DEF Claim
  <2>2. "write" \in CommitPcs /\ "write" \in StagePcs /\ procs[p].pc \notin {"none", "top"}
    BY <1>0 DEF CommitPcs, StagePcs
  <2>3. /\ procs' \in [Procs -> ProcRec]
        /\ \A t \in Slices \ {s} : procs'[t] = procs[t]
        /\ \/ procs'[Committer] = procs[Committer]
           \/ /\ procs[Committer].slice = s /\ procs'[Committer].slice = s
              /\ procs'[Committer].pc \in CommitPcs
        /\ Moves(p, s, procs[p].pc, "write")
    BY <2>0, <2>2, OneMove
  <2>4. /\ slices' \in [Slices -> SliceRec]
        /\ \A t \in Slices \ {s} : slices'[t] = slices[t]
        /\ slices'[s].state = slices[s].state /\ slices'[s].staged = slices[s].staged
        /\ slices'[s].seal = slices[s].seal /\ slices'[s].claimed
    BY <1>1, <2>0, ClaimSet
  <2>5. Types'
    BY <2>0, <1>1, <2>3, <2>4 DEF Types
  <2>6. Touches(s)
    BY <2>0, <1>1, <2>3, <2>4 DEF Touches
  <2>7. slices[s].state # "none"
    BY <1>0, <1>1, <2>3 DEF Moves, Sound, Shape
  <2>8. ~Publishing(s) /\ ~Settled(s) /\ Publishing(s)' /\ ~Settled(s)' /\ IsFront(s)
    BY <1>1, <1>3, <2>3, <2>4 DEF Publishing, Settled, Moves, Sound, Claimed
  <2>9. Shape(s)'
    BY <1>0, <1>1, <2>0, <2>2, <2>3, <2>4, <2>7, SameLook DEF Sound, Shape, Moves
  <2>10. Claimed(s)'
    BY <1>0, <1>1, <2>0, <2>3, <2>4, <2>8, SameLook DEF Sound, Claimed, Moves, Publishing
  <2>11. Sealed(s)'
    BY <1>0, <1>1, <2>0, <2>3, <2>4, <2>8, SameLook DEF Sound, Sealed, Moves
  <2>12. Backed(s)'
    BY <1>0, <1>1, <1>3, <2>0, <2>3, <2>4, <2>7, <2>8, SameLook DEF Sound, Backed, Moves, StageReady
  <2>. QED  BY <1>1, <2>5, <2>6, <2>9, <2>10, <2>11, <2>12, TouchKeeps DEF Sound
<1>. QED  BY <1>2, <1>3

LEMMA SealEndsKeeps ==
    ASSUME IInv, NEW p \in Procs, NEW s \in Slices, procs[p].slice = s, SealEnds(p)
    PROVE  IInv'
<1>0. /\ procs[p].pc \in {"sealing", "resealing"}
      /\ queue' = queue /\ upload' = upload /\ objects' = objects /\ meta' = meta
      /\ recovery' = recovery /\ hist' = hist
  BY DEF SealEnds
<1>1. /\ Types /\ Sound(s) /\ (p # Committer => procs[p].pc \in StagePcs)
      /\ (p = Committer => procs[p].pc \in CommitPcs) /\ s # Committer
      /\ procs[p].pc \notin {"none", "top"}
      /\ p = s \/ (p = Committer /\ Com(s) = "resealing" /\ procs[p].pc = "resealing")
  BY <1>0, OneSlice DEF Slices, Committer, CommitPcs
<1>2. slices[s].seal = "sealing" /\ slices[s].staged /\ (procs[p].pc = "resealing" => IsFront(s) \/ Settled(s))
      /\ slices[s].state # "none"
  BY <1>0, <1>1 DEF Sound, Sealed, Claimed, Shape
<1>3. CASE disk[s] = "staged"
  <2>. DEFINE v == IF procs[p].pc = "sealing" THEN "front" ELSE "claim"
  <2>0. /\ slices' = [slices EXCEPT ![s].seal = "sealed"] /\ Goto(p, v)
        /\ disk' = [disk EXCEPT ![s] = "sealed"] /\ mount' = mount
    BY <1>3 DEF SealEnds, At
  <2>1. /\ p = Committer => v \in CommitPcs
        /\ p # Committer => v \in StagePcs
        /\ v \in {"front", "claim"} /\ (v = "claim" => procs[p].pc = "resealing")
    BY <1>0, <1>1 DEF CommitPcs, StagePcs
  <2>. HIDE DEF v
  <2>3. /\ procs' \in [Procs -> ProcRec]
        /\ \A t \in Slices \ {s} : procs'[t] = procs[t]
        /\ \/ procs'[Committer] = procs[Committer]
           \/ /\ procs[Committer].slice = s /\ procs'[Committer].slice = s
              /\ procs'[Committer].pc \in CommitPcs
        /\ Moves(p, s, procs[p].pc, v)
    BY <1>1, <2>0, <2>1, OneMove
  <2>4. /\ slices' \in [Slices -> SliceRec]
        /\ \A t \in Slices \ {s} : slices'[t] = slices[t]
        /\ slices'[s].state = slices[s].state /\ slices'[s].staged = slices[s].staged
        /\ slices'[s].seal = "sealed" /\ slices'[s].claimed = slices[s].claimed
    BY <1>1, <2>0, SealSet DEF Seals
  <2>5. disk' \in [Slices -> Records] /\ disk'[s] = "sealed" /\ \A t \in Slices \ {s} : disk'[t] = disk[t]
    BY <1>1, <2>0 DEF Types, Records
  <2>6. Types'
    BY <1>0, <2>0, <1>1, <2>3, <2>4, <2>5 DEF Types
  <2>7. Touches(s)
    BY <1>0, <2>0, <1>1, <2>3, <2>4, <2>5 DEF Touches
  <2>8. (Publishing(s)' <=> Publishing(s)) /\ (Settled(s)' <=> Settled(s))
    BY <1>0, <2>0, <2>1, <2>3, <2>4 DEF Publishing, Settled, Moves
  <2>9. Shape(s)'
    BY <1>0, <1>1, <1>2, <1>3, <2>0, <2>1, <2>3, <2>4, SameLook DEF Sound, Shape, Moves
  <2>10. Claimed(s)'
    BY <1>0, <1>1, <1>2, <2>0, <2>1, <2>3, <2>4, <2>8, SameLook DEF Sound, Claimed, Moves
  <2>11. Sealed(s)'
    BY <1>0, <1>1, <2>0, <2>1, <2>3, <2>4, <2>8, SameLook DEF Sound, Sealed, Moves
  <2>12. Backed(s)'
    BY <1>0, <1>1, <2>0, <2>1, <2>3, <2>4, <2>5, <2>8, SameLook DEF Sound, Backed, Moves
  <2>. QED  BY <2>6, <2>7, <2>9, <2>10, <2>11, <2>12, TouchKeeps DEF Sound
<1>4. CASE disk[s] # "staged"
  <2>. DEFINE v == IF procs[p].pc = "sealing" THEN "failed" ELSE Return(p)
  <2>0. slices' = [slices EXCEPT ![s].state = "Failed"] /\ Goto(p, v) /\ disk' = disk /\ mount' = WithError
    BY <1>4 DEF SealEnds, At, Failed
  <2>1. /\ p = Committer => v = "top" /\ v \in CommitPcs
        /\ p # Committer => v \in {"failed", "done"} /\ v \in StagePcs
    BY <1>0, <1>1 DEF CommitPcs, StagePcs, Return
  <2>. HIDE DEF v
  <2>2. Settled(s)
    BY <1>1, <1>2, <1>4 DEF Sound, Sealed
  <2>3. /\ procs' \in [Procs -> ProcRec]
        /\ \A t \in Slices \ {s} : procs'[t] = procs[t]
        /\ \/ procs'[Committer] = procs[Committer]
           \/ /\ procs[Committer].slice = s /\ procs'[Committer].slice = s
              /\ procs'[Committer].pc \in CommitPcs
        /\ Moves(p, s, procs[p].pc, v)
    BY <1>1, <2>0, <2>1, OneMove
  <2>4. /\ slices' \in [Slices -> SliceRec]
        /\ \A t \in Slices \ {s} : slices'[t] = slices[t]
        /\ slices'[s].state = "Failed" /\ slices'[s].staged = slices[s].staged
        /\ slices'[s].seal = slices[s].seal /\ slices'[s].claimed = slices[s].claimed
    BY <1>1, <2>0, StateSet DEF States
  <2>5. mount' \in Mounts /\ mount'.order = mount.order /\ mount'.error = TRUE
    BY <1>1, <2>0, MountSet
  <2>6. Types'
    BY <1>0, <2>0, <1>1, <2>3, <2>4, <2>5 DEF Types
  <2>7. Touches(s)
    BY <1>0, <2>0, <1>1, <2>3, <2>4, <2>5 DEF Touches
  <2>8. (Publishing(s)' <=> Publishing(s)) /\ Settled(s)' /\ ~Publishing(s)
    BY <1>0, <2>0, <2>1, <2>2, <2>3, <2>4 DEF Publishing, Settled, Moves
  <2>9. Shape(s)'
    BY <1>0, <1>1, <1>2, <2>0, <2>1, <2>3, <2>4, <2>5, SameLook DEF Sound, Shape, Moves
  <2>10. Claimed(s)'
    BY <1>0, <1>1, <1>2, <2>0, <2>1, <2>3, <2>4, <2>5, <2>8, SameLook DEF Sound, Claimed, Moves, Publishing
  <2>11. Sealed(s)'
    BY <1>0, <1>1, <1>2, <2>0, <2>1, <2>3, <2>4, <2>8, SameLook DEF Sound, Sealed, Moves
  <2>12. Backed(s)'
    BY <1>0, <1>1, <1>2, <2>0, <2>1, <2>2, <2>3, <2>4, <2>8, SameLook DEF Sound, Backed, Moves
  <2>. QED  BY <2>6, <2>7, <2>9, <2>10, <2>11, <2>12, TouchKeeps DEF Sound
<1>. QED  BY <1>3, <1>4

LEMMA EarlyWriteKeeps ==
    ASSUME IInv, NEW p \in Procs, NEW s \in Slices, procs[p].slice = s, EarlyWrite(p)
    PROVE  IInv'
<1>0. /\ procs[p].pc = "write"
      /\ queue' = queue /\ upload' = upload /\ disk' = disk /\ objects' = objects
      /\ recovery' = recovery /\ hist' = hist
  BY DEF EarlyWrite, At
<1>1. /\ Types /\ Sound(s) /\ s # Committer
      /\ procs[p].pc \notin {"none", "top"}
      /\ p = s \/ (p = Committer /\ Com(s) = "write")
  BY <1>0, OneSlice DEF Slices, Committer
<1>2. Publishing(s) /\ IsFront(s) /\ slices[s].claimed /\ ~Settled(s) /\ slices[s].state \notin {"none", "Committed"}
  BY <1>0, <1>1 DEF Sound, Claimed, Publishing, Settled, Shape
<1>3. meta' = meta \/ meta' = Append(meta, Entry(s, s))
  BY DEF EarlyWrite
<1>4. /\ meta' \in Seq([write : Slices, id : Nat])
      /\ Replayed(s)' <=> Replayed(s)
  BY <1>1, <1>3, OwnEntry, SameLook DEF Types
<1>5. CASE /\ slices' = [slices EXCEPT ![s].state = "Committed"]
           /\ Goto(p, IF p = Committer THEN "move" ELSE "done")
           /\ mount' = mount
  <2>. DEFINE v == IF p = Committer THEN "move" ELSE "done"
  <2>1. /\ p = Committer => v = "move" /\ v \in CommitPcs
        /\ p # Committer => v = "done" /\ v \in StagePcs
    BY DEF CommitPcs, StagePcs
  <2>2. Goto(p, v)
    BY <1>5
  <2>. HIDE DEF v
  <2>3. /\ procs' \in [Procs -> ProcRec]
        /\ \A t \in Slices \ {s} : procs'[t] = procs[t]
        /\ \/ procs'[Committer] = procs[Committer]
           \/ /\ procs[Committer].slice = s /\ procs'[Committer].slice = s
              /\ procs'[Committer].pc \in CommitPcs
        /\ Moves(p, s, procs[p].pc, v)
    BY <1>1, <2>1, <2>2, OneMove
  <2>4. /\ slices' \in [Slices -> SliceRec]
        /\ \A t \in Slices \ {s} : slices'[t] = slices[t]
        /\ slices'[s].state = "Committed" /\ slices'[s].staged = slices[s].staged
        /\ slices'[s].seal = slices[s].seal /\ slices'[s].claimed = slices[s].claimed
    BY <1>1, <1>5, StateSet DEF States
  <2>6. Types'
    BY <1>0, <1>1, <1>4, <1>5, <2>3, <2>4 DEF Types
  <2>7. Touches(s)
    BY <1>0, <1>1, <1>2, <1>3, <1>5, <2>3, <2>4 DEF Touches
  <2>8. ~Publishing(s)' /\ Settled(s)'
    BY <1>0, <1>1, <1>2, <2>1, <2>3, <2>4 DEF Publishing, Settled, Moves, Sound, Claimed
  <2>9. Shape(s)'
    BY <1>0, <1>1, <1>2, <1>5, <2>1, <2>3, <2>4, SameLook DEF Sound, Shape, Moves
  <2>10. Claimed(s)'
    BY <1>0, <1>1, <1>2, <1>5, <2>1, <2>3, <2>4, <2>8, SameLook DEF Sound, Claimed, Moves
  <2>11. Sealed(s)'
    BY <1>0, <1>1, <1>2, <2>1, <2>3, <2>4, <2>8, SameLook DEF Sound, Sealed, Moves
  <2>12. Backed(s)'
    BY <1>0, <1>1, <1>2, <1>4, <2>1, <2>3, <2>4, <2>8, SameLook DEF Sound, Backed, Moves
  <2>. QED  BY <2>6, <2>7, <2>9, <2>10, <2>11, <2>12, TouchKeeps DEF Sound
<1>6. CASE /\ slices' = [slices EXCEPT ![s].claimed = FALSE]
           /\ Goto(p, Return(p))
           /\ mount' = Counted
  <2>. DEFINE v == Return(p)
  <2>1. /\ p = Committer => v = "top" /\ v \in CommitPcs
        /\ p # Committer => v = "done" /\ v \in StagePcs
    BY DEF CommitPcs, StagePcs, Return
  <2>2. Goto(p, v)
    BY <1>6
  <2>. HIDE DEF v
  <2>3. /\ procs' \in [Procs -> ProcRec]
        /\ \A t \in Slices \ {s} : procs'[t] = procs[t]
        /\ \/ procs'[Committer] = procs[Committer]
           \/ /\ procs[Committer].slice = s /\ procs'[Committer].slice = s
              /\ procs'[Committer].pc \in CommitPcs
        /\ Moves(p, s, procs[p].pc, v)
    BY <1>1, <2>1, <2>2, OneMove
  <2>4. /\ slices' \in [Slices -> SliceRec]
        /\ \A t \in Slices \ {s} : slices'[t] = slices[t]
        /\ slices'[s].state = slices[s].state /\ slices'[s].staged = slices[s].staged
        /\ slices'[s].seal = slices[s].seal /\ ~slices'[s].claimed
    BY <1>1, <1>6, ClaimSet
  <2>5. mount' \in Mounts /\ mount'.order = mount.order /\ mount'.error = mount.error
    BY <1>1, <1>6, MountSet
  <2>6. Types'
    BY <1>0, <1>1, <1>4, <2>3, <2>4, <2>5 DEF Types
  <2>7. Touches(s)
    BY <1>0, <1>1, <1>2, <1>3, <2>3, <2>4, <2>5 DEF Touches
  <2>8. ~Publishing(s)' /\ ~Settled(s)'
    BY <1>0, <1>1, <1>2, <2>1, <2>3, <2>4 DEF Publishing, Settled, Moves, Sound, Claimed
  <2>9. Shape(s)'
    BY <1>0, <1>1, <1>2, <2>1, <2>3, <2>4, <2>5, SameLook DEF Sound, Shape, Moves
  <2>10. Queued(s) /\ (Queued(s)' <=> Queued(s)) /\ IsFront(s)'
    BY <1>0, <1>1, <1>2, FrontLeast, SameLook DEF IInv
  <2>11. Claimed(s)'
    BY <1>0, <1>1, <1>2, <2>1, <2>3, <2>4, <2>5, <2>8, <2>10 DEF Sound, Claimed, Moves
  <2>12. Sealed(s)'
    BY <1>0, <1>1, <1>2, <2>1, <2>3, <2>4, <2>8, SameLook DEF Sound, Sealed, Moves
  <2>13. Backed(s)'
    BY <1>0, <1>1, <1>2, <1>4, <2>1, <2>3, <2>4, <2>8, SameLook DEF Sound, Backed, Moves
  <2>. QED  BY <2>6, <2>7, <2>9, <2>11, <2>12, <2>13, TouchKeeps DEF Sound
<1>. QED  BY <1>5, <1>6 DEF EarlyWrite

LEMMA StagePersistKeeps ==
    ASSUME IInv, NEW s \in Slices, StagePersist(s)
    PROVE  IInv'
<1>0. /\ procs[s].pc = "persist"
      /\ queue' = queue /\ objects' = objects /\ meta' = meta /\ recovery' = recovery /\ hist' = hist /\ upload' = upload
  BY DEF StagePersist, At
<1>1. Types /\ Sound(s) /\ s # Committer /\ s \in Procs /\ procs[s].slice = s
  BY <1>0 DEF Slices, Committer, Procs, IInv, Sound, Shape
<1>2. /\ slices[s].state # "none" /\ disk[s] = "none" /\ upload[s] \notin {"remove", "try", "write", "clean"}
      /\ {"seal", "failed"} \subseteq StagePcs
  BY <1>0, <1>1 DEF Sound, Shape, StagePcs
<1>3. CASE disk' = [disk EXCEPT ![s] = "staged"] /\ slices' = [slices EXCEPT ![s].staged = TRUE]
           /\ Goto(s, "seal") /\ mount' = mount
  <2>3. /\ procs' \in [Procs -> ProcRec]
        /\ \A t \in Slices \ {s} : procs'[t] = procs[t]
        /\ \/ procs'[Committer] = procs[Committer]
           \/ /\ procs[Committer].slice = s /\ procs'[Committer].slice = s
              /\ procs'[Committer].pc \in CommitPcs
        /\ Moves(s, s, procs[s].pc, "seal")
    <3>1. procs[s].pc \notin {"none", "top"} /\ Goto(s, "seal")
      BY <1>0, <1>3
    <3>. QED  BY <1>1, <1>2, <3>1, OneMove
  <2>4. /\ slices' \in [Slices -> SliceRec]
        /\ \A t \in Slices \ {s} : slices'[t] = slices[t]
        /\ slices'[s].state = slices[s].state /\ slices'[s].staged = TRUE
        /\ slices'[s].seal = slices[s].seal /\ slices'[s].claimed = slices[s].claimed
    BY <1>1, <1>3, StagedSet
  <2>5. disk' \in [Slices -> Records] /\ disk'[s] = "staged" /\ \A t \in Slices \ {s} : disk'[t] = disk[t]
    BY <1>1, <1>3 DEF Types, Records
  <2>6. Types'
    BY <1>0, <1>1, <1>3, <2>3, <2>4, <2>5 DEF Types
  <2>7. Touches(s)
    BY <1>0, <1>1, <1>3, <2>3, <2>4, <2>5 DEF Touches
  <2>8. (Publishing(s)' <=> Publishing(s)) /\ (Settled(s)' <=> Settled(s))
    BY <1>0, <1>1, <2>3, <2>4 DEF Publishing, Settled, Moves
  <2>9. Shape(s)'
    BY <1>0, <1>1, <1>2, <1>3, <2>3, <2>4, SameLook DEF Sound, Shape, Moves
  <2>10. Claimed(s)'
    BY <1>0, <1>1, <1>2, <1>3, <2>3, <2>4, <2>8, SameLook DEF Sound, Claimed, Moves
  <2>11. Sealed(s)'
    BY <1>0, <1>1, <2>3, <2>4, <2>5, <2>8, SameLook DEF Sound, Sealed, Moves
  <2>12. Backed(s)'
    BY <1>0, <1>1, <1>2, <2>3, <2>4, <2>5, <2>8, SameLook DEF Sound, Backed, Moves
  <2>. QED  BY <2>6, <2>7, <2>9, <2>10, <2>11, <2>12, TouchKeeps DEF Sound
<1>4. CASE disk' = disk /\ slices' = [slices EXCEPT ![s].state = "Failed"]
           /\ Goto(s, "failed") /\ mount' = [Counted EXCEPT !.error = TRUE]
  <2>3. /\ procs' \in [Procs -> ProcRec]
        /\ \A t \in Slices \ {s} : procs'[t] = procs[t]
        /\ \/ procs'[Committer] = procs[Committer]
           \/ /\ procs[Committer].slice = s /\ procs'[Committer].slice = s
              /\ procs'[Committer].pc \in CommitPcs
        /\ Moves(s, s, procs[s].pc, "failed")
    <3>1. procs[s].pc \notin {"none", "top"} /\ Goto(s, "failed")
      BY <1>0, <1>4
    <3>. QED  BY <1>1, <1>2, <3>1, OneMove
  <2>4. /\ slices' \in [Slices -> SliceRec]
        /\ \A t \in Slices \ {s} : slices'[t] = slices[t]
        /\ slices'[s].state = "Failed" /\ slices'[s].staged = slices[s].staged
        /\ slices'[s].seal = slices[s].seal /\ slices'[s].claimed = slices[s].claimed
    BY <1>1, <1>4, StateSet DEF States
  <2>5. mount' \in Mounts /\ mount'.order = mount.order /\ mount'.error = TRUE
    BY <1>1, <1>4, MountSet
  <2>6. Types'
    BY <1>0, <1>1, <1>4, <2>3, <2>4, <2>5 DEF Types
  <2>7. Touches(s)
    BY <1>0, <1>1, <1>4, <2>3, <2>4, <2>5 DEF Touches
  <2>8. (Publishing(s)' <=> Publishing(s)) /\ (Settled(s)' <=> Settled(s))
    BY <1>0, <1>1, <2>3, <2>4 DEF Publishing, Settled, Moves
  <2>9. Shape(s)'
    BY <1>0, <1>1, <1>2, <1>4, <2>3, <2>4, <2>5, SameLook DEF Sound, Shape, Moves
  <2>10. Claimed(s)'
    BY <1>0, <1>1, <1>2, <1>4, <2>3, <2>4, <2>5, <2>8, SameLook DEF Sound, Claimed, Moves
  <2>11. Sealed(s)'
    BY <1>0, <1>1, <1>2, <1>4, <2>3, <2>4, <2>8, SameLook DEF Sound, Sealed, Moves
  <2>12. Backed(s)'
    BY <1>0, <1>1, <1>2, <1>4, <2>3, <2>4, <2>8, SameLook DEF Sound, Backed, Moves
  <2>. QED  BY <2>6, <2>7, <2>9, <2>10, <2>11, <2>12, TouchKeeps DEF Sound
<1>. QED  BY <1>3, <1>4 DEF StagePersist, Failed

-----------------------------------------------------------------------------
(* The commit task.                                                          *)

\* The commit task takes a slice up.
LEMMA ToSlice ==
    ASSUME Types, NEW s \in Slices, NEW v \in CommitPcs, procs[Committer].pc = "top",
           procs' = [procs EXCEPT ![Committer] = [pc |-> v, slice |-> s]]
    PROVE  /\ procs' \in [Procs -> ProcRec]
           /\ \A t \in Slices : procs'[t] = procs[t]
           /\ procs'[Committer].slice = s /\ procs'[Committer].pc = v
           /\ Com(s) \in {"none", "top"} /\ Com(s)' = v
<1>1. /\ procs \in [Procs -> ProcRec] /\ Committer \in Procs /\ Committer \notin Slices /\ Slices \subseteq Procs
      /\ [pc |-> v, slice |-> s] \in ProcRec
  BY DEF Types, Procs, Committer, Slices, ProcRec
<1>2. procs' \in [Procs -> ProcRec] /\ \A t \in Slices : procs'[t] = procs[t]
  BY <1>1
<1>3. procs'[Committer].slice = s /\ procs'[Committer].pc = v
  BY <1>1
<1>. QED  BY <1>2, <1>3 DEF Com

LEMMA CommitTopKeeps ==
    ASSUME IInv, CommitTop
    PROVE  IInv'
<1>0. /\ procs[Committer].pc = "top" /\ queue # <<>> /\ Types
      /\ upload' = upload /\ disk' = disk /\ objects' = objects /\ meta' = meta
      /\ recovery' = recovery /\ hist' = hist /\ mount' = mount
  BY DEF CommitTop, At, IInv
<1>1. PICK s \in Slices : s = Head(queue)
  BY <1>0 DEF Types
<1>2. Sound(s) /\ IsFront(s) /\ Queued(s)
  BY <1>0, <1>1, FrontLeast DEF IInv, IsFront
<1>3. slices[s].state \in States \ {"none"} /\ Com(s) \in {"none", "top"}
  BY <1>0, <1>2 DEF Types, SliceRec, Sound, Shape, Com
<1>4. CASE slices[s].state = "Failed"
  <2>1. queue' = Tail(queue) /\ slices' = slices /\ procs' = procs
    BY <1>1, <1>4 DEF CommitTop
  <2>2. Types'
    BY <1>0, <2>1 DEF Types
  <2>3. Touches(s)
    BY <1>0, <1>2, <2>1 DEF Touches, Types
  <2>4. mount.error /\ (procs[s].pc \in {"done", "failed"} \/ Settled(s)) /\ upload[s] # "write"
    BY <1>2, <1>4 DEF Sound, Claimed
  <2>5. /\ ~Publishing(s) /\ ~Publishing(s)' /\ (Settled(s)' <=> Settled(s)) /\ Com(s)' = Com(s)
    BY <1>0, <1>3, <2>1, <2>4, SameLook DEF Publishing, Settled
  <2>6. Shape(s)'
    BY <1>0, <1>2, <1>3, <2>1, <2>5, SameLook DEF Sound, Shape
  <2>7. Claimed(s)'
    BY <1>0, <1>2, <1>3, <2>1, <2>4, <2>5 DEF Sound, Claimed
  <2>8. Sealed(s)'
    BY <1>0, <1>2, <2>1, <2>5, SameLook DEF Sound, Sealed
  <2>9. Backed(s)'
    BY <1>0, <1>2, <2>1, <2>5, SameLook DEF Sound, Backed
  <2>. QED  BY <2>2, <2>3, <2>6, <2>7, <2>8, <2>9, TouchKeeps DEF Sound
<1>5. CASE slices[s].state = "Uploaded" /\ slices[s].claimed
  <2>1. queue' = queue /\ slices' = slices /\ procs' = procs
    BY <1>1, <1>5 DEF CommitTop
  <2>2. Types'
    BY <1>0, <2>1 DEF Types
  <2>3. Touches(s)
    BY <1>0, <2>1 DEF Touches, Types
  <2>5. (Publishing(s)' <=> Publishing(s)) /\ (Settled(s)' <=> Settled(s)) /\ Com(s)' = Com(s)
    BY <1>0, <2>1, SameLook DEF Publishing, Settled
  <2>6. Shape(s)' /\ Claimed(s)'
    BY <1>0, <1>2, <2>1, <2>5, SameLook DEF Sound, Shape, Claimed
  <2>8. Sealed(s)' /\ Backed(s)'
    BY <1>0, <1>2, <2>1, <2>5, SameLook DEF Sound, Sealed, Backed
  <2>. QED  BY <2>2, <2>3, <2>6, <2>8, TouchKeeps DEF Sound
<1>6. CASE slices[s].state = "Uploaded" /\ ~slices[s].claimed
  <2>1. queue' = queue /\ slices' = [slices EXCEPT ![s].claimed = TRUE]
        /\ procs' = [procs EXCEPT ![Committer] = [pc |-> "late", slice |-> s]]
    BY <1>1, <1>6 DEF CommitTop
  <2>2. /\ procs' \in [Procs -> ProcRec]
        /\ \A t \in Slices : procs'[t] = procs[t]
        /\ procs'[Committer].slice = s /\ procs'[Committer].pc = "late" /\ "late" \in CommitPcs
        /\ Com(s)' = "late"
    BY <1>0, <2>1, ToSlice DEF CommitPcs
  <2>3. /\ slices' \in [Slices -> SliceRec]
        /\ \A t \in Slices \ {s} : slices'[t] = slices[t]
        /\ slices'[s].state = "Uploaded" /\ slices'[s].staged = slices[s].staged
        /\ slices'[s].seal = slices[s].seal /\ slices'[s].claimed
    BY <1>0, <1>6, <2>1, ClaimSet
  <2>4. Types'
    BY <1>0, <2>1, <2>2, <2>3 DEF Types
  <2>5. Touches(s)
    BY <1>0, <2>1, <2>2, <2>3 DEF Touches
  <2>6. ~Publishing(s) /\ ~Settled(s) /\ Publishing(s)' /\ ~Settled(s)' /\ s \in objects
    BY <1>2, <1>6, <2>2 DEF Sound, Claimed, Backed, Publishing, Settled
  <2>7. Shape(s)'
    BY <1>0, <1>2, <1>3, <2>1, <2>2, <2>3, SameLook DEF Sound, Shape
  <2>8. Claimed(s)'
    BY <1>0, <1>2, <1>3, <2>1, <2>2, <2>3, <2>6, SameLook DEF Sound, Claimed, Publishing
  <2>9. Sealed(s)'
    BY <1>0, <1>2, <1>3, <2>1, <2>2, <2>3, <2>6, SameLook DEF Sound, Sealed
  <2>10. Backed(s)'
    BY <1>0, <1>2, <1>3, <2>1, <2>2, <2>3, <2>6, SameLook DEF Sound, Backed
  <2>. QED  BY <2>4, <2>5, <2>7, <2>8, <2>9, <2>10, TouchKeeps DEF Sound
<1>7. ASSUME NEW v \in {"move", "enter"}, queue' = queue, slices' = slices,
             procs' = [procs EXCEPT ![Committer] = [pc |-> v, slice |-> s]],
             v = "move" => slices[s].state = "Committed"
      PROVE  IInv'
  <2>2. /\ procs' \in [Procs -> ProcRec]
        /\ \A t \in Slices : procs'[t] = procs[t]
        /\ procs'[Committer].slice = s /\ procs'[Committer].pc = v /\ v \in CommitPcs
        /\ Com(s)' = v
    <3>1. v \in CommitPcs
      BY DEF CommitPcs
    <3>. QED  BY <1>0, <1>7, <3>1, ToSlice
  <2>4. Types'
    BY <1>0, <1>7, <2>2 DEF Types
  <2>5. Touches(s)
    BY <1>0, <1>7, <2>2 DEF Touches
  <2>6. (Publishing(s)' <=> Publishing(s)) /\ (Settled(s)' <=> Settled(s)) /\ (v = "move" => Settled(s))
    BY <1>2, <1>3, <1>0, <1>7, <2>2 DEF Sound, Claimed, Publishing, Settled
  <2>7. Shape(s)'
    BY <1>0, <1>2, <1>3, <1>7, <2>2, SameLook DEF Sound, Shape
  <2>8. Claimed(s)'
    BY <1>0, <1>2, <1>3, <1>7, <2>2, <2>6, SameLook DEF Sound, Claimed
  <2>9. Sealed(s)'
    BY <1>0, <1>2, <1>3, <1>7, <2>2, <2>6, SameLook DEF Sound, Sealed
  <2>10. Backed(s)'
    BY <1>0, <1>2, <1>3, <1>7, <2>2, <2>6, SameLook DEF Sound, Backed
  <2>. QED  BY <2>4, <2>5, <2>7, <2>8, <2>9, <2>10, TouchKeeps DEF Sound
<1>8. CASE slices[s].state = "Committed"
  BY <1>1, <1>7, <1>8 DEF CommitTop
<1>9. CASE slices[s].state = "Readonly"
  BY <1>1, <1>7, <1>9 DEF CommitTop
<1>. QED  BY <1>3, <1>4, <1>5, <1>6, <1>8, <1>9 DEF States

LEMMA CommitLateKeeps ==
    ASSUME IInv, CommitLate
    PROVE  IInv'
<1>. "clean" \in CommitPcs
  BY DEF CommitPcs
<1>0. /\ procs[Committer].pc = "late" /\ Goto(Committer, "clean") /\ Committer \in Procs
      /\ procs[Committer].pc \notin {"none", "top"}
      /\ slices' = slices /\ queue' = queue /\ upload' = upload /\ disk' = disk /\ objects' = objects
      /\ recovery' = recovery /\ hist' = hist /\ mount' = mount
  BY DEF CommitLate, At, Procs
<1>1. PICK s \in Slices : s = procs[Committer].slice
  BY <1>0, OneSlice
<1>2. Types /\ Sound(s) /\ Com(s) = "late" /\ s # Committer
  BY <1>0, <1>1 DEF IInv, Com, Committer, Slices
<1>3. meta' = Append(meta, Entry(s, s))
  BY <1>1 DEF CommitLate
<1>4. meta' \in Seq([write : Slices, id : Nat]) /\ (Replayed(s)' <=> Replayed(s))
  BY <1>2, <1>3, OwnEntry
<1>5. /\ procs' \in [Procs -> ProcRec]
      /\ \A t \in Slices \ {s} : procs'[t] = procs[t]
      /\ \/ procs'[Committer] = procs[Committer]
         \/ /\ procs[Committer].slice = s /\ procs'[Committer].slice = s
            /\ procs'[Committer].pc \in CommitPcs
      /\ Moves(Committer, s, procs[Committer].pc, "clean")
  BY <1>0, <1>1, OneMove
<1>6. Publishing(s) /\ IsFront(s) /\ ~Settled(s) /\ s \in objects /\ slices[s].state # "none"
  BY <1>2 DEF Sound, Claimed, Publishing, Settled, Backed, Shape
<1>7. Types'
  BY <1>0, <1>2, <1>4, <1>5 DEF Types
<1>8. Touches(s)
  BY <1>0, <1>3, <1>5, <1>6 DEF Touches
<1>9. Publishing(s)' /\ ~Settled(s)'
  BY <1>2, <1>5 DEF Publishing, Settled, Moves
<1>10. Shape(s)'
  BY <1>0, <1>2, <1>5, <1>6, SameLook DEF Sound, Shape, Moves
<1>11. Claimed(s)'
  BY <1>0, <1>2, <1>5, <1>6, <1>9, SameLook DEF Sound, Claimed, Moves
<1>12. Sealed(s)'
  BY <1>0, <1>2, <1>5, <1>6, <1>9, SameLook DEF Sound, Sealed, Moves
<1>13. Backed(s)'
  BY <1>0, <1>2, <1>4, <1>5, <1>6, <1>9, SameLook DEF Sound, Backed, Moves
<1>. QED  BY <1>7, <1>8, <1>10, <1>11, <1>12, <1>13, TouchKeeps DEF Sound

LEMMA CommitCleanKeeps ==
    ASSUME IInv, CommitClean
    PROVE  IInv'
<1>. "move" \in CommitPcs /\ "Committed" \in States
  BY DEF CommitPcs, States
<1>0. /\ procs[Committer].pc = "clean" /\ Goto(Committer, "move") /\ Committer \in Procs
      /\ procs[Committer].pc \notin {"none", "top"}
      /\ queue' = queue /\ upload' = upload /\ meta' = meta /\ objects' = objects
      /\ recovery' = recovery /\ hist' = hist /\ mount' = mount
  BY DEF CommitClean, At, Procs
<1>1. PICK s \in Slices : s = procs[Committer].slice
  BY <1>0, OneSlice
<1>2. Types /\ Sound(s) /\ Com(s) = "clean" /\ s # Committer
  BY <1>0, <1>1 DEF IInv, Com, Committer, Slices
<1>3. disk' = [disk EXCEPT ![s] = "none"] /\ slices' = [slices EXCEPT ![s].state = "Committed"]
  BY <1>1 DEF CommitClean, Removed
<1>4. /\ slices' \in [Slices -> SliceRec]
      /\ \A t \in Slices \ {s} : slices'[t] = slices[t]
      /\ slices'[s].state = "Committed" /\ slices'[s].staged = slices[s].staged
      /\ slices'[s].seal = slices[s].seal /\ slices'[s].claimed = slices[s].claimed
  BY <1>2, <1>3, StateSet
<1>5. /\ procs' \in [Procs -> ProcRec]
      /\ \A t \in Slices \ {s} : procs'[t] = procs[t]
      /\ \/ procs'[Committer] = procs[Committer]
         \/ /\ procs[Committer].slice = s /\ procs'[Committer].slice = s
            /\ procs'[Committer].pc \in CommitPcs
      /\ Moves(Committer, s, procs[Committer].pc, "move")
  BY <1>0, <1>1, OneMove
<1>6. Publishing(s) /\ IsFront(s) /\ ~Settled(s) /\ s \in objects /\ slices[s].state # "none" /\ slices[s].claimed
  BY <1>2 DEF Sound, Claimed, Publishing, Settled, Backed, Shape
<1>61. disk' \in [Slices -> Records] /\ disk'[s] = "none" /\ \A t \in Slices \ {s} : disk'[t] = disk[t]
  BY <1>2, <1>3 DEF Types, Records
<1>7. Types'
  BY <1>0, <1>2, <1>4, <1>5, <1>61 DEF Types
<1>8. Touches(s)
  BY <1>0, <1>3, <1>4, <1>5, <1>61 DEF Touches
<1>9. ~Publishing(s)' /\ Settled(s)'
  BY <1>0, <1>2, <1>4, <1>5, <1>6 DEF Publishing, Settled, Moves, Sound, Claimed
<1>10. Shape(s)'
  BY <1>0, <1>2, <1>4, <1>5, <1>6, <1>61, SameLook DEF Sound, Shape, Moves
<1>11. Claimed(s)'
  BY <1>0, <1>2, <1>4, <1>5, <1>6, <1>9, SameLook DEF Sound, Claimed, Moves
<1>12. Sealed(s)'
  BY <1>0, <1>2, <1>4, <1>5, <1>6, <1>61, <1>9, SameLook DEF Sound, Sealed, Moves
<1>13. Backed(s)'
  BY <1>0, <1>2, <1>4, <1>5, <1>6, <1>9, SameLook DEF Sound, Backed, Moves
<1>. QED  BY <1>7, <1>8, <1>10, <1>11, <1>12, <1>13, TouchKeeps DEF Sound

LEMMA CommitMoveKeeps ==
    ASSUME IInv, CommitMove
    PROVE  IInv'
<1>. "top" \in CommitPcs
  BY DEF CommitPcs
<1>0. /\ procs[Committer].pc = "move" /\ Goto(Committer, "top") /\ Committer \in Procs
      /\ procs[Committer].pc \notin {"none", "top"}
      /\ slices' = slices /\ upload' = upload /\ meta' = meta /\ objects' = objects /\ disk' = disk
      /\ recovery' = recovery /\ hist' = hist /\ mount' = mount
  BY DEF CommitMove, At, Procs
<1>1. PICK s \in Slices : s = procs[Committer].slice
  BY <1>0, OneSlice
<1>2. Types /\ Sound(s) /\ Com(s) = "move" /\ s # Committer
  BY <1>0, <1>1 DEF IInv, Com, Committer, Slices
<1>3. queue' = IF IsFront(s) THEN Tail(queue) ELSE queue
  BY <1>1 DEF CommitMove
<1>4. queue' \in Seq(Slices) /\ (queue' = queue \/ (IsFront(s) /\ queue' = Tail(queue))) /\ (Queued(s)' => Queued(s))
  <2>1. CASE IsFront(s)
    <3>1. queue # <<>> /\ queue' = Tail(queue)
      BY <1>3, <2>1 DEF IsFront
    <3>2. queue' \in Seq(Slices)
      BY <3>1, <1>2 DEF Types
    <3>3. Queued(s)
      BY <1>2, <2>1, FrontLeast DEF IInv
    <3>. QED  BY <2>1, <3>1, <3>2, <3>3
  <2>2. CASE ~IsFront(s)
    BY <1>2, <1>3, <2>2, SameLook DEF Types
  <2>. QED  BY <2>1, <2>2
<1>5. /\ procs' \in [Procs -> ProcRec]
      /\ \A t \in Slices \ {s} : procs'[t] = procs[t]
      /\ \/ procs'[Committer] = procs[Committer]
         \/ /\ procs[Committer].slice = s /\ procs'[Committer].slice = s
            /\ procs'[Committer].pc \in CommitPcs
      /\ Moves(Committer, s, procs[Committer].pc, "top")
  BY <1>0, <1>1, OneMove
<1>6. Settled(s) /\ ~Publishing(s) /\ slices[s].claimed /\ slices[s].state # "none"
  BY <1>2 DEF Sound, Claimed, Settled, Shape
<1>7. Types'
  BY <1>0, <1>2, <1>4, <1>5 DEF Types
<1>8. Touches(s)
  BY <1>0, <1>4, <1>5 DEF Touches
<1>9. ~Publishing(s)' /\ Settled(s)'
  BY <1>0, <1>2, <1>5, <1>6 DEF Publishing, Settled, Moves
<1>10. Shape(s)'
  BY <1>0, <1>2, <1>4, <1>5, <1>6, SameLook DEF Sound, Shape, Moves
<1>11. Claimed(s)'
  BY <1>0, <1>2, <1>5, <1>6, <1>9 DEF Sound, Claimed, Moves
<1>12. Sealed(s)'
  BY <1>0, <1>2, <1>5, <1>6, <1>9, SameLook DEF Sound, Sealed, Moves
<1>13. Backed(s)'
  BY <1>0, <1>2, <1>5, <1>6, <1>9, SameLook DEF Sound, Backed, Moves
<1>. QED  BY <1>7, <1>8, <1>10, <1>11, <1>12, <1>13, TouchKeeps DEF Sound

-----------------------------------------------------------------------------
(* The callers, the crash and the recovery.                                  *)

LEMMA WriteKeeps ==
    ASSUME IInv, NEW stage_first \in BOOLEAN, Write(stage_first)
    PROVE  IInv'
<1>. Types /\ MaxWrites \in Nat
  BY WriteBackAssumption DEF IInv
<1>1. mount.order \in 0 .. MaxWrites /\ mount.order < MaxWrites /\ ~mount.error
  BY DEF Write, Types, Mounts
<1>2. PICK s \in Slices : s = mount.order + 1
  BY <1>1 DEF Slices
<1>3. /\ slices' = [slices EXCEPT ![s].state = "Readonly"]
      /\ queue' = Append(queue, s)
      /\ upload' = [upload EXCEPT ![s] = IF stage_first THEN "after" ELSE "put"]
      /\ procs' = [procs EXCEPT ![s] = [pc |-> "persist", slice |-> s],
                                ![Committer].pc = IF @ = "none" THEN "top" ELSE @]
      /\ mount' = [mount EXCEPT !.order = s]
      /\ disk' = disk /\ objects' = objects /\ meta' = meta /\ recovery' = recovery /\ hist' = hist
  BY <1>2 DEF Write
<1>4. Sound(s) /\ s > mount.order /\ Committer \notin Slices /\ s # Committer
  BY <1>1, <1>2 DEF IInv, Committer, Slices
<1>5. /\ slices[s] = NewSlice /\ procs[s].pc = "none" /\ upload[s] = "none" /\ disk[s] = "none"
      /\ ~Recovering(s) /\ ~Shown(s) /\ ~Queued(s) /\ Com(s) \in {"none", "top"}
  BY <1>4 DEF Sound, Shape
<1>6. /\ slices' \in [Slices -> SliceRec]
      /\ \A t \in Slices \ {s} : slices'[t] = slices[t]
      /\ slices'[s].state = "Readonly" /\ slices'[s].staged = FALSE
      /\ slices'[s].seal = "no" /\ slices'[s].claimed = FALSE
  <2>1. /\ slices' \in [Slices -> SliceRec]
        /\ \A t \in Slices \ {s} : slices'[t] = slices[t]
        /\ slices'[s].state = "Readonly" /\ slices'[s].staged = slices[s].staged
        /\ slices'[s].seal = slices[s].seal /\ slices'[s].claimed = slices[s].claimed
    BY <1>3, StateSet DEF States
  <2>2. slices[s].staged = FALSE /\ slices[s].seal = "no" /\ slices[s].claimed = FALSE
    BY <1>5 DEF NewSlice
  <2>. QED  BY <2>1, <2>2
<1>7. /\ upload' \in [Slices -> Uploads] /\ upload'[s] \in {"after", "put"}
      /\ \A t \in Slices \ {s} : upload'[t] = upload[t]
  BY <1>3 DEF Types, Uploads
<1>8. /\ mount' \in Mounts /\ mount'.order = s /\ mount'.error = mount.error
  <2>. DEFINE r == 0 .. MaxWrites
              n == Nat \ 0 .. MaxWrites
  <2>1. mount \in [order : r, nextid : n, events : Nat, error : BOOLEAN] /\ s \in r
    BY DEF Types, Mounts, Slices
  <2>. HIDE DEF r, n
  <2>2. mount' = [order |-> s, nextid |-> mount.nextid, events |-> mount.events, error |-> mount.error]
    BY <1>3, <2>1
  <2>3. mount' \in [order : r, nextid : n, events : Nat, error : BOOLEAN]
    BY <2>1, <2>2
  <2>. QED  BY <2>2, <2>3 DEF Mounts, r, n
<1>9. /\ procs' \in [Procs -> ProcRec]
      /\ \A t \in Slices \ {s} : procs'[t] = procs[t]
      /\ procs'[s].pc = "persist" /\ procs'[s].slice = s
      /\ procs'[Committer].slice = procs[Committer].slice
      /\ procs'[Committer].pc = IF procs[Committer].pc = "none" THEN "top" ELSE procs[Committer].pc
  <2>. DEFINE w == IF procs[Committer].pc = "none" THEN "top" ELSE procs[Committer].pc
              c == [procs[Committer] EXCEPT !.pc = w]
              d == [pc |-> "persist", slice |-> s]
  <2>1. /\ procs \in [Procs -> ProcRec] /\ Committer \in Procs /\ Slices \subseteq Procs /\ procs[Committer] \in ProcRec
        /\ d \in ProcRec /\ d.pc = "persist" /\ d.slice = s
    BY DEF Types, Procs, ProcRec, StagePcs
  <2>2. w \in StagePcs \cup CommitPcs
    BY <2>1 DEF ProcRec, CommitPcs
  <2>3. c \in ProcRec /\ c.pc = w /\ c.slice = procs[Committer].slice
    <3>. HIDE DEF w
    <3>. QED  BY <2>1, <2>2 DEF ProcRec
  <2>4. procs' = [procs EXCEPT ![s] = d, ![Committer] = c]
    BY <1>3, <1>4, <2>1
  <2>. HIDE DEF c, d
  <2>. QED  BY <1>4, <2>1, <2>3, <2>4
<1>10. /\ queue' \in Seq(Slices)
       /\ \A i \in DOMAIN queue : i \in DOMAIN queue' /\ queue'[i] = queue[i]
       /\ Len(queue) + 1 \in DOMAIN queue' /\ queue'[Len(queue) + 1] = s
       /\ \A i \in DOMAIN queue' : i \in DOMAIN queue \/ i = Len(queue) + 1
       /\ DOMAIN queue = 1 .. Len(queue) /\ Len(queue) \in Nat
  BY <1>3 DEF Types
<1>11. Types'
  BY <1>3, <1>6, <1>7, <1>8, <1>9, <1>10 DEF Types
<1>12. ASSUME NEW t \in Slices \ {s} PROVE Aside(t)
  <2>1. slices'[t] = slices[t] /\ procs'[t] = procs[t] /\ upload'[t] = upload[t] /\ disk'[t] = disk[t]
    BY <1>3, <1>6, <1>7, <1>9
  <2>2. Com(t)' = Com(t) \/ {Com(t), Com(t)'} \subseteq {"none", "top"}
    BY <1>9 DEF Com
  <2>3. IsFront(t) => IsFront(t)'
    BY <1>10, <1>3 DEF IsFront, Types
  <2>4. Queued(t)' <=> Queued(t)
    BY <1>10 DEF Queued
  <2>5. mount.order <= mount'.order /\ (mount.error => mount'.error)
    BY <1>1, <1>2, <1>8
  <2>. QED  BY <1>3, <2>1, <2>2, <2>3, <2>4, <2>5, SameLook DEF Aside
<1>13. \A t \in Slices \ {s} : Sound(t)'
  BY <1>11, <1>12, Elsewhere DEF IInv
<1>14. Com(s)' \in {"none", "top"}
  BY <1>5, <1>9 DEF Com
<1>15. ~Publishing(s)' /\ ~Settled(s)' /\ Queued(s)'
  BY <1>6, <1>7, <1>9, <1>10, <1>14 DEF Publishing, Settled, Queued
<1>16. Shape(s)'
  <2>1. ~(s > mount'.order)
    BY <1>1, <1>2, <1>8
  <2>. QED  BY <1>3, <1>5, <1>6, <1>7, <1>9, <2>1 DEF Shape, StagePcs
<1>17. Claimed(s)'
  BY <1>6, <1>7, <1>9, <1>14, <1>15 DEF Claimed
<1>18. Sealed(s)'
  BY <1>3, <1>5, <1>6, <1>9, <1>14, SameLook DEF Sealed
<1>19. Backed(s)'
  BY <1>3, <1>5, <1>6, <1>7, <1>9, <1>14, SameLook DEF Backed, Recovering
<1>20. Ordered'
  <2>1. \A i \in DOMAIN queue : queue[i] \in Int /\ queue[i] <= mount.order /\ queue[i] \notin hist.cut
    BY DEF IInv, Ordered, Types, Slices
  <2>2. \A i, j \in DOMAIN queue' : i < j => queue'[i] < queue'[j]
    BY <1>1, <1>2, <1>10, <2>1 DEF IInv, Ordered
  <2>3. s \notin hist.cut
    BY <1>1, <1>2, <1>4 DEF IInv, Ordered
  <2>4. \A i \in DOMAIN queue' : queue'[i] <= mount'.order /\ queue'[i] \notin hist'.cut
    BY <1>1, <1>2, <1>3, <1>8, <1>10, <2>1, <2>3
  <2>5. \A i \in DOMAIN meta : Own(i) => meta[i].write \in Slices /\ meta[i].write <= mount.order
    <3>1. ASSUME NEW i \in DOMAIN meta, Own(i) PROVE meta[i].write \in Slices /\ meta[i].write <= mount.order
      <4>0. meta[i] \in [write : Slices, id : Nat]
        <5>. DEFINE E == [write : Slices, id : Nat]
        <5>1. meta \in Seq(E)
          BY DEF Types
        <5>. HIDE DEF E
        <5>2. meta[i] \in E
          BY <3>1, <5>1
        <5>. QED  BY <5>2 DEF E
      <4>1. meta[i].write \in Slices
        BY <4>0
      <4>2. Shown(meta[i].write)
        BY <3>1 DEF Shown
      <4>3. ~(meta[i].write > mount.order)
        BY <4>1, <4>2 DEF IInv, Sound, Shape
      <4>. QED  BY <1>1, <4>1, <4>3 DEF Slices
    <3>. QED  BY <3>1
  <2>6. \A i \in DOMAIN meta' : Own(i)' => \A k \in DOMAIN queue' : meta'[i].write <= queue'[k]
    BY <1>1, <1>2, <1>3, <1>10, <2>5 DEF IInv, Ordered, Own, Slices
  <2>7. \A c \in hist'.cut : c <= mount'.order
    BY <1>1, <1>2, <1>3, <1>8 DEF IInv, Ordered, Types, Slices
  <2>8. /\ \A i \in DOMAIN meta' : Own(i)' => meta'[i].id = meta'[i].write
        /\ NewestWins' /\ TruncatedStaysGone'
    BY <1>3 DEF IInv, Ordered, NewestWins, TruncatedStaysGone, Own
  <2>. QED  BY <2>2, <2>4, <2>6, <2>7, <2>8 DEF Ordered
<1>21. Global'
  BY <1>3, <1>9 DEF IInv, Global, Own, CommitPcs
<1>. QED  BY <1>11, <1>13, <1>16, <1>17, <1>18, <1>19, <1>20, <1>21 DEF IInv, Sound

LEMMA FsyncKeeps ==
    ASSUME IInv, Fsync
    PROVE  IInv'
<1>. /\ slices' = slices /\ queue' = queue /\ procs' = procs /\ upload' = upload /\ disk' = disk
     /\ objects' = objects /\ meta' = meta /\ recovery' = recovery /\ mount' = mount
  BY DEF Fsync
<1>1. hist' \in [flushed : SUBSET Slices, cut : SUBSET Slices] /\ hist'.cut = hist.cut
  BY DEF Fsync, IInv, Types
<1>2. Types'
  BY <1>1 DEF IInv, Types
<1>3. \A t \in Slices : Aside(t)
  BY SameLook DEF Aside, IInv, Types, Mounts
<1>4. \A t \in Slices : Sound(t)'
  BY <1>2, <1>3, Elsewhere DEF IInv
<1>5. Ordered'
  BY <1>1 DEF IInv, Ordered, NewestWins, TruncatedStaysGone, Own
<1>6. Global'
  BY DEF IInv, Global, Own
<1>. QED  BY <1>2, <1>4, <1>5, <1>6 DEF IInv

LEMMA TruncateKeeps ==
    ASSUME IInv, Truncate
    PROVE  IInv'
<1>0. Types /\ Ordered /\ Global
  BY DEF IInv
<1>1. /\ slices' = slices /\ procs' = procs /\ upload' = upload /\ disk' = disk /\ objects' = objects
      /\ recovery' = recovery /\ meta' = <<>> /\ queue' = <<>> /\ mount' = Counted
      /\ ~mount.error /\ \A i \in DOMAIN queue : slices[queue[i]].state = "Committed"
  BY DEF Truncate
<1>2. mount' \in Mounts /\ mount'.order = mount.order /\ mount'.error = mount.error
  BY <1>0, <1>1, MountSet
<1>3. hist' \in [flushed : SUBSET Slices, cut : SUBSET Slices] /\ hist'.cut = 1 .. mount.order
  <2>. DEFINE c == 1 .. mount.order
  <2>1. c \in SUBSET Slices /\ hist \in [flushed : SUBSET Slices, cut : SUBSET Slices]
    <3>1. mount.order \in 0 .. MaxWrites /\ hist \in [flushed : SUBSET Slices, cut : SUBSET Slices]
      BY <1>0 DEF Types, Mounts
    <3>2. c \in SUBSET Slices
      BY <3>1, WriteBackAssumption DEF Slices
    <3>. QED  BY <3>1, <3>2
  <2>2. hist' = [hist EXCEPT !.cut = c]
    BY DEF Truncate
  <2>. HIDE DEF c
  <2>3. hist' \in [flushed : SUBSET Slices, cut : SUBSET Slices] /\ hist'.cut = c
    BY <2>1, <2>2
  <2>. QED  BY <2>3 DEF c
<1>4. queue' \in Seq(Slices) /\ meta' \in Seq([write : Slices, id : Nat]) /\ DOMAIN queue' = {} /\ DOMAIN meta' = {}
  BY <1>1
<1>5. Types'
  BY <1>0, <1>1, <1>2, <1>3, <1>4 DEF Types
<1>6. ASSUME NEW s \in Slices PROVE Sound(s)'
  <2>0. Sound(s)
    BY DEF IInv
  <2>1. IsFront(s) => Queued(s)
    BY <1>0, FrontLeast
  <2>2. Queued(s) => slices[s].state = "Committed"
    BY <1>1 DEF Queued
  <2>3. ~Publishing(s) /\ (slices[s].state = "none" \/ Settled(s))
    BY <1>1, <2>0, <2>1, <2>2 DEF Sound, Claimed, Settled
  <2>4. /\ Com(s)' = Com(s) /\ ~Queued(s)' /\ ~Shown(s)' /\ (Recovering(s)' <=> Recovering(s))
        /\ (Publishing(s)' <=> Publishing(s)) /\ (Settled(s)' <=> Settled(s))
    BY <1>1, <1>4 DEF Com, Queued, Shown, Recovering, Publishing, Settled
  <2>5. Shape(s)'
    BY <1>1, <1>2, <2>0, <2>4 DEF Sound, Shape
  <2>6. Claimed(s)'
    <3>1. Settled(s) => slices[s].claimed
      BY DEF Settled
    <3>. QED  BY <1>1, <1>2, <2>0, <2>1, <2>2, <2>3, <2>4, <3>1 DEF Sound, Claimed, Shape
  <2>7. Sealed(s)'
    BY <1>1, <2>0, <2>4 DEF Sound, Sealed
  <2>8. slices[s].state = "none" => slices[s].seal = "no"
    BY <2>0 DEF Sound, Shape, NewSlice
  <2>9. Backed(s)'
    BY <1>1, <2>0, <2>3, <2>4, <2>8 DEF Sound, Backed
  <2>. QED  BY <2>5, <2>6, <2>7, <2>9 DEF Sound
<1>7. Ordered'
  BY <1>2, <1>3, <1>4 DEF Ordered, NewestWins, TruncatedStaysGone
<1>8. Global'
  BY <1>0, <1>1, <1>4 DEF Global
<1>. QED  BY <1>5, <1>6, <1>7, <1>8 DEF IInv

LEMMA CrashKeeps ==
    ASSUME IInv, Crash
    PROVE  IInv'
<1>0. Types /\ Ordered /\ Global
  BY DEF IInv
<1>1. /\ slices' = [s \in Slices |-> NewSlice] /\ procs' = [p \in Procs |-> NoProc]
      /\ upload' = [s \in Slices |-> "none"] /\ queue' = <<>>
      /\ disk' = disk /\ objects' = objects /\ meta' = meta /\ hist' = hist
      /\ mount' = [Counted EXCEPT !.error = FALSE]
  BY DEF Crash
<1>2. mount' \in Mounts /\ mount'.order = mount.order
  BY <1>0, <1>1, MountSet
<1>3. /\ recovery' \in [pc : {"idle", "scan", "next", "write", "remove"}, todo : SUBSET Slices,
                     slice : Slices \cup {NoSlice}, id : Nat]
      /\ recovery'.pc = "scan" /\ recovery'.todo = {}
  BY DEF Crash, Idle
<1>4. NewSlice \in SliceRec /\ NoProc \in ProcRec /\ NoProc.pc = "none" /\ NoProc.slice = 0
  BY DEF NewSlice, NoProc, SliceRec, ProcRec, States, Seals, StagePcs, NoSlice
<1>5. Types' /\ DOMAIN queue' = {}
  <2>1. slices' \in [Slices -> SliceRec] /\ procs' \in [Procs -> ProcRec] /\ upload' \in [Slices -> Uploads]
    BY <1>1, <1>4 DEF Uploads
  <2>2. queue' \in Seq(Slices) /\ DOMAIN queue' = {}
    BY <1>1
  <2>. QED  BY <1>0, <1>1, <1>2, <1>3, <2>1, <2>2 DEF Types
<1>6. ASSUME NEW s \in Slices PROVE Sound(s)'
  <2>0. Sound(s)
    BY DEF IInv
  <2>1. /\ slices'[s] = NewSlice /\ procs'[s].pc = "none" /\ upload'[s] = "none" /\ procs'[Committer].pc = "none"
    BY <1>1, <1>4 DEF Procs
  <2>2. Com(s)' = "none" /\ ~Queued(s)' /\ ~Recovering(s)'
    BY <1>3, <1>5, <2>1 DEF Com, Queued, Recovering
  <2>3. slices'[s].state = "none" /\ slices'[s].staged = FALSE /\ slices'[s].seal = "no" /\ slices'[s].claimed = FALSE
    BY <2>1 DEF NewSlice
  <2>4. ~Publishing(s)' /\ ~Settled(s)'
    BY <2>1, <2>2, <2>3 DEF Publishing, Settled
  <2>5. Shape(s)'
    BY <1>1, <1>2, <2>0, <2>1, <2>2, <2>3, SameLook DEF Sound, Shape, StagePcs
  <2>6. Claimed(s)'
    BY <2>1, <2>2, <2>3, <2>4 DEF Claimed
  <2>7. Sealed(s)'
    BY <2>1, <2>2, <2>3 DEF Sealed
  <2>8. Backed(s)'
    BY <1>1, <1>3, <2>0, <2>1, <2>2, <2>3, SameLook DEF Sound, Backed
  <2>. QED  BY <2>5, <2>6, <2>7, <2>8 DEF Sound
<1>7. Ordered'
  BY <1>0, <1>1, <1>2, <1>5 DEF Ordered, NewestWins, TruncatedStaysGone, Own
<1>8. Global'
  <2>1. procs'[Committer].pc = "none"
    BY <1>1, <1>4 DEF Procs
  <2>. QED  BY <1>0, <1>1, <1>3, <2>1 DEF Global, Own, CommitPcs
<1>. QED  BY <1>5, <1>6, <1>7, <1>8 DEF IInv

\* The record of recovery.
Recs == [pc : {"idle", "scan", "next", "write", "remove"}, todo : SUBSET Slices,
         slice : Slices \cup {NoSlice}, id : Nat]

\* A step of recovery that leaves the list and the records on disk alone.
LEMMA RecoveryKeeps ==
    ASSUME IInv, recovery' \in Recs, mount' \in Mounts, mount'.order = mount.order, mount'.error = mount.error,
           slices' = slices, queue' = queue, procs' = procs, upload' = upload, disk' = disk,
           meta' = meta, hist' = hist, objects \subseteq objects',
           recovery'.pc # "remove",
           recovery'.pc = "write" => recovery'.slice \in Slices /\ recovery'.id \in objects' /\ recovery'.id \notin Slices,
           \A s \in Slices : Recovering(s)' => Recovering(s) \/ disk[s] = "sealed"
    PROVE  IInv'
<1>0. Types /\ Ordered /\ Global
  BY DEF IInv
<1>1. Types'
  BY <1>0 DEF Types, Recs
<1>2. ASSUME NEW s \in Slices PROVE Sound(s)'
  <2>0. Sound(s)
    BY DEF IInv
  <2>1. (Publishing(s)' <=> Publishing(s)) /\ (Settled(s)' <=> Settled(s))
    BY SameLook DEF Publishing, Settled
  <2>2. Shape(s)'
    BY <2>0, SameLook DEF Sound, Shape
  <2>3. Claimed(s)'
    BY <2>0, <2>1, SameLook DEF Sound, Claimed
  <2>4. Sealed(s)'
    BY <2>0, <2>1, SameLook DEF Sound, Sealed
  <2>5. Backed(s)'
    BY <2>0, <2>1, SameLook DEF Sound, Backed
  <2>. QED  BY <2>2, <2>3, <2>4, <2>5 DEF Sound
<1>3. Ordered'
  BY <1>0 DEF Ordered, NewestWins, TruncatedStaysGone, Own
<1>4. Global'
  BY <1>0 DEF Global, Own
<1>. QED  BY <1>1, <1>2, <1>3, <1>4 DEF IInv

LEMMA RecoverScanKeeps ==
    ASSUME IInv, RecoverScan
    PROVE  IInv'
<1>1. /\ slices' = slices /\ queue' = queue /\ procs' = procs /\ upload' = upload /\ disk' = disk
      /\ meta' = meta /\ hist' = hist /\ objects' = objects /\ mount' = mount
  BY DEF RecoverScan
<1>. DEFINE T == {s \in Slices : disk[s] = "sealed"}
<1>2. recovery' = [pc |-> "next", todo |-> T, slice |-> NoSlice, id |-> 0]
  BY DEF RecoverScan, Idle
<1>3. T \in SUBSET Slices /\ \A s \in T : disk[s] = "sealed"
  OBVIOUS
<1>. HIDE DEF T
<1>4. recovery' \in Recs /\ recovery'.pc = "next" /\ recovery'.todo = T
  BY <1>2, <1>3 DEF Recs
<1>5. \A s \in Slices : Recovering(s)' => disk[s] = "sealed"
  BY <1>3, <1>4 DEF Recovering
<1>6. mount' \in Mounts
  BY <1>1 DEF IInv, Types
<1>. QED  BY <1>1, <1>4, <1>5, <1>6, RecoveryKeeps

LEMMA RecoverUploadKeeps ==
    ASSUME IInv, RecoverUpload
    PROVE  IInv'
<1>0. /\ recovery.pc = "next" /\ recovery \in Recs /\ mount \in Mounts
      /\ slices' = slices /\ queue' = queue /\ procs' = procs /\ upload' = upload /\ disk' = disk
      /\ meta' = meta /\ hist' = hist
  BY DEF RecoverUpload, IInv, Types, Recs
<1>1. PICK s \in recovery.todo :
         IF disk[s] = "none"
         THEN /\ recovery' = [recovery EXCEPT !.todo = @ \ {s}]
              /\ UNCHANGED <<objects, mount>>
         ELSE /\ recovery' = [pc |-> "write", todo |-> recovery.todo \ {s}, slice |-> s, id |-> mount.nextid]
              /\ objects' = objects \cup {mount.nextid}
              /\ mount' = [mount EXCEPT !.nextid = @ + 1]
  BY DEF RecoverUpload
<1>2. CASE disk[s] = "none"
  <2>1. recovery' = [recovery EXCEPT !.todo = @ \ {s}] /\ objects' = objects /\ mount' = mount
    BY <1>1, <1>2
  <2>2. recovery' \in Recs /\ recovery'.pc = "next" /\ recovery'.todo \subseteq recovery.todo
    BY <1>0, <2>1 DEF Recs
  <2>3. \A t \in Slices : Recovering(t)' => Recovering(t)
    BY <2>2 DEF Recovering
  <2>. QED  BY <1>0, <2>1, <2>2, <2>3, RecoveryKeeps
<1>3. CASE disk[s] # "none"
  <2>1. /\ recovery' = [pc |-> "write", todo |-> recovery.todo \ {s}, slice |-> s, id |-> mount.nextid]
        /\ objects' = objects \cup {mount.nextid}
        /\ mount' = [mount EXCEPT !.nextid = @ + 1]
    BY <1>1, <1>3
  <2>2. mount.nextid \in Nat /\ mount.nextid \notin Slices /\ s \in Slices
    BY <1>0 DEF Mounts, Slices, Recs
  <2>3. /\ recovery' \in Recs /\ recovery'.pc = "write" /\ recovery'.todo \subseteq recovery.todo
        /\ recovery'.slice = s /\ recovery'.id = mount.nextid
    BY <1>0, <2>1, <2>2 DEF Recs
  <2>4. \A t \in Slices : Recovering(t)' => Recovering(t)
    BY <2>3 DEF Recovering
  <2>5. mount' \in Mounts /\ mount'.order = mount.order /\ mount'.error = mount.error
    <3>. DEFINE n == Nat \ 0 .. MaxWrites
                r == 0 .. MaxWrites
    <3>1. mount \in [order : r, nextid : n, events : Nat, error : BOOLEAN] /\ mount.nextid \in n
      BY <1>0 DEF Mounts
    <3>2. mount.nextid + 1 \in n
      BY <3>1, WriteBackAssumption
    <3>. HIDE DEF n, r
    <3>3. mount' = [order |-> mount.order, nextid |-> mount.nextid + 1, events |-> mount.events, error |-> mount.error]
      BY <2>1, <3>1
    <3>4. mount' \in [order : r, nextid : n, events : Nat, error : BOOLEAN]
      BY <3>1, <3>2, <3>3
    <3>. QED  BY <3>3, <3>4 DEF Mounts, n, r
  <2>. QED  BY <1>0, <2>1, <2>2, <2>3, <2>4, <2>5, RecoveryKeeps
<1>. QED  BY <1>2, <1>3

LEMMA RecoverWriteKeeps ==
    ASSUME IInv, RecoverWrite
    PROVE  IInv'
<1>0. Types /\ Ordered /\ Global /\ recovery.pc = "write" /\ recovery \in Recs /\ recovery.id \in Nat
  BY DEF IInv, RecoverWrite, Types, Recs
<1>1. PICK s \in Slices : s = recovery.slice
  BY <1>0 DEF Global
<1>2. PICK d \in Nat : d = recovery.id
  BY <1>0
<1>3. d \notin Slices /\ d \in objects
  BY <1>0, <1>2 DEF Global
<1>4. /\ slices' = slices /\ queue' = queue /\ procs' = procs /\ upload' = upload /\ disk' = disk
      /\ hist' = hist /\ objects' = objects /\ mount' = mount
      /\ meta' = Append(meta, Entry(s, d))
      /\ recovery' = [recovery EXCEPT !.pc = "remove"]
  BY <1>1, <1>2 DEF RecoverWrite
<1>5. recovery' \in Recs /\ recovery'.pc = "remove" /\ recovery'.todo = recovery.todo
      /\ recovery'.slice = s /\ recovery'.id = d
  BY <1>0, <1>1, <1>2, <1>4 DEF Recs
<1>6. Entry(s, d) \in [write : Slices, id : Nat] /\ Entry(s, d).id = d /\ Entry(s, d).write = s
  BY DEF Entry
<1>7. /\ \A i \in DOMAIN meta : i \in DOMAIN meta' /\ meta'[i] = meta[i]
      /\ Len(meta) + 1 \in DOMAIN meta' /\ meta'[Len(meta) + 1] = Entry(s, d)
      /\ \A i \in DOMAIN meta' : i \in DOMAIN meta \/ i = Len(meta) + 1
  BY <1>0, <1>4, <1>6, Appended
<1>8. Types'
  <2>1. meta' \in Seq([write : Slices, id : Nat])
    BY <1>0, <1>4, <1>6 DEF Types
  <2>. QED  BY <1>0, <1>4, <1>5, <2>1 DEF Types, Recs
<1>9. \A i \in DOMAIN meta' : Own(i)' => i \in DOMAIN meta /\ Own(i) /\ meta'[i] = meta[i]
  BY <1>3, <1>6, <1>7 DEF Own
<1>10. Ordered'
  BY <1>0, <1>4, <1>9 DEF Ordered, NewestWins, TruncatedStaysGone
<1>11. Global'
  <2>1. \A i \in DOMAIN meta' : ~Own(i)' => meta'[i].id \in objects'
    BY <1>0, <1>3, <1>4, <1>6, <1>7 DEF Global, Own
  <2>. QED  BY <1>0, <1>1, <1>4, <1>5, <2>1 DEF Global
<1>12. \A t \in Slices : (Shown(t)' => Shown(t)) /\ (Replayed(t) => Replayed(t)') /\ (Recovering(t)' => Recovering(t))
  BY <1>0, <1>1, <1>5, <1>7, <1>9 DEF Shown, Replayed, Own, Recovering
<1>13. Replayed(s)'
  BY <1>3, <1>6, <1>7 DEF Replayed, Own
<1>14. ASSUME NEW t \in Slices \ {s} PROVE Sound(t)'
  <2>1. Aside(t)
    BY <1>0, <1>4, <1>5, <1>12, SameLook DEF Aside, Types, Mounts
  <2>. QED  BY <1>0, <1>8, <2>1, Elsewhere DEF IInv
<1>15. Sound(s)'
  <2>0. Sound(s)
    BY DEF IInv
  <2>1. (Publishing(s)' <=> Publishing(s)) /\ (Settled(s)' <=> Settled(s))
    BY <1>4, SameLook DEF Publishing, Settled
  <2>2. Shape(s)'
    BY <1>4, <1>12, <2>0, SameLook DEF Sound, Shape
  <2>3. Claimed(s)'
    BY <1>4, <2>0, <2>1, SameLook DEF Sound, Claimed
  <2>4. Sealed(s)'
    BY <1>4, <1>12, <2>0, <2>1, SameLook DEF Sound, Sealed
  <2>5. Backed(s)'
    BY <1>4, <1>12, <1>13, <2>0, <2>1, SameLook DEF Sound, Backed
  <2>. QED  BY <2>2, <2>3, <2>4, <2>5 DEF Sound
<1>. QED  BY <1>8, <1>10, <1>11, <1>14, <1>15 DEF IInv

LEMMA RecoverRemoveKeeps ==
    ASSUME IInv, RecoverRemove
    PROVE  IInv'
<1>0. Types /\ Ordered /\ Global /\ recovery.pc = "remove" /\ recovery \in Recs
  BY DEF IInv, RecoverRemove, Types, Recs
<1>1. PICK s \in Slices : s = recovery.slice
  BY <1>0 DEF Global
<1>4. /\ slices' = slices /\ queue' = queue /\ procs' = procs /\ upload' = upload
      /\ hist' = hist /\ objects' = objects /\ mount' = mount /\ meta' = meta
      /\ disk' = [disk EXCEPT ![s] = "none"]
      /\ recovery' = [recovery EXCEPT !.pc = "next"]
  BY <1>1 DEF RecoverRemove, Removed
<1>5. recovery' \in Recs /\ recovery'.pc = "next" /\ recovery'.todo = recovery.todo
  BY <1>0, <1>4 DEF Recs
<1>6. disk' \in [Slices -> Records] /\ disk'[s] = "none" /\ \A t \in Slices \ {s} : disk'[t] = disk[t]
  BY <1>0, <1>4 DEF Types, Records
<1>8. Types'
  BY <1>0, <1>4, <1>5, <1>6 DEF Types, Recs
<1>10. Ordered'
  BY <1>0, <1>4 DEF Ordered, NewestWins, TruncatedStaysGone, Own
<1>11. Global'
  BY <1>0, <1>4, <1>5 DEF Global, Own
<1>12. \A t \in Slices : Recovering(t)' => Recovering(t)
  BY <1>0, <1>5 DEF Recovering
<1>14. ASSUME NEW t \in Slices \ {s} PROVE Sound(t)'
  <2>1. Aside(t)
    BY <1>0, <1>4, <1>5, <1>6, <1>12, SameLook DEF Aside, Types, Mounts
  <2>. QED  BY <1>0, <1>8, <2>1, Elsewhere DEF IInv
<1>15. Sound(s)'
  <2>0. Sound(s) /\ Recovering(s)
    BY <1>0, <1>1 DEF IInv, Recovering
  <2>1. (Publishing(s)' <=> Publishing(s)) /\ (Settled(s)' <=> Settled(s))
    BY <1>4, SameLook DEF Publishing, Settled
  <2>2. Shape(s)'
    BY <1>4, <1>6, <1>12, <2>0, SameLook DEF Sound, Shape
  <2>3. Claimed(s)'
    BY <1>4, <2>0, <2>1, SameLook DEF Sound, Claimed
  <2>4. slices[s].state = "none" => slices[s].seal = "no" /\ slices[s].staged = FALSE
    BY <2>0 DEF Sound, Shape, NewSlice
  <2>5. Sealed(s)'
    BY <1>4, <1>6, <1>12, <2>0, <2>1, <2>4, SameLook DEF Sound, Sealed
  <2>6. Replayed(s) \/ (~Shown(s) /\ (slices[s].state = "none" \/ Settled(s)))
    BY <1>0, <1>1, <2>0 DEF Sound, Backed
  <2>7. Backed(s)'
    BY <1>4, <1>5, <2>0, <2>1, <2>4, <2>6, SameLook DEF Sound, Backed
  <2>. QED  BY <2>2, <2>3, <2>5, <2>7 DEF Sound
<1>. QED  BY <1>8, <1>10, <1>11, <1>14, <1>15 DEF IInv

-----------------------------------------------------------------------------
(* The theorems.                                                             *)

\* The invariant holds at the start.
LEMMA InvInit ==
    ASSUME Init
    PROVE  IInv
<1>0. /\ slices = [s \in Slices |-> NewSlice] /\ procs = [p \in Procs |-> NoProc]
      /\ upload = [s \in Slices |-> "none"] /\ disk = [s \in Slices |-> "none"]
      /\ queue = <<>> /\ meta = <<>> /\ objects = {}
  BY DEF Init
<1>1. /\ recovery \in [pc : {"idle", "scan", "next", "write", "remove"}, todo : SUBSET Slices,
                       slice : Slices \cup {NoSlice}, id : Nat]
      /\ recovery.pc = "idle" /\ recovery.todo = {}
  BY DEF Init, Idle
<1>2. mount \in Mounts /\ mount.order = 0 /\ hist.cut = {} /\ hist \in [flushed : SUBSET Slices, cut : SUBSET Slices]
  BY WriteBackAssumption DEF Init, Mounts
<1>3. NewSlice \in SliceRec /\ NoProc \in ProcRec /\ NoProc.pc = "none"
  BY DEF NewSlice, NoProc, SliceRec, ProcRec, States, Seals, StagePcs, NoSlice
<1>4. queue \in Seq(Slices) /\ meta \in Seq([write : Slices, id : Nat]) /\ DOMAIN queue = {} /\ DOMAIN meta = {}
  BY <1>0
<1>5. Types
  BY <1>0, <1>1, <1>2, <1>3, <1>4 DEF Types, Uploads, Records
<1>6. ASSUME NEW s \in Slices PROVE Sound(s)
  <2>1. /\ slices[s] = NewSlice /\ procs[s].pc = "none" /\ upload[s] = "none" /\ disk[s] = "none"
        /\ procs[Committer].pc = "none"
    BY <1>0, <1>3 DEF Procs
  <2>2. Com(s) = "none" /\ ~Queued(s) /\ ~Recovering(s) /\ ~Shown(s)
    BY <1>1, <1>4, <2>1 DEF Com, Queued, Recovering, Shown
  <2>3. slices[s].state = "none" /\ slices[s].staged = FALSE /\ slices[s].seal = "no" /\ slices[s].claimed = FALSE
    BY <2>1 DEF NewSlice
  <2>4. ~Publishing(s) /\ ~Settled(s)
    BY <2>1, <2>2, <2>3 DEF Publishing, Settled
  <2>5. Shape(s)
    BY <2>1, <2>2, <2>3 DEF Shape, StagePcs
  <2>6. Claimed(s)
    BY <2>1, <2>2, <2>3, <2>4 DEF Claimed
  <2>7. Sealed(s)
    BY <2>1, <2>2, <2>3 DEF Sealed
  <2>8. Backed(s)
    BY <1>1, <2>1, <2>2, <2>3 DEF Backed
  <2>. QED  BY <2>5, <2>6, <2>7, <2>8 DEF Sound
<1>7. Ordered
  BY <1>2, <1>4 DEF Ordered, NewestWins, TruncatedStaysGone
<1>8. Global
  <2>1. procs[Committer].pc = "none"
    BY <1>0, <1>3 DEF Procs
  <2>. QED  BY <1>1, <1>4, <2>1 DEF Global, CommitPcs
<1>. QED  BY <1>5, <1>6, <1>7, <1>8 DEF IInv

\* A step of a task that may be the stage sub-task's or the commit task's.
LEMMA ProcStepKeeps ==
    ASSUME IInv, NEW p \in Procs, ProcStep(p)
    PROVE  IInv'
<1>1. procs[p].pc \notin {"none", "top"}
  BY DEF ProcStep, Seal, SealEnds, Enter, Claim, EarlyWrite, At
<1>2. PICK s \in Slices : procs[p].slice = s
  BY <1>1, OneSlice
<1>3. CASE Seal(p)
  BY <1>2, <1>3, SealKeeps
<1>4. CASE SealEnds(p)
  BY <1>2, <1>4, SealEndsKeeps
<1>5. CASE Enter(p)
  BY <1>2, <1>5, EnterKeeps
<1>6. CASE Claim(p)
  BY <1>2, <1>6, ClaimKeeps
<1>7. CASE EarlyWrite(p)
  BY <1>2, <1>7, EarlyWriteKeeps
<1>. QED  BY <1>3, <1>4, <1>5, <1>6, <1>7 DEF ProcStep

\* Every step keeps the invariant.
LEMMA InvNext ==
    ASSUME IInv, [Next]_vars
    PROVE  IInv'
<1>1. CASE \E stage_first \in BOOLEAN : Write(stage_first)
  BY <1>1, WriteKeeps
<1>2. ASSUME NEW s \in Slices, UploadStep(s) PROVE IInv'
  BY <1>2, UploadPutKeeps, UploadFailsKeeps, UploadLandsKeeps, UploadRemoveKeeps, TryClaimKeeps,
     TryWriteKeeps, TryCleanKeeps DEF UploadStep
<1>3. ASSUME NEW s \in Slices, StageStep(s) PROVE IInv'
  <2>1. s \in Procs
    BY DEF Procs
  <2>. QED  BY <1>3, <2>1, StagePersistKeeps, StageFrontKeeps, ProcStepKeeps DEF StageStep
<1>4. CASE CommitStep
  <2>1. Committer \in Procs
    BY DEF Procs
  <2>. QED  BY <1>4, <2>1, CommitTopKeeps, CommitLateKeeps, CommitCleanKeeps, CommitMoveKeeps, ProcStepKeeps
            DEF CommitStep
<1>5. CASE Fsync \/ Truncate \/ Crash
  BY <1>5, FsyncKeeps, TruncateKeeps, CrashKeeps
<1>6. CASE RecoverStep
  BY <1>6, RecoverScanKeeps, RecoverUploadKeeps, RecoverWriteKeeps, RecoverRemoveKeeps DEF RecoverStep
<1>7. CASE UNCHANGED vars
  <2>1. /\ slices' = slices /\ queue' = queue /\ procs' = procs /\ upload' = upload /\ disk' = disk
        /\ objects' = objects /\ meta' = meta /\ recovery' = recovery /\ mount' = mount /\ hist' = hist
    BY <1>7 DEF vars
  <2>2. Types'
    BY <2>1 DEF IInv, Types
  <2>3. \A t \in Slices : Aside(t)
    BY <2>1, SameLook DEF Aside, IInv, Types, Mounts
  <2>4. \A t \in Slices : Sound(t)'
    BY <2>2, <2>3, Elsewhere DEF IInv
  <2>5. Ordered'
    BY <2>1 DEF IInv, Ordered, NewestWins, TruncatedStaysGone, Own
  <2>6. Global'
    BY <2>1 DEF IInv, Global, Own
  <2>. QED  BY <2>2, <2>4, <2>5, <2>6 DEF IInv
<1>. QED  BY <1>1, <1>2, <1>3, <1>4, <1>5, <1>6, <1>7 DEF Next

LEMMA InvAlways == Spec => []IInv
<1>1. Init => IInv
  BY InvInit
<1>2. IInv /\ [Next]_vars => IInv'
  BY InvNext
<1>. QED  BY <1>1, <1>2, PTL DEF Spec

\* Overlapping writes are published in the order they were made, whichever of
\* the stage sub-task, the upload task and commit_chunk publishes each, for any
\* number of writes, crashes, failures and metadata errors.
THEOREM PublishedInOrder == Spec => []NewestWins
<1>1. IInv => NewestWins
  BY DEF IInv, Ordered
<1>. QED  BY <1>1, InvAlways, PTL

\* The mount publishes nothing that a truncation cut off before.
THEOREM CutStaysUnpublished == Spec => []TruncatedStaysGone
<1>1. IInv => TruncatedStaysGone
  BY DEF IInv, Ordered
<1>. QED  BY <1>1, InvAlways, PTL

\* With writeback_require_stage_before_commit, whatever the metadata shows has
\* its blocks, a replay with its blocks, or a sealed record to replay, after
\* any step and so after a crash at any moment.
THEOREM CrashesAreRecoverable ==
    ASSUME RequireStage
    PROVE  Spec => []Recoverable
<1>1. ASSUME IInv PROVE Recoverable
  <2>0. Types /\ Ordered /\ Global
    BY <1>1 DEF IInv
  <2>1. \A i \in DOMAIN meta : meta[i].write \in Slices
    <3>. DEFINE E == [write : Slices, id : Nat]
    <3>1. meta \in Seq(E)
      BY <2>0 DEF Types
    <3>. HIDE DEF E
    <3>2. \A i \in DOMAIN meta : meta[i] \in E
      BY <3>1
    <3>. QED  BY <3>2 DEF E
  <2>2. TypeOK
    <3>1. ASSUME NEW s \in Slices
          PROVE  /\ slices[s].state \in States /\ slices[s].seal \in Seals
                 /\ disk[s] \in Records /\ upload[s] \in Uploads
      BY <2>0 DEF Types, SliceRec
    <3>2. ASSUME NEW p \in Procs
          PROVE  procs[p].pc \in StagePcs \cup CommitPcs
      BY <2>0 DEF Types, ProcRec
    <3>3. mount.nextid \in Nat \ Slices
      BY <2>0 DEF Types, Mounts, Slices
    <3>4. recovery.pc \in {"idle", "scan", "next", "write", "remove"}
      BY <2>0 DEF Types
    <3>5. \A p \in Procs : procs[p].pc \in {"none", "persist", "seal", "sealing", "reseal", "resealing",
             "front", "enter", "claim", "write", "done", "failed", "top", "late", "clean", "move"}
      BY <3>2 DEF StagePcs, CommitPcs
    <3>. QED  BY <2>1, <3>1, <3>3, <3>4, <3>5 DEF TypeOK, States, Seals, Records, Uploads
  <2>3. ASSUME NEW i \in DOMAIN meta PROVE Stored(meta[i].write) \/ disk[meta[i].write] = "sealed"
    <3>1. PICK s \in Slices : s = meta[i].write
      BY <2>1
    <3>2. Replayed(s) => Stored(s)
      BY <2>0 DEF Replayed, Stored, Global
    <3>3. CASE ~Own(i)
      BY <3>1, <3>3, <2>0 DEF Stored, Global
    <3>4. CASE Own(i)
      <4>1. Shown(s) /\ meta[i].id = s
        BY <2>0, <3>1, <3>4 DEF Shown, Ordered
      <4>2. s \in objects \/ disk[s] = "sealed" \/ Replayed(s)
        BY <1>1, <4>1 DEF IInv, Sound, Backed
      <4>3. s \in objects => Stored(s)
        BY <3>1, <4>1 DEF Stored
      <4>. QED  BY <3>1, <3>2, <4>2, <4>3
    <3>. QED  BY <3>3, <3>4
  <2>. QED  BY <2>2, <2>3 DEF Recoverable, PublishedIsRecoverable
<1>. QED  BY <1>1, InvAlways, PTL

=============================================================================
