--------------------------- MODULE FileSizeProofs ---------------------------
(* Proofs about FileSize for any number of requests, any writes, any chunk   *)
(* size and any bound on the size of the file.                               *)
EXTENDS FileSize, TLAPS

-----------------------------------------------------------------------------
(* The inductive invariant.                                                  *)

\* The step of a truncate that has drained the writer, and that has cut.
Cutting == {"get", "fill", "chunk", "save", "insert", "finish"}
Cut == {"insert", "finish"}

Trunc(t, pcs) == task[t].op = "truncate" /\ task[t].pc \in pcs
Reached == \E t \in Tasks : Trunc(t, Cut)

\* The steps of each call.
Shape(c) ==
    /\ c.op = "none" => c = Idle
    /\ c.op = "write" => c.pc = "mark"
    /\ c.op = "fallocate" => c.pc \in {"insert", "extend"}
    /\ c.op = "truncate" => c.pc \in Cutting \cup {"drain", "lock", "redrain"}
    /\ c.op = "stat" => c.pc \in {"get", "fill", "finish"}
    /\ c.op # "zero"
    /\ c.pc \in {"save", "insert"} => c.op \in {"truncate", "chmod", "flush", "fallocate"}

Shapes == \A t \in Tasks : Shape(task[t])

\* Who holds the mutation lock, and what it keeps out: buffered writes and
\* fallocate while a truncate is under way.
Locks ==
    /\ \A t \in Tasks : task[t].op = "write" \/ Trunc(t, Cutting \cup {"redrain"}) => holder = t
    /\ \A t \in Tasks : holder = t => task[t].op = "write" \/ Trunc(t, Cutting \cup {"redrain"})
    /\ \A t \in Tasks : Trunc(t, Cutting) => pend = {}
    /\ Truncating => \A t \in Tasks : ~Falloc(t)

\* Where the bytes of a write are.
Bytewise ==
    /\ NoWriteLost
    /\ \A s \in pend : Span(s[1], s[2]) \subseteq kept
    /\ \A s \in pend : s[3] = "sent" => Span(s[1], s[2]) \subseteq data
    /\ \A t \in Tasks : Trunc(t, Cutting \ {"get"}) => \A b \in kept : b < task[t].arg

\* The cached size is the record's, unless somebody is about to say so.
CacheFresh ==
    \/ cache \in {NoEntry, size}
    \/ \E s \in pend : s[3] = "sent"
    \/ \E t \in Tasks : At(t, "fallocate", "insert") /\ task[t].arg = size
    \/ \E t \in Tasks : Trunc(t, {"insert"})

\* What a truncate has read, and how far it has come.
Progress(t) ==
    /\ Trunc(t, {"redrain", "get"}) => data \subseteq kept
    /\ Trunc(t, {"fill", "chunk"}) => task[t].read = size
    /\ Trunc(t, {"chunk"}) => \A b \in data : b >= task[t].arg => b \div ChunkSize >= task[t].base
    /\ Trunc(t, {"save", "insert", "finish"}) => \A b \in data : b < task[t].arg
    /\ Trunc(t, Cut) => size = task[t].arg
    /\ Trunc(t, Cutting \ {"get"}) => \A b \in data : b < task[t].arg => b \in kept

CutProgress == \A t \in Tasks : Progress(t)

\* The local size is behind the record only while a write or a fallocate that
\* will raise it is under way, and ahead only of data still buffered.
SizesFollow ==
    /\ size > local =>
          \/ Reached
          \/ \E t \in Tasks : task[t].op \in {"write", "fallocate"} /\ task[t].arg >= size
    /\ local > size => Reached \/ \E s \in pend : s[3] = "buffered" /\ s[2] >= local
    /\ \A s \in pend : s[2] > local => \E t \in Tasks : task[t].op = "write" /\ task[t].arg >= s[2]
    /\ \A t \in Tasks : task[t].op = "write" =>
          task[t].arg <= size \/ \E s \in pend : s[3] = "buffered" /\ s[2] >= task[t].arg
    /\ \A t \in Tasks : task[t].op = "fallocate" => task[t].arg <= size
    /\ promised <= size \/ Reached
    /\ \A b \in data : b < size

Fresh == TruncatedGone /\ CacheFresh /\ CutProgress /\ SizesFollow

IInv == TypeOK /\ Shapes /\ Locks /\ Bytewise /\ (~stale => Fresh)

-----------------------------------------------------------------------------
(* Division, for the chunks that a truncate goes through.                    *)

LEMMA DivParts ==
  ASSUME NEW c \in Nat \ {0}, NEW a \in Nat
  PROVE  /\ a \div c \in Nat /\ a % c \in Nat /\ a % c < c /\ a = c * (a \div c) + (a % c)
  OBVIOUS

LEMMA DivSmall ==
  ASSUME NEW c \in Nat \ {0}, NEW a \in Nat
  PROVE  a \div c <= a
  <1>1. /\ a \div c \in Nat /\ a % c \in Nat /\ a = c * (a \div c) + (a % c) BY DivParts
  <1>2. c * (a \div c) >= a \div c BY <1>1
  <1> QED BY <1>1, <1>2

LEMMA DivMono ==
  ASSUME NEW c \in Nat \ {0}, NEW a \in Nat, NEW b \in Nat, a <= b
  PROVE  a \div c <= b \div c
  <1>1. /\ a \div c \in Nat /\ a % c \in Nat /\ a % c < c /\ a = c * (a \div c) + (a % c) BY DivParts
  <1>2. /\ b \div c \in Nat /\ b % c \in Nat /\ b % c < c /\ b = c * (b \div c) + (b % c) BY DivParts
  <1> SUFFICES ASSUME a \div c > b \div c PROVE FALSE BY <1>1, <1>2
  <1> DEFINE x == a \div c
             y == b \div c
  <1> HIDE DEF x, y
  <1>3. x \in Nat /\ y \in Nat /\ x >= y + 1 BY <1>1, <1>2 DEF x, y
  <1>4. c * x >= c * (y + 1) BY <1>3
  <1>5. c * (y + 1) = c * y + c BY <1>3
  <1> QED BY <1>1, <1>2, <1>3, <1>4, <1>5 DEF x, y

\* The chunks a size counts: as many as it has bytes at most, and every byte
\* below the size is in one of them.
LEMMA CountBounds ==
  ASSUME NEW old \in Nat
  PROVE  ChunkCount(old) \in Nat /\ ChunkCount(old) <= old
  <1> DEFINE q == old \div ChunkSize
             m == old % ChunkSize
  <1>1. ChunkSize \in Nat \ {0} BY FileSizeAssumption
  <1>2. q \in Nat /\ m \in Nat /\ old = ChunkSize * q + m BY <1>1, DivParts
  <1>3. ChunkSize * q \in Nat /\ ChunkSize * q >= q BY <1>1, <1>2
  <1>4. ChunkCount(old) = IF m = 0 THEN q ELSE q + 1 BY <1>2 DEF ChunkCount
  <1> HIDE DEF q, m
  <1> QED BY <1>2, <1>3, <1>4

LEMMA CountCovers ==
  ASSUME NEW old \in Nat, NEW b \in Nat, b < old
  PROVE  b \div ChunkSize \in Nat /\ b \div ChunkSize < ChunkCount(old)
  <1> DEFINE q == old \div ChunkSize
             m == old % ChunkSize
             x == b \div ChunkSize
             n == b % ChunkSize
  <1>1. ChunkSize \in Nat \ {0} BY FileSizeAssumption
  <1>2. q \in Nat /\ m \in Nat /\ old = ChunkSize * q + m BY <1>1, DivParts
  <1>3. x \in Nat /\ n \in Nat /\ b = ChunkSize * x + n BY <1>1, DivParts
  <1>4. x <= q BY <1>1, DivMono
  <1>5. ChunkCount(old) = IF m = 0 THEN q ELSE q + 1 BY <1>2 DEF ChunkCount
  <1>6. ChunkSize * q \in Nat BY <1>1, <1>2
  <1>7. m = 0 => x # q
    <2> SUFFICES ASSUME m = 0, x = q PROVE FALSE OBVIOUS
    <2>1. old = ChunkSize * q /\ b = ChunkSize * q + n BY <1>2, <1>3, <1>6
    <2> HIDE DEF q, n
    <2> QED BY <1>3, <1>6, <2>1
  <1> HIDE DEF q, m, x
  <1> QED BY <1>2, <1>3, <1>4, <1>5, <1>7 DEF x

-----------------------------------------------------------------------------
(* Facts the actions share.                                                  *)

Calling == [op : Calls \cup {"none"}, pc : Steps, arg : Sizes, read : Sizes, base : Sizes]

LEMMA IdleTyped ==
  Idle \in Calling /\ {0, 1} \subseteq Sizes
  <1>1. {0, 1} \subseteq Sizes BY FileSizeAssumption DEF Sizes
  <1> QED BY <1>1 DEF Idle, Calling, Steps

LEMMA Typed ==
  ASSUME TypeOK
  PROVE  /\ size \in Nat /\ local \in Nat /\ promised \in Nat
         /\ data \subseteq Nat /\ kept \subseteq Nat
         /\ \A s \in pend : s[1] \in Nat /\ s[2] \in Nat /\ s[3] \in SliceStates /\ s = <<s[1], s[2], s[3]>>
         /\ \A t \in Tasks : task[t] \in Calling
         /\ \A t \in Tasks : task[t].arg \in Nat /\ task[t].read \in Nat /\ task[t].base \in Nat
         /\ task \in [Tasks -> Calling]
         /\ holder \in Tasks \/ holder = Nobody
         /\ Nobody \notin Tasks
  <1>1. /\ size \in Nat /\ local \in Nat /\ promised \in Nat
        /\ data \subseteq Nat /\ kept \subseteq Nat
    BY FileSizeAssumption DEF TypeOK, Sizes, Bytes
  <1>2. \A s \in pend : s[1] \in Nat /\ s[2] \in Nat /\ s[3] \in SliceStates /\ s = <<s[1], s[2], s[3]>>
    <2> SUFFICES ASSUME NEW s \in pend
                 PROVE  s[1] \in Nat /\ s[2] \in Nat /\ s[3] \in SliceStates /\ s = <<s[1], s[2], s[3]>>
      OBVIOUS
    <2>1. PICK w \in Writes, st \in SliceStates : s = <<w[1], w[2], st>> BY DEF TypeOK
    <2>2. w[1] \in Nat /\ w[2] \in Nat BY FileSizeAssumption
    <2> QED BY <2>1, <2>2
  <1>3. task \in [Tasks -> Calling] BY DEF TypeOK, Calling
  <1>4. \A t \in Tasks : task[t].arg \in Nat /\ task[t].read \in Nat /\ task[t].base \in Nat
    BY <1>3 DEF Calling, Sizes
  <1> QED BY <1>1, <1>2, <1>3, <1>4, FileSizeAssumption DEF TypeOK, Nobody

\* The lock has one holder.
LEMMA OneHolder ==
  ASSUME Locks, NEW t \in Tasks, NEW u \in Tasks,
         task[t].op = "write" \/ Trunc(t, Cutting \cup {"redrain"}),
         task[u].op = "write" \/ Trunc(u, Cutting \cup {"redrain"})
  PROVE  t = u
  BY DEF Locks

Recorded == stale' = (stale \/ Staled)

\* What it means that a step keeps no old size.
LEMMA KeepsFresh ==
  ASSUME Recorded, ~stale'
  PROVE  /\ ~stale
         /\ cache' \in {NoEntry, cache, size'}
         /\ size' = size \/ \A t \in Tasks : Attr(t) /\ task[t].pc = "save" => task'[t] = task[t]
  BY DEF Recorded, Staled

\* A step of a call that neither writes, nor allocates, nor holds the lock to
\* truncate: it changes no bytes and, unless the record it writes is old, no size.
LEMMA AsideKeeps ==
  ASSUME NEW t \in Tasks, IInv, Recorded,
         UNCHANGED <<data, local, pend, holder, kept>>, size' \in Sizes, ~stale' => size' = size,
         task' \in [Tasks -> Calling], Shape(task'[t]), \A u \in Tasks \ {t} : task'[u] = task[u],
         task[t].op \notin {"write", "fallocate"}, ~Trunc(t, Cutting \cup {"redrain"}),
         task'[t].op \notin {"write", "fallocate"}, ~Trunc(t, Cutting \cup {"redrain"})',
         cache' \in Sizes \cup {NoEntry}, dirty' \subseteq {"data", "timestamp"},
         attrLock' \in Tasks \cup {Nobody}, promised' \in Sizes,
         promised' = promised \/ promised' <= size \/ (promised' <= local /\ pend = {})
  PROVE  IInv'
  <1>0. TypeOK /\ Shapes /\ Locks /\ Bytewise /\ (~stale => Fresh) BY DEF IInv
  <1>t. TypeOK'
    <2>1. stale' \in BOOLEAN BY DEF Recorded
    <2> QED BY <1>0, <2>1 DEF TypeOK, Calling
  <1>s. Shapes' BY <1>0 DEF Shapes
  <1>h. holder # t BY <1>0 DEF Locks
  <1>p. ASSUME NEW u \in Tasks, NEW pcs \in SUBSET (Cutting \cup {"redrain"}) PROVE Trunc(u, pcs)' <=> Trunc(u, pcs)
    BY DEF Trunc
  <1>1. Locks'
    <2>1. Truncating' => Truncating BY <1>0, <1>h, Typed DEF Truncating
    <2> QED BY <1>0, <1>h, <2>1 DEF Locks, Trunc, Falloc
  <1>2. Bytewise' BY <1>0, <1>p DEF Bytewise, NoWriteLost, PendingBytes, Trunc, Cutting
  <1> SUFFICES ASSUME ~stale' PROVE Fresh'
    BY <1>0, <1>t, <1>s, <1>1, <1>2 DEF IInv
  <1>k. ~stale /\ size' = size /\ cache' \in {NoEntry, cache, size} BY KeepsFresh
  <1>f. TruncatedGone /\ CacheFresh /\ CutProgress /\ SizesFollow BY <1>0, <1>k DEF Fresh
  <1>3. TruncatedGone'
    <2>1. Truncating => Truncating' BY <1>0, <1>h, Typed DEF Truncating
    <2> QED BY <1>f, <2>1, <1>k DEF TruncatedGone
  <1>4. CacheFresh'
    <2>1. CASE cache' \in {NoEntry, size} BY <2>1, <1>k DEF CacheFresh
    <2>2. CASE cache' = cache BY <1>f, <2>2, <1>k DEF CacheFresh, At, Trunc, Cutting
    <2> QED BY <1>k, <2>1, <2>2
  <1>5. CutProgress' BY <1>f, <1>k DEF CutProgress, Progress, Trunc, Cutting, Cut
  <1>6. SizesFollow'
    <2>1. Reached => Reached' BY DEF Reached, Trunc, Cutting, Cut
    <2>2. promised' \in Nat BY DEF Sizes
    <2>3. promised' <= size \/ Reached'
      BY <1>0, <1>f, <2>1, <2>2, Typed DEF SizesFollow
    <2> QED BY <1>f, <2>1, <2>3, <1>k DEF SizesFollow
  <1> QED BY <1>3, <1>4, <1>5, <1>6 DEF Fresh

\* What a task has when it has read the record.
LEMMA GotTyped ==
  ASSUME TypeOK, NEW t \in Tasks, NEW old \in Sizes, Got(t, old)
  PROVE  /\ task' \in [Tasks -> Calling] /\ \A u \in Tasks \ {t} : task'[u] = task[u]
         /\ task'[t].op = task[t].op /\ task'[t].arg = task[t].arg
         /\ task'[t].pc = AfterGet(task[t].op)
         /\ task'[t].read = IF task[t].op = "truncate" \/ task[t].op = "chmod" THEN old ELSE 0
         /\ task'[t].base = task[t].arg \div ChunkSize
  <1> DEFINE r == IF task[t].op = "truncate" \/ task[t].op = "chmod" THEN old ELSE 0
             b == task[t].arg \div ChunkSize
             c == [task[t] EXCEPT !.pc = AfterGet(task[t].op), !.read = r, !.base = b]
  <1>1. task \in [Tasks -> Calling] /\ task[t] \in Calling /\ task[t].arg \in Nat BY Typed
  <1>2. task' = [task EXCEPT ![t] = c] BY <1>1 DEF Got
  <1>3. r \in Sizes BY IdleTyped
  <1>4. b \in Sizes
    <2>1. task[t].arg \in 0..MaxSize BY <1>1 DEF Calling, Sizes
    <2>2. b \in Nat /\ b <= task[t].arg BY <1>1, DivParts, DivSmall, FileSizeAssumption
    <2> HIDE DEF b
    <2> QED BY <2>1, <2>2, FileSizeAssumption DEF Sizes
  <1>5. AfterGet(task[t].op) \in Steps BY DEF AfterGet, Steps
  <1> HIDE DEF r, b
  <1>6. c \in Calling /\ c.op = task[t].op /\ c.arg = task[t].arg /\ c.pc = AfterGet(task[t].op)
        /\ c.read = r /\ c.base = b
    BY <1>1, <1>3, <1>4, <1>5 DEF Calling
  <1> HIDE DEF c
  <1> QED BY <1>1, <1>2, <1>6 DEF r, b

\* A truncate that has the lock is alone: no write, no fallocate and no other
\* truncate is past its lock.
LEMMA HolderAlone ==
  ASSUME TypeOK, Locks, NEW t \in Tasks, Trunc(t, Cutting \cup {"redrain"})
  PROVE  /\ holder = t /\ Truncating
         /\ \A u \in Tasks : task[u].op # "fallocate" /\ task[u].op # "write"
         /\ \A u \in Tasks \ {t} : ~Trunc(u, Cutting \cup {"redrain"})
  <1>1. holder = t BY DEF Locks
  <1>2. Truncating BY <1>1, Typed DEF Truncating, Trunc
  <1>3. \A u \in Tasks : task[u].op # "fallocate" BY <1>2 DEF Locks, Falloc
  <1>4. \A u \in Tasks : task[u].op # "write" BY <1>1 DEF Locks, Trunc
  <1>5. \A u \in Tasks \ {t} : ~Trunc(u, Cutting \cup {"redrain"}) BY <1>1 DEF Locks
  <1> QED BY <1>1, <1>2, <1>3, <1>4, <1>5

\* Where no truncate has the lock, none is past it; where nobody has it, no
\* write is either.
LEMMA NoneCuts ==
  ASSUME TypeOK, Locks, ~Truncating
  PROVE  /\ \A u \in Tasks : ~Trunc(u, Cutting \cup {"redrain"})
         /\ ~Reached
         /\ holder = Nobody => \A u \in Tasks : task[u].op # "write"
  <1>1. \A u \in Tasks : ~Trunc(u, Cutting \cup {"redrain"})
    BY HolderAlone
  <1>2. ~Reached BY <1>1 DEF Reached, Trunc, Cutting, Cut
  <1>3. holder = Nobody => \A u \in Tasks : task[u].op # "write" BY Typed DEF Locks
  <1> QED BY <1>1, <1>2, <1>3

\* A step of a truncate that has the lock and keeps it, with nothing buffered:
\* what remains to be shown is about its own progress, the cache and the bytes.
LEMMA CutterKeeps ==
  ASSUME NEW t \in Tasks, IInv, Recorded, Trunc(t, Cutting \cup {"redrain"}), Trunc(t, Cutting)',
         UNCHANGED <<local, pend, dirty, holder, attrLock, promised>>, pend = {},
         task' \in [Tasks -> Calling], \A u \in Tasks \ {t} : task'[u] = task[u],
         size' \in Sizes, cache' \in Sizes \cup {NoEntry}, data' \subseteq data, kept' \subseteq kept, kept' \subseteq data',
         Trunc(t, Cutting \ {"get"})' => \A b \in kept' : b < task'[t].arg,
         ~stale' => CacheFresh' /\ Progress(t)',
         ~stale' => (size' = size /\ (Reached => Reached')) \/ (Reached' /\ \A b \in data' : b < size')
  PROVE  IInv'
  <1>0. TypeOK /\ Shapes /\ Locks /\ Bytewise /\ (~stale => Fresh) BY DEF IInv
  <1>h. /\ holder = t /\ Truncating
        /\ \A u \in Tasks : task[u].op # "fallocate" /\ task[u].op # "write"
        /\ \A u \in Tasks \ {t} : ~Trunc(u, Cutting \cup {"redrain"})
    BY <1>0, HolderAlone
  <1>o. task'[t].op = "truncate" /\ task'[t].pc \in Cutting BY DEF Trunc
  <1>c. \A u \in Tasks \ {t} : ~Trunc(u, Cutting \cup {"redrain"})' BY <1>h DEF Trunc
  <1>2. TypeOK'
    <2>1. stale' \in BOOLEAN BY DEF Recorded
    <2> QED BY <1>0, <2>1 DEF TypeOK, Calling
  <1>3. Shapes' BY <1>0, <1>o DEF Shapes, Shape, Cutting
  <1>g. Truncating' BY <1>h, <1>o, <1>0, Typed DEF Truncating
  <1>w. \A u \in Tasks : task'[u].op # "fallocate" /\ task'[u].op # "write" BY <1>h, <1>o
  <1>4. Locks'
    <2>1. \A u \in Tasks : Trunc(u, Cutting \cup {"redrain"})' <=> u = t BY <1>c, <1>o DEF Trunc
    <2> QED BY <1>h, <1>w, <2>1 DEF Locks, Falloc
  <1>5. Bytewise'
    <2>1. NoWriteLost' BY DEF NoWriteLost
    <2>2. \A u \in Tasks \ {t} : ~Trunc(u, Cutting \ {"get"})' BY <1>c DEF Trunc
    <2> QED BY <2>1, <2>2 DEF Bytewise
  <1> SUFFICES ASSUME ~stale' PROVE Fresh' BY <1>2, <1>3, <1>4, <1>5 DEF IInv
  <1>f. TruncatedGone /\ CacheFresh /\ CutProgress /\ SizesFollow BY <1>0, KeepsFresh DEF Fresh
  <1>6. TruncatedGone' BY <1>g DEF TruncatedGone
  <1>8. CutProgress'
    <2>1. \A u \in Tasks \ {t} : Progress(u)' BY <1>c DEF Progress, Trunc, Cutting, Cut
    <2> QED BY <2>1 DEF CutProgress
  <1>9. SizesFollow'
    <2>1. CASE size' = size /\ (Reached => Reached')
      <3>1. size > local => Reached' BY <1>f, <1>h, <2>1 DEF SizesFollow
      <3>2. local > size => Reached' BY <1>f, <2>1 DEF SizesFollow
      <3>3. (promised <= size \/ Reached') /\ \A b \in data : b < size BY <1>f, <2>1 DEF SizesFollow
      <3> QED BY <1>w, <2>1, <3>1, <3>2, <3>3 DEF SizesFollow
    <2>2. CASE Reached' /\ \A b \in data' : b < size' BY <1>w, <2>2 DEF SizesFollow
    <2> QED BY <2>1, <2>2
  <1> QED BY <1>6, <1>8, <1>9 DEF Fresh

LEMMA TruncateDrainKeeps ==
  ASSUME NEW t \in Tasks, IInv, TruncateDrain(t), Recorded
  PROVE  IInv'
  <1>0. TypeOK /\ Shape(task[t]) BY DEF IInv, Shapes
  <1>1. /\ UNCHANGED <<size, data, cache, local, pend, holder, kept>>
        /\ dirty' \subseteq dirty /\ attrLock' \in {attrLock, t, Nobody}
    BY DEF TruncateDrain, At, Goto
  <1>2. /\ task' \in [Tasks -> Calling] /\ Shape(task'[t]) /\ \A u \in Tasks \ {t} : task'[u] = task[u]
        /\ task[t].op \notin {"write", "fallocate"} /\ ~Trunc(t, Cutting \cup {"redrain"})
        /\ task'[t].op \notin {"write", "fallocate"} /\ ~Trunc(t, Cutting \cup {"redrain"})'
    BY <1>0, Typed, FileSizeAssumption DEF TruncateDrain, At, Goto, Shape, Trunc, Cutting, Calling, Idle, Sizes, Steps
  <1>3. /\ cache' \in Sizes \cup {NoEntry} /\ dirty' \subseteq {"data", "timestamp"}
        /\ attrLock' \in Tasks \cup {Nobody} /\ promised \in Sizes /\ size' \in Sizes
    BY <1>0, <1>1 DEF TypeOK
  <1>4. /\ promised' \in Sizes
        /\ promised' = promised \/ promised' <= size \/ (promised' <= local /\ pend = {})
    BY <1>3 DEF TruncateDrain, At, Goto
  <1> QED BY <1>1, <1>2, <1>3, <1>4, AsideKeeps

LEMMA AttrLockKeeps ==
  ASSUME NEW t \in Tasks, IInv, AttrLock(t), Recorded
  PROVE  IInv'
  <1>0. TypeOK /\ Shape(task[t]) BY DEF IInv, Shapes
  <1>1. /\ UNCHANGED <<size, data, cache, local, pend, holder, kept>>
        /\ dirty' \subseteq dirty /\ attrLock' \in {attrLock, t, Nobody}
    BY DEF AttrLock, Attr, Goto
  <1>2. /\ task' \in [Tasks -> Calling] /\ Shape(task'[t]) /\ \A u \in Tasks \ {t} : task'[u] = task[u]
        /\ task[t].op \notin {"write", "fallocate"} /\ ~Trunc(t, Cutting \cup {"redrain"})
        /\ task'[t].op \notin {"write", "fallocate"} /\ ~Trunc(t, Cutting \cup {"redrain"})'
    BY <1>0, Typed, FileSizeAssumption DEF AttrLock, Attr, Goto, Shape, Trunc, Cutting, Calling, Idle, Sizes, Steps
  <1>3. /\ cache' \in Sizes \cup {NoEntry} /\ dirty' \subseteq {"data", "timestamp"}
        /\ attrLock' \in Tasks \cup {Nobody} /\ promised \in Sizes /\ size' \in Sizes
    BY <1>0, <1>1 DEF TypeOK
  <1>4. /\ promised' \in Sizes
        /\ promised' = promised \/ promised' <= size \/ (promised' <= local /\ pend = {})
    BY <1>3 DEF AttrLock, Attr, Goto
  <1> QED BY <1>1, <1>2, <1>3, <1>4, AsideKeeps

LEMMA ChmodFinishKeeps ==
  ASSUME NEW t \in Tasks, IInv, ChmodFinish(t), Recorded
  PROVE  IInv'
  <1>0. TypeOK /\ Shape(task[t]) BY DEF IInv, Shapes
  <1>1. /\ UNCHANGED <<size, data, cache, local, pend, holder, kept>>
        /\ dirty' \subseteq dirty /\ attrLock' \in {attrLock, t, Nobody}
    BY DEF ChmodFinish, At, Done
  <1>2. /\ task' \in [Tasks -> Calling] /\ Shape(task'[t]) /\ \A u \in Tasks \ {t} : task'[u] = task[u]
        /\ task[t].op \notin {"write", "fallocate"} /\ ~Trunc(t, Cutting \cup {"redrain"})
        /\ task'[t].op \notin {"write", "fallocate"} /\ ~Trunc(t, Cutting \cup {"redrain"})'
    BY <1>0, Typed, FileSizeAssumption DEF ChmodFinish, At, Done, Shape, Trunc, Cutting, Calling, Idle, Sizes, Steps
  <1>3. /\ cache' \in Sizes \cup {NoEntry} /\ dirty' \subseteq {"data", "timestamp"}
        /\ attrLock' \in Tasks \cup {Nobody} /\ promised \in Sizes /\ size' \in Sizes
    BY <1>0, <1>1 DEF TypeOK
  <1>4. /\ promised' \in Sizes
        /\ promised' = promised \/ promised' <= size \/ (promised' <= local /\ pend = {})
    BY <1>3 DEF ChmodFinish, At, Done
  <1> QED BY <1>1, <1>2, <1>3, <1>4, AsideKeeps

LEMMA FlushDrainKeeps ==
  ASSUME NEW t \in Tasks, IInv, FlushDrain(t), Recorded
  PROVE  IInv'
  <1>0. TypeOK /\ Shape(task[t]) BY DEF IInv, Shapes
  <1>1. /\ UNCHANGED <<size, data, cache, local, pend, holder, kept>>
        /\ dirty' \subseteq dirty /\ attrLock' \in {attrLock, t, Nobody}
    BY DEF FlushDrain, At, Goto, Done, MaxOf
  <1>2. /\ task' \in [Tasks -> Calling] /\ Shape(task'[t]) /\ \A u \in Tasks \ {t} : task'[u] = task[u]
        /\ task[t].op \notin {"write", "fallocate"} /\ ~Trunc(t, Cutting \cup {"redrain"})
        /\ task'[t].op \notin {"write", "fallocate"} /\ ~Trunc(t, Cutting \cup {"redrain"})'
    BY <1>0, Typed, FileSizeAssumption DEF FlushDrain, At, Goto, Done, MaxOf, Shape, Trunc, Cutting, Calling, Idle, Sizes, Steps
  <1>3. /\ cache' \in Sizes \cup {NoEntry} /\ dirty' \subseteq {"data", "timestamp"}
        /\ attrLock' \in Tasks \cup {Nobody} /\ promised \in Sizes /\ size' \in Sizes
    BY <1>0, <1>1 DEF TypeOK
  <1>a. local \in Sizes BY <1>0 DEF TypeOK
  <1>4. /\ promised' \in Sizes
        /\ promised' = promised \/ promised' <= size \/ (promised' <= local /\ pend = {})
    BY <1>3, <1>a, FileSizeAssumption DEF FlushDrain, At, Goto, Done, MaxOf, Sizes
  <1> QED BY <1>1, <1>2, <1>3, <1>4, AsideKeeps

LEMMA FlushFailKeeps ==
  ASSUME NEW t \in Tasks, IInv, FlushFail(t), Recorded
  PROVE  IInv'
  <1>0. TypeOK /\ Shape(task[t]) BY DEF IInv, Shapes
  <1>1. /\ UNCHANGED <<size, data, cache, local, pend, holder, kept>>
        /\ dirty' \subseteq dirty /\ attrLock' \in {attrLock, t, Nobody}
    BY DEF FlushFail, At, Done
  <1>2. /\ task' \in [Tasks -> Calling] /\ Shape(task'[t]) /\ \A u \in Tasks \ {t} : task'[u] = task[u]
        /\ task[t].op \notin {"write", "fallocate"} /\ ~Trunc(t, Cutting \cup {"redrain"})
        /\ task'[t].op \notin {"write", "fallocate"} /\ ~Trunc(t, Cutting \cup {"redrain"})'
    BY <1>0, Typed, FileSizeAssumption DEF FlushFail, At, Done, Shape, Trunc, Cutting, Calling, Idle, Sizes, Steps
  <1>3. /\ cache' \in Sizes \cup {NoEntry} /\ dirty' \subseteq {"data", "timestamp"}
        /\ attrLock' \in Tasks \cup {Nobody} /\ promised \in Sizes /\ size' \in Sizes
    BY <1>0, <1>1 DEF TypeOK
  <1>4. /\ promised' \in Sizes
        /\ promised' = promised \/ promised' <= size \/ (promised' <= local /\ pend = {})
    BY <1>3 DEF FlushFail, At, Done
  <1> QED BY <1>1, <1>2, <1>3, <1>4, AsideKeeps

LEMMA FlushCaptureKeeps ==
  ASSUME NEW t \in Tasks, IInv, FlushCapture(t), Recorded
  PROVE  IInv'
  <1>0. TypeOK /\ Shape(task[t]) BY DEF IInv, Shapes
  <1>1. /\ UNCHANGED <<size, data, cache, local, pend, holder, kept>>
        /\ dirty' \subseteq dirty /\ attrLock' \in {attrLock, t, Nobody}
    BY DEF FlushCapture, At
  <1>l. local \in Sizes /\ 0 \in Sizes BY <1>0, FileSizeAssumption DEF TypeOK, Sizes
  <1>2. /\ task' \in [Tasks -> Calling] /\ Shape(task'[t]) /\ \A u \in Tasks \ {t} : task'[u] = task[u]
        /\ task[t].op \notin {"write", "fallocate"} /\ ~Trunc(t, Cutting \cup {"redrain"})
        /\ task'[t].op \notin {"write", "fallocate"} /\ ~Trunc(t, Cutting \cup {"redrain"})'
    <2> DEFINE c == [task[t] EXCEPT !.pc = "lock", !.arg = local, !.base = 0]
    <2>1. task \in [Tasks -> Calling] /\ task[t] \in Calling /\ task[t].op = "flush" BY <1>0, Typed DEF FlushCapture, At
    <2>2. task' = [task EXCEPT ![t] = c] BY <2>1 DEF FlushCapture
    <2>3. c \in Calling /\ c.op = "flush" /\ c.pc = "lock" BY <2>1, <1>l DEF Calling, Steps
    <2> HIDE DEF c
    <2> QED BY <2>1, <2>2, <2>3 DEF Shape, Trunc
  <1>3. /\ cache' \in Sizes \cup {NoEntry} /\ dirty' \subseteq {"data", "timestamp"}
        /\ attrLock' \in Tasks \cup {Nobody} /\ promised \in Sizes /\ size' \in Sizes
    BY <1>0, <1>1 DEF TypeOK
  <1>4. /\ promised' \in Sizes
        /\ promised' = promised \/ promised' <= size \/ (promised' <= local /\ pend = {})
    BY <1>3 DEF FlushCapture, At
  <1> QED BY <1>1, <1>2, <1>3, <1>4, AsideKeeps

LEMMA FlushFinishKeeps ==
  ASSUME NEW t \in Tasks, IInv, FlushFinish(t), Recorded
  PROVE  IInv'
  <1>0. TypeOK /\ Shape(task[t]) BY DEF IInv, Shapes
  <1>1. /\ UNCHANGED <<size, data, cache, local, pend, holder, kept>>
        /\ dirty' \subseteq dirty /\ attrLock' \in {attrLock, t, Nobody}
    BY DEF FlushFinish, At, Done, MaxOf
  <1>2. /\ task' \in [Tasks -> Calling] /\ Shape(task'[t]) /\ \A u \in Tasks \ {t} : task'[u] = task[u]
        /\ task[t].op \notin {"write", "fallocate"} /\ ~Trunc(t, Cutting \cup {"redrain"})
        /\ task'[t].op \notin {"write", "fallocate"} /\ ~Trunc(t, Cutting \cup {"redrain"})'
    BY <1>0, Typed, FileSizeAssumption DEF FlushFinish, At, Done, MaxOf, Shape, Trunc, Cutting, Calling, Idle, Sizes, Steps
  <1>3. /\ cache' \in Sizes \cup {NoEntry} /\ dirty' \subseteq {"data", "timestamp"}
        /\ attrLock' \in Tasks \cup {Nobody} /\ promised \in Sizes /\ size' \in Sizes
    BY <1>0, <1>1 DEF TypeOK
  <1>a. size \in Sizes /\ task[t].arg \in Sizes BY <1>0, Typed DEF TypeOK, Calling
  <1>4. /\ promised' \in Sizes
        /\ promised' = promised \/ promised' <= size \/ (promised' <= local /\ pend = {})
    <2> DEFINE m == IF size < task[t].arg THEN size ELSE task[t].arg
    <2>1. m \in Sizes /\ m <= size BY <1>a DEF Sizes
    <2>2. promised' = MaxOf(promised, m) BY DEF FlushFinish
    <2> HIDE DEF m
    <2> QED BY <1>3, <2>1, <2>2 DEF MaxOf
  <1> QED BY <1>1, <1>2, <1>3, <1>4, AsideKeeps

LEMMA TruncateStartKeeps ==
  ASSUME NEW t \in Tasks, NEW n \in Sizes, IInv, TruncateStart(t, n), Recorded
  PROVE  IInv'
  <1>0. TypeOK /\ Shape(task[t]) BY DEF IInv, Shapes
  <1>1. /\ UNCHANGED <<size, data, cache, local, pend, holder, kept>>
        /\ dirty' \subseteq dirty /\ attrLock' \in {attrLock, t, Nobody}
    BY DEF TruncateStart, Starts, Becomes
  <1> DEFINE c == [Idle EXCEPT !.op = "truncate", !.pc = "drain", !.arg = n]
  <1>c. task' = [task EXCEPT ![t] = c] /\ task[t] = Idle
    BY DEF TruncateStart, Starts, Becomes
  <1>d. c \in Calling /\ c.op = "truncate" /\ c.pc = "drain"
    BY IdleTyped DEF TruncateStart, Starts, Becomes, Calling, Steps
  <1> HIDE DEF c
  <1>2. /\ task' \in [Tasks -> Calling] /\ Shape(task'[t]) /\ \A u \in Tasks \ {t} : task'[u] = task[u]
        /\ task[t].op \notin {"write", "fallocate"} /\ ~Trunc(t, Cutting \cup {"redrain"})
        /\ task'[t].op \notin {"write", "fallocate"} /\ ~Trunc(t, Cutting \cup {"redrain"})'
    BY <1>0, <1>c, <1>d, Typed DEF Shape, Trunc, Cutting, Idle
  <1>3. /\ cache' \in Sizes \cup {NoEntry} /\ dirty' \subseteq {"data", "timestamp"}
        /\ attrLock' \in Tasks \cup {Nobody} /\ promised \in Sizes /\ size' \in Sizes
    BY <1>0, <1>1 DEF TypeOK
  <1>4. /\ promised' \in Sizes
        /\ promised' = promised \/ promised' <= size \/ (promised' <= local /\ pend = {})
    BY <1>3 DEF TruncateStart, Starts, Becomes
  <1> QED BY <1>1, <1>2, <1>3, <1>4, AsideKeeps

LEMMA ChmodStartKeeps ==
  ASSUME NEW t \in Tasks, IInv, ChmodStart(t), Recorded
  PROVE  IInv'
  <1>0. TypeOK /\ Shape(task[t]) BY DEF IInv, Shapes
  <1>1. /\ UNCHANGED <<size, data, cache, local, pend, holder, kept>>
        /\ dirty' \subseteq dirty /\ attrLock' \in {attrLock, t, Nobody}
    BY DEF ChmodStart, Starts, Becomes
  <1> DEFINE c == [Idle EXCEPT !.op = "chmod", !.pc = "lock", !.arg = 0]
  <1>c. task' = [task EXCEPT ![t] = c] /\ task[t] = Idle
    BY DEF ChmodStart, Starts, Becomes
  <1>d. c \in Calling /\ c.op = "chmod" /\ c.pc = "lock"
    BY IdleTyped DEF ChmodStart, Starts, Becomes, Calling, Steps
  <1> HIDE DEF c
  <1>2. /\ task' \in [Tasks -> Calling] /\ Shape(task'[t]) /\ \A u \in Tasks \ {t} : task'[u] = task[u]
        /\ task[t].op \notin {"write", "fallocate"} /\ ~Trunc(t, Cutting \cup {"redrain"})
        /\ task'[t].op \notin {"write", "fallocate"} /\ ~Trunc(t, Cutting \cup {"redrain"})'
    BY <1>0, <1>c, <1>d, Typed DEF Shape, Trunc, Cutting, Idle
  <1>3. /\ cache' \in Sizes \cup {NoEntry} /\ dirty' \subseteq {"data", "timestamp"}
        /\ attrLock' \in Tasks \cup {Nobody} /\ promised \in Sizes /\ size' \in Sizes
    BY <1>0, <1>1 DEF TypeOK
  <1>4. /\ promised' \in Sizes
        /\ promised' = promised \/ promised' <= size \/ (promised' <= local /\ pend = {})
    BY <1>3 DEF ChmodStart, Starts, Becomes
  <1> QED BY <1>1, <1>2, <1>3, <1>4, AsideKeeps

LEMMA FlushStartKeeps ==
  ASSUME NEW t \in Tasks, IInv, FlushStart(t), Recorded
  PROVE  IInv'
  <1>0. TypeOK /\ Shape(task[t]) BY DEF IInv, Shapes
  <1>1. /\ UNCHANGED <<size, data, cache, local, pend, holder, kept>>
        /\ dirty' \subseteq dirty /\ attrLock' \in {attrLock, t, Nobody}
    BY DEF FlushStart, Starts
  <1>b. PICK b \in {0, 1} : task' = [task EXCEPT ![t] = [Idle EXCEPT !.op = "flush", !.pc = "drain", !.base = b]]
    BY DEF FlushStart
  <1> DEFINE c == [Idle EXCEPT !.op = "flush", !.pc = "drain", !.base = b]
  <1>c. task' = [task EXCEPT ![t] = c] /\ task[t] = Idle
    BY <1>b DEF FlushStart, Starts
  <1>d. c \in Calling /\ c.op = "flush" /\ c.pc = "drain"
    BY IdleTyped DEF FlushStart, Starts, Calling, Steps
  <1> HIDE DEF c
  <1>2. /\ task' \in [Tasks -> Calling] /\ Shape(task'[t]) /\ \A u \in Tasks \ {t} : task'[u] = task[u]
        /\ task[t].op \notin {"write", "fallocate"} /\ ~Trunc(t, Cutting \cup {"redrain"})
        /\ task'[t].op \notin {"write", "fallocate"} /\ ~Trunc(t, Cutting \cup {"redrain"})'
    BY <1>0, <1>c, <1>d, Typed DEF Shape, Trunc, Cutting, Idle
  <1>3. /\ cache' \in Sizes \cup {NoEntry} /\ dirty' \subseteq {"data", "timestamp"}
        /\ attrLock' \in Tasks \cup {Nobody} /\ promised \in Sizes /\ size' \in Sizes
    BY <1>0, <1>1 DEF TypeOK
  <1>4. /\ promised' \in Sizes
        /\ promised' = promised \/ promised' <= size \/ (promised' <= local /\ pend = {})
    BY <1>3 DEF FlushStart, Starts
  <1> QED BY <1>1, <1>2, <1>3, <1>4, AsideKeeps

LEMMA StatKeeps ==
  ASSUME NEW t \in Tasks, IInv, Stat(t), Recorded
  PROVE  IInv'
  <1>0. TypeOK /\ Shape(task[t]) BY DEF IInv, Shapes
  <1>1. UNCHANGED <<size, data, cache, local, pend, dirty, holder, attrLock, kept, promised>>
    BY DEF Stat
  <1>2. /\ task' \in [Tasks -> Calling] /\ Shape(task'[t]) /\ \A u \in Tasks \ {t} : task'[u] = task[u]
        /\ task[t].op \notin {"write", "fallocate"} /\ ~Trunc(t, Cutting \cup {"redrain"})
        /\ task'[t].op \notin {"write", "fallocate"} /\ ~Trunc(t, Cutting \cup {"redrain"})'
    <2>1. CASE At(t, "stat", "finish") /\ Done(t)
      BY <1>0, <2>1, Typed, IdleTyped DEF At, Done, Shape, Trunc, Idle
    <2>2. CASE Starts(t, "stat") /\ Becomes(t, "stat", "get", 0)
      <3> DEFINE c == [Idle EXCEPT !.op = "stat", !.pc = "get", !.arg = 0]
      <3>1. task' = [task EXCEPT ![t] = c] /\ task[t] = Idle BY <2>2 DEF Starts, Becomes
      <3>2. c \in Calling /\ c.op = "stat" /\ c.pc = "get" BY <2>2, IdleTyped DEF Starts, Calling, Steps
      <3> HIDE DEF c
      <3> QED BY <1>0, <3>1, <3>2, Typed DEF Shape, Trunc, Idle
    <2> QED BY <2>1, <2>2 DEF Stat
  <1>3. /\ cache' \in Sizes \cup {NoEntry} /\ dirty' \subseteq {"data", "timestamp"}
        /\ attrLock' \in Tasks \cup {Nobody} /\ promised' \in Sizes /\ size' \in Sizes
    BY <1>0, <1>1 DEF TypeOK
  <1> QED BY <1>1, <1>2, <1>3, AsideKeeps

LEMMA GetNodeAside ==
  ASSUME NEW t \in Tasks, IInv, GetNode(t), Recorded, task[t].op # "truncate"
  PROVE  IInv'
  <1>0. TypeOK /\ Shape(task[t]) BY DEF IInv, Shapes
  <1>1. UNCHANGED <<size, data, cache, local, pend, dirty, holder, attrLock, kept, promised>> /\ task[t].pc = "get"
    BY DEF GetNode
  <1>o. task[t].op \notin {"write", "fallocate", "none"} BY <1>0, <1>1 DEF Shape, Idle
  <1>2. /\ task' \in [Tasks -> Calling] /\ Shape(task'[t]) /\ \A u \in Tasks \ {t} : task'[u] = task[u]
        /\ task'[t].op = task[t].op
    <2>1. CASE cache # NoEntry /\ Got(t, cache)
      <3>1. cache \in Sizes BY <1>0, <2>1 DEF TypeOK
      <3> QED BY <1>0, <1>o, <2>1, <3>1, GotTyped DEF Shape, AfterGet
    <2>2. CASE task' = [task EXCEPT ![t].pc = "fill", ![t].read = size]
      <3> DEFINE c == [task[t] EXCEPT !.pc = "fill", !.read = size]
      <3>1. task \in [Tasks -> Calling] /\ task[t] \in Calling /\ size \in Sizes BY <1>0, Typed DEF TypeOK
      <3>2. task' = [task EXCEPT ![t] = c] BY <2>2, <3>1
      <3>3. c \in Calling /\ c.op = task[t].op /\ c.pc = "fill" BY <3>1 DEF Calling, Steps
      <3> HIDE DEF c
      <3> QED BY <1>0, <1>o, <3>1, <3>2, <3>3 DEF Shape, Cutting
    <2> QED BY <2>1, <2>2 DEF GetNode
  <1>3. /\ cache' \in Sizes \cup {NoEntry} /\ dirty' \subseteq {"data", "timestamp"}
        /\ attrLock' \in Tasks \cup {Nobody} /\ promised' \in Sizes /\ size' \in Sizes
    BY <1>0, <1>1 DEF TypeOK
  <1>4. ~Trunc(t, Cutting \cup {"redrain"}) /\ ~Trunc(t, Cutting \cup {"redrain"})' BY <1>2 DEF Trunc
  <1> QED BY <1>1, <1>o, <1>2, <1>3, <1>4, AsideKeeps

LEMMA GetNodeFillAside ==
  ASSUME NEW t \in Tasks, IInv, GetNodeFill(t), Recorded, task[t].op # "truncate"
  PROVE  IInv'
  <1>0. TypeOK /\ Shape(task[t]) BY DEF IInv, Shapes
  <1>1. /\ UNCHANGED <<size, data, local, pend, dirty, holder, attrLock, kept, promised>> /\ task[t].pc = "fill"
        /\ cache' = task[t].read /\ Got(t, task[t].read)
    BY DEF GetNodeFill
  <1>o. task[t].op \notin {"write", "fallocate", "none"} BY <1>0, <1>1 DEF Shape, Idle
  <1>r. task[t].read \in Sizes BY <1>0, Typed DEF Calling
  <1>2. /\ task' \in [Tasks -> Calling] /\ Shape(task'[t]) /\ \A u \in Tasks \ {t} : task'[u] = task[u]
        /\ task'[t].op = task[t].op
    BY <1>0, <1>1, <1>o, <1>r, GotTyped DEF Shape, AfterGet
  <1>3. /\ cache' \in Sizes \cup {NoEntry} /\ dirty' \subseteq {"data", "timestamp"}
        /\ attrLock' \in Tasks \cup {Nobody} /\ promised' \in Sizes /\ size' \in Sizes
    BY <1>0, <1>1, <1>r DEF TypeOK
  <1>4. ~Trunc(t, Cutting \cup {"redrain"}) /\ ~Trunc(t, Cutting \cup {"redrain"})' BY <1>2 DEF Trunc
  <1> QED BY <1>1, <1>o, <1>2, <1>3, <1>4, AsideKeeps

LEMMA InvalidateKeeps ==
  ASSUME NEW t \in Tasks, IInv, Invalidate(t), Recorded
  PROVE  IInv'
  <1>0. TypeOK /\ Shape(task[t]) BY DEF IInv, Shapes
  <1>1. /\ UNCHANGED <<size, data, local, pend, dirty, holder, attrLock, kept, promised>> /\ task[t].pc = "invalidate"
        /\ cache' = NoEntry
    BY DEF Invalidate
  <1>o. task[t].op \in {"chmod", "flush"}
    <2>1. task[t].op \in Calls \cup {"none"} BY <1>0, Typed DEF Calling
    <2>2. task[t].op \in {"write", "zero", "fallocate", "truncate", "flush", "chmod", "stat", "none"}
      BY <2>1, FileSizeAssumption
    <2>3. task[t].op # "none" BY <1>0, <1>1 DEF Shape, Idle
    <2> QED BY <1>0, <1>1, <2>2, <2>3 DEF Shape, Cutting
  <1>2. /\ task' \in [Tasks -> Calling] /\ Shape(task'[t]) /\ \A u \in Tasks \ {t} : task'[u] = task[u]
        /\ task'[t].op = task[t].op
    <2> DEFINE c == [task[t] EXCEPT !.pc = "save", !.base = 0]
    <2>1. task \in [Tasks -> Calling] /\ task[t] \in Calling BY <1>0, Typed
    <2>2. task' = [task EXCEPT ![t] = c] BY <2>1 DEF Invalidate
    <2>3. c \in Calling /\ c.op = task[t].op /\ c.pc = "save" BY <2>1, IdleTyped DEF Calling, Steps
    <2> HIDE DEF c
    <2> QED BY <1>0, <1>o, <2>1, <2>2, <2>3 DEF Shape
  <1>3. /\ cache' \in Sizes \cup {NoEntry} /\ dirty' \subseteq {"data", "timestamp"}
        /\ attrLock' \in Tasks \cup {Nobody} /\ promised' \in Sizes /\ size' \in Sizes
    BY <1>0, <1>1 DEF TypeOK
  <1>4. ~Trunc(t, Cutting \cup {"redrain"}) /\ ~Trunc(t, Cutting \cup {"redrain"})' BY <1>o, <1>2 DEF Trunc
  <1> QED BY <1>1, <1>o, <1>2, <1>3, <1>4, AsideKeeps

\* The record written by chmod or by a flush: if the size in it is not the
\* record's, the step is one that keeps an old size.
LEMMA SaveNodeAside ==
  ASSUME NEW t \in Tasks, IInv, SaveNode(t), Recorded, task[t].op # "truncate"
  PROVE  IInv'
  <1>0. TypeOK /\ Shape(task[t]) BY DEF IInv, Shapes
  <1>1. /\ UNCHANGED <<data, cache, local, pend, dirty, holder, attrLock, kept, promised>> /\ task[t].pc = "save"
        /\ size' = NewSize(t)
    BY DEF SaveNode
  <1>o. task[t].op \in {"chmod", "flush"} BY <1>0, <1>1 DEF Shape
  <1>2. /\ task' \in [Tasks -> Calling] /\ Shape(task'[t]) /\ \A u \in Tasks \ {t} : task'[u] = task[u]
        /\ task'[t].op = task[t].op /\ task'[t].pc = "insert"
    BY <1>0, <1>o, Typed DEF SaveNode, Goto, Calling, Shape, Steps
  <1>s. size' \in Sizes BY <1>0, <1>1, Typed DEF NewSize, Calling
  <1>k. ~stale' => size' = size BY <1>1, <1>o, <1>2, KeepsFresh DEF Attr
  <1>3. /\ cache' \in Sizes \cup {NoEntry} /\ dirty' \subseteq {"data", "timestamp"}
        /\ attrLock' \in Tasks \cup {Nobody} /\ promised' \in Sizes
    BY <1>0, <1>1 DEF TypeOK
  <1>4. ~Trunc(t, Cutting \cup {"redrain"}) /\ ~Trunc(t, Cutting \cup {"redrain"})' BY <1>o, <1>2 DEF Trunc
  <1> QED BY <1>1, <1>o, <1>2, <1>s, <1>k, <1>3, <1>4, AsideKeeps

LEMMA SaveInsertAside ==
  ASSUME NEW t \in Tasks, IInv, SaveInsert(t), Recorded, task[t].op # "truncate"
  PROVE  IInv'
  <1>0. TypeOK /\ Shape(task[t]) BY DEF IInv, Shapes
  <1>1. /\ UNCHANGED <<size, data, local, pend, dirty, holder, attrLock, kept, promised>> /\ task[t].pc = "insert"
        /\ cache' = NewSize(t) /\ task[t].op # "fallocate"
    BY DEF SaveInsert, Falloc
  <1>o. task[t].op \in {"chmod", "flush"} BY <1>0, <1>1 DEF Shape
  <1>2. /\ task' \in [Tasks -> Calling] /\ Shape(task'[t]) /\ \A u \in Tasks \ {t} : task'[u] = task[u]
        /\ task'[t].op = task[t].op /\ task'[t].pc = "finish"
    BY <1>0, <1>o, Typed DEF SaveInsert, Goto, Calling, Shape, Steps
  <1>s. cache' \in Sizes BY <1>0, <1>1, Typed DEF NewSize, Calling
  <1>3. /\ dirty' \subseteq {"data", "timestamp"} /\ size' \in Sizes
        /\ attrLock' \in Tasks \cup {Nobody} /\ promised' \in Sizes
    BY <1>0, <1>1 DEF TypeOK
  <1>4. ~Trunc(t, Cutting \cup {"redrain"}) /\ ~Trunc(t, Cutting \cup {"redrain"})' BY <1>o, <1>2 DEF Trunc
  <1> QED BY <1>1, <1>o, <1>2, <1>s, <1>3, <1>4, AsideKeeps

\* A truncate that gives up before it has the lock.
LEMMA TruncateFailAside ==
  ASSUME NEW t \in Tasks, IInv, TruncateFail(t), Recorded, holder # t
  PROVE  IInv'
  <1>0. TypeOK /\ Shape(task[t]) /\ Locks BY DEF IInv, Shapes
  <1>1. /\ UNCHANGED <<size, data, cache, local, pend, dirty, holder, attrLock, kept, promised>>
        /\ task[t].op = "truncate" /\ task' = [task EXCEPT ![t] = Idle]
    BY DEF TruncateFail, Done
  <1>2. /\ task' \in [Tasks -> Calling] /\ Shape(task'[t]) /\ \A u \in Tasks \ {t} : task'[u] = task[u]
        /\ task'[t] = Idle
    BY <1>0, <1>1, Typed, IdleTyped DEF Shape, Idle
  <1>3. /\ cache' \in Sizes \cup {NoEntry} /\ dirty' \subseteq {"data", "timestamp"}
        /\ attrLock' \in Tasks \cup {Nobody} /\ promised' \in Sizes /\ size' \in Sizes
    BY <1>0, <1>1 DEF TypeOK
  <1>4. ~Trunc(t, Cutting \cup {"redrain"}) BY <1>0 DEF Locks
  <1>5. task'[t].op \notin {"write", "fallocate"} /\ ~Trunc(t, Cutting \cup {"redrain"})' BY <1>2 DEF Trunc, Idle
  <1> QED BY <1>1, <1>2, <1>3, <1>4, <1>5, AsideKeeps

\* The entry of the cache expires, or nothing happens.
LEMMA ExpireKeeps ==
  ASSUME IInv, Expire, Recorded
  PROVE  IInv'
  <1>0. TypeOK /\ Shapes /\ Locks /\ Bytewise /\ (~stale => Fresh) BY DEF IInv
  <1>1. UNCHANGED <<size, data, local, pend, dirty, holder, attrLock, task, kept, promised>> /\ cache' = NoEntry
    BY DEF Expire
  <1>2. stale' \in BOOLEAN BY DEF Recorded
  <1>3. TypeOK' BY <1>0, <1>1, <1>2 DEF TypeOK
  <1>4. Shapes' /\ Locks' /\ Bytewise'
    BY <1>0, <1>1 DEF Shapes, Locks, Bytewise, NoWriteLost, PendingBytes, Trunc, Truncating, Falloc
  <1> SUFFICES ASSUME ~stale' PROVE Fresh' BY <1>3, <1>4 DEF IInv
  <1>f. TruncatedGone /\ CacheFresh /\ CutProgress /\ SizesFollow BY <1>0, KeepsFresh DEF Fresh
  <1>5. TruncatedGone' /\ CacheFresh' BY <1>f, <1>1 DEF TruncatedGone, Truncating, CacheFresh
  <1>6. CutProgress' BY <1>f, <1>1 DEF CutProgress, Progress, Trunc
  <1>7. SizesFollow' BY <1>f, <1>1 DEF SizesFollow, Reached, Trunc
  <1> QED BY <1>5, <1>6, <1>7 DEF Fresh

LEMMA StutterKeeps ==
  ASSUME IInv, UNCHANGED vars
  PROVE  IInv'
  <1>0. TypeOK /\ Shapes /\ Locks /\ Bytewise /\ (~stale => Fresh) BY DEF IInv
  <1>1. /\ UNCHANGED <<size, data, cache, local, pend, dirty, holder, attrLock, task, kept, promised>>
        /\ UNCHANGED stale
    BY DEF vars
  <1>3. TypeOK' BY <1>0, <1>1 DEF TypeOK
  <1>4. Shapes' /\ Locks' /\ Bytewise'
    BY <1>0, <1>1 DEF Shapes, Locks, Bytewise, NoWriteLost, PendingBytes, Trunc, Truncating, Falloc
  <1> SUFFICES ASSUME ~stale' PROVE Fresh' BY <1>3, <1>4 DEF IInv
  <1>f. TruncatedGone /\ CacheFresh /\ CutProgress /\ SizesFollow BY <1>0, <1>1 DEF Fresh
  <1>5. TruncatedGone' /\ CacheFresh' BY <1>f, <1>1 DEF TruncatedGone, Truncating, CacheFresh, At, Trunc
  <1>6. CutProgress' BY <1>f, <1>1 DEF CutProgress, Progress, Trunc
  <1>7. SizesFollow' BY <1>f, <1>1 DEF SizesFollow, Reached, Trunc
  <1> QED BY <1>5, <1>6, <1>7 DEF Fresh

LEMMA InitHolds ==
  ASSUME Init
  PROVE  IInv
  <1>0. \A t \in Tasks : task[t] = Idle BY DEF Init
  <1>1. TypeOK
    <2>1. task \in [Tasks -> Calling] BY IdleTyped DEF Init
    <2>2. 0 \in Sizes BY IdleTyped
    <2>3. /\ size \in Sizes /\ local \in Sizes /\ promised \in Sizes /\ cache \in Sizes \cup {NoEntry}
          /\ data = {} /\ kept = {} /\ pend = {} /\ dirty = {} /\ stale \in BOOLEAN
          /\ holder \in Tasks \cup {Nobody} /\ attrLock \in Tasks \cup {Nobody}
      BY <2>2 DEF Init
    <2> QED BY <2>1, <2>3 DEF TypeOK, Calling
  <1>2. Shapes BY <1>0 DEF Shapes, Shape, Idle
  <1>n. holder = Nobody /\ pend = {} /\ data = {} /\ kept = {} /\ size = 0 /\ local = 0 /\ promised = 0
        /\ cache = NoEntry
    BY DEF Init
  <1>3. Locks BY <1>0, <1>n, <1>1, Typed DEF Locks, Trunc, Idle, Truncating
  <1>4. Bytewise BY <1>0, <1>n DEF Bytewise, NoWriteLost, Trunc, Idle
  <1>5. TruncatedGone /\ CacheFresh BY <1>n DEF TruncatedGone, CacheFresh
  <1>6. CutProgress BY <1>0 DEF CutProgress, Progress, Trunc, Idle
  <1>7. SizesFollow BY <1>0, <1>n DEF SizesFollow, Idle
  <1> QED BY <1>1, <1>2, <1>3, <1>4, <1>5, <1>6, <1>7 DEF IInv, Fresh

LEMMA CommitScriptKeeps ==
  ASSUME NEW s \in pend, IInv, CommitScript(s), Recorded
  PROVE  IInv'
  <1>0. TypeOK /\ Shapes /\ Locks /\ Bytewise /\ (~stale => Fresh) BY DEF IInv
  <1> DEFINE z == <<s[1], s[2], "sent">>
  <1>1. /\ UNCHANGED <<cache, local, dirty, holder, attrLock, task, kept, promised>>
        /\ s[3] = "buffered" /\ data' = data \cup Span(s[1], s[2]) /\ size' = MaxOf(size, s[2])
        /\ pend' = (pend \ {s}) \cup {z}
    BY DEF CommitScript, CommittedSize
  <1>w. PICK w \in Writes, st \in SliceStates : s = <<w[1], w[2], st>> BY <1>0 DEF TypeOK
  <1>y. s[1] \in Nat /\ s[2] \in 1..MaxSize /\ s[1] < s[2] BY <1>w, FileSizeAssumption
  <1>n. size \in Nat /\ local \in Nat /\ size' \in Nat /\ size' >= size /\ size' >= s[2] /\ size' \in {size, s[2]}
    BY <1>0, <1>1, <1>y, Typed DEF MaxOf
  <1>z. z[1] = s[1] /\ z[2] = s[2] /\ z[3] = "sent" OBVIOUS
  <1>p. \A x \in pend' : x = z \/ (x \in pend /\ x # s) BY <1>1
  <1> HIDE DEF z
  <1>2. TypeOK'
    <2>1. size' \in Sizes BY <1>0, <1>n, <1>y DEF TypeOK, Sizes
    <2>2. Span(s[1], s[2]) \subseteq Bytes BY <1>y, FileSizeAssumption DEF Span, Bytes
    <2>3. z \in {<<v[1], v[2], u>> : v \in Writes, u \in SliceStates} BY <1>w DEF z, SliceStates
    <2>4. stale' \in BOOLEAN BY DEF Recorded
    <2> QED BY <1>0, <1>1, <2>1, <2>2, <2>3, <2>4 DEF TypeOK
  <1>3. Shapes' BY <1>0, <1>1 DEF Shapes
  <1>c. \A u \in Tasks : ~Trunc(u, Cutting) /\ ~Trunc(u, Cutting)' BY <1>0, <1>1 DEF Locks, Trunc
  <1>4. Locks' BY <1>0, <1>1, <1>c DEF Locks, Trunc, Truncating, Falloc
  <1>5. Bytewise'
    <2>1. NoWriteLost'
      <3> SUFFICES ASSUME NEW b \in kept PROVE b \in data' \/ \E x \in pend' : b \in Span(x[1], x[2])
        BY <1>1 DEF NoWriteLost, PendingBytes
      <3>1. b \in data \/ \E x \in pend : b \in Span(x[1], x[2]) BY <1>0 DEF Bytewise, NoWriteLost, PendingBytes
      <3> QED BY <1>1, <3>1
    <2>2. \A x \in pend' : Span(x[1], x[2]) \subseteq kept BY <1>0, <1>p, <1>z DEF Bytewise
    <2>3. \A x \in pend' : x[3] = "sent" => Span(x[1], x[2]) \subseteq data' BY <1>0, <1>1, <1>p, <1>z DEF Bytewise
    <2>4. \A u \in Tasks : ~Trunc(u, Cutting \ {"get"})' BY <1>c DEF Trunc
    <2> QED BY <1>1, <2>1, <2>2, <2>3, <2>4 DEF Bytewise
  <1> SUFFICES ASSUME ~stale' PROVE Fresh' BY <1>2, <1>3, <1>4, <1>5 DEF IInv
  <1>f. TruncatedGone /\ CacheFresh /\ CutProgress /\ SizesFollow BY <1>0, KeepsFresh DEF Fresh
  <1>k. Span(s[1], s[2]) \subseteq kept BY <1>0 DEF Bytewise
  <1>6. TruncatedGone' BY <1>1, <1>f, <1>k DEF TruncatedGone, Truncating
  <1>7. CacheFresh' BY <1>1, <1>z DEF CacheFresh
  <1>8. CutProgress'
    <2>1. \A u \in Tasks : Trunc(u, {"redrain", "get"}) => data \subseteq kept BY <1>f DEF CutProgress, Progress
    <2> QED BY <1>1, <1>k, <1>c, <2>1 DEF CutProgress, Progress, Trunc, Cutting, Cut
  <1>9. SizesFollow'
    <2>0. ~Reached BY <1>c DEF Reached, Trunc, Cutting, Cut
    <2>a. \A u \in Tasks : task[u].arg \in Nat BY <1>0, Typed
    <2>b. \A x \in pend : x[2] \in Nat BY <1>0, Typed
    <2>1. size' > local => \E u \in Tasks : task[u].op \in {"write", "fallocate"} /\ task[u].arg >= size'
      <3>1. CASE size' = size BY <1>f, <2>0, <3>1 DEF SizesFollow
      <3>2. CASE size' = s[2] BY <1>f, <3>2 DEF SizesFollow
      <3> QED BY <1>n, <3>1, <3>2
    <2>2. local > size' => \E x \in pend' : x[3] = "buffered" /\ x[2] >= local
      <3> SUFFICES ASSUME local > size' PROVE \E x \in pend' : x[3] = "buffered" /\ x[2] >= local OBVIOUS
      <3>1. PICK x \in pend : x[3] = "buffered" /\ x[2] >= local BY <1>f, <1>n, <2>0 DEF SizesFollow
      <3>2. x # s BY <1>n, <1>y, <3>1, <2>b
      <3> QED BY <1>1, <3>1, <3>2
    <2>3. \A x \in pend' : x[2] > local => \E u \in Tasks : task[u].op = "write" /\ task[u].arg >= x[2]
      BY <1>f, <1>p, <1>z DEF SizesFollow
    <2>4. \A u \in Tasks : task[u].op = "write" =>
             task[u].arg <= size' \/ \E x \in pend' : x[3] = "buffered" /\ x[2] >= task[u].arg
      <3> SUFFICES ASSUME NEW u \in Tasks, task[u].op = "write"
                   PROVE  task[u].arg <= size' \/ \E x \in pend' : x[3] = "buffered" /\ x[2] >= task[u].arg
        OBVIOUS
      <3>1. CASE task[u].arg <= size BY <1>n, <2>a, <3>1
      <3>2. CASE \E x \in pend : x[3] = "buffered" /\ x[2] >= task[u].arg
        <4>1. PICK x \in pend : x[3] = "buffered" /\ x[2] >= task[u].arg BY <3>2
        <4>2. CASE x = s BY <1>n, <1>y, <2>a, <4>1, <4>2
        <4>3. CASE x # s BY <1>1, <4>1, <4>3
        <4> QED BY <4>2, <4>3
      <3> QED BY <1>f, <3>1, <3>2 DEF SizesFollow
    <2>5. \A u \in Tasks : task[u].op = "fallocate" => task[u].arg <= size'
      BY <1>f, <1>n, <2>a DEF SizesFollow
    <2>6. promised <= size' BY <1>0, <1>f, <1>n, <2>0, Typed DEF SizesFollow
    <2>7. \A b \in data' : b < size'
      <3>1. \A b \in data : b \in Nat /\ b < size BY <1>0, <1>f, Typed DEF SizesFollow
      <3>2. \A b \in Span(s[1], s[2]) : b \in Nat /\ b < s[2] BY <1>y DEF Span
      <3> QED BY <1>1, <1>n, <1>y, <3>1, <3>2
    <2> QED BY <1>1, <2>1, <2>2, <2>3, <2>4, <2>5, <2>6, <2>7 DEF SizesFollow
  <1> QED BY <1>6, <1>7, <1>8, <1>9 DEF Fresh

LEMMA CommitDoneKeeps ==
  ASSUME NEW s \in pend, IInv, CommitDone(s), Recorded
  PROVE  IInv'
  <1>0. TypeOK /\ Shapes /\ Locks /\ Bytewise /\ (~stale => Fresh) BY DEF IInv
  <1>1. /\ UNCHANGED <<size, data, local, dirty, holder, attrLock, task, kept, promised>>
        /\ s[3] = "sent" /\ cache' = NoEntry /\ pend' = pend \ {s}
    BY DEF CommitDone
  <1>2. TypeOK'
    <2>1. stale' \in BOOLEAN BY DEF Recorded
    <2> QED BY <1>0, <1>1, <2>1 DEF TypeOK
  <1>3. Shapes' BY <1>0, <1>1 DEF Shapes
  <1>c. \A u \in Tasks : ~Trunc(u, Cutting) /\ ~Trunc(u, Cutting)' BY <1>0, <1>1 DEF Locks, Trunc
  <1>4. Locks' BY <1>0, <1>1, <1>c DEF Locks, Trunc, Truncating, Falloc
  <1>5. Bytewise'
    <2>1. NoWriteLost'
      <3> SUFFICES ASSUME NEW b \in kept PROVE b \in data \/ \E x \in pend' : b \in Span(x[1], x[2])
        BY <1>1 DEF NoWriteLost, PendingBytes
      <3>1. b \in data \/ \E x \in pend : b \in Span(x[1], x[2]) BY <1>0 DEF Bytewise, NoWriteLost, PendingBytes
      <3>2. Span(s[1], s[2]) \subseteq data BY <1>0, <1>1 DEF Bytewise
      <3> QED BY <1>1, <3>1, <3>2
    <2>4. \A u \in Tasks : ~Trunc(u, Cutting \ {"get"})' BY <1>c DEF Trunc
    <2> QED BY <1>0, <1>1, <2>1, <2>4 DEF Bytewise
  <1> SUFFICES ASSUME ~stale' PROVE Fresh' BY <1>2, <1>3, <1>4, <1>5 DEF IInv
  <1>f. TruncatedGone /\ CacheFresh /\ CutProgress /\ SizesFollow BY <1>0, KeepsFresh DEF Fresh
  <1>6. TruncatedGone' /\ CacheFresh' BY <1>1, <1>f DEF TruncatedGone, Truncating, CacheFresh
  <1>8. CutProgress' BY <1>1, <1>f DEF CutProgress, Progress, Trunc
  <1>9. SizesFollow'
    <2>1. Reached' = Reached BY <1>1 DEF Reached, Trunc
    <2>2. \A x \in pend : x[3] = "buffered" => x \in pend' BY <1>1
    <2> QED BY <1>1, <1>f, <2>1, <2>2 DEF SizesFollow
  <1> QED BY <1>6, <1>8, <1>9 DEF Fresh

LEMMA WriteBufferKeeps ==
  ASSUME NEW t \in Tasks, NEW w \in Writes, IInv, WriteBuffer(t, w), Recorded
  PROVE  IInv'
  <1>0. TypeOK /\ Shapes /\ Locks /\ Bytewise /\ (~stale => Fresh) BY DEF IInv
  <1> DEFINE z == <<w[1], w[2], "buffered">>
             c == [Idle EXCEPT !.op = "write", !.pc = "mark", !.arg = w[2], !.base = local]
  <1>1. /\ UNCHANGED <<size, data, cache, local, dirty, attrLock, promised>>
        /\ task[t] = Idle /\ holder = Nobody /\ holder' = t /\ "write" \in Calls
        /\ pend' = pend \cup {z} /\ kept' = kept \cup Span(w[1], w[2])
        /\ task' = [task EXCEPT ![t] = c]
    BY DEF WriteBuffer, Starts
  <1>y. w[1] \in Nat /\ w[2] \in 1..MaxSize /\ w[1] < w[2] /\ w[2] \in Nat BY FileSizeAssumption
  <1>d. c \in Calling /\ c.op = "write" /\ c.pc = "mark" /\ c.arg = w[2]
    <2>1. local \in Sizes /\ w[2] \in Sizes BY <1>0, <1>y DEF TypeOK, Sizes
    <2> QED BY <1>1, <2>1, IdleTyped DEF Calling, Steps
  <1>z. z[1] = w[1] /\ z[2] = w[2] /\ z[3] = "buffered" OBVIOUS
  <1> HIDE DEF c
  <1>t. /\ task' \in [Tasks -> Calling] /\ \A u \in Tasks \ {t} : task'[u] = task[u]
        /\ task'[t] = c /\ task[t].op = "none"
    BY <1>0, <1>1, <1>d, Typed DEF Idle
  <1>2. TypeOK'
    <2>2. Span(w[1], w[2]) \subseteq Bytes BY <1>y, FileSizeAssumption DEF Span, Bytes
    <2>3. z \in {<<v[1], v[2], u>> : v \in Writes, u \in SliceStates} BY DEF SliceStates
    <2>4. stale' \in BOOLEAN BY DEF Recorded
    <2> HIDE DEF z
    <2> QED BY <1>0, <1>1, <1>t, <2>2, <2>3, <2>4 DEF TypeOK, Calling
  <1> HIDE DEF z
  <1>3. Shapes' BY <1>0, <1>d, <1>t DEF Shapes, Shape
  <1>n. ~Truncating BY <1>1 DEF Truncating
  <1>c. (\A u \in Tasks : ~Trunc(u, Cutting \cup {"redrain"}) /\ task[u].op # "write") /\ ~Reached
    BY <1>0, <1>1, <1>n, NoneCuts
  <1>e. \A u \in Tasks : ~Trunc(u, Cutting \cup {"redrain"})' BY <1>c, <1>t, <1>d DEF Trunc
  <1>g. ~Truncating' BY <1>1, <1>t, <1>d DEF Truncating
  <1>4. Locks' BY <1>0, <1>1, <1>c, <1>e, <1>g, <1>t, <1>d, Typed DEF Locks, Trunc
  <1>5. Bytewise'
    <2>1. NoWriteLost'
      <3> SUFFICES ASSUME NEW b \in kept' PROVE b \in data \/ \E x \in pend' : b \in Span(x[1], x[2])
        BY <1>1 DEF NoWriteLost, PendingBytes
      <3>1. CASE b \in kept
        <4>1. b \in data \/ \E x \in pend : b \in Span(x[1], x[2])
          BY <1>0, <3>1 DEF Bytewise, NoWriteLost, PendingBytes
        <4> QED BY <1>1, <4>1
      <3>2. CASE b \in Span(w[1], w[2]) BY <1>1, <1>z, <3>2
      <3> QED BY <1>1, <3>1, <3>2
    <2>4. \A u \in Tasks : ~Trunc(u, Cutting \ {"get"})' BY <1>e DEF Trunc
    <2> QED BY <1>0, <1>1, <1>z, <2>1, <2>4 DEF Bytewise
  <1> SUFFICES ASSUME ~stale' PROVE Fresh' BY <1>2, <1>3, <1>4, <1>5 DEF IInv
  <1>f. TruncatedGone /\ CacheFresh /\ CutProgress /\ SizesFollow BY <1>0, KeepsFresh DEF Fresh
  <1>6. TruncatedGone' BY <1>1, <1>n, <1>f DEF TruncatedGone
  <1>7. CacheFresh'
    <2>1. \A u \in Tasks : At(u, "fallocate", "insert") /\ task[u].arg = size => u # t BY <1>t DEF At
    <2>2. \A u \in Tasks : Trunc(u, {"insert"}) => u # t BY <1>t DEF Trunc
    <2> QED BY <1>1, <1>f, <1>t, <2>1, <2>2 DEF CacheFresh, At, Trunc
  <1>8. CutProgress' BY <1>e DEF CutProgress, Progress, Trunc, Cutting, Cut
  <1>9. SizesFollow'
    <2>1. size > local => \E u \in Tasks : task'[u].op \in {"write", "fallocate"} /\ task'[u].arg >= size
      BY <1>c, <1>f, <1>t DEF SizesFollow
    <2>2. local > size => \E x \in pend' : x[3] = "buffered" /\ x[2] >= local
      BY <1>1, <1>c, <1>f DEF SizesFollow
    <2>3. \A x \in pend' : x[2] > local => \E u \in Tasks : task'[u].op = "write" /\ task'[u].arg >= x[2]
      BY <1>1, <1>c, <1>f, <1>t, <1>d, <1>z, <1>y DEF SizesFollow
    <2>4. \A u \in Tasks : task'[u].op = "write" =>
             task'[u].arg <= size \/ \E x \in pend' : x[3] = "buffered" /\ x[2] >= task'[u].arg
      BY <1>1, <1>c, <1>t, <1>d, <1>z, <1>y
    <2>5. \A u \in Tasks : task'[u].op = "fallocate" => task'[u].arg <= size BY <1>f, <1>t, <1>d DEF SizesFollow
    <2>6. promised <= size BY <1>c, <1>f DEF SizesFollow
    <2>7. \A b \in data : b < size BY <1>f DEF SizesFollow
    <2> QED BY <1>1, <2>1, <2>2, <2>3, <2>4, <2>5, <2>6, <2>7 DEF SizesFollow
  <1> QED BY <1>6, <1>7, <1>8, <1>9 DEF Fresh

LEMMA WriteMarkKeeps ==
  ASSUME NEW t \in Tasks, IInv, WriteMark(t), Recorded
  PROVE  IInv'
  <1>0. TypeOK /\ Shapes /\ Locks /\ Bytewise /\ (~stale => Fresh) BY DEF IInv
  <1>1. /\ UNCHANGED <<size, data, cache, pend, attrLock, kept, promised>>
        /\ task[t].op = "write" /\ holder' = Nobody /\ local' = MaxOf(local, task[t].arg)
        /\ dirty' \subseteq dirty \cup {"data", "timestamp"}
        /\ task' = [task EXCEPT ![t] = Idle]
    BY DEF WriteMark, At, Done
  <1>t. /\ task' \in [Tasks -> Calling] /\ \A u \in Tasks \ {t} : task'[u] = task[u]
        /\ task'[t] = Idle /\ task'[t].op = "none"
    BY <1>0, <1>1, IdleTyped, Typed DEF Idle
  <1>a. /\ task[t].arg \in Sizes /\ local \in Sizes /\ size \in Nat /\ local \in Nat /\ task[t].arg \in Nat
        /\ local' \in {local, task[t].arg} /\ local' >= local /\ local' >= task[t].arg /\ local' \in Nat
    <2>1. task[t].arg \in Sizes /\ local \in Sizes BY <1>0, Typed DEF TypeOK, Calling
    <2>2. size \in Nat /\ local \in Nat /\ task[t].arg \in Nat BY <1>0, Typed
    <2> QED BY <1>1, <2>1, <2>2 DEF MaxOf
  <1>2. TypeOK'
    <2>1. local' \in Sizes BY <1>a
    <2>4. stale' \in BOOLEAN BY DEF Recorded
    <2> QED BY <1>0, <1>1, <1>t, <2>1, <2>4 DEF TypeOK, Calling
  <1>3. Shapes' BY <1>0, <1>t DEF Shapes, Shape, Idle
  <1>h. holder = t BY <1>0, <1>1 DEF Locks
  <1>c. /\ \A u \in Tasks : ~Trunc(u, Cutting \cup {"redrain"})
        /\ \A u \in Tasks \ {t} : task[u].op # "write"
    BY <1>0, <1>1, <1>h DEF Locks, Trunc
  <1>n. ~Truncating /\ ~Reached BY <1>1, <1>h, <1>c DEF Truncating, Reached, Trunc, Cutting, Cut
  <1>e. \A u \in Tasks : ~Trunc(u, Cutting \cup {"redrain"})' BY <1>c, <1>t DEF Trunc, Idle
  <1>4. Locks' BY <1>0, <1>1, <1>c, <1>e, <1>t, Typed DEF Locks, Trunc, Truncating
  <1>5. Bytewise'
    <2>4. \A u \in Tasks : ~Trunc(u, Cutting \ {"get"})' BY <1>e DEF Trunc
    <2> QED BY <1>0, <1>1, <2>4 DEF Bytewise, NoWriteLost, PendingBytes
  <1> SUFFICES ASSUME ~stale' PROVE Fresh' BY <1>2, <1>3, <1>4, <1>5 DEF IInv
  <1>f. TruncatedGone /\ CacheFresh /\ CutProgress /\ SizesFollow BY <1>0, KeepsFresh DEF Fresh
  <1>6. TruncatedGone' BY <1>1, <1>n, <1>f DEF TruncatedGone
  <1>7. CacheFresh'
    <2>1. \A u \in Tasks : At(u, "fallocate", "insert") /\ task[u].arg = size => u # t BY <1>1 DEF At
    <2>2. \A u \in Tasks : Trunc(u, {"insert"}) => u # t BY <1>1 DEF Trunc
    <2> QED BY <1>1, <1>f, <1>t, <2>1, <2>2 DEF CacheFresh, At, Trunc
  <1>8. CutProgress' BY <1>e DEF CutProgress, Progress, Trunc, Cutting, Cut
  <1>9. SizesFollow'
    <2>a. \A u \in Tasks : task[u].arg \in Nat BY <1>0, Typed
    <2>b. \A x \in pend : x[2] \in Nat BY <1>0, Typed
    <2>1. size > local' => \E u \in Tasks : task'[u].op \in {"write", "fallocate"} /\ task'[u].arg >= size
      <3> SUFFICES ASSUME size > local' PROVE \E u \in Tasks : task'[u].op \in {"write", "fallocate"} /\ task'[u].arg >= size
        OBVIOUS
      <3>1. PICK u \in Tasks : task[u].op \in {"write", "fallocate"} /\ task[u].arg >= size
        BY <1>a, <1>n, <1>f DEF SizesFollow
      <3>2. u # t BY <1>a, <3>1
      <3> QED BY <1>t, <3>1, <3>2
    <2>2. local' > size => \E x \in pend : x[3] = "buffered" /\ x[2] >= local'
      <3>1. CASE local' = local BY <1>f, <1>n, <3>1 DEF SizesFollow
      <3>2. CASE local' = task[t].arg BY <1>f, <1>1, <1>a, <3>2 DEF SizesFollow
      <3> QED BY <1>a, <3>1, <3>2
    <2>3. \A x \in pend : ~(x[2] > local')
      BY <1>f, <1>c, <1>a, <2>a, <2>b DEF SizesFollow
    <2>4. \A u \in Tasks : task'[u].op # "write" BY <1>c, <1>t
    <2>5. \A u \in Tasks : task'[u].op = "fallocate" => task'[u].arg <= size BY <1>f, <1>t DEF SizesFollow
    <2>6. promised <= size BY <1>n, <1>f DEF SizesFollow
    <2>7. \A b \in data : b < size BY <1>f DEF SizesFollow
    <2> QED BY <1>1, <2>1, <2>2, <2>3, <2>4, <2>5, <2>6, <2>7 DEF SizesFollow
  <1> QED BY <1>6, <1>7, <1>8, <1>9 DEF Fresh

LEMMA ZeroExtendKeeps ==
  ASSUME NEW t \in Tasks, NEW n \in Sizes, IInv, ZeroExtend(t, n), Recorded
  PROVE  IInv'
  <1>0. TypeOK /\ Shapes /\ Locks /\ Bytewise /\ (~stale => Fresh) BY DEF IInv
  <1>1. /\ UNCHANGED <<data, pend, holder, attrLock, task, kept, promised>>
        /\ holder = Nobody /\ pend = {} /\ n > local /\ size' = MaxOf(size, n) /\ cache' = NoEntry /\ local' = n
        /\ dirty' = dirty \cup {"data"}
    BY DEF ZeroExtend
  <1>a. /\ size \in Nat /\ local \in Nat /\ n \in Nat /\ size' \in Nat /\ size' \in {size, n} /\ size' >= n /\ size' >= size
    <2>1. size \in Nat /\ local \in Nat /\ n \in Nat BY <1>0, Typed DEF Sizes
    <2> QED BY <1>1, <2>1 DEF MaxOf
  <1>2. TypeOK'
    <2>1. size' \in Sizes BY <1>0, <1>a DEF TypeOK
    <2>4. stale' \in BOOLEAN BY DEF Recorded
    <2> QED BY <1>0, <1>1, <2>1, <2>4 DEF TypeOK
  <1>3. Shapes' BY <1>0, <1>1 DEF Shapes
  <1>n. ~Truncating BY <1>1 DEF Truncating
  <1>c. (\A u \in Tasks : ~Trunc(u, Cutting \cup {"redrain"}) /\ task[u].op # "write") /\ ~Reached
    BY <1>0, <1>1, <1>n, NoneCuts
  <1>e. \A u \in Tasks : ~Trunc(u, Cutting \cup {"redrain"})' BY <1>1, <1>c DEF Trunc
  <1>4. Locks' BY <1>0, <1>1 DEF Locks, Trunc, Truncating, Falloc
  <1>5. Bytewise' BY <1>0, <1>1 DEF Bytewise, NoWriteLost, PendingBytes, Trunc
  <1> SUFFICES ASSUME ~stale' PROVE Fresh' BY <1>2, <1>3, <1>4, <1>5 DEF IInv
  <1>f. TruncatedGone /\ CacheFresh /\ CutProgress /\ SizesFollow BY <1>0, KeepsFresh DEF Fresh
  <1>6. TruncatedGone' /\ CacheFresh' BY <1>1, <1>n, <1>f DEF TruncatedGone, Truncating, CacheFresh
  <1>8. CutProgress' BY <1>e DEF CutProgress, Progress, Trunc, Cutting, Cut
  <1>9. SizesFollow'
    <2>a. \A u \in Tasks : task[u].arg \in Nat BY <1>0, Typed
    <2>1. size' > n => \E u \in Tasks : task[u].op \in {"write", "fallocate"} /\ task[u].arg >= size'
      <3> SUFFICES ASSUME size' > n PROVE \E u \in Tasks : task[u].op \in {"write", "fallocate"} /\ task[u].arg >= size'
        OBVIOUS
      <3>1. size' = size /\ size > local BY <1>1, <1>a
      <3> QED BY <1>c, <1>f, <3>1 DEF SizesFollow
    <2>2. ~(n > size') BY <1>a
    <2>5. \A u \in Tasks : task[u].op = "fallocate" => task[u].arg <= size' BY <1>f, <1>a, <2>a DEF SizesFollow
    <2>6. promised <= size' BY <1>0, <1>c, <1>f, <1>a, Typed DEF SizesFollow
    <2>7. \A b \in data : b < size' BY <1>0, <1>f, <1>a, Typed DEF SizesFollow
    <2> QED BY <1>1, <1>c, <2>1, <2>2, <2>5, <2>6, <2>7 DEF SizesFollow
  <1> QED BY <1>6, <1>8, <1>9 DEF Fresh

LEMMA FallocateScriptKeeps ==
  ASSUME NEW t \in Tasks, NEW n \in Sizes, IInv, FallocateScript(t, n), Recorded
  PROVE  IInv'
  <1>0. TypeOK /\ Shapes /\ Locks /\ Bytewise /\ (~stale => Fresh) BY DEF IInv
  <1> DEFINE c == [Idle EXCEPT !.op = "fallocate", !.pc = "insert", !.arg = size']
  <1>1. /\ UNCHANGED <<data, cache, local, pend, dirty, holder, attrLock, kept, promised>>
        /\ task[t] = Idle /\ ~Truncating /\ "fallocate" \in Calls /\ size' = MaxOf(size, n)
        /\ task' = [task EXCEPT ![t] = c]
    BY DEF FallocateScript, Starts, Becomes
  <1>a. /\ size \in Nat /\ local \in Nat /\ size' \in Nat /\ size' \in Sizes /\ size' >= size
    <2>1. size \in Nat /\ local \in Nat /\ n \in Nat /\ size \in Sizes BY <1>0, Typed DEF Sizes, TypeOK
    <2> QED BY <1>1, <2>1 DEF MaxOf
  <1>d. c \in Calling /\ c.op = "fallocate" /\ c.pc = "insert" /\ c.arg = size'
    BY <1>1, <1>a, IdleTyped DEF Calling, Steps
  <1> HIDE DEF c
  <1>t. /\ task' \in [Tasks -> Calling] /\ \A u \in Tasks \ {t} : task'[u] = task[u]
        /\ task'[t] = c /\ task[t].op = "none"
    BY <1>0, <1>1, <1>d, Typed DEF Idle
  <1>2. TypeOK'
    <2>4. stale' \in BOOLEAN BY DEF Recorded
    <2> QED BY <1>0, <1>1, <1>a, <1>t, <2>4 DEF TypeOK, Calling
  <1>3. Shapes' BY <1>0, <1>d, <1>t DEF Shapes, Shape
  <1>c. (\A u \in Tasks : ~Trunc(u, Cutting \cup {"redrain"})) /\ ~Reached BY <1>0, <1>1, NoneCuts
  <1>e. \A u \in Tasks : ~Trunc(u, Cutting \cup {"redrain"})' BY <1>c, <1>t, <1>d DEF Trunc
  <1>g. ~Truncating' BY <1>0, <1>1, <1>t, <1>d, Typed DEF Truncating
  <1>4. Locks' BY <1>0, <1>1, <1>c, <1>e, <1>g, <1>t, <1>d, Typed DEF Locks, Trunc
  <1>5. Bytewise'
    <2>4. \A u \in Tasks : ~Trunc(u, Cutting \ {"get"})' BY <1>e DEF Trunc
    <2> QED BY <1>0, <1>1, <2>4 DEF Bytewise, NoWriteLost, PendingBytes
  <1> SUFFICES ASSUME ~stale' PROVE Fresh' BY <1>2, <1>3, <1>4, <1>5 DEF IInv
  <1>f. TruncatedGone /\ CacheFresh /\ CutProgress /\ SizesFollow BY <1>0, KeepsFresh DEF Fresh
  <1>6. TruncatedGone' BY <1>1, <1>f DEF TruncatedGone
  <1>7. CacheFresh' BY <1>t, <1>d DEF CacheFresh, At
  <1>8. CutProgress' BY <1>e DEF CutProgress, Progress, Trunc, Cutting, Cut
  <1>9. SizesFollow'
    <2>a. \A u \in Tasks : task[u].arg \in Nat BY <1>0, Typed
    <2>1. \E u \in Tasks : task'[u].op \in {"write", "fallocate"} /\ task'[u].arg >= size' BY <1>t, <1>d, <1>a
    <2>2. local > size' => \E x \in pend : x[3] = "buffered" /\ x[2] >= local
      BY <1>a, <1>c, <1>f DEF SizesFollow
    <2>3. \A x \in pend : x[2] > local => \E u \in Tasks : task'[u].op = "write" /\ task'[u].arg >= x[2]
      BY <1>f, <1>t DEF SizesFollow
    <2>4. \A u \in Tasks : task'[u].op = "write" =>
             task'[u].arg <= size' \/ \E x \in pend : x[3] = "buffered" /\ x[2] >= task'[u].arg
      <3> SUFFICES ASSUME NEW u \in Tasks, task'[u].op = "write"
                   PROVE  task'[u].arg <= size' \/ \E x \in pend : x[3] = "buffered" /\ x[2] >= task'[u].arg
        OBVIOUS
      <3>1. task'[u] = task[u] /\ task[u].op = "write" BY <1>t, <1>d
      <3>2. task[u].arg <= size \/ \E x \in pend : x[3] = "buffered" /\ x[2] >= task[u].arg
        BY <1>f, <3>1 DEF SizesFollow
      <3> QED BY <1>a, <2>a, <3>1, <3>2
    <2>5. \A u \in Tasks : task'[u].op = "fallocate" => task'[u].arg <= size'
      BY <1>f, <1>t, <1>d, <1>a, <2>a DEF SizesFollow
    <2>6. promised <= size' BY <1>0, <1>c, <1>f, <1>a, Typed DEF SizesFollow
    <2>7. \A b \in data : b < size' BY <1>0, <1>f, <1>a, Typed DEF SizesFollow
    <2> QED BY <1>1, <2>1, <2>2, <2>3, <2>4, <2>5, <2>6, <2>7 DEF SizesFollow
  <1> QED BY <1>6, <1>7, <1>8, <1>9 DEF Fresh

LEMMA FallocateInsertKeeps ==
  ASSUME NEW t \in Tasks, IInv, FallocateInsert(t), Recorded
  PROVE  IInv'
  <1>0. TypeOK /\ Shapes /\ Locks /\ Bytewise /\ (~stale => Fresh) BY DEF IInv
  <1>1. /\ UNCHANGED <<size, data, local, pend, dirty, holder, attrLock, kept, promised>>
        /\ task[t].op = "fallocate" /\ task[t].pc = "insert" /\ cache' = task[t].arg
    BY DEF FallocateInsert, At
  <1>t. /\ task' \in [Tasks -> Calling] /\ \A u \in Tasks \ {t} : task'[u] = task[u]
        /\ task'[t].op = "fallocate" /\ task'[t].pc = "extend" /\ task'[t].arg = task[t].arg
    BY <1>0, <1>1, Typed DEF FallocateInsert, Goto, Calling, Steps
  <1>2. TypeOK'
    <2>1. cache' \in Sizes BY <1>0, <1>1, Typed DEF Calling
    <2>4. stale' \in BOOLEAN BY DEF Recorded
    <2> QED BY <1>0, <1>1, <1>t, <2>1, <2>4 DEF TypeOK, Calling
  <1>3. Shapes' BY <1>0, <1>t DEF Shapes, Shape
  <1>n. ~Truncating BY <1>0, <1>1 DEF Locks, Falloc
  <1>c. (\A u \in Tasks : ~Trunc(u, Cutting \cup {"redrain"})) /\ ~Reached BY <1>0, <1>n, NoneCuts
  <1>e. \A u \in Tasks : ~Trunc(u, Cutting \cup {"redrain"})' BY <1>c, <1>t DEF Trunc
  <1>g. ~Truncating' BY <1>0, <1>1, <1>n, <1>t, Typed DEF Truncating
  <1>4. Locks' BY <1>0, <1>1, <1>c, <1>e, <1>g, <1>t, Typed DEF Locks, Trunc
  <1>5. Bytewise'
    <2>4. \A u \in Tasks : ~Trunc(u, Cutting \ {"get"})' BY <1>e DEF Trunc
    <2> QED BY <1>0, <1>1, <2>4 DEF Bytewise, NoWriteLost, PendingBytes
  <1> SUFFICES ASSUME ~stale' PROVE Fresh' BY <1>2, <1>3, <1>4, <1>5 DEF IInv
  <1>k. ~stale /\ cache' \in {NoEntry, cache, size} BY <1>1, KeepsFresh
  <1>f. TruncatedGone /\ CacheFresh /\ CutProgress /\ SizesFollow BY <1>0, <1>k DEF Fresh
  <1>6. TruncatedGone' BY <1>1, <1>n, <1>f DEF TruncatedGone
  <1>7. CacheFresh'
    <2>1. CASE cache' \in {NoEntry, size} BY <1>1, <2>1 DEF CacheFresh
    <2>2. CASE cache' = cache /\ cache' \notin {NoEntry, size}
      <3>1. CASE \E s \in pend : s[3] = "sent" BY <1>1, <3>1 DEF CacheFresh
      <3>2. CASE \E u \in Tasks : At(u, "fallocate", "insert") /\ task[u].arg = size
        <4>1. PICK u \in Tasks : At(u, "fallocate", "insert") /\ task[u].arg = size BY <3>2
        <4>2. u # t BY <1>1, <2>2, <4>1
        <4>3. task'[u] = task[u] BY <1>t, <4>2
        <4> QED BY <1>1, <4>1, <4>3 DEF CacheFresh, At
      <3>3. ~\E u \in Tasks : Trunc(u, {"insert"}) BY <1>c DEF Trunc, Cutting
      <3> QED BY <1>f, <2>2, <3>1, <3>2, <3>3 DEF CacheFresh
    <2> QED BY <1>k, <2>1, <2>2
  <1>8. CutProgress' BY <1>e DEF CutProgress, Progress, Trunc, Cutting, Cut
  <1>9. SizesFollow'
    <2>1. size > local => \E u \in Tasks : task'[u].op \in {"write", "fallocate"} /\ task'[u].arg >= size
      BY <1>1, <1>c, <1>f, <1>t DEF SizesFollow
    <2>2. local > size => \E x \in pend : x[3] = "buffered" /\ x[2] >= local
      BY <1>c, <1>f DEF SizesFollow
    <2>3. \A x \in pend : x[2] > local => \E u \in Tasks : task'[u].op = "write" /\ task'[u].arg >= x[2]
      BY <1>1, <1>f, <1>t DEF SizesFollow
    <2>4. \A u \in Tasks : task'[u].op = "write" =>
             task'[u].arg <= size \/ \E x \in pend : x[3] = "buffered" /\ x[2] >= task'[u].arg
      BY <1>1, <1>f, <1>t DEF SizesFollow
    <2>5. \A u \in Tasks : task'[u].op = "fallocate" => task'[u].arg <= size
      BY <1>1, <1>f, <1>t DEF SizesFollow
    <2>6. promised <= size /\ \A b \in data : b < size BY <1>c, <1>f DEF SizesFollow
    <2> QED BY <1>1, <2>1, <2>2, <2>3, <2>4, <2>5, <2>6 DEF SizesFollow
  <1> QED BY <1>6, <1>7, <1>8, <1>9 DEF Fresh

LEMMA FallocateExtendKeeps ==
  ASSUME NEW t \in Tasks, IInv, FallocateExtend(t), Recorded
  PROVE  IInv'
  <1>0. TypeOK /\ Shapes /\ Locks /\ Bytewise /\ (~stale => Fresh) BY DEF IInv
  <1>1. /\ UNCHANGED <<size, data, cache, pend, dirty, holder, attrLock, kept, promised>>
        /\ task[t].op = "fallocate" /\ task[t].pc = "extend" /\ local' = MaxOf(local, task[t].arg)
        /\ task' = [task EXCEPT ![t] = Idle]
    BY DEF FallocateExtend, At, Done
  <1>t. /\ task' \in [Tasks -> Calling] /\ \A u \in Tasks \ {t} : task'[u] = task[u]
        /\ task'[t] = Idle /\ task'[t].op = "none"
    BY <1>0, <1>1, Typed, IdleTyped DEF Idle
  <1>a. /\ local' \in Sizes /\ size \in Nat /\ local \in Nat /\ task[t].arg \in Nat
        /\ local' \in {local, task[t].arg} /\ local' >= local /\ local' >= task[t].arg /\ local' \in Nat
    <2>1. task[t].arg \in Sizes /\ local \in Sizes BY <1>0, Typed DEF TypeOK, Calling
    <2>2. size \in Nat /\ local \in Nat /\ task[t].arg \in Nat BY <1>0, Typed
    <2> QED BY <1>1, <2>1, <2>2 DEF MaxOf
  <1>2. TypeOK'
    <2>4. stale' \in BOOLEAN BY DEF Recorded
    <2> QED BY <1>0, <1>1, <1>a, <1>t, <2>4 DEF TypeOK, Calling
  <1>3. Shapes' BY <1>0, <1>t DEF Shapes, Shape, Idle
  <1>n. ~Truncating BY <1>0, <1>1 DEF Locks, Falloc
  <1>c. (\A u \in Tasks : ~Trunc(u, Cutting \cup {"redrain"})) /\ ~Reached BY <1>0, <1>n, NoneCuts
  <1>e. \A u \in Tasks : ~Trunc(u, Cutting \cup {"redrain"})' BY <1>c, <1>t DEF Trunc
  <1>g. ~Truncating' BY <1>0, <1>1, <1>n, <1>t, Typed DEF Truncating
  <1>4. Locks' BY <1>0, <1>1, <1>c, <1>e, <1>g, <1>t, Typed DEF Locks, Trunc
  <1>5. Bytewise'
    <2>4. \A u \in Tasks : ~Trunc(u, Cutting \ {"get"})' BY <1>e DEF Trunc
    <2> QED BY <1>0, <1>1, <2>4 DEF Bytewise, NoWriteLost, PendingBytes
  <1> SUFFICES ASSUME ~stale' PROVE Fresh' BY <1>2, <1>3, <1>4, <1>5 DEF IInv
  <1>f. TruncatedGone /\ CacheFresh /\ CutProgress /\ SizesFollow BY <1>0, KeepsFresh DEF Fresh
  <1>6. TruncatedGone' BY <1>1, <1>n, <1>f DEF TruncatedGone
  <1>7. CacheFresh'
    <2>1. \A u \in Tasks : At(u, "fallocate", "insert") => u # t BY <1>1 DEF At
    <2>2. \A u \in Tasks : ~Trunc(u, {"insert"}) BY <1>c DEF Trunc, Cutting
    <2> QED BY <1>1, <1>f, <1>t, <2>1, <2>2 DEF CacheFresh, At
  <1>8. CutProgress' BY <1>e DEF CutProgress, Progress, Trunc, Cutting, Cut
  <1>9. SizesFollow'
    <2>b. \A x \in pend : x[2] \in Nat BY <1>0, Typed
    <2>1. size > local' => \E u \in Tasks : task'[u].op \in {"write", "fallocate"} /\ task'[u].arg >= size
      <3> SUFFICES ASSUME size > local' PROVE \E u \in Tasks : task'[u].op \in {"write", "fallocate"} /\ task'[u].arg >= size
        OBVIOUS
      <3>1. PICK u \in Tasks : task[u].op \in {"write", "fallocate"} /\ task[u].arg >= size
        BY <1>a, <1>c, <1>f DEF SizesFollow
      <3>2. u # t BY <1>a, <3>1
      <3> QED BY <1>t, <3>1, <3>2
    <2>2. local' > size => \E x \in pend : x[3] = "buffered" /\ x[2] >= local'
      <3>1. task[t].arg <= size BY <1>1, <1>f DEF SizesFollow
      <3>2. local' > size => local' = local BY <1>a, <3>1
      <3> QED BY <1>c, <1>f, <3>2 DEF SizesFollow
    <2>3. \A x \in pend : x[2] > local' => \E u \in Tasks : task'[u].op = "write" /\ task'[u].arg >= x[2]
      <3> SUFFICES ASSUME NEW x \in pend, x[2] > local'
                   PROVE  \E u \in Tasks : task'[u].op = "write" /\ task'[u].arg >= x[2]
        OBVIOUS
      <3>1. x[2] > local BY <1>a, <2>b
      <3>2. PICK u \in Tasks : task[u].op = "write" /\ task[u].arg >= x[2] BY <1>f, <3>1 DEF SizesFollow
      <3> QED BY <1>1, <1>t, <3>2
    <2>4. \A u \in Tasks : task'[u].op = "write" =>
             task'[u].arg <= size \/ \E x \in pend : x[3] = "buffered" /\ x[2] >= task'[u].arg
      BY <1>f, <1>t DEF SizesFollow
    <2>5. \A u \in Tasks : task'[u].op = "fallocate" => task'[u].arg <= size BY <1>f, <1>t DEF SizesFollow
    <2>6. promised <= size /\ \A b \in data : b < size BY <1>c, <1>f DEF SizesFollow
    <2> QED BY <1>1, <2>1, <2>2, <2>3, <2>4, <2>5, <2>6 DEF SizesFollow
  <1> QED BY <1>6, <1>7, <1>8, <1>9 DEF Fresh

LEMMA TruncateLockKeeps ==
  ASSUME NEW t \in Tasks, IInv, TruncateLock(t), Recorded
  PROVE  IInv'
  <1>0. TypeOK /\ Shapes /\ Locks /\ Bytewise /\ (~stale => Fresh) BY DEF IInv
  <1>1. /\ UNCHANGED <<size, data, cache, local, pend, dirty, attrLock, kept, promised>>
        /\ task[t].op = "truncate" /\ task[t].pc = "lock" /\ holder = Nobody /\ holder' = t
        /\ \A u \in Tasks : task[u].op # "fallocate"
    BY DEF TruncateLock, At, Falloc
  <1>t. /\ task' \in [Tasks -> Calling] /\ \A u \in Tasks \ {t} : task'[u] = task[u]
        /\ task'[t].op = "truncate" /\ task'[t].pc = "redrain" /\ task'[t].arg = task[t].arg
    BY <1>0, <1>1, Typed DEF TruncateLock, Goto, Calling, Steps
  <1>2. TypeOK'
    <2>4. stale' \in BOOLEAN BY DEF Recorded
    <2> QED BY <1>0, <1>1, <1>t, <2>4 DEF TypeOK, Calling
  <1>3. Shapes' BY <1>0, <1>t DEF Shapes, Shape
  <1>n. ~Truncating BY <1>1 DEF Truncating
  <1>c. (\A u \in Tasks : ~Trunc(u, Cutting \cup {"redrain"}) /\ task[u].op # "write") /\ ~Reached
    BY <1>0, <1>1, <1>n, NoneCuts
  <1>w. \A u \in Tasks : task'[u].op # "fallocate" /\ task'[u].op # "write" BY <1>1, <1>c, <1>t
  <1>e. \A u \in Tasks : ~Trunc(u, Cutting)' BY <1>c, <1>t DEF Trunc, Cutting
  <1>d. \A u \in Tasks : Trunc(u, Cutting \cup {"redrain"})' <=> u = t BY <1>c, <1>t DEF Trunc
  <1>4. Locks' BY <1>1, <1>w, <1>e, <1>d DEF Locks, Falloc
  <1>5. Bytewise'
    <2>4. \A u \in Tasks : ~Trunc(u, Cutting \ {"get"})' BY <1>e DEF Trunc
    <2> QED BY <1>0, <1>1, <2>4 DEF Bytewise, NoWriteLost, PendingBytes
  <1> SUFFICES ASSUME ~stale' PROVE Fresh' BY <1>2, <1>3, <1>4, <1>5 DEF IInv
  <1>f. TruncatedGone /\ CacheFresh /\ CutProgress /\ SizesFollow BY <1>0, KeepsFresh DEF Fresh
  <1>6. TruncatedGone' BY <1>1, <1>n, <1>f DEF TruncatedGone
  <1>7. CacheFresh'
    <2>1. \A u \in Tasks : ~At(u, "fallocate", "insert") /\ ~Trunc(u, {"insert"})
      BY <1>1, <1>c DEF At, Trunc, Cutting
    <2> QED BY <1>1, <1>f, <2>1 DEF CacheFresh
  <1>8. CutProgress'
    <2>1. data \subseteq kept BY <1>f, <1>n DEF TruncatedGone
    <2> QED BY <1>1, <1>e, <2>1 DEF CutProgress, Progress, Trunc, Cutting, Cut
  <1>9. SizesFollow'
    <2>1. ~(size > local) BY <1>1, <1>c, <1>f DEF SizesFollow
    <2>2. local > size => \E x \in pend : x[3] = "buffered" /\ x[2] >= local BY <1>c, <1>f DEF SizesFollow
    <2>3. \A x \in pend : ~(x[2] > local) BY <1>c, <1>f DEF SizesFollow
    <2>4. promised <= size /\ \A b \in data : b < size BY <1>c, <1>f DEF SizesFollow
    <2> QED BY <1>1, <1>w, <2>1, <2>2, <2>3, <2>4 DEF SizesFollow
  <1> QED BY <1>6, <1>7, <1>8, <1>9 DEF Fresh

LEMMA TruncateRedrainKeeps ==
  ASSUME NEW t \in Tasks, IInv, TruncateRedrain(t), Recorded
  PROVE  IInv'
  <1>0. TypeOK /\ Shapes /\ Locks /\ Bytewise /\ (~stale => Fresh) BY DEF IInv
  <1>1. /\ UNCHANGED <<size, data, cache, local, pend, dirty, holder, attrLock, kept, promised>>
        /\ task[t].op = "truncate" /\ task[t].pc = "redrain" /\ pend = {}
    BY DEF TruncateRedrain, At, Drained
  <1>t. /\ task' \in [Tasks -> Calling] /\ \A u \in Tasks \ {t} : task'[u] = task[u]
        /\ task'[t].op = "truncate" /\ task'[t].pc = "get" /\ task'[t].arg = task[t].arg
    BY <1>0, <1>1, Typed DEF TruncateRedrain, Goto, Calling, Steps
  <1>2. Trunc(t, Cutting \cup {"redrain"}) /\ Trunc(t, Cutting)' /\ ~Trunc(t, Cutting \ {"get"})'
    BY <1>1, <1>t DEF Trunc, Cutting
  <1>3. size' \in Sizes /\ cache' \in Sizes \cup {NoEntry} BY <1>0, <1>1 DEF TypeOK
  <1>4. kept' \subseteq data' BY <1>0, <1>1 DEF Bytewise, NoWriteLost, PendingBytes
  <1>h. /\ \A u \in Tasks : task[u].op # "fallocate"
        /\ \A u \in Tasks \ {t} : ~Trunc(u, Cutting \cup {"redrain"})
    BY <1>0, <1>2, HolderAlone
  <1>5. ASSUME ~stale' PROVE CacheFresh' /\ Progress(t)'
    <2>f. CacheFresh /\ Progress(t) BY <1>0, <1>5, KeepsFresh DEF Fresh, CutProgress
    <2>1. \A u \in Tasks : ~At(u, "fallocate", "insert") /\ ~Trunc(u, {"insert"})
      BY <1>1, <1>h DEF At, Trunc, Cutting
    <2>2. CacheFresh' BY <1>1, <2>f, <2>1 DEF CacheFresh
    <2> QED BY <1>1, <1>t, <2>f, <2>2 DEF Progress, Trunc, Cut, Cutting
  <1>6. ~Reached BY <1>1, <1>h DEF Reached, Trunc, Cut, Cutting
  <1> QED BY <1>1, <1>t, <1>2, <1>3, <1>4, <1>5, <1>6, CutterKeeps

\* The read: the cached size is the record's, and what lies behind the cut is
\* in the chunks from the first one planned on.
LEMMA GetNodeCuts ==
  ASSUME NEW t \in Tasks, IInv, GetNode(t), Recorded, task[t].op = "truncate"
  PROVE  IInv'
  <1>0. TypeOK /\ Shapes /\ Locks /\ Bytewise /\ (~stale => Fresh) BY DEF IInv
  <1>1. /\ UNCHANGED <<size, data, cache, local, pend, dirty, holder, attrLock, promised>>
        /\ task[t].pc = "get" /\ kept' = kept \cap Span(0, task[t].arg)
    BY DEF GetNode
  <1>2. Trunc(t, Cutting \cup {"redrain"}) /\ Trunc(t, Cutting) BY <1>1 DEF Trunc, Cutting
  <1>p. pend = {} BY <1>0, <1>2 DEF Locks
  <1>t. /\ task' \in [Tasks -> Calling] /\ \A u \in Tasks \ {t} : task'[u] = task[u]
        /\ task'[t].op = "truncate" /\ task'[t].arg = task[t].arg
        /\ \/ task'[t].pc = "fill" /\ task'[t].read = size
           \/ /\ task'[t].pc = "chunk" /\ task'[t].read = cache /\ cache # NoEntry
              /\ task'[t].base = task[t].arg \div ChunkSize
    <2>1. CASE cache # NoEntry /\ Got(t, cache)
      <3>1. cache \in Sizes BY <1>0, <2>1 DEF TypeOK
      <3> QED BY <1>0, <2>1, <3>1, GotTyped DEF AfterGet
    <2>2. CASE task' = [task EXCEPT ![t].pc = "fill", ![t].read = size]
      <3> DEFINE c == [task[t] EXCEPT !.pc = "fill", !.read = size]
      <3>1. task \in [Tasks -> Calling] /\ task[t] \in Calling /\ size \in Sizes BY <1>0, Typed DEF TypeOK
      <3>2. task' = [task EXCEPT ![t] = c] BY <2>2, <3>1
      <3>3. c \in Calling /\ c.op = task[t].op /\ c.pc = "fill" /\ c.read = size /\ c.arg = task[t].arg
        BY <3>1 DEF Calling, Steps
      <3> HIDE DEF c
      <3> QED BY <3>1, <3>2, <3>3
    <2> QED BY <2>1, <2>2 DEF GetNode
  <1>c. Trunc(t, Cutting)' BY <1>t DEF Trunc, Cutting
  <1>3. size' \in Sizes /\ cache' \in Sizes \cup {NoEntry} BY <1>0, <1>1 DEF TypeOK
  <1>4. kept' \subseteq data' /\ kept' \subseteq kept
    BY <1>0, <1>1, <1>p DEF Bytewise, NoWriteLost, PendingBytes
  <1>a. task[t].arg \in Nat /\ data \subseteq Nat /\ kept \subseteq Nat /\ ChunkSize \in Nat \ {0}
    BY <1>0, Typed, FileSizeAssumption
  <1>k. \A b \in Nat : b \in kept' <=> b \in kept /\ b < task[t].arg BY <1>1, <1>a DEF Span
  <1>b. \A b \in kept' : b < task'[t].arg BY <1>1, <1>k, <1>a, <1>t
  <1>h. /\ \A u \in Tasks : task[u].op # "fallocate"
        /\ \A u \in Tasks \ {t} : ~Trunc(u, Cutting \cup {"redrain"})
    BY <1>0, <1>2, HolderAlone
  <1>5. ASSUME ~stale' PROVE CacheFresh' /\ Progress(t)'
    <2>f. CacheFresh /\ Progress(t) BY <1>0, <1>5, KeepsFresh DEF Fresh, CutProgress
    <2>1. \A u \in Tasks : ~At(u, "fallocate", "insert") /\ ~Trunc(u, {"insert"})
      BY <1>1, <1>h DEF At, Trunc, Cutting
    <2>2. cache \in {NoEntry, size} BY <1>p, <2>f, <2>1 DEF CacheFresh
    <2>3. CacheFresh' BY <1>1, <2>2 DEF CacheFresh
    <2>4. task'[t].read = size BY <1>t, <2>2
    <2>5. task'[t].pc = "chunk" => \A b \in data : b >= task[t].arg => b \div ChunkSize >= task'[t].base
      BY <1>a, <1>t, DivMono, DivParts
    <2>6. \A b \in data : b < task[t].arg => b \in kept'
      <3>1. data \subseteq kept BY <1>1, <2>f DEF Progress, Trunc
      <3> QED BY <1>a, <1>k, <3>1
    <2>7. task'[t].pc \in {"fill", "chunk"} BY <1>t
    <2> QED BY <1>1, <1>t, <2>3, <2>4, <2>5, <2>6, <2>7 DEF Progress, Trunc, Cut, Cutting
  <1>6. ~Reached BY <1>1, <1>h DEF Reached, Trunc, Cut, Cutting
  <1> QED BY <1>1, <1>p, <1>t, <1>2, <1>c, <1>3, <1>4, <1>b, <1>5, <1>6, CutterKeeps

LEMMA GetNodeFillCuts ==
  ASSUME NEW t \in Tasks, IInv, GetNodeFill(t), Recorded, task[t].op = "truncate"
  PROVE  IInv'
  <1>0. TypeOK /\ Shapes /\ Locks /\ Bytewise /\ (~stale => Fresh) BY DEF IInv
  <1>1. /\ UNCHANGED <<size, data, local, pend, dirty, holder, attrLock, kept, promised>>
        /\ task[t].pc = "fill" /\ cache' = task[t].read /\ Got(t, task[t].read)
    BY DEF GetNodeFill
  <1>2. Trunc(t, Cutting \cup {"redrain"}) /\ Trunc(t, Cutting) /\ Trunc(t, Cutting \ {"get"})
    BY <1>1 DEF Trunc, Cutting
  <1>p. pend = {} BY <1>0, <1>2 DEF Locks
  <1>r. task[t].read \in Sizes BY <1>0, Typed DEF Calling
  <1>t. /\ task' \in [Tasks -> Calling] /\ \A u \in Tasks \ {t} : task'[u] = task[u]
        /\ task'[t].op = "truncate" /\ task'[t].arg = task[t].arg /\ task'[t].pc = "chunk"
        /\ task'[t].read = task[t].read /\ task'[t].base = task[t].arg \div ChunkSize
    BY <1>0, <1>1, <1>r, GotTyped DEF AfterGet
  <1>c. Trunc(t, Cutting)' BY <1>t DEF Trunc, Cutting
  <1>3. size' \in Sizes /\ cache' \in Sizes \cup {NoEntry} BY <1>0, <1>1, <1>r DEF TypeOK
  <1>4. kept' \subseteq data' BY <1>0, <1>1, <1>p DEF Bytewise, NoWriteLost, PendingBytes
  <1>a. task[t].arg \in Nat /\ data \subseteq Nat /\ ChunkSize \in Nat \ {0} BY <1>0, Typed, FileSizeAssumption
  <1>b. \A b \in kept' : b < task'[t].arg BY <1>0, <1>1, <1>t, <1>2 DEF Bytewise
  <1>h. \A u \in Tasks \ {t} : ~Trunc(u, Cutting \cup {"redrain"}) BY <1>0, <1>2, HolderAlone
  <1>5. ASSUME ~stale' PROVE CacheFresh' /\ Progress(t)'
    <2>f. Progress(t) BY <1>0, <1>5, KeepsFresh DEF Fresh, CutProgress
    <2>1. task[t].read = size BY <1>1, <2>f DEF Progress, Trunc
    <2>3. CacheFresh' BY <1>1, <2>1 DEF CacheFresh
    <2>5. \A b \in data : b >= task[t].arg => b \div ChunkSize >= task'[t].base
      BY <1>a, <1>t, DivMono, DivParts
    <2>6. \A b \in data : b < task[t].arg => b \in kept BY <1>2, <2>f DEF Progress
    <2> QED BY <1>1, <1>t, <2>1, <2>3, <2>5, <2>6 DEF Progress, Trunc, Cut, Cutting
  <1>6. ~Reached BY <1>1, <1>h DEF Reached, Trunc, Cut, Cutting
  <1> QED BY <1>1, <1>p, <1>t, <1>2, <1>c, <1>3, <1>4, <1>b, <1>5, <1>6, CutterKeeps

\* One chunk is pruned, or the last one has been: then no byte is left behind
\* the cut, because the size that was read counts every chunk that has data.
LEMMA TruncateChunkKeeps ==
  ASSUME NEW t \in Tasks, IInv, TruncateChunk(t), Recorded
  PROVE  IInv'
  <1>0. TypeOK /\ Shapes /\ Locks /\ Bytewise /\ (~stale => Fresh) BY DEF IInv
  <1> DEFINE More == task[t].arg < task[t].read /\ task[t].base < ChunkCount(task[t].read)
  <1>1. /\ UNCHANGED <<size, cache, local, pend, dirty, holder, attrLock, kept, promised>>
        /\ task[t].op = "truncate" /\ task[t].pc = "chunk"
        /\ More => data' = data \ Trimmed(t) /\ task' = [task EXCEPT ![t].base = @ + 1]
        /\ ~More => data' = data /\ task' = [task EXCEPT ![t].pc = "save", ![t].read = 0, ![t].base = 0]
    BY DEF TruncateChunk, At
  <1> HIDE DEF More
  <1>2. Trunc(t, Cutting \cup {"redrain"}) /\ Trunc(t, Cutting) /\ Trunc(t, Cutting \ {"get"})
    BY <1>1 DEF Trunc, Cutting
  <1>p. pend = {} BY <1>0, <1>2 DEF Locks
  <1>a. /\ task[t] \in Calling /\ task[t].arg \in Nat /\ task[t].read \in Nat /\ task[t].base \in Nat
        /\ data \subseteq Nat /\ kept \subseteq Nat /\ task \in [Tasks -> Calling] /\ task[t].read <= MaxSize
    BY <1>0, Typed DEF Calling, Sizes
  <1>n. ChunkCount(task[t].read) \in Nat /\ ChunkCount(task[t].read) <= task[t].read BY <1>a, CountBounds
  <1>t. /\ task' \in [Tasks -> Calling] /\ \A u \in Tasks \ {t} : task'[u] = task[u]
        /\ task'[t].op = "truncate" /\ task'[t].arg = task[t].arg
        /\ More => task'[t].pc = "chunk" /\ task'[t].read = task[t].read /\ task'[t].base = task[t].base + 1
        /\ ~More => task'[t].pc = "save"
    <2>1. CASE More
      <3> DEFINE c == [task[t] EXCEPT !.base = task[t].base + 1]
      <3>1. task' = [task EXCEPT ![t] = c] BY <1>1, <1>a, <2>1
      <3>2. task[t].base + 1 \in Sizes BY <1>a, <1>n, <2>1, FileSizeAssumption DEF More, Sizes
      <3>3. c \in Calling /\ c.op = task[t].op /\ c.pc = task[t].pc /\ c.arg = task[t].arg
            /\ c.read = task[t].read /\ c.base = task[t].base + 1
        BY <1>a, <3>2 DEF Calling
      <3> HIDE DEF c
      <3> QED BY <1>1, <1>a, <2>1, <3>1, <3>3
    <2>2. CASE ~More
      <3> DEFINE c == [task[t] EXCEPT !.pc = "save", !.read = 0, !.base = 0]
      <3>1. task' = [task EXCEPT ![t] = c] BY <1>1, <1>a, <2>2
      <3>3. c \in Calling /\ c.op = task[t].op /\ c.pc = "save" /\ c.arg = task[t].arg
        BY <1>a, IdleTyped DEF Calling, Steps
      <3> HIDE DEF c
      <3> QED BY <1>1, <1>a, <2>2, <3>1, <3>3
    <2> QED BY <2>1, <2>2
  <1>c. Trunc(t, Cutting)' BY <1>t DEF Trunc, Cutting
  <1>3. size' \in Sizes /\ cache' \in Sizes \cup {NoEntry} /\ data' \subseteq data BY <1>0, <1>1 DEF TypeOK
  <1>b. \A b \in kept : b < task[t].arg BY <1>0, <1>2 DEF Bytewise
  <1>4. kept' \subseteq data'
    <2>1. kept \subseteq data BY <1>0, <1>p DEF Bytewise, NoWriteLost, PendingBytes
    <2>2. \A b \in kept : b \notin Trimmed(t) BY <1>a, <1>b DEF Trimmed
    <2> QED BY <1>1, <2>1, <2>2
  <1>h. /\ \A u \in Tasks : task[u].op # "fallocate"
        /\ \A u \in Tasks \ {t} : ~Trunc(u, Cutting \cup {"redrain"})
    BY <1>0, <1>2, HolderAlone
  <1>5. ASSUME ~stale' PROVE CacheFresh' /\ Progress(t)'
    <2>f. CacheFresh /\ Progress(t) /\ SizesFollow BY <1>0, <1>5, KeepsFresh DEF Fresh, CutProgress
    <2>1. \A u \in Tasks : ~At(u, "fallocate", "insert") /\ ~Trunc(u, {"insert"})
      BY <1>1, <1>h DEF At, Trunc, Cutting
    <2>2. CacheFresh' BY <1>1, <1>p, <2>f, <2>1 DEF CacheFresh
    <2>3. task[t].read = size /\ \A b \in data : b >= task[t].arg => b \div ChunkSize >= task[t].base
      BY <1>1, <2>f DEF Progress, Trunc
    <2>4. \A b \in data : b < task[t].arg => b \in kept BY <1>2, <2>f DEF Progress
    <2>5. CASE More
      <3>1. \A b \in data' : b >= task[t].arg => b \div ChunkSize >= task[t].base + 1
        <4> SUFFICES ASSUME NEW b \in data', b >= task[t].arg PROVE b \div ChunkSize >= task[t].base + 1
          OBVIOUS
        <4>1. b \in data /\ b \notin Trimmed(t) BY <1>1, <2>5
        <4>2. b \in Bytes BY <1>0, <4>1 DEF TypeOK
        <4>3. b \div ChunkSize # task[t].base BY <4>1, <4>2 DEF Trimmed
        <4>4. b \div ChunkSize \in Nat BY <1>a, <4>1, DivParts, FileSizeAssumption
        <4> QED BY <1>a, <2>3, <4>1, <4>3, <4>4
      <3> QED BY <1>1, <1>t, <1>3, <2>2, <2>3, <2>4, <2>5, <3>1 DEF Progress, Trunc, Cut, Cutting
    <2>6. CASE ~More
      <3>1. \A b \in data : b < task[t].arg
        <4> SUFFICES ASSUME NEW b \in data, ~(b < task[t].arg) PROVE FALSE OBVIOUS
        <4>1. b \in Nat /\ b < task[t].read BY <1>a, <2>f, <2>3 DEF SizesFollow
        <4>2. b \div ChunkSize \in Nat /\ b \div ChunkSize < ChunkCount(task[t].read) BY <1>a, <4>1, CountCovers
        <4>3. b \div ChunkSize >= task[t].base BY <1>a, <2>3, <4>1
        <4> QED BY <1>a, <1>n, <2>6, <4>1, <4>2, <4>3 DEF More
      <3> QED BY <1>1, <1>t, <2>2, <2>4, <2>6, <3>1 DEF Progress, Trunc, Cut, Cutting
    <2> QED BY <2>5, <2>6
  <1>6. ~Reached BY <1>1, <1>h DEF Reached, Trunc, Cut, Cutting
  <1> QED BY <1>1, <1>p, <1>t, <1>2, <1>c, <1>3, <1>4, <1>b, <1>5, <1>6, CutterKeeps

LEMMA SaveNodeCuts ==
  ASSUME NEW t \in Tasks, IInv, SaveNode(t), Recorded, task[t].op = "truncate"
  PROVE  IInv'
  <1>0. TypeOK /\ Shapes /\ Locks /\ Bytewise /\ (~stale => Fresh) BY DEF IInv
  <1>1. /\ UNCHANGED <<data, cache, local, pend, dirty, holder, attrLock, kept, promised>>
        /\ task[t].pc = "save" /\ size' = task[t].arg
    BY DEF SaveNode, NewSize
  <1>2. Trunc(t, Cutting \cup {"redrain"}) /\ Trunc(t, Cutting) /\ Trunc(t, Cutting \ {"get"})
    BY <1>1 DEF Trunc, Cutting
  <1>p. pend = {} BY <1>0, <1>2 DEF Locks
  <1>t. /\ task' \in [Tasks -> Calling] /\ \A u \in Tasks \ {t} : task'[u] = task[u]
        /\ task'[t].op = "truncate" /\ task'[t].arg = task[t].arg /\ task'[t].pc = "insert"
    BY <1>0, <1>1, Typed DEF SaveNode, Goto, Calling, Steps
  <1>c. Trunc(t, Cutting)' /\ Reached' BY <1>t DEF Trunc, Cutting, Cut, Reached
  <1>3. size' \in Sizes /\ cache' \in Sizes \cup {NoEntry}
    <2>1. task[t].arg \in Sizes BY <1>0, Typed DEF Calling
    <2> QED BY <1>0, <1>1, <2>1 DEF TypeOK
  <1>4. kept' \subseteq data' BY <1>0, <1>1, <1>p DEF Bytewise, NoWriteLost, PendingBytes
  <1>b. \A b \in kept' : b < task'[t].arg BY <1>0, <1>1, <1>t, <1>2 DEF Bytewise
  <1>5. ASSUME ~stale' PROVE CacheFresh' /\ Progress(t)' /\ \A b \in data' : b < size'
    <2>f. Progress(t) BY <1>0, <1>5, KeepsFresh DEF Fresh, CutProgress
    <2>1. \A b \in data : b < task[t].arg BY <1>1, <2>f DEF Progress, Trunc
    <2>2. \A b \in data : b < task[t].arg => b \in kept BY <1>2, <2>f DEF Progress
    <2>3. CacheFresh' BY <1>t DEF CacheFresh, Trunc
    <2> QED BY <1>1, <1>t, <2>1, <2>2, <2>3 DEF Progress, Trunc, Cut, Cutting
  <1> QED BY <1>1, <1>p, <1>t, <1>2, <1>c, <1>3, <1>4, <1>b, <1>5, CutterKeeps

LEMMA SaveInsertCuts ==
  ASSUME NEW t \in Tasks, IInv, SaveInsert(t), Recorded, task[t].op = "truncate"
  PROVE  IInv'
  <1>0. TypeOK /\ Shapes /\ Locks /\ Bytewise /\ (~stale => Fresh) BY DEF IInv
  <1>1. /\ UNCHANGED <<size, data, local, pend, dirty, holder, attrLock, kept, promised>>
        /\ task[t].pc = "insert" /\ cache' = task[t].arg
    BY DEF SaveInsert, NewSize
  <1>2. Trunc(t, Cutting \cup {"redrain"}) /\ Trunc(t, Cutting) /\ Trunc(t, Cutting \ {"get"})
    BY <1>1 DEF Trunc, Cutting
  <1>p. pend = {} BY <1>0, <1>2 DEF Locks
  <1>t. /\ task' \in [Tasks -> Calling] /\ \A u \in Tasks \ {t} : task'[u] = task[u]
        /\ task'[t].op = "truncate" /\ task'[t].arg = task[t].arg /\ task'[t].pc = "finish"
    BY <1>0, <1>1, Typed DEF SaveInsert, Goto, Calling, Steps
  <1>c. Trunc(t, Cutting)' /\ Reached' BY <1>t DEF Trunc, Cutting, Cut, Reached
  <1>3. size' \in Sizes /\ cache' \in Sizes \cup {NoEntry}
    <2>1. task[t].arg \in Sizes BY <1>0, Typed DEF Calling
    <2> QED BY <1>0, <1>1, <2>1 DEF TypeOK
  <1>4. kept' \subseteq data' BY <1>0, <1>1, <1>p DEF Bytewise, NoWriteLost, PendingBytes
  <1>b. \A b \in kept' : b < task'[t].arg BY <1>0, <1>1, <1>t, <1>2 DEF Bytewise
  <1>5. ASSUME ~stale' PROVE CacheFresh' /\ Progress(t)'
    <2>f. Progress(t) BY <1>0, <1>5, KeepsFresh DEF Fresh, CutProgress
    <2>1. (\A b \in data : b < task[t].arg) /\ size = task[t].arg BY <1>1, <2>f DEF Progress, Trunc, Cut
    <2>2. \A b \in data : b < task[t].arg => b \in kept BY <1>2, <2>f DEF Progress
    <2>3. CacheFresh' BY <1>1, <2>1 DEF CacheFresh
    <2> QED BY <1>1, <1>t, <2>1, <2>2, <2>3 DEF Progress, Trunc, Cut, Cutting
  <1> QED BY <1>1, <1>p, <1>t, <1>2, <1>c, <1>3, <1>4, <1>b, <1>5, CutterKeeps

\* The truncate lets go of the lock, done or failed.
LEMMA ReleaseKeeps ==
  ASSUME NEW t \in Tasks, IInv, Recorded, Trunc(t, Cutting \cup {"redrain"}),
         UNCHANGED <<size, data, cache, dirty, attrLock>>, holder' = Nobody,
         task' = [task EXCEPT ![t] = Idle],
         \/ Trunc(t, {"finish"}) /\ pend' = {} /\ kept' = kept /\ local' = task[t].arg /\ promised' = 0
         \/ ~Trunc(t, Cut) /\ pend' = pend /\ kept' = kept \cup data /\ local' = local /\ promised' = promised
  PROVE  IInv'
  <1>0. TypeOK /\ Shapes /\ Locks /\ Bytewise /\ (~stale => Fresh) BY DEF IInv
  <1>h. /\ \A u \in Tasks : task[u].op # "fallocate" /\ task[u].op # "write"
        /\ \A u \in Tasks \ {t} : ~Trunc(u, Cutting \cup {"redrain"})
    BY <1>0, HolderAlone
  <1>t. /\ task' \in [Tasks -> Calling] /\ \A u \in Tasks \ {t} : task'[u] = task[u]
        /\ task'[t] = Idle /\ task'[t].op = "none"
    BY <1>0, Typed, IdleTyped DEF Idle
  <1>a. task[t].arg \in Sizes BY <1>0, Typed DEF Calling
  <1>2. TypeOK'
    <2>1. stale' \in BOOLEAN BY DEF Recorded
    <2>2. pend' \subseteq pend /\ kept' \subseteq kept \cup data /\ local' \in Sizes /\ promised' \in Sizes
      BY <1>0, <1>a, IdleTyped DEF TypeOK
    <2> QED BY <1>0, <1>t, <2>1, <2>2 DEF TypeOK, Calling
  <1>3. Shapes' BY <1>0, <1>t DEF Shapes, Shape, Idle
  <1>w. \A u \in Tasks : task'[u].op # "fallocate" /\ task'[u].op # "write" BY <1>h, <1>t
  <1>e. \A u \in Tasks : ~Trunc(u, Cutting \cup {"redrain"})' BY <1>h, <1>t DEF Trunc
  <1>c. \A u \in Tasks : ~Trunc(u, Cutting)' BY <1>e DEF Trunc
  <1>4. Locks' BY <1>0, <1>w, <1>e, <1>c, Typed DEF Locks, Truncating
  <1>p. Trunc(t, {"finish"}) => pend = {} BY <1>0 DEF Locks, Trunc, Cutting
  <1>5. Bytewise'
    <2>1. \A u \in Tasks : ~Trunc(u, Cutting \ {"get"})' BY <1>c DEF Trunc
    <2>2. pend' = pend /\ kept \subseteq kept' /\ kept' \subseteq kept \cup data BY <1>p
    <2>3. NoWriteLost' BY <1>0, <2>2 DEF Bytewise, NoWriteLost, PendingBytes
    <2> QED BY <1>0, <2>1, <2>2, <2>3 DEF Bytewise
  <1> SUFFICES ASSUME ~stale' PROVE Fresh' BY <1>2, <1>3, <1>4, <1>5 DEF IInv
  <1>f. TruncatedGone /\ CacheFresh /\ Progress(t) /\ SizesFollow BY <1>0, KeepsFresh DEF Fresh, CutProgress
  <1>6. TruncatedGone'
    <2>1. CASE Trunc(t, {"finish"}) /\ kept' = kept BY <1>f, <2>1 DEF TruncatedGone, Progress, Trunc, Cutting
    <2>2. CASE kept' = kept \cup data BY <2>2 DEF TruncatedGone
    <2> QED BY <2>1, <2>2
  <1>7. CacheFresh'
    <2>1. ~Trunc(t, {"insert"}) BY DEF Trunc, Cut
    <2>2. \A u \in Tasks : ~At(u, "fallocate", "insert") /\ ~Trunc(u, {"insert"})
      BY <1>h, <2>1 DEF At, Trunc, Cutting
    <2>3. pend' = pend BY <1>p
    <2> QED BY <1>f, <2>2, <2>3 DEF CacheFresh
  <1>8. CutProgress' BY <1>e DEF CutProgress, Progress, Trunc, Cutting, Cut
  <1>9. SizesFollow'
    <2>d. \A b \in data : b < size BY <1>f DEF SizesFollow
    <2>1. CASE Trunc(t, {"finish"}) /\ pend' = {} /\ local' = task[t].arg /\ promised' = 0
      <3>1. size = local' BY <1>f, <2>1 DEF Progress, Trunc, Cut
      <3>2. promised' <= size' /\ local' \in Nat BY <1>0, <1>a, <2>1, Typed DEF Sizes
      <3> QED BY <1>w, <2>d, <2>1, <3>1, <3>2 DEF SizesFollow
    <2>2. CASE ~Trunc(t, Cut) /\ pend' = pend /\ local' = local /\ promised' = promised
      <3>1. ~Reached BY <1>h, <2>2 DEF Reached, Trunc, Cut, Cutting
      <3> QED BY <1>h, <1>w, <1>f, <2>2, <3>1 DEF SizesFollow
    <2> QED BY <2>1, <2>2
  <1> QED BY <1>6, <1>7, <1>8, <1>9 DEF Fresh

LEMMA TruncateFinishKeeps ==
  ASSUME NEW t \in Tasks, IInv, TruncateFinish(t), Recorded
  PROVE  IInv'
  <1>1. /\ UNCHANGED <<size, data, cache, dirty, attrLock>> /\ holder' = Nobody /\ task' = [task EXCEPT ![t] = Idle]
        /\ pend' = {} /\ kept' = kept /\ local' = task[t].arg /\ promised' = 0
    BY DEF TruncateFinish, Done
  <1>2. Trunc(t, {"finish"}) /\ Trunc(t, Cutting \cup {"redrain"}) BY DEF TruncateFinish, At, Trunc, Cutting
  <1> QED BY <1>1, <1>2, ReleaseKeeps

LEMMA TruncateFailKeeps ==
  ASSUME NEW t \in Tasks, IInv, TruncateFail(t), Recorded
  PROVE  IInv'
  <1>1. CASE holder # t BY <1>1, TruncateFailAside
  <1>2. CASE holder = t
    <2>0. Locks BY DEF IInv
    <2>1. /\ UNCHANGED <<size, data, cache, dirty, attrLock>> /\ holder' = Nobody /\ task' = [task EXCEPT ![t] = Idle]
          /\ pend' = pend /\ kept' = kept \cup data /\ local' = local /\ promised' = promised
      BY <1>2 DEF TruncateFail, Done
    <2>2. ~Trunc(t, Cut) /\ Trunc(t, Cutting \cup {"redrain"})
      BY <1>2, <2>0 DEF TruncateFail, Trunc, Cut, Cutting, Locks
    <2> QED BY <2>1, <2>2, ReleaseKeeps
  <1> QED BY <1>1, <1>2

-----------------------------------------------------------------------------
(* Every step.                                                               *)

LEMMA TaskStepKeeps ==
  ASSUME NEW t \in Tasks, IInv, TaskStep(t), Recorded
  PROVE  IInv'
  <1>1. CASE \E w \in Writes : WriteBuffer(t, w) BY <1>1, WriteBufferKeeps
  <1>2. CASE WriteMark(t) BY <1>2, WriteMarkKeeps
  <1>3. CASE \E n \in Sizes : ZeroExtend(t, n) BY <1>3, ZeroExtendKeeps
  <1>4. CASE \E n \in Sizes : FallocateScript(t, n) BY <1>4, FallocateScriptKeeps
  <1>5. CASE \E n \in Sizes : TruncateStart(t, n) BY <1>5, TruncateStartKeeps
  <1>6. CASE FallocateInsert(t) BY <1>6, FallocateInsertKeeps
  <1>7. CASE FallocateExtend(t) BY <1>7, FallocateExtendKeeps
  <1>8. CASE GetNode(t) BY <1>8, GetNodeAside, GetNodeCuts
  <1>9. CASE GetNodeFill(t) BY <1>9, GetNodeFillAside, GetNodeFillCuts
  <1>10. CASE Stat(t) BY <1>10, StatKeeps
  <1>11. CASE TruncateDrain(t) BY <1>11, TruncateDrainKeeps
  <1>12. CASE TruncateLock(t) BY <1>12, TruncateLockKeeps
  <1>13. CASE TruncateRedrain(t) BY <1>13, TruncateRedrainKeeps
  <1>14. CASE TruncateChunk(t) BY <1>14, TruncateChunkKeeps
  <1>15. CASE TruncateFinish(t) BY <1>15, TruncateFinishKeeps
  <1>16. CASE TruncateFail(t) BY <1>16, TruncateFailKeeps
  <1>17. CASE AttrLock(t) BY <1>17, AttrLockKeeps
  <1>18. CASE Invalidate(t) BY <1>18, InvalidateKeeps
  <1>19. CASE SaveNode(t) BY <1>19, SaveNodeAside, SaveNodeCuts
  <1>20. CASE SaveInsert(t) BY <1>20, SaveInsertAside, SaveInsertCuts
  <1>21. CASE ChmodStart(t) BY <1>21, ChmodStartKeeps
  <1>22. CASE ChmodFinish(t) BY <1>22, ChmodFinishKeeps
  <1>23. CASE FlushStart(t) BY <1>23, FlushStartKeeps
  <1>24. CASE FlushDrain(t) BY <1>24, FlushDrainKeeps
  <1>25. CASE FlushFail(t) BY <1>25, FlushFailKeeps
  <1>26. CASE FlushCapture(t) BY <1>26, FlushCaptureKeeps
  <1>27. CASE FlushFinish(t) BY <1>27, FlushFinishKeeps
  <1> QED
    BY <1>1, <1>2, <1>3, <1>4, <1>5, <1>6, <1>7, <1>8, <1>9, <1>10, <1>11, <1>12, <1>13, <1>14,
       <1>15, <1>16, <1>17, <1>18, <1>19, <1>20, <1>21, <1>22, <1>23, <1>24, <1>25, <1>26, <1>27
    DEF TaskStep

LEMMA Inductive == Spec => []IInv
  <1>1. Init => IInv BY InitHolds
  <1>2. IInv /\ [Next]_vars => IInv'
    <2> SUFFICES ASSUME IInv, [Next]_vars PROVE IInv' OBVIOUS
    <2>1. CASE UNCHANGED vars BY <2>1, StutterKeeps
    <2>2. CASE Next
      <3>1. Recorded BY <2>2 DEF Next, Recorded
      <3>2. CASE \E t \in Tasks : TaskStep(t) BY <3>1, <3>2, TaskStepKeeps
      <3>3. CASE \E s \in pend : CommitScript(s) BY <3>1, <3>3, CommitScriptKeeps
      <3>4. CASE \E s \in pend : CommitDone(s) BY <3>1, <3>4, CommitDoneKeeps
      <3>5. CASE Expire BY <3>1, <3>5, ExpireKeeps
      <3> QED BY <2>2, <3>2, <3>3, <3>4, <3>5 DEF Next
    <2> QED BY <2>1, <2>2
  <1> QED BY <1>1, <1>2, PTL DEF Spec

-----------------------------------------------------------------------------
(* The theorems.                                                             *)

\* Whatever is written, committed, cut and flushed in whatever order, the bytes
\* of an acknowledged write that no truncate was asked to cut off are in the
\* writer or in the chunk lists.  This holds with stale records too.
THEOREM WritesSurvive == Spec => []NoWriteLost
  <1>1. IInv => NoWriteLost BY DEF IInv, Bytewise
  <1> QED BY <1>1, Inductive, PTL

\* As long as no old size was cached or written back, the bytes that a truncate
\* cut off stay out of the chunk lists, so an extension shows zeros.
THEOREM CutBytesStayGone == Spec => []TruncatedStaysGone
  <1>1. IInv => TruncatedStaysGone BY DEF IInv, Fresh, TruncatedStaysGone
  <1> QED BY <1>1, Inductive, PTL

\* The record, its cached copy and the size the process shows agree at rest,
\* and no chunk list reaches past the record's size.
THEOREM SizesAgreeAtRest == Spec => []SizesConsistent
  <1>1. IInv => SizesConsistent
    <2> SUFFICES ASSUME IInv PROVE SizesConsistent OBVIOUS
    <2>0. TypeOK BY DEF IInv
    <2>1. ASSUME ~stale, Quiet PROVE size = local /\ cache \in {NoEntry, size}
      <3>1. CacheFresh /\ SizesFollow BY <2>1 DEF IInv, Fresh
      <3>2. pend = {} /\ \A t \in Tasks : task[t].op = "none" BY <2>1 DEF Quiet, Idle
      <3>3. ~Reached /\ \A t \in Tasks : ~At(t, "fallocate", "insert") /\ ~Trunc(t, {"insert"})
        BY <3>2 DEF Reached, Trunc, At
      <3>4. cache \in {NoEntry, size} BY <3>1, <3>2, <3>3 DEF CacheFresh
      <3>5. ~(size > local) /\ ~(local > size) BY <3>1, <3>2, <3>3 DEF SizesFollow
      <3> QED BY <2>0, <3>4, <3>5, Typed
    <2>2. DataWithinSize BY DEF IInv, Fresh, SizesFollow, DataWithinSize
    <2> QED BY <2>0, <2>1, <2>2 DEF SizesConsistent, SizesAgree
  <1> QED BY <1>1, Inductive, PTL

\* What a flush that returned made durable stays within the record's size until
\* a truncate cuts it or an old record is written back.
THEOREM FlushedStays == Spec => []FlushedStaysVisible
  <1>1. IInv => FlushedStaysVisible
    BY DEF IInv, Fresh, SizesFollow, FlushedStaysVisible, NoTruncate, Reached, Trunc
  <1> QED BY <1>1, Inductive, PTL
=============================================================================
