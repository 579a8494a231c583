-------------------------- MODULE NamespaceProofs ---------------------------
(***************************************************************************)
(* Proofs about Namespace for any number of inodes and clients and any set *)
(* of names.                                                               *)
(***************************************************************************)
EXTENDS Namespace, FiniteSetTheorems, TLAPS

-----------------------------------------------------------------------------
(* Walks up the tree. *)

\* One step of a walk.
Up(x) == IF x # Root /\ IsDir(x) THEN node[x].parent ELSE x

\* A set of numbers that holds 0 and, with a number, the next, holds them all:
\* without j, the numbers below j that it holds would map into fewer.
LEMMA Upwards ==
  ASSUME NEW N \in Nat, NEW S, 0 \in S, \A k \in 0 .. N : k \in S /\ k # N => k + 1 \in S
  PROVE  \A k \in 0 .. N : k \in S
<1> SUFFICES ASSUME NEW j \in 0 .. N, j \notin S PROVE FALSE
  OBVIOUS
<1> DEFINE K == {k \in 0 .. (j - 1) : k \in S}
<1>1. K \in SUBSET (0 .. (j - 1)) /\ IsFiniteSet(0 .. (j - 1))
  BY FS_Interval
<1>2. IsFiniteSet(K) /\ 0 \in K
  BY <1>1, FS_Subset
<1>3. IsFiniteSet(K \ {0}) /\ Cardinality(K \ {0}) = Cardinality(K) - 1
  BY <1>2, FS_RemoveElement
<1>4. ASSUME NEW k \in K PROVE k + 1 \in K \ {0}
  BY <1>4
<1> DEFINE f == [k \in K |-> k + 1]
<1>5. f \in [K -> K \ {0}] /\ \A x, y \in K : f[x] = f[y] => x = y
  BY <1>4
<1>6. Cardinality(K) \in Nat
  BY <1>2, FS_CardinalityType
<1> HIDE DEF f, K
<1> QED
  BY <1>2, <1>3, <1>5, <1>6, FS_PigeonHole

\* The function Walk is defined by is there.
LEMMA WalkExists ==
  ASSUME NEW p
  PROVE  \E f : f = [k \in 0 .. MaxIno |-> IF k = 0 THEN p ELSE Up(f[k - 1])]
<1> DEFINE S == {k \in 0 .. MaxIno : \E f : f = [a \in 0 .. k |-> IF a = 0 THEN p ELSE Up(f[a - 1])]}
<1>0. MaxIno \in Nat /\ 0 \in 0 .. MaxIno
  BY NamespaceAssumption
<1>1. 0 \in S
  <2> DEFINE f == [a \in 0 .. 0 |-> p]
  <2>1. f = [a \in 0 .. 0 |-> IF a = 0 THEN p ELSE Up(f[a - 1])]
    OBVIOUS
  <2> QED
    BY <1>0, <2>1
<1>2. ASSUME NEW k \in 0 .. MaxIno, k \in S, k # MaxIno PROVE k + 1 \in S
  <2>1. PICK f : f = [a \in 0 .. k |-> IF a = 0 THEN p ELSE Up(f[a - 1])]
    BY <1>2
  <2> DEFINE g == [a \in 0 .. (k + 1) |-> IF a = k + 1 THEN Up(f[k]) ELSE f[a]]
  <2>2. k + 1 \in 0 .. MaxIno /\ k \in Nat
    BY <1>0, <1>2
  <2>3. ASSUME NEW a \in 0 .. (k + 1) PROVE g[a] = IF a = 0 THEN p ELSE Up(g[a - 1])
    <3>1. CASE a = k + 1
      BY <2>2, <3>1
    <3>2. CASE a # k + 1
      <4>1. a \in 0 .. k /\ (a # 0 => a - 1 \in 0 .. (k + 1) /\ a - 1 # k + 1)
        BY <2>2, <3>2
      <4>2. f[a] = IF a = 0 THEN p ELSE Up(f[a - 1])
        BY <2>1, <4>1
      <4> QED
        BY <3>2, <4>1, <4>2
    <3> QED
      BY <3>1, <3>2
  <2>4. g = [a \in 0 .. (k + 1) |-> IF a = 0 THEN p ELSE Up(g[a - 1])]
    BY <2>3
  <2> HIDE DEF g
  <2> QED
    BY <2>2, <2>4
<1> HIDE DEF S
<1>3. MaxIno \in S
  BY <1>0, <1>1, <1>2, Upwards
<1> QED
  BY <1>3 DEF S

\* What Walk computes.
LEMMA WalkSteps ==
  ASSUME NEW p
  PROVE  /\ Walk(p)[0] = p
         /\ \A k \in 0 .. MaxIno : k # MaxIno => Walk(p)[k + 1] = Up(Walk(p)[k])
<1>1. Walk(p) = [k \in 0 .. MaxIno |-> IF k = 0 THEN p ELSE Up(Walk(p)[k - 1])]
  BY WalkExists DEF Walk, Up
<1>2. MaxIno \in Nat
  BY NamespaceAssumption
<1>3. ASSUME NEW k \in 0 .. MaxIno PROVE Walk(p)[k] = IF k = 0 THEN p ELSE Up(Walk(p)[k - 1])
  BY <1>1
<1> QED
  BY <1>2, <1>3

\* A walk that avoids a leads to the root, and so does every set that holds its
\* start and goes up from everything but a.
LEMMA ValidClimb ==
  ASSUME NEW q, NEW a, ValidAncestry(q, a), NEW X, q \in X, \A x \in X : x # a => Up(x) \in X
  PROVE  Root \in X
<1> DEFINE S == {k \in 0 .. MaxIno : Walk(q)[k] \in X}
<1>0. MaxIno \in Nat
  BY NamespaceAssumption
<1>1. 0 \in S
  BY <1>0, WalkSteps
<1>2. ASSUME NEW k \in 0 .. MaxIno, k \in S, k # MaxIno PROVE k + 1 \in S
  <2>1. Walk(q)[k] # a
    BY DEF ValidAncestry
  <2>2. Walk(q)[k + 1] \in X
    BY <1>2, <2>1, WalkSteps
  <2> QED
    BY <1>0, <1>2, <2>2
<1> HIDE DEF S
<1>3. MaxIno \in S
  BY <1>0, <1>1, <1>2, Upwards
<1> QED
  BY <1>3 DEF S, ValidAncestry, ReachesRoot

-----------------------------------------------------------------------------
(* The inductive invariant. *)

\* What record r of inode k says, with the links ls kept for it, agrees with
\* the set es of the entries that lead to it.
Sound(k, r, ls, del, tr, es) ==
  /\ IsFiniteSet(es)
  /\ k = Root => r.kind = "Dir" /\ es = {}
  /\ r.kind = "Dir" => ~r.deleted /\ (k # Root => es = {<<r.parent, r.name>>})
  /\ r.kind = "none" => es = {} /\ r.nlink = 0
  /\ r.kind \in {"File", "Symlink"} =>
       /\ r.nlink = Cardinality(es)
       /\ r.nlink = 1 => es = {<<r.parent, r.name>>}
  /\ IF r.kind # "Dir" /\ r.nlink > 1 THEN ls = es /\ r.parent = 0 ELSE ls = {}
  /\ del <=> r.kind # "none" /\ r.deleted
  /\ tr <=> del
  /\ del => es = {}

InodesSound ==
  \A k \in Inodes : Sound(k, node[k], links[k], k \in deleted, k \in trash, EntriesOf(k))

ParentsAreDirs == \A k \in Inodes : IsDir(k) /\ k # Root => IsDir(node[k].parent)

\* No directories lead to each other in a circle, away from the root.
Circle(X) == \A x \in X : x # Root /\ IsDir(x) /\ node[x].parent \in X
Grounded == \A X \in SUBSET Inodes : Circle(X) => X = {}

Subdirs(d) == {n \in Listing(d) : IsDir(dir[d][n])}
SubdirsCounted == \A d \in Inodes : IsDir(d) => node[d].nlink = 2 + Cardinality(Subdirs(d))

\* Entries are those of a directory, or of one that was removed under a link.
HoldersKnown ==
  \A d \in Inodes : /\ IsFiniteSet(Listing(d))
                    /\ Listing(d) # {} => node[d].kind \in {"Dir", "none"}

Fresh == \A k \in Inodes : k >= nextIno => node[k] = Missing /\ Listing(k) = {}

LinkTargets ==
  \A c \in Clients : client[c].op = "link" =>
    client[c].parent < nextIno /\ node[client[c].parent].kind \in {"Dir", "none"}

Story == /\ InodesSound /\ ParentsAreDirs /\ Grounded /\ SubdirsCounted
         /\ HoldersKnown /\ Fresh /\ LinkTargets

IInv == TypeOK /\ NamesIndexed /\ (~drifted => Story)

-----------------------------------------------------------------------------
(* The invariant implies what Namespace claims. *)

\* Every directory is below the root: a walk that never meets it comes twice
\* to the same place, and what lies between is a circle.
LEMMA AllReach ==
  ASSUME TypeOK, ParentsAreDirs, Grounded, NEW i \in Inodes, IsDir(i)
  PROVE  ReachesRoot(i)
<1> DEFINE W(k) == Walk(i)[k]
<1>0. MaxIno \in Nat /\ Inodes = 1 .. MaxIno
  BY NamespaceAssumption DEF Inodes
<1>1. W(0) = i /\ \A k \in 0 .. MaxIno : k # MaxIno => W(k + 1) = Up(W(k))
  BY WalkSteps
<1> HIDE DEF W
<1> SUFFICES ASSUME W(MaxIno) # Root PROVE FALSE
  BY DEF W, ReachesRoot
<1>2. \A k \in 0 .. MaxIno : IsDir(W(k))
  <2> DEFINE S == {k \in 0 .. MaxIno : IsDir(W(k))}
  <2>1. 0 \in S
    BY <1>0, <1>1
  <2>2. ASSUME NEW k \in 0 .. MaxIno, k \in S, k # MaxIno PROVE k + 1 \in S
    <3>1. IsDir(Up(W(k)))
      BY <2>2 DEF Up, ParentsAreDirs, IsDir
    <3> QED
      BY <1>0, <1>1, <2>2, <3>1
  <2> HIDE DEF S
  <2>3. \A k \in 0 .. MaxIno : k \in S
    BY <1>0, <2>1, <2>2, Upwards
  <2> QED
    BY <2>3 DEF S
<1>3. ASSUME NEW k \in 0 .. MaxIno, W(k) = Root PROVE FALSE
  <2> DEFINE S == {b \in 0 .. MaxIno : b >= k => W(b) = Root}
  <2>1. 0 \in S
    BY <1>0, <1>3
  <2>2. ASSUME NEW b \in 0 .. MaxIno, b \in S, b # MaxIno PROVE b + 1 \in S
    <3>1. b + 1 \in 0 .. MaxIno
      BY <1>0, <2>2
    <3>2. CASE b >= k
      BY <1>1, <2>2, <3>1, <3>2 DEF Up
    <3>3. CASE ~(b >= k) /\ b + 1 >= k
      <4>1. b + 1 = k
        BY <1>0, <3>3
      <4> QED
        BY <1>3, <3>1, <4>1
    <3> QED
      BY <3>1, <3>2, <3>3
  <2> HIDE DEF S
  <2>3. \A b \in 0 .. MaxIno : b \in S
    BY <1>0, <2>1, <2>2, Upwards
  <2>4. MaxIno \in 0 .. MaxIno /\ MaxIno >= k
    BY <1>0
  <2> QED
    BY <2>3, <2>4 DEF S
<1>4. PICK a, b \in 0 .. MaxIno : a < b /\ W(a) = W(b)
  <2> DEFINE f == [k \in 0 .. MaxIno |-> W(k)]
  <2>1. f \in [0 .. MaxIno -> Inodes]
    BY <1>2 DEF IsDir
  <2>2. /\ IsFiniteSet(0 .. MaxIno) /\ Cardinality(0 .. MaxIno) = MaxIno + 1
        /\ IsFiniteSet(Inodes) /\ Cardinality(Inodes) < Cardinality(0 .. MaxIno)
    BY <1>0, FS_Interval
  <2>3. \E x, y \in 0 .. MaxIno : x # y /\ f[x] = f[y]
    <3> HIDE DEF f
    <3> QED
      BY <2>1, <2>2, FS_PigeonHole
  <2>4. PICK x, y \in 0 .. MaxIno : x # y /\ W(x) = W(y)
    BY <2>3
  <2> QED
    BY <1>0, <2>4
<1> DEFINE X == {W(c) : c \in a .. (b - 1)}
<1>5. X \in SUBSET Inodes /\ W(a) \in X
  BY <1>0, <1>2, <1>4 DEF IsDir
<1>6. ASSUME NEW c \in a .. (b - 1) PROVE W(c) # Root /\ IsDir(W(c)) /\ node[W(c)].parent \in X
  <2>1. c \in 0 .. MaxIno /\ c # MaxIno /\ c + 1 \in Int
    BY <1>0, <1>4
  <2>2. W(c) # Root /\ IsDir(W(c))
    BY <1>2, <1>3, <2>1
  <2>3. node[W(c)].parent = W(c + 1)
    BY <1>1, <2>1, <2>2 DEF Up
  <2>4. W(c + 1) \in X
    <3>1. CASE c + 1 = b
      BY <1>4, <1>5, <3>1
    <3>2. CASE c + 1 # b
      <4>1. c + 1 \in a .. (b - 1)
        BY <1>0, <1>4, <3>2
      <4> QED
        BY <4>1
    <3> QED
      BY <3>1, <3>2
  <2> QED
    BY <2>2, <2>3, <2>4
<1>7. Circle(X)
  BY <1>6 DEF Circle
<1> HIDE DEF X
<1> QED
  BY <1>5, <1>7 DEF Grounded

\* The invariant implies DirectoryTree ...
LEMMA TreeHolds == IInv => DirectoryTree
<1> SUFFICES ASSUME IInv, ~drifted, NEW i \in Inodes, IsDir(i)
             PROVE  /\ i # Root => EntriesOf(i) = {<<node[i].parent, node[i].name>>} /\ IsDir(node[i].parent)
                    /\ ReachesRoot(i)
                    /\ node[i].nlink = 2 + Cardinality({n \in Listing(i) : IsDir(dir[i][n])})
  BY DEF DirectoryTree
<1>1. TypeOK /\ InodesSound /\ ParentsAreDirs /\ Grounded /\ SubdirsCounted
  BY DEF IInv, Story
<1>2. ReachesRoot(i)
  BY <1>1, AllReach
<1>3. i # Root => EntriesOf(i) = {<<node[i].parent, node[i].name>>} /\ IsDir(node[i].parent)
  BY <1>1 DEF InodesSound, Sound, ParentsAreDirs, IsDir
<1>4. node[i].nlink = 2 + Cardinality({n \in Listing(i) : IsDir(dir[i][n])})
  BY <1>1 DEF SubdirsCounted, Subdirs
<1> QED
  BY <1>2, <1>3, <1>4

\* ... and LinksConsistent.
LEMMA LinksHold == IInv => LinksConsistent
<1> SUFFICES ASSUME IInv PROVE LinksConsistent
  OBVIOUS
<1>1. TypeOK /\ NamesIndexed
  BY DEF IInv
<1>2. ASSUME ~drifted, NEW i \in Inodes
      PROVE  /\ Sound(i, node[i], links[i], i \in deleted, i \in trash, EntriesOf(i))
             /\ node[i].kind \in {"none", "File", "Dir", "Symlink"} /\ node[i].nlink \in Nat
  BY <1>1, <1>2 DEF IInv, Story, InodesSound, TypeOK, Record
<1>3. NoDanglingEntry
  <2> SUFFICES ASSUME ~drifted, NEW e \in Entries PROVE Exists(dir[e[1]][e[2]])
    BY DEF NoDanglingEntry
  <2>1. dir[e[1]][e[2]] \in Inodes /\ e \in EntriesOf(dir[e[1]][e[2]])
    BY <1>1 DEF Entries, EntriesOf, TypeOK
  <2> QED
    BY <1>2, <2>1 DEF Sound, Exists
<1>4. FileLinksExact
  BY <1>2 DEF FileLinksExact, Sound, Exists, IsDir
<1>5. LinkIndexExact
  BY <1>2 DEF LinkIndexExact, Sound, Exists, IsDir, Hardlinked
<1>6. TombstonesExact
  BY <1>2 DEF TombstonesExact, Sound, Exists
<1> QED
  BY <1>1, <1>3, <1>4, <1>5, <1>6 DEF LinksConsistent

-----------------------------------------------------------------------------
(* What a change of the directory hashes changes. *)

\* The entry n of p leads to v, and no other entry has changed.
Put(p, n, v) ==
  \A d \in Inodes, x \in Names : dir'[d][x] = IF d = p /\ x = n THEN v ELSE dir[d][x]

\* The entries that lead to an inode, and the names of a directory.
LEMMA EntriesPut ==
  ASSUME NEW p \in Inodes, NEW n \in Names, NEW v \in {0} \cup Inodes, Put(p, n, v)
  PROVE  /\ \A k \in Inodes : EntriesOf(k)' = IF k = v THEN EntriesOf(k) \cup {<<p, n>>}
                                              ELSE EntriesOf(k) \ {<<p, n>>}
         /\ \A d \in Inodes : Listing(d)' =
              IF d # p THEN Listing(d)
              ELSE IF v = 0 THEN Listing(p) \ {n} ELSE Listing(p) \cup {n}
<1>1. ASSUME NEW k \in Inodes
      PROVE  EntriesOf(k)' = IF k = v THEN EntriesOf(k) \cup {<<p, n>>} ELSE EntriesOf(k) \ {<<p, n>>}
  <2>1. \A d \in Inodes, x \in Names : <<d, x>> \in EntriesOf(k)' <=> (dir'[d][x] # 0 /\ dir'[d][x] = k)
    BY DEF EntriesOf, Entries
  <2>2. \A d \in Inodes, x \in Names : <<d, x>> \in EntriesOf(k) <=> (dir[d][x] # 0 /\ dir[d][x] = k)
    BY DEF EntriesOf, Entries
  <2>3. EntriesOf(k)' \subseteq Inodes \X Names /\ EntriesOf(k) \subseteq Inodes \X Names /\ k # 0
    BY NamespaceAssumption DEF EntriesOf, Entries, Inodes
  <2>4. \A d \in Inodes, x \in Names : <<d, x>> = <<p, n>> <=> d = p /\ x = n
    OBVIOUS
  <2>5. \A d \in Inodes, x \in Names :
          <<d, x>> \in EntriesOf(k)' <=>
            IF k = v THEN <<d, x>> \in EntriesOf(k) \cup {<<p, n>>} ELSE <<d, x>> \in EntriesOf(k) \ {<<p, n>>}
    <3> SUFFICES ASSUME NEW d \in Inodes, NEW x \in Names
        PROVE  <<d, x>> \in EntriesOf(k)' <=>
                 IF k = v THEN <<d, x>> \in EntriesOf(k) \cup {<<p, n>>}
                 ELSE <<d, x>> \in EntriesOf(k) \ {<<p, n>>}
      OBVIOUS
    <3>1. dir'[d][x] = IF d = p /\ x = n THEN v ELSE dir[d][x]
      BY DEF Put
    <3>2. <<d, x>> \in EntriesOf(k)' <=> dir'[d][x] = k
      BY <2>1, <2>3
    <3>3. <<d, x>> \in EntriesOf(k) <=> dir[d][x] = k
      BY <2>2, <2>3
    <3>4. <<d, x>> \in {<<p, n>>} <=> d = p /\ x = n
      OBVIOUS
    <3> QED
      BY <3>1, <3>2, <3>3, <3>4
  <2>6. <<p, n>> \in Inodes \X Names
    OBVIOUS
  <2> HIDE DEF EntriesOf
  <2> DEFINE R == IF k = v THEN EntriesOf(k) \cup {<<p, n>>} ELSE EntriesOf(k) \ {<<p, n>>}
  <2>7. R \subseteq Inodes \X Names /\ \A e \in Inodes \X Names : e \in EntriesOf(k)' <=> e \in R
    BY <2>3, <2>5, <2>6
  <2> HIDE DEF R
  <2>8. EntriesOf(k)' = R
    BY <2>3, <2>7
  <2> QED
    BY <2>8 DEF R
<1>2. ASSUME NEW d \in Inodes
      PROVE  Listing(d)' = IF d # p THEN Listing(d)
                           ELSE IF v = 0 THEN Listing(p) \ {n} ELSE Listing(p) \cup {n}
  BY DEF Listing, Put
<1> QED
  BY <1>1, <1>2

\* The same for two entries that change together.
Put2(p, n, v, q, m, u) ==
  \A d \in Inodes, x \in Names :
    dir'[d][x] = IF d = p /\ x = n THEN v ELSE IF d = q /\ x = m THEN u ELSE dir[d][x]

\* The entries that lead to an inode after two have changed.
LEMMA EntriesPut2 ==
  ASSUME NEW p \in Inodes, NEW n \in Names, NEW v \in {0} \cup Inodes,
         NEW q \in Inodes, NEW m \in Names, NEW u \in {0} \cup Inodes,
         ~(p = q /\ n = m), Put2(p, n, v, q, m, u)
  PROVE  \A k \in Inodes : EntriesOf(k)' =
           (EntriesOf(k) \ {<<p, n>>, <<q, m>>}) \cup (IF k = v THEN {<<p, n>>} ELSE {})
                                                 \cup (IF k = u THEN {<<q, m>>} ELSE {})
<1> SUFFICES ASSUME NEW k \in Inodes
    PROVE  EntriesOf(k)' = (EntriesOf(k) \ {<<p, n>>, <<q, m>>}) \cup (IF k = v THEN {<<p, n>>} ELSE {})
                                                                 \cup (IF k = u THEN {<<q, m>>} ELSE {})
  OBVIOUS
<1> DEFINE R == (EntriesOf(k) \ {<<p, n>>, <<q, m>>}) \cup (IF k = v THEN {<<p, n>>} ELSE {})
                                                      \cup (IF k = u THEN {<<q, m>>} ELSE {})
<1>1. \A d \in Inodes, x \in Names : <<d, x>> \in EntriesOf(k)' <=> (dir'[d][x] # 0 /\ dir'[d][x] = k)
  BY DEF EntriesOf, Entries
<1>2. \A d \in Inodes, x \in Names : <<d, x>> \in EntriesOf(k) <=> (dir[d][x] # 0 /\ dir[d][x] = k)
  BY DEF EntriesOf, Entries
<1>3. /\ EntriesOf(k)' \subseteq Inodes \X Names /\ EntriesOf(k) \subseteq Inodes \X Names /\ k # 0
      /\ <<p, n>> \in Inodes \X Names /\ <<q, m>> \in Inodes \X Names
  BY NamespaceAssumption DEF EntriesOf, Entries, Inodes
<1>4. \A d \in Inodes, x \in Names : /\ <<d, x>> = <<p, n>> <=> d = p /\ x = n
                                     /\ <<d, x>> = <<q, m>> <=> d = q /\ x = m
  OBVIOUS
<1>5. \A d \in Inodes, x \in Names :
        <<d, x>> \in R <=>
          \/ <<d, x>> \in EntriesOf(k) /\ ~(d = p /\ x = n) /\ ~(d = q /\ x = m)
          \/ k = v /\ d = p /\ x = n
          \/ k = u /\ d = q /\ x = m
  BY <1>4
<1>6. R \subseteq Inodes \X Names
  BY <1>3
<1> HIDE DEF R
<1>7. \A d \in Inodes, x \in Names : <<d, x>> \in EntriesOf(k)' <=> <<d, x>> \in R
  <2> SUFFICES ASSUME NEW d \in Inodes, NEW x \in Names
               PROVE  <<d, x>> \in EntriesOf(k)' <=> <<d, x>> \in R
    OBVIOUS
  <2>1. dir'[d][x] = IF d = p /\ x = n THEN v ELSE IF d = q /\ x = m THEN u ELSE dir[d][x]
    BY DEF Put2
  <2>2. <<d, x>> \in EntriesOf(k)' <=> dir'[d][x] = k
    BY <1>1, <1>3
  <2>3. <<d, x>> \in EntriesOf(k) <=> dir[d][x] = k
    BY <1>2, <1>3
  <2> QED
    BY <1>5, <2>1, <2>2, <2>3
<1>8. \A e \in Inodes \X Names : e \in EntriesOf(k)' <=> e \in R
  BY <1>7
<1>9. EntriesOf(k)' = R
  BY <1>3, <1>6, <1>8
<1> QED
  BY <1>9 DEF R

-----------------------------------------------------------------------------
(* Facts that hold of every step. *)

\* Directories that keep their parents are no circle.
LEMMA GroundedKept ==
  ASSUME Grounded,
         \A x \in Inodes : x # Root /\ IsDir(x)' => IsDir(x) /\ node'[x].parent = node[x].parent
  PROVE  Grounded'
<1> SUFFICES ASSUME NEW X \in SUBSET Inodes, Circle(X)' PROVE X = {}
  BY DEF Grounded
<1>1. Circle(X)
  <2> SUFFICES ASSUME NEW x \in X PROVE x # Root /\ IsDir(x) /\ node[x].parent \in X
    BY DEF Circle
  <2>1. x # Root /\ IsDir(x)' /\ node'[x].parent \in X
    BY DEF Circle
  <2> QED
    BY <2>1
<1> QED
  BY <1>1 DEF Grounded

\* The subdirectories that an entry put in place adds or takes away.
LEMMA SubdirsPut ==
  ASSUME TypeOK, NEW p \in Inodes, NEW n \in Names, NEW v \in {0} \cup Inodes, Put(p, n, v),
         \A d \in Inodes, x \in Names : dir[d][x] # 0 /\ ~(d = p /\ x = n) =>
           ((node'[dir[d][x]].kind = "Dir") <=> (node[dir[d][x]].kind = "Dir"))
  PROVE  /\ \A d \in Inodes : d # p => Subdirs(d)' = Subdirs(d)
         /\ Subdirs(p)' = IF v \in Inodes /\ node'[v].kind = "Dir" THEN Subdirs(p) \cup {n}
                          ELSE Subdirs(p) \ {n}
<1>0. 0 \notin Inodes
  BY NamespaceAssumption DEF Inodes
<1>1. \A d \in Inodes, x \in Names : dir[d][x] \in {0} \cup Inodes
  BY DEF TypeOK
<1>2. ASSUME NEW d \in Inodes, NEW x \in Names, ~(d = p /\ x = n)
      PROVE  x \in Subdirs(d)' <=> x \in Subdirs(d)
  <2>1. dir'[d][x] = dir[d][x] /\ (dir[d][x] # 0 =>
          ((node'[dir[d][x]].kind = "Dir") <=> (node[dir[d][x]].kind = "Dir")))
    BY <1>2 DEF Put
  <2>2. x \in Subdirs(d)' <=> dir[d][x] # 0 /\ dir[d][x] \in Inodes /\ node'[dir[d][x]].kind = "Dir"
    BY <2>1 DEF Subdirs, Listing, IsDir
  <2>3. x \in Subdirs(d) <=> dir[d][x] # 0 /\ dir[d][x] \in Inodes /\ node[dir[d][x]].kind = "Dir"
    BY DEF Subdirs, Listing, IsDir
  <2> QED
    BY <2>1, <2>2, <2>3
<1>3. n \in Subdirs(p)' <=> v \in Inodes /\ node'[v].kind = "Dir"
  <2>1. dir'[p][n] = v
    BY DEF Put
  <2> QED
    BY <1>0, <2>1 DEF Subdirs, Listing, IsDir
<1>4. \A d \in Inodes : Subdirs(d) \subseteq Names /\ Subdirs(d)' \subseteq Names
  BY DEF Subdirs, Listing
<1> HIDE DEF Subdirs
<1>5. ASSUME NEW d \in Inodes, d # p PROVE Subdirs(d)' = Subdirs(d)
  BY <1>2, <1>4, <1>5
<1>6. Subdirs(p)' = IF v \in Inodes /\ node'[v].kind = "Dir" THEN Subdirs(p) \cup {n}
                    ELSE Subdirs(p) \ {n}
  BY <1>2, <1>3, <1>4
<1> QED
  BY <1>5, <1>6

\* Counting with one element more or less.
LEMMA Counting ==
  ASSUME NEW S, IsFiniteSet(S), NEW x
  PROVE  /\ Cardinality(S) \in Nat
         /\ (Cardinality(S) = 0) <=> (S = {})
         /\ IsFiniteSet(S \cup {x}) /\ IsFiniteSet(S \ {x})
         /\ x \notin S => Cardinality(S \cup {x}) = Cardinality(S) + 1 /\ S \ {x} = S
         /\ x \in S => Cardinality(S \ {x}) = Cardinality(S) - 1 /\ S \cup {x} = S
         /\ x \in S /\ Cardinality(S) = 1 => S = {x}
<1>1. Cardinality(S) \in Nat /\ (Cardinality(S) = 0 <=> S = {})
  BY FS_CardinalityType, FS_EmptySet
<1>2. x \notin S => IsFiniteSet(S \cup {x}) /\ Cardinality(S \cup {x}) = Cardinality(S) + 1
  BY FS_AddElement
<1>3. IsFiniteSet(S \ {x}) /\ (x \in S => Cardinality(S \ {x}) = Cardinality(S) - 1)
  BY FS_RemoveElement
<1>4. x \notin S => S \ {x} = S
  OBVIOUS
<1>5. x \in S => S \cup {x} = S
  OBVIOUS
<1>6. ASSUME x \in S, Cardinality(S) = 1 PROVE S = {x}
  <2>1. Cardinality(S \ {x}) = 0 /\ IsFiniteSet(S \ {x})
    BY <1>3, <1>6
  <2>2. S \ {x} = {}
    BY <2>1, FS_EmptySet
  <2> QED
    BY <1>6, <2>2
<1> QED
  BY <1>1, <1>2, <1>3, <1>4, <1>5, <1>6

\* What the invariant says of the inode an entry leads to.
LEMMA Target ==
  ASSUME TypeOK, Story, NEW d \in Inodes, NEW n \in Names, dir[d][n] # 0
  PROVE  /\ dir[d][n] \in Inodes /\ dir[d][n] # Root
         /\ <<d, n>> \in EntriesOf(dir[d][n])
         /\ node[dir[d][n]].kind \in {"File", "Dir", "Symlink"}
         /\ dir[d][n] < nextIno /\ ~node[dir[d][n]].deleted
         /\ node[dir[d][n]].kind = "Dir" =>
              /\ EntriesOf(dir[d][n]) = {<<d, n>>}
              /\ node[dir[d][n]].parent = d /\ node[dir[d][n]].name = n
              /\ IsDir(d)
<1> DEFINE i == dir[d][n]
<1>1. i \in Inodes /\ <<d, n>> \in EntriesOf(i) /\ node[i] \in Record /\ i \in Nat /\ nextIno \in Nat
  BY NamespaceAssumption DEF TypeOK, EntriesOf, Entries, Inodes
<1>2. Sound(i, node[i], links[i], i \in deleted, i \in trash, EntriesOf(i))
  BY <1>1 DEF Story, InodesSound
<1>3. i # Root /\ node[i].kind \in {"File", "Dir", "Symlink"} /\ ~node[i].deleted
  <2> HIDE DEF i
  <2>1. node[i].kind \in {"none", "File", "Dir", "Symlink"}
    BY <1>1 DEF Record
  <2> QED
    BY <1>1, <1>2, <2>1 DEF Sound
<1>4. i < nextIno
  BY <1>1, <1>3 DEF Story, Fresh, Missing
<1>5. ASSUME node[i].kind = "Dir"
      PROVE  EntriesOf(i) = {<<d, n>>} /\ node[i].parent = d /\ node[i].name = n /\ IsDir(d)
  <2>1. EntriesOf(i) = {<<node[i].parent, node[i].name>>} /\ IsDir(node[i].parent)
    BY <1>1, <1>2, <1>3, <1>5 DEF Sound, Story, ParentsAreDirs, IsDir
  <2>2. <<d, n>> = <<node[i].parent, node[i].name>>
    BY <1>1, <2>1
  <2> QED
    BY <2>1, <2>2
<1> QED
  BY <1>1, <1>3, <1>4, <1>5

-----------------------------------------------------------------------------
(* Each operation keeps the story. *)

\* create_entry
LEMMA CreateStory ==
  ASSUME TypeOK, Story, NEW c \in Clients, NEW p \in Inodes, NEW n \in Names,
         NEW kind \in {"File", "Dir", "Symlink"}, CreateEntry(c, p, n, kind)
  PROVE  Story'
<1>a. PICK i : i = nextIno
  OBVIOUS
<1>0. /\ i \in Inodes /\ i \in Nat /\ p \in Nat /\ i + 1 \in Nat /\ p < i /\ i # Root
      /\ \A k \in Inodes : k \in Nat
  <2>1. /\ i \in Inodes /\ i \in Nat /\ p \in Nat /\ i # Root
        /\ \A k \in Inodes : k \in Nat
    BY <1>a, NamespaceAssumption DEF CreateEntry, TypeOK, Inodes, Root
  <2>2. node[p] # Missing
    BY DEF CreateEntry, IsDir, Missing
  <2> QED
    BY <1>a, <2>1, <2>2 DEF Story, Fresh
<1>1. /\ node[i] = Missing /\ Listing(i) = {} /\ EntriesOf(i) = {} /\ links[i] = {}
      /\ i \notin deleted /\ i \notin trash
  <2>1. node[i] = Missing /\ Listing(i) = {}
    BY <1>a, <1>0 DEF Story, Fresh
  <2>2. Sound(i, node[i], links[i], i \in deleted, i \in trash, EntriesOf(i))
    BY <1>0 DEF Story, InodesSound
  <2> QED
    BY <2>1, <2>2 DEF Sound, Missing
<1>2. /\ node'[i] = NewRecord(p, n, kind)
      /\ node'[p].nlink = node[p].nlink + DotDot(kind)
      /\ node'[p].kind = "Dir" /\ node[p].kind = "Dir" /\ node'[p].parent = node[p].parent
      /\ node'[p].name = node[p].name /\ node'[p].deleted = node[p].deleted
      /\ \A k \in Inodes : k # i /\ k # p => node'[k] = node[k]
  BY <1>a, <1>0 DEF CreateEntry, TypeOK, IsDir, Record
<1>3. Put(p, n, i) /\ dir[p][n] = 0
  BY <1>a, <1>0 DEF CreateEntry, TypeOK, Put
<1>4. /\ \A k \in Inodes : EntriesOf(k)' = IF k = i THEN {<<p, n>>} ELSE EntriesOf(k)
      /\ \A d \in Inodes : Listing(d)' = IF d = p THEN Listing(p) \cup {n} ELSE Listing(d)
  <2>1. \A k \in Inodes : <<p, n>> \notin EntriesOf(k)
    BY <1>3 DEF EntriesOf, Entries
  <2> QED
    <3>1. /\ \A k \in Inodes : EntriesOf(k)' = IF k = i THEN EntriesOf(k) \cup {<<p, n>>}
                                                ELSE EntriesOf(k) \ {<<p, n>>}
          /\ \A d \in Inodes : Listing(d)' =
               IF d # p THEN Listing(d) ELSE IF i = 0 THEN Listing(p) \ {n} ELSE Listing(p) \cup {n}
      BY <1>0, <1>3, EntriesPut
    <3>2. \A k \in Inodes : EntriesOf(k) \ {<<p, n>>} = EntriesOf(k)
      BY <2>1
    <3>3. i # 0
      BY <1>0
    <3> QED
      BY <1>1, <3>1, <3>2, <3>3
<1>5. UNCHANGED <<links, deleted, trash>> /\ nextIno' = i + 1
  BY <1>a DEF CreateEntry
<1>6. /\ NewRecord(p, n, kind).kind = kind /\ NewRecord(p, n, kind).parent = p
      /\ NewRecord(p, n, kind).name = n /\ ~NewRecord(p, n, kind).deleted
      /\ NewRecord(p, n, kind).nlink = IF kind = "Dir" THEN 2 ELSE 1
  BY DEF NewRecord
<1>7. InodesSound'
  <2> SUFFICES ASSUME NEW k \in Inodes
               PROVE  Sound(k, node[k], links[k], k \in deleted, k \in trash, EntriesOf(k))'
    BY DEF InodesSound
  <2>1. Sound(k, node[k], links[k], k \in deleted, k \in trash, EntriesOf(k))
    BY DEF Story, InodesSound
  <2>2. CASE k = i
    <3>1. IsFiniteSet({<<p, n>>}) /\ Cardinality({<<p, n>>}) = 1
      BY FS_Singleton
    <3>2. EntriesOf(k)' = {<<p, n>>} /\ links'[k] = {} /\ k \notin deleted' /\ k \notin trash'
      BY <1>0, <1>1, <1>4, <1>5, <2>2
    <3>3. /\ node'[k].kind = kind /\ node'[k].parent = p /\ node'[k].name = n /\ ~node'[k].deleted
          /\ node'[k].nlink = IF kind = "Dir" THEN 2 ELSE 1
      BY <1>2, <1>6, <2>2
    <3>4. k # Root
      BY <1>0, <2>2
    <3> QED
      BY <3>1, <3>2, <3>3, <3>4 DEF Sound
  <2>3. CASE k = p
    BY <1>0, <1>2, <1>4, <1>5, <2>1, <2>3 DEF Sound
  <2>4. CASE k # i /\ k # p
    BY <1>2, <1>4, <1>5, <2>1, <2>4 DEF Sound
  <2> QED
    BY <2>2, <2>3, <2>4
<1>8. \A k \in Inodes : k # i => (IsDir(k)' <=> IsDir(k)) /\ node'[k].parent = node[k].parent
  BY <1>2 DEF IsDir
<1>9. ParentsAreDirs'
  <2> SUFFICES ASSUME NEW k \in Inodes, IsDir(k)', k # Root PROVE IsDir(node[k].parent)'
    BY DEF ParentsAreDirs
  <2>1. CASE k = i
    BY <1>2, <1>6, <2>1 DEF IsDir
  <2>2. CASE k # i
    <3>1. IsDir(k) /\ node'[k].parent = node[k].parent /\ IsDir(node[k].parent)
      BY <1>8, <2>2 DEF Story, ParentsAreDirs
    <3>2. node[k].parent # i /\ node[k].parent \in Inodes
      BY <1>1, <3>1 DEF IsDir, Missing
    <3>3. IsDir(node[k].parent) => (node'[node[k].parent].kind = "Dir")
      BY <1>8, <3>2 DEF IsDir
    <3> QED
      BY <3>1, <3>2, <3>3 DEF IsDir
  <2> QED
    BY <2>1, <2>2
<1>10. Grounded'
  <2> SUFFICES ASSUME NEW X \in SUBSET Inodes, Circle(X)' PROVE X = {}
    BY DEF Grounded
  <2>1. Circle(X \ {i})
    <3> SUFFICES ASSUME NEW x \in X, x # i
                 PROVE  x # Root /\ IsDir(x) /\ node[x].parent \in X \ {i}
      BY DEF Circle
    <3>1. x # Root /\ IsDir(x) /\ node[x].parent \in X
      BY <1>8 DEF Circle
    <3>2. IsDir(node[x].parent)
      BY <3>1 DEF Story, ParentsAreDirs
    <3> QED
      BY <1>1, <3>1, <3>2 DEF IsDir, Missing
  <2>2. X \ {i} = {}
    BY <2>1 DEF Story, Grounded
  <2>3. ASSUME i \in X PROVE FALSE
    <3>1. node'[i].parent \in X
      BY <2>3 DEF Circle
    <3> QED
      BY <1>0, <1>2, <1>6, <2>2, <3>1
  <2> QED
    BY <2>2, <2>3
<1>11. SubdirsCounted'
  <2>1. \A d \in Inodes, x \in Names : dir[d][x] # 0 => node'[dir[d][x]].kind = node[dir[d][x]].kind
    <3> SUFFICES ASSUME NEW d \in Inodes, NEW x \in Names, dir[d][x] # 0
                 PROVE  node'[dir[d][x]].kind = node[dir[d][x]].kind
      OBVIOUS
    <3>1. dir[d][x] \in Inodes /\ dir[d][x] < i
      BY <1>a, Target
    <3> QED
      BY <1>0, <1>2, <3>1
  <2>2. /\ \A d \in Inodes : d # p => Subdirs(d)' = Subdirs(d)
        /\ Subdirs(p)' = IF kind = "Dir" THEN Subdirs(p) \cup {n} ELSE Subdirs(p) \ {n}
    BY <1>0, <1>2, <1>3, <1>6, <2>1, SubdirsPut
  <2>3. n \notin Subdirs(p) /\ \A d \in Inodes : IsFiniteSet(Subdirs(d))
    <3>1. \A d \in Inodes : IsFiniteSet(Listing(d)) /\ Subdirs(d) \in SUBSET Listing(d)
      BY DEF Story, HoldersKnown, Subdirs
    <3> QED
      BY <1>3, <3>1, FS_Subset DEF Subdirs, Listing
  <2>4. Cardinality(Subdirs(p)') = Cardinality(Subdirs(p)) + DotDot(kind) /\ Cardinality(Subdirs(p)) \in Nat
    <3>1. IsFiniteSet(Subdirs(p)) /\ Cardinality(Subdirs(p)) \in Nat
      BY <2>3, FS_CardinalityType
    <3>2. Cardinality(Subdirs(p) \cup {n}) = Cardinality(Subdirs(p)) + 1 /\ Subdirs(p) \ {n} = Subdirs(p)
      BY <2>3, <3>1, Counting
    <3> QED
      BY <2>2, <3>1, <3>2 DEF DotDot
  <2>5. Subdirs(i)' = {}
    <3>1. Subdirs(i)' = Subdirs(i) /\ Listing(i) = {}
      BY <1>0, <1>1, <2>2
    <3> QED
      BY <3>1 DEF Subdirs
  <2> SUFFICES ASSUME NEW d \in Inodes, IsDir(d)' PROVE node'[d].nlink = 2 + Cardinality(Subdirs(d)')
    BY DEF SubdirsCounted
  <2>6. CASE d = i
    <3>1. Cardinality({}) = 0
      BY FS_EmptySet
    <3> QED
      BY <1>2, <1>6, <2>5, <2>6, <3>1 DEF IsDir
  <2>7. CASE d = p
    <3>1. node[p].nlink = 2 + Cardinality(Subdirs(p)) /\ DotDot(kind) \in Nat
      BY <1>2 DEF Story, SubdirsCounted, IsDir, DotDot
    <3> QED
      BY <1>2, <2>4, <2>7, <3>1
  <2>8. CASE d # i /\ d # p
    <3>1. node[d].nlink = 2 + Cardinality(Subdirs(d))
      BY <1>8, <2>8 DEF Story, SubdirsCounted
    <3> QED
      BY <1>2, <2>2, <2>8, <3>1
  <2> QED
    BY <2>6, <2>7, <2>8
<1>12. HoldersKnown'
  <2> SUFFICES ASSUME NEW d \in Inodes
               PROVE  IsFiniteSet(Listing(d)') /\ (Listing(d)' # {} => node'[d].kind \in {"Dir", "none"})
    BY DEF HoldersKnown
  <2>1. IsFiniteSet(Listing(d)) /\ (Listing(d) # {} => node[d].kind \in {"Dir", "none"})
    BY DEF Story, HoldersKnown
  <2>2. IsFiniteSet(Listing(d)')
    BY <1>4, <2>1, Counting
  <2>3. CASE d = p
    BY <1>2, <2>2, <2>3
  <2>4. CASE d # p
    BY <1>1, <1>2, <1>4, <2>1, <2>2, <2>4
  <2> QED
    BY <2>3, <2>4
<1>13. Fresh'
  <2> SUFFICES ASSUME NEW k \in Inodes, k >= i + 1 PROVE node'[k] = Missing /\ Listing(k)' = {}
    BY <1>5 DEF Fresh
  <2>1. k # i /\ k # p /\ k >= i
    BY <1>0
  <2> QED
    BY <1>a, <1>2, <1>4, <2>1 DEF Story, Fresh
<1>14. LinkTargets'
  <2> SUFFICES ASSUME NEW b \in Clients, client'[b].op = "link"
               PROVE  client'[b].parent < i + 1 /\ node'[client'[b].parent].kind \in {"Dir", "none"}
    BY <1>5 DEF LinkTargets
  <2>1. client'[b] = client[b]
    BY DEF CreateEntry, TypeOK
  <2>2. client[b].parent < i /\ node[client[b].parent].kind \in {"Dir", "none"}
    BY <1>a, <2>1 DEF Story, LinkTargets
  <2>3. client[b].parent \in Inodes
    BY <2>1 DEF TypeOK, Idle
  <2> QED
    <3>0. PICK h \in Inodes : h = client[b].parent
      BY <2>3
    <3>1. h # i /\ h < i + 1 /\ h < i
      BY <1>0, <2>2, <3>0
    <3>2. node'[h].kind = node[h].kind
      BY <1>2, <3>1
    <3> QED
      BY <2>1, <2>2, <3>0, <3>1, <3>2
<1> QED
  BY <1>7, <1>9, <1>10, <1>11, <1>12, <1>13, <1>14 DEF Story

\* A step that leaves the keys alone and starts no link.
LEMMA QuietStory ==
  ASSUME Story, UNCHANGED <<node, dir, links, deleted, trash, nextIno>>, LinkTargets'
  PROVE  Story'
<1>1. /\ \A k : EntriesOf(k)' = EntriesOf(k) /\ Listing(k)' = Listing(k) /\ Subdirs(k)' = Subdirs(k)
      /\ \A k : IsDir(k)' <=> IsDir(k)
  BY DEF EntriesOf, Entries, Listing, Subdirs, IsDir
<1>2. InodesSound'
  <2> SUFFICES ASSUME NEW k \in Inodes
               PROVE  Sound(k, node[k], links[k], k \in deleted, k \in trash, EntriesOf(k))'
    BY DEF InodesSound
  <2>1. Sound(k, node[k], links[k], k \in deleted, k \in trash, EntriesOf(k))
    BY DEF Story, InodesSound
  <2> QED
    BY <1>1, <2>1 DEF Sound
<1>3. ParentsAreDirs' /\ SubdirsCounted' /\ HoldersKnown' /\ Fresh'
  BY <1>1 DEF Story, ParentsAreDirs, SubdirsCounted, HoldersKnown, Fresh
<1>4. Grounded'
  BY <1>1, GroundedKept DEF Story
<1> QED
  BY <1>2, <1>3, <1>4 DEF Story

\* A step that concerns one file, of which no directory keeps its links.
LEMMA FileStory ==
  ASSUME TypeOK, Story, NEW i \in Inodes, node[i].kind \in {"File", "Symlink"},
         node'[i].kind \in {"File", "Symlink", "none"},
         Sound(i, node'[i], links'[i], (i \in deleted)', (i \in trash)', EntriesOf(i)'),
         \A k \in Inodes : k # i =>
           /\ node'[k] = node[k] /\ links'[k] = links[k] /\ EntriesOf(k)' = EntriesOf(k)
           /\ (k \in deleted') <=> (k \in deleted)
           /\ (k \in trash') <=> (k \in trash),
         \A d \in Inodes : Subdirs(d)' = Subdirs(d) /\ IsFiniteSet(Listing(d)'),
         \A d \in Inodes : \/ Listing(d)' \subseteq Listing(d)
                           \/ d < nextIno /\ node[d].kind \in {"Dir", "none"},
         \A b \in Clients : client'[b].op = "link" => client'[b] = client[b],
         nextIno' = nextIno
  PROVE  Story'
<1>0. i < nextIno /\ i # Root /\ i \in Nat /\ nextIno \in Nat /\ \A k \in Inodes : k \in Nat
  <2>1. i \in Nat /\ nextIno \in Nat /\ \A k \in Inodes : k \in Nat
    BY NamespaceAssumption DEF TypeOK, Inodes
  <2>2. node[i] # Missing
    BY DEF Missing
  <2>3. i # Root
    BY DEF Story, InodesSound, Sound
  <2> QED
    BY <2>1, <2>2, <2>3 DEF Story, Fresh
<1>1. InodesSound'
  <2> SUFFICES ASSUME NEW k \in Inodes
               PROVE  Sound(k, node[k], links[k], k \in deleted, k \in trash, EntriesOf(k))'
    BY DEF InodesSound
  <2>1. Sound(k, node[k], links[k], k \in deleted, k \in trash, EntriesOf(k))
    BY DEF Story, InodesSound
  <2>2. CASE k = i
    BY <2>2 DEF Sound
  <2>3. CASE k # i
    BY <2>1, <2>3 DEF Sound
  <2> QED
    BY <2>2, <2>3
<1>2. \A k : IsDir(k)' <=> IsDir(k)
  BY DEF IsDir
<1>3. \A k \in Inodes : IsDir(k) => node'[k] = node[k]
  BY DEF IsDir
<1>4. ParentsAreDirs'
  BY <1>2, <1>3 DEF Story, ParentsAreDirs
<1>5. Grounded'
  BY <1>2, <1>3, GroundedKept DEF Story
<1>6. SubdirsCounted'
  BY <1>2, <1>3 DEF Story, SubdirsCounted
<1>7. HoldersKnown'
  <2> SUFFICES ASSUME NEW d \in Inodes, Listing(d)' # {} PROVE node'[d].kind \in {"Dir", "none"}
    BY DEF HoldersKnown
  <2>1. node[d].kind \in {"Dir", "none"}
    BY DEF Story, HoldersKnown
  <2> QED
    BY <2>1
<1>8. Fresh'
  <2> SUFFICES ASSUME NEW k \in Inodes, k >= nextIno PROVE node'[k] = Missing /\ Listing(k)' = {}
    BY DEF Fresh
  <2>1. k # i /\ node[k] = Missing /\ Listing(k) = {} /\ ~(k < nextIno)
    BY <1>0 DEF Story, Fresh
  <2> QED
    BY <2>1
<1>9. LinkTargets'
  <2> SUFFICES ASSUME NEW b \in Clients, client'[b].op = "link"
               PROVE  client'[b].parent < nextIno /\ node'[client'[b].parent].kind \in {"Dir", "none"}
    BY DEF LinkTargets
  <2>1. client'[b] = client[b]
    OBVIOUS
  <2>2. client[b].parent < nextIno /\ node[client[b].parent].kind \in {"Dir", "none"}
    BY <2>1 DEF Story, LinkTargets
  <2>3. PICK h \in Inodes : h = client[b].parent
    BY <2>1 DEF TypeOK, Idle
  <2> QED
    BY <2>1, <2>2, <2>3
<1> QED
  BY <1>1, <1>4, <1>5, <1>6, <1>7, <1>8, <1>9 DEF Story

\* The same when the step puts one entry in place or takes it away.
LEMMA FilePut ==
  ASSUME TypeOK, Story, NEW i \in Inodes, node[i].kind \in {"File", "Symlink"},
         node'[i].kind \in {"File", "Symlink"},
         NEW p \in Inodes, NEW n \in Names, NEW v \in {0, i}, Put(p, n, v), dir[p][n] \in {0, i},
         Sound(i, node'[i], links'[i], (i \in deleted)', (i \in trash)',
               IF v = i THEN EntriesOf(i) \cup {<<p, n>>} ELSE EntriesOf(i) \ {<<p, n>>}),
         \A k \in Inodes : k # i =>
           /\ node'[k] = node[k] /\ links'[k] = links[k]
           /\ (k \in deleted') <=> (k \in deleted)
           /\ (k \in trash') <=> (k \in trash),
         v = i => p < nextIno /\ node[p].kind \in {"Dir", "none"},
         \A b \in Clients : client'[b].op = "link" => client'[b] = client[b],
         nextIno' = nextIno
  PROVE  Story'
<1>0. i # 0 /\ v \in {0} \cup Inodes
  BY NamespaceAssumption DEF Inodes
<1>1. /\ \A k \in Inodes : EntriesOf(k)' = IF k = v THEN EntriesOf(k) \cup {<<p, n>>}
                                            ELSE EntriesOf(k) \ {<<p, n>>}
      /\ \A d \in Inodes : Listing(d)' =
           IF d # p THEN Listing(d) ELSE IF v = 0 THEN Listing(p) \ {n} ELSE Listing(p) \cup {n}
  BY <1>0, EntriesPut
<1>2. ASSUME NEW k \in Inodes, k # i PROVE EntriesOf(k)' = EntriesOf(k)
  <2>1. <<p, n>> \notin EntriesOf(k)
    BY <1>2 DEF EntriesOf, Entries
  <2>2. k # v
    BY <1>0, <1>2, NamespaceAssumption DEF Inodes
  <2>3. EntriesOf(k) \ {<<p, n>>} = EntriesOf(k)
    BY <2>1
  <2> QED
    BY <1>1, <2>2, <2>3
<1>3. EntriesOf(i)' = IF v = i THEN EntriesOf(i) \cup {<<p, n>>} ELSE EntriesOf(i) \ {<<p, n>>}
  BY <1>1
<1>4. \A d \in Inodes : Subdirs(d)' = Subdirs(d)
  <2>1. \A d \in Inodes, x \in Names : dir[d][x] # 0 /\ ~(d = p /\ x = n) =>
          ((node'[dir[d][x]].kind = "Dir") <=> (node[dir[d][x]].kind = "Dir"))
    <3> SUFFICES ASSUME NEW d \in Inodes, NEW x \in Names, dir[d][x] # 0
                 PROVE  (node'[dir[d][x]].kind = "Dir") <=> (node[dir[d][x]].kind = "Dir")
      OBVIOUS
    <3>1. dir[d][x] \in Inodes
      BY Target
    <3> QED
      BY <3>1
  <2>2. /\ \A d \in Inodes : d # p => Subdirs(d)' = Subdirs(d)
        /\ Subdirs(p)' = IF v \in Inodes /\ node'[v].kind = "Dir" THEN Subdirs(p) \cup {n}
                         ELSE Subdirs(p) \ {n}
    BY <1>0, <2>1, SubdirsPut
  <2>3. ~(v \in Inodes /\ node'[v].kind = "Dir")
    BY NamespaceAssumption DEF Inodes
  <2>4. n \notin Subdirs(p)
    BY DEF Subdirs, Listing, IsDir
  <2> QED
    BY <2>2, <2>3, <2>4
<1>5. \A d \in Inodes : IsFiniteSet(Listing(d)')
  <2> SUFFICES ASSUME NEW d \in Inodes PROVE IsFiniteSet(Listing(d)')
    OBVIOUS
  <2>1. IsFiniteSet(Listing(d))
    BY DEF Story, HoldersKnown
  <2>2. IsFiniteSet(Listing(d) \cup {n}) /\ IsFiniteSet(Listing(d) \ {n})
    BY <2>1, Counting
  <2> QED
    BY <1>1, <2>1, <2>2
<1>6. \A d \in Inodes : \/ Listing(d)' \subseteq Listing(d)
                        \/ d < nextIno /\ node[d].kind \in {"Dir", "none"}
  BY <1>1
<1> QED
  BY <1>2, <1>3, <1>4, <1>5, <1>6, FileStory

\* unlink, unless it loses part of a name
LEMMA UnlinkStory ==
  ASSUME TypeOK, Story, NEW p \in Inodes, NEW n \in Names, Unlink(p, n), ~drifted'
  PROVE  Story'
<1>a. PICK i : i = dir[p][n]
  OBVIOUS
<1>b. PICK rest : rest = links[i] \ {<<p, n>>}
  OBVIOUS
<1>c. PICK r : r = [node[i] EXCEPT !.nlink = IF @ > 0 THEN @ - 1 ELSE 0]
  OBVIOUS
<1>d. PICK es : es = EntriesOf(i)
  OBVIOUS
<1>0. /\ i \in Inodes /\ i # Root /\ i # 0 /\ node[i].kind \in {"File", "Symlink"}
      /\ <<p, n>> \in es /\ ~node[i].deleted /\ node[i] \in Record
  <2>1. dir[p][n] # 0 /\ ~IsDir(dir[p][n])
    BY DEF Unlink
  <2>2. /\ i \in Inodes /\ i # Root /\ i # 0 /\ node[i].kind \in {"File", "Dir", "Symlink"}
        /\ <<p, n>> \in es /\ ~node[i].deleted
    BY <1>a, <1>d, <2>1, Target
  <2> QED
    BY <1>a, <2>1, <2>2 DEF IsDir, TypeOK
<1>1. /\ links' = [links EXCEPT ![i] = IF r.nlink = 1 /\ Cardinality(rest) = 1 THEN {} ELSE rest]
      /\ node' = [node EXCEPT ![i] = CASE r.nlink = 0 -> MarkDeleted(r)
                                       [] r.nlink = 1 -> SingleLink(r, rest)
                                       [] OTHER -> r]
      /\ deleted' = IF r.nlink = 0 THEN deleted \cup {i} ELSE deleted
      /\ trash' = IF node[i].nlink = 1 THEN trash \cup {i} ELSE trash
      /\ r.nlink = 1 => <<SingleLink(r, rest).parent, SingleLink(r, rest).name>> \in rest
      /\ UNCHANGED <<client, nextIno>>
      /\ dir' = [dir EXCEPT ![p][n] = 0]
  BY <1>a, <1>b, <1>c DEF Unlink
<1>2. Put(p, n, 0)
  BY <1>1 DEF Put, TypeOK
<1>3. Sound(i, node[i], links[i], i \in deleted, i \in trash, es)
  BY <1>0, <1>d DEF Story, InodesSound
<1>4. /\ r \in Record /\ r.kind = node[i].kind /\ r.parent = node[i].parent /\ r.name = node[i].name
      /\ ~r.deleted /\ r.nlink = Cardinality(es) - 1 /\ node[i].nlink = Cardinality(es)
      /\ IsFiniteSet(es) /\ Cardinality(es) \in Nat /\ Cardinality(es) # 0
  <2>1. node[i].nlink = Cardinality(es) /\ IsFiniteSet(es)
    BY <1>0, <1>3 DEF Sound
  <2>2. Cardinality(es) \in Nat /\ Cardinality(es) # 0
    BY <1>0, <2>1, FS_CardinalityType, FS_EmptySet
  <2>3. /\ r \in Record /\ r.kind = node[i].kind /\ r.parent = node[i].parent /\ r.name = node[i].name
        /\ r.deleted = node[i].deleted /\ r.nlink = IF node[i].nlink > 0 THEN node[i].nlink - 1 ELSE 0
    BY <1>0, <1>c DEF Record
  <2> QED
    BY <1>0, <2>1, <2>2, <2>3
<1>5. /\ IsFiniteSet(es \ {<<p, n>>}) /\ Cardinality(es \ {<<p, n>>}) = Cardinality(es) - 1
      /\ Cardinality(es) = 1 => es = {<<p, n>>}
  BY <1>0, <1>4, Counting
<1>6. /\ Sound(i, node'[i], links'[i], (i \in deleted)', (i \in trash)', es \ {<<p, n>>})
      /\ node'[i].kind \in {"File", "Symlink"}
  <2>1. CASE Cardinality(es) = 1
    <3>1. r.nlink = 0 /\ node[i].nlink = 1 /\ es \ {<<p, n>>} = {}
      BY <1>4, <1>5, <2>1
    <3>2. rest = {} /\ links'[i] = {}
      BY <1>0, <1>1, <1>3, <1>b, <3>1 DEF Sound, TypeOK
    <3>3. node'[i] = MarkDeleted(r) /\ i \in deleted' /\ i \in trash'
      BY <1>0, <1>1, <3>1 DEF TypeOK
    <3>4. /\ MarkDeleted(r).kind = r.kind /\ MarkDeleted(r).nlink = 0 /\ MarkDeleted(r).deleted
      BY <1>4 DEF MarkDeleted, Record
    <3>5. IsFiniteSet({}) /\ Cardinality({}) = 0
      BY FS_EmptySet
    <3> QED
      BY <1>0, <1>4, <3>1, <3>2, <3>3, <3>4, <3>5 DEF Sound
  <2>2. CASE Cardinality(es) = 2
    <3>1. r.nlink = 1 /\ node[i].nlink = 2
      BY <1>4, <2>2
    <3>2. rest = es \ {<<p, n>>} /\ Cardinality(rest) = 1
      BY <1>0, <1>3, <1>5, <1>b, <2>2, <3>1 DEF Sound
    <3>3. links'[i] = {} /\ node'[i] = SingleLink(r, rest) /\ deleted' = deleted /\ trash' = trash
      BY <1>0, <1>1, <3>1, <3>2 DEF TypeOK
    <3>4. /\ SingleLink(r, rest).kind = r.kind /\ SingleLink(r, rest).nlink = 1
          /\ ~SingleLink(r, rest).deleted
      BY <1>4, <3>1 DEF SingleLink, Record
    <3>5. <<SingleLink(r, rest).parent, SingleLink(r, rest).name>> \in rest
      BY <1>1, <3>1
    <3>6. rest = {<<SingleLink(r, rest).parent, SingleLink(r, rest).name>>}
      <4>1. PICK t : t = <<SingleLink(r, rest).parent, SingleLink(r, rest).name>>
        OBVIOUS
      <4>2. IsFiniteSet(rest) /\ t \in rest
        BY <1>5, <3>2, <3>5, <4>1
      <4>3. rest = {t}
        BY <3>2, <4>2, Counting
      <4> QED
        BY <4>1, <4>3
    <3>7. i \notin deleted /\ i \notin trash
      BY <1>0, <1>3 DEF Sound
    <3> QED
      BY <1>0, <1>4, <1>5, <3>1, <3>2, <3>3, <3>4, <3>6, <3>7 DEF Sound
  <2>3. CASE Cardinality(es) # 1 /\ Cardinality(es) # 2
    <3>1. r.nlink > 1 /\ node[i].nlink > 1 /\ r.nlink # 0 /\ r.nlink # 1 /\ node[i].nlink # 1
      BY <1>4, <2>3
    <3>2. rest = es \ {<<p, n>>} /\ r.parent = 0
      BY <1>0, <1>3, <1>4, <1>b, <3>1 DEF Sound
    <3>3. links'[i] = rest /\ node'[i] = r /\ deleted' = deleted /\ trash' = trash
      BY <1>0, <1>1, <3>1 DEF TypeOK
    <3>4. i \notin deleted /\ i \notin trash
      BY <1>0, <1>3 DEF Sound
    <3> QED
      BY <1>0, <1>4, <1>5, <3>1, <3>2, <3>3, <3>4 DEF Sound
  <2> QED
    BY <2>1, <2>2, <2>3
<1>7. \A k \in Inodes : k # i =>
        /\ node'[k] = node[k] /\ links'[k] = links[k]
        /\ (k \in deleted') <=> (k \in deleted)
        /\ (k \in trash') <=> (k \in trash)
  BY <1>1 DEF TypeOK
<1>8. Sound(i, node'[i], links'[i], (i \in deleted)', (i \in trash)',
            IF 0 = i THEN EntriesOf(i) \cup {<<p, n>>} ELSE EntriesOf(i) \ {<<p, n>>})
  BY <1>0, <1>6, <1>d
<1>9. /\ \A b \in Clients : client'[b].op = "link" => client'[b] = client[b]
      /\ nextIno' = nextIno /\ 0 \in {0, i} /\ 0 # i /\ dir[p][n] \in {0, i}
  BY <1>0, <1>1, <1>a
<1> QED
  BY <1>0, <1>2, <1>6, <1>7, <1>8, <1>9, FilePut

\* restore_deleted_file
LEMMA RestoreStory ==
  ASSUME TypeOK, Story, NEW i \in Inodes, NEW p \in Inodes, NEW n \in Names, RestoreDeletedFile(i, p, n)
  PROVE  Story'
<1>1. /\ node' = [node EXCEPT ![i].deleted = FALSE, ![i].nlink = 1, ![i].parent = p, ![i].name = n]
      /\ trash' = trash \ {i} /\ deleted' = deleted \ {i} /\ dir' = [dir EXCEPT ![p][n] = i]
      /\ UNCHANGED <<links, client, nextIno>>
      /\ node[i].deleted /\ node[i].kind # "none" /\ IsDir(p) /\ dir[p][n] = 0 /\ node[i].nlink = 0
  BY DEF RestoreDeletedFile, Undeleted, Exists
<1>2. /\ Sound(i, node[i], links[i], i \in deleted, i \in trash, EntriesOf(i))
      /\ node[i] \in Record
  BY DEF Story, InodesSound, TypeOK
<1>3. node[i].kind \in {"File", "Symlink"} /\ EntriesOf(i) = {} /\ i # Root /\ links[i] = {}
  BY <1>1, <1>2 DEF Sound, Record
<1>4. /\ node'[i].kind = node[i].kind /\ ~node'[i].deleted /\ node'[i].nlink = 1
      /\ node'[i].parent = p /\ node'[i].name = n
  BY <1>1, <1>2 DEF Record, TypeOK
<1>5. Put(p, n, i)
  BY <1>1 DEF TypeOK, Put
<1>6. IsFiniteSet({<<p, n>>}) /\ Cardinality({<<p, n>>}) = 1
  BY FS_Singleton
<1>7. EntriesOf(i) \cup {<<p, n>>} = {<<p, n>>}
  BY <1>3
<1>8. Sound(i, node'[i], links'[i], (i \in deleted)', (i \in trash)', EntriesOf(i) \cup {<<p, n>>})
  <2>1. links'[i] = {} /\ i \notin deleted' /\ i \notin trash'
    BY <1>1, <1>3
  <2>2. PICK es : es = EntriesOf(i) \cup {<<p, n>>}
    OBVIOUS
  <2>3. Sound(i, node'[i], links'[i], i \in deleted', i \in trash', es)
    BY <1>3, <1>4, <1>6, <1>7, <2>1, <2>2 DEF Sound
  <2> QED
    BY <2>2, <2>3
<1>9. \A k \in Inodes : k # i =>
        /\ node'[k] = node[k] /\ links'[k] = links[k]
        /\ (k \in deleted') <=> (k \in deleted)
        /\ (k \in trash') <=> (k \in trash)
  BY <1>1 DEF TypeOK
<1>10. p < nextIno /\ node[p].kind \in {"Dir", "none"}
  <2>1. node[p] # Missing /\ p \in Nat /\ nextIno \in Nat /\ node[p].kind = "Dir"
    BY <1>1, NamespaceAssumption DEF IsDir, Missing, TypeOK, Inodes
  <2> QED
    BY <2>1 DEF Story, Fresh
<1> QED
  BY <1>1, <1>3, <1>4, <1>5, <1>8, <1>9, <1>10, FilePut

\* remove_file_metadata
LEMMA RemoveStory ==
  ASSUME TypeOK, Story, NEW i \in Inodes, RemoveFileMetadata(i)
  PROVE  Story'
<1>1. /\ node' = [node EXCEPT ![i] = Missing] /\ deleted' = deleted \ {i} /\ trash' = trash \ {i}
      /\ UNCHANGED <<dir, links, client, nextIno>>
      /\ node[i].kind # "none" => node[i].deleted
      /\ node[i].kind # "none" \/ i \in deleted \cup trash
  BY DEF RemoveFileMetadata, Exists, Tombstone
<1>2. /\ Sound(i, node[i], links[i], i \in deleted, i \in trash, EntriesOf(i))
      /\ node[i] \in Record
  BY DEF Story, InodesSound, TypeOK
<1>3. node[i].kind # "none" /\ node[i].deleted
  BY <1>1, <1>2 DEF Sound
<1>4. node[i].kind \in {"File", "Symlink"} /\ EntriesOf(i) = {} /\ i # Root
  BY <1>2, <1>3 DEF Sound, Record
<1>5. links[i] = {}
  <2>1. node[i].nlink = 0
    BY <1>2, <1>4, FS_EmptySet DEF Sound
  <2> QED
    BY <1>2, <2>1 DEF Sound
<1>6. node'[i] = Missing /\ i \notin deleted' /\ i \notin trash' /\ links'[i] = {}
  BY <1>1, <1>5 DEF TypeOK
<1>7. \A k : EntriesOf(k)' = EntriesOf(k) /\ Listing(k)' = Listing(k)
  BY <1>1 DEF EntriesOf, Entries, Listing
<1>8. Sound(i, node'[i], links'[i], (i \in deleted)', (i \in trash)', EntriesOf(i)')
  <2>1. IsFiniteSet({})
    BY FS_EmptySet
  <2> QED
    BY <1>4, <1>6, <1>7, <2>1 DEF Sound, Missing
<1>9. \A k \in Inodes : k # i =>
        /\ node'[k] = node[k] /\ links'[k] = links[k] /\ EntriesOf(k)' = EntriesOf(k)
        /\ (k \in deleted') <=> (k \in deleted)
        /\ (k \in trash') <=> (k \in trash)
  BY <1>1, <1>7 DEF TypeOK
<1>10. \A d \in Inodes : Subdirs(d)' = Subdirs(d) /\ IsFiniteSet(Listing(d)') /\ Listing(d)' \subseteq Listing(d)
  <2>1. \A k : IsDir(k)' <=> IsDir(k)
    BY <1>4, <1>6, <1>9 DEF IsDir, Missing
  <2>2. \A d \in Inodes : Subdirs(d)' = Subdirs(d)
    BY <1>1, <1>7, <2>1 DEF Subdirs
  <2> QED
    BY <1>7, <2>2 DEF Story, HoldersKnown
<1>11. node'[i].kind \in {"File", "Symlink", "none"}
  BY <1>6 DEF Missing
<1> QED
  BY <1>1, <1>4, <1>8, <1>9, <1>10, <1>11, FileStory

\* link
LEMMA LinkStory ==
  ASSUME TypeOK, Story, NEW c \in Clients, LinkApply(c)
  PROVE  Story'
<1>a. PICK i : i = client[c].ino
  OBVIOUS
<1>b. PICK p : p = client[c].parent
  OBVIOUS
<1>c. PICK n : n = client[c].name
  OBVIOUS
<1>0. i \in Inodes /\ p \in Inodes /\ n \in Names /\ client[c].op = "link"
  <2>1. client[c].op = "link"
    BY DEF LinkApply
  <2>2. client[c] \in [op: {"link"}, ino: Inodes, parent: Inodes, name: Names]
    BY <2>1 DEF TypeOK, Idle
  <2> QED
    BY <1>a, <1>b, <1>c, <2>1, <2>2
<1>1. CASE node[i].kind = "File" /\ ~node[i].deleted /\ node[i].nlink # 0 /\ dir[p][n] = 0
  <2>1. /\ links' = [links EXCEPT ![i] = LinksWith(i, p, n)]
        /\ node' = [node EXCEPT ![i].nlink = @ + 1,
                                ![i].parent = IF node[i].nlink = 1 THEN 0 ELSE @,
                                ![i].name = IF node[i].nlink = 1 THEN NoName ELSE @]
        /\ dir' = [dir EXCEPT ![p][n] = i]
        /\ client' = [client EXCEPT ![c] = [op |-> "bump", ino |-> p]]
        /\ UNCHANGED <<deleted, trash, nextIno>>
    BY <1>1, <1>a, <1>b, <1>c DEF LinkApply
  <2>2. Put(p, n, i)
    BY <1>0, <2>1 DEF TypeOK, Put
  <2>3. PICK es : es = EntriesOf(i)
    OBVIOUS
  <2>4. Sound(i, node[i], links[i], i \in deleted, i \in trash, es) /\ node[i] \in Record
    BY <1>0, <2>3 DEF Story, InodesSound, TypeOK
  <2>5. /\ node[i].nlink = Cardinality(es) /\ IsFiniteSet(es) /\ Cardinality(es) \in Nat
        /\ node[i].nlink = 1 => es = {<<node[i].parent, node[i].name>>}
        /\ i \notin deleted /\ i \notin trash /\ i # Root
    BY <1>1, <2>4, FS_CardinalityType DEF Sound
  <2>6. /\ node'[i].kind = "File" /\ ~node'[i].deleted /\ node'[i].nlink = node[i].nlink + 1
        /\ node'[i].parent = IF node[i].nlink = 1 THEN 0 ELSE node[i].parent
    BY <1>0, <1>1, <2>1, <2>4 DEF Record, TypeOK
  <2>7. <<p, n>> \notin es
    BY <1>0, <1>1, <2>3, NamespaceAssumption DEF EntriesOf, Entries, Inodes
  <2>8. IsFiniteSet(es \cup {<<p, n>>}) /\ Cardinality(es \cup {<<p, n>>}) = Cardinality(es) + 1
    BY <2>5, <2>7, Counting
  <2>9. node'[i].nlink > 1 /\ node'[i].nlink # 1 /\ node'[i].parent = 0
    <3>1. node[i].nlink > 0
      BY <1>1, <2>5
    <3>2. node[i].nlink # 1 => node[i].nlink > 1
      BY <2>5, <3>1
    <3> QED
      BY <1>1, <2>4, <2>5, <2>6, <3>1, <3>2 DEF Sound
  <2>10. links'[i] = es \cup {<<p, n>>}
    <3>1. links'[i] = LinksWith(i, p, n)
      BY <1>0, <2>1 DEF TypeOK
    <3>2. CASE node[i].nlink = 1
      <4>1. links[i] = {} /\ es = {<<node[i].parent, node[i].name>>}
        BY <1>1, <2>4, <2>5, <3>2 DEF Sound
      <4> QED
        BY <3>1, <3>2, <4>1 DEF LinksWith
    <3>3. CASE node[i].nlink # 1
      <4>1. node[i].nlink > 1
        BY <1>1, <2>5, <3>3
      <4>2. links[i] = es
        BY <1>1, <2>4, <4>1 DEF Sound
      <4> QED
        BY <3>1, <3>3, <4>2 DEF LinksWith
    <3> QED
      BY <3>2, <3>3
  <2>11. Sound(i, node'[i], links'[i], (i \in deleted)', (i \in trash)', EntriesOf(i) \cup {<<p, n>>})
    <3>1. PICK fs : fs = es \cup {<<p, n>>}
      OBVIOUS
    <3>2. Sound(i, node'[i], links'[i], i \in deleted', i \in trash', fs)
      BY <2>1, <2>5, <2>6, <2>8, <2>9, <2>10, <3>1 DEF Sound
    <3> QED
      BY <2>3, <3>1, <3>2
  <2>12. \A k \in Inodes : k # i =>
          /\ node'[k] = node[k] /\ links'[k] = links[k]
          /\ (k \in deleted') <=> (k \in deleted)
          /\ (k \in trash') <=> (k \in trash)
    BY <2>1 DEF TypeOK
  <2>13. p < nextIno /\ node[p].kind \in {"Dir", "none"}
    BY <1>0, <1>b DEF Story, LinkTargets
  <2>14. \A b \in Clients : client'[b].op = "link" => client'[b] = client[b]
    BY <2>1 DEF TypeOK
  <2> QED
    BY <1>0, <1>1, <2>1, <2>2, <2>6, <2>11, <2>12, <2>13, <2>14, FilePut
<1>2. CASE ~(node[i].kind = "File" /\ ~node[i].deleted /\ node[i].nlink # 0 /\ dir[p][n] = 0)
  <2>1. /\ client' = [client EXCEPT ![c] = Idle]
        /\ UNCHANGED <<links, node, dir, deleted, trash, nextIno>>
    BY <1>2, <1>a, <1>b, <1>c DEF LinkApply
  <2>2. LinkTargets'
    <3> SUFFICES ASSUME NEW b \in Clients, client'[b].op = "link"
                 PROVE  client'[b].parent < nextIno /\ node[client'[b].parent].kind \in {"Dir", "none"}
      BY <2>1 DEF LinkTargets
    <3>1. client'[b] = client[b]
      BY <2>1 DEF TypeOK, Idle
    <3> QED
      BY <3>1 DEF Story, LinkTargets
  <2> QED
    BY <2>1, <2>2, QuietStory
<1> QED
  BY <1>1, <1>2

\* The steps of a client that change no key, or write back what is there
LEMMA ClientStory ==
  ASSUME TypeOK, Story, NEW c \in Clients, NEW x, client' = [client EXCEPT ![c] = x],
         UNCHANGED <<node, dir, links, deleted, trash, nextIno>>,
         x.op = "link" => x.parent < nextIno /\ node[x.parent].kind \in {"Dir", "none"}
  PROVE  Story'
<1>1. LinkTargets'
  <2> SUFFICES ASSUME NEW b \in Clients, client'[b].op = "link"
               PROVE  client'[b].parent < nextIno /\ node[client'[b].parent].kind \in {"Dir", "none"}
    BY DEF LinkTargets
  <2>1. CASE b = c
    BY <2>1 DEF TypeOK
  <2>2. CASE b # c
    <3>1. client'[b] = client[b]
      BY <2>2 DEF TypeOK
    <3> QED
      BY <3>1 DEF Story, LinkTargets
  <2> QED
    BY <2>1, <2>2
<1> QED
  BY <1>1, QuietStory

\* A directory is not its own parent.
LEMMA NotOwnParent ==
  ASSUME Story, NEW i \in Inodes, IsDir(i), i # Root
  PROVE  node[i].parent # i
<1> SUFFICES ASSUME node[i].parent = i PROVE FALSE
  OBVIOUS
<1>1. Circle({i}) /\ {i} \in SUBSET Inodes
  BY DEF Circle
<1> QED
  BY <1>1 DEF Story, Grounded

\* A directory that something has for a parent is not empty.
LEMMA ParentsHaveEntries ==
  ASSUME Story, NEW k \in Inodes, IsDir(k), k # Root
  PROVE  Listing(node[k].parent) # {}
<1>1. <<node[k].parent, node[k].name>> \in EntriesOf(k)
  BY DEF Story, InodesSound, Sound, IsDir
<1>2. <<node[k].parent, node[k].name>> \in Inodes \X Names /\ dir[node[k].parent][node[k].name] # 0
  BY <1>1 DEF EntriesOf, Entries
<1> QED
  BY <1>2 DEF Listing

\* rmdir
LEMMA RmdirStory ==
  ASSUME TypeOK, Story, NEW p \in Inodes, NEW n \in Names, Rmdir(p, n)
  PROVE  Story'
<1>a. PICK i : i = dir[p][n]
  OBVIOUS
<1>0. /\ i \in Inodes /\ i # Root /\ IsDir(i) /\ IsDir(p) /\ i # p /\ EntriesOf(i) = {<<p, n>>}
      /\ i < nextIno /\ p < nextIno /\ node[p] \in Record /\ node[i] \in Record
      /\ Listing(i) = {} /\ i # 0 /\ \A k \in Inodes : k \in Nat
  <2>1. dir[p][n] # 0 /\ IsDir(i) /\ Listing(i) = {}
    BY <1>a DEF Rmdir, EmptyDir
  <2>2. /\ i \in Inodes /\ i # Root /\ EntriesOf(i) = {<<p, n>>} /\ node[i].parent = p /\ IsDir(p)
        /\ i < nextIno
    BY <1>a, <2>1, Target DEF IsDir
  <2>3. i # p
    BY <2>1, <2>2, NotOwnParent
  <2>4. node[p] # Missing /\ nextIno \in Nat /\ node[p] \in Record /\ node[i] \in Record
        /\ \A k \in Inodes : k \in Nat
    BY <2>2, NamespaceAssumption DEF IsDir, Missing, TypeOK, Inodes
  <2>5. p < nextIno
    BY <2>4 DEF Story, Fresh
  <2> QED
    BY <1>a, <2>1, <2>2, <2>3, <2>4, <2>5
<1>1. /\ node' = [node EXCEPT ![i] = Missing, ![p].nlink = @ - 1]
      /\ dir' = [dir EXCEPT ![p][n] = 0, ![i] = NoEntries]
      /\ trash' = trash \ {i}
      /\ UNCHANGED <<links, deleted, client, nextIno>>
  <2>1. Exists(p)
    BY <1>0 DEF Exists, IsDir
  <2> QED
    BY <1>a, <2>1 DEF Rmdir
<1>2. /\ node'[i] = Missing
      /\ node'[p].nlink = node[p].nlink - 1
      /\ node'[p].kind = "Dir" /\ node[p].kind = "Dir" /\ node'[p].parent = node[p].parent
      /\ node'[p].name = node[p].name /\ node'[p].deleted = node[p].deleted
      /\ \A k \in Inodes : k # i /\ k # p => node'[k] = node[k]
  BY <1>0, <1>1 DEF TypeOK, IsDir, Record
<1>3. Put(p, n, 0)
  <2> SUFFICES ASSUME NEW d \in Inodes, NEW x \in Names
               PROVE  dir'[d][x] = IF d = p /\ x = n THEN 0 ELSE dir[d][x]
    BY DEF Put
  <2>1. dir[i][x] = 0
    BY <1>0 DEF Listing
  <2> QED
    BY <1>0, <1>1, <2>1 DEF TypeOK, NoEntries
<1>4. /\ \A k \in Inodes : EntriesOf(k)' = EntriesOf(k) \ {<<p, n>>}
      /\ \A d \in Inodes : Listing(d)' = IF d = p THEN Listing(p) \ {n} ELSE Listing(d)
  <2>1. 0 \notin Inodes
    BY NamespaceAssumption DEF Inodes
  <2> QED
    BY <1>3, <2>1, EntriesPut
<1>5. InodesSound'
  <2> SUFFICES ASSUME NEW k \in Inodes
               PROVE  Sound(k, node[k], links[k], k \in deleted, k \in trash, EntriesOf(k))'
    BY DEF InodesSound
  <2>1. Sound(k, node[k], links[k], k \in deleted, k \in trash, EntriesOf(k))
    BY DEF Story, InodesSound
  <2>2. CASE k = i
    <3>1. EntriesOf(k)' = {} /\ IsFiniteSet({})
      BY <1>0, <1>4, <2>2, FS_EmptySet
    <3>2. links[k] = {} /\ k \notin deleted /\ k \notin trash
      BY <1>0, <2>1, <2>2 DEF Sound, IsDir
    <3> QED
      BY <1>0, <1>1, <1>2, <2>2, <3>1, <3>2 DEF Sound, Missing
  <2>3. CASE k # i
    <3>1. EntriesOf(k)' = EntriesOf(k)
      <4>1. <<p, n>> \notin EntriesOf(k)
        BY <1>a, <2>3 DEF EntriesOf, Entries
      <4> QED
        BY <1>4, <4>1
    <3>2. /\ links'[k] = links[k] /\ ((k \in deleted') <=> (k \in deleted))
          /\ ((k \in trash') <=> (k \in trash))
      BY <1>1, <2>3
    <3>3. CASE k = p
      BY <1>2, <2>1, <3>1, <3>2, <3>3 DEF Sound
    <3>4. CASE k # p
      BY <1>2, <2>1, <2>3, <3>1, <3>2, <3>4 DEF Sound
    <3> QED
      BY <3>3, <3>4
  <2> QED
    BY <2>2, <2>3
<1>6. \A k \in Inodes : IsDir(k)' => IsDir(k) /\ k # i /\ node'[k].parent = node[k].parent
  BY <1>2 DEF IsDir, Missing
<1>7. ParentsAreDirs'
  <2> SUFFICES ASSUME NEW k \in Inodes, IsDir(k)', k # Root PROVE IsDir(node[k].parent)'
    BY DEF ParentsAreDirs
  <2>1. PICK h : h = node[k].parent
    OBVIOUS
  <2>2. IsDir(k) /\ node'[k].parent = h /\ IsDir(h)
    BY <1>6, <2>1 DEF Story, ParentsAreDirs
  <2>3. h # i
    BY <1>0, <2>1, <2>2, ParentsHaveEntries
  <2>4. h \in Inodes /\ node'[h].kind = "Dir"
    BY <1>2, <2>2, <2>3 DEF IsDir
  <2> QED
    BY <2>2, <2>4 DEF IsDir
<1>8. Grounded'
  BY <1>6, GroundedKept DEF Story
<1>9. SubdirsCounted'
  <2>1. \A d \in Inodes, x \in Names : dir[d][x] # 0 /\ ~(d = p /\ x = n) =>
          ((node'[dir[d][x]].kind = "Dir") <=> (node[dir[d][x]].kind = "Dir"))
    <3> SUFFICES ASSUME NEW d \in Inodes, NEW x \in Names, dir[d][x] # 0, ~(d = p /\ x = n)
                 PROVE  (node'[dir[d][x]].kind = "Dir") <=> (node[dir[d][x]].kind = "Dir")
      OBVIOUS
    <3>1. dir[d][x] \in Inodes /\ <<d, x>> \in EntriesOf(dir[d][x])
      BY Target
    <3>2. dir[d][x] # i
      <4>1. <<d, x>> # <<p, n>>
        OBVIOUS
      <4> QED
        BY <1>0, <3>1, <4>1
    <3> QED
      BY <1>2, <3>1, <3>2
  <2>2. /\ \A d \in Inodes : d # p => Subdirs(d)' = Subdirs(d)
        /\ Subdirs(p)' = Subdirs(p) \ {n}
    <3>1. ~(0 \in Inodes)
      BY NamespaceAssumption DEF Inodes
    <3> QED
      BY <1>3, <2>1, <3>1, SubdirsPut
  <2>3. n \in Subdirs(p) /\ IsFiniteSet(Subdirs(p))
    <3>1. IsFiniteSet(Listing(p)) /\ Subdirs(p) \in SUBSET Listing(p)
      BY DEF Story, HoldersKnown, Subdirs
    <3> QED
      BY <1>0, <1>a, <3>1, FS_Subset DEF Subdirs, Listing
  <2>4. Cardinality(Subdirs(p)') = Cardinality(Subdirs(p)) - 1 /\ Cardinality(Subdirs(p)) \in Nat
    <3>1. Cardinality(Subdirs(p) \ {n}) = Cardinality(Subdirs(p)) - 1 /\ Cardinality(Subdirs(p)) \in Nat
      BY <2>3, Counting
    <3> QED
      BY <2>2, <3>1
  <2> SUFFICES ASSUME NEW d \in Inodes, IsDir(d)' PROVE node'[d].nlink = 2 + Cardinality(Subdirs(d)')
    BY DEF SubdirsCounted
  <2>5. node[d].nlink = 2 + Cardinality(Subdirs(d)) /\ d # i
    BY <1>6 DEF Story, SubdirsCounted
  <2>6. CASE d = p
    BY <1>2, <2>4, <2>5, <2>6
  <2>7. CASE d # p
    BY <1>2, <2>2, <2>5, <2>7
  <2> QED
    BY <2>6, <2>7
<1>10. HoldersKnown'
  <2> SUFFICES ASSUME NEW d \in Inodes
               PROVE  IsFiniteSet(Listing(d)') /\ (Listing(d)' # {} => node'[d].kind \in {"Dir", "none"})
    BY DEF HoldersKnown
  <2>1. IsFiniteSet(Listing(d)) /\ (Listing(d) # {} => node[d].kind \in {"Dir", "none"})
    BY DEF Story, HoldersKnown
  <2>2. IsFiniteSet(Listing(d)')
    BY <1>4, <2>1, Counting
  <2> QED
    BY <1>2, <1>4, <2>1, <2>2 DEF Missing
<1>11. Fresh'
  <2> SUFFICES ASSUME NEW k \in Inodes, k >= nextIno PROVE node'[k] = Missing /\ Listing(k)' = {}
    BY <1>1 DEF Fresh
  <2>1. k # p /\ k # i
    BY <1>0 DEF TypeOK
  <2> QED
    BY <1>2, <1>4, <2>1 DEF Story, Fresh
<1>12. LinkTargets'
  <2> SUFFICES ASSUME NEW b \in Clients, client[b].op = "link"
               PROVE  client[b].parent < nextIno /\ node'[client[b].parent].kind \in {"Dir", "none"}
    BY <1>1 DEF LinkTargets
  <2>1. PICK h \in Inodes : h = client[b].parent
    BY DEF TypeOK, Idle
  <2>2. client[b].parent < nextIno /\ node[h].kind \in {"Dir", "none"}
    BY <2>1 DEF Story, LinkTargets
  <2>3. node'[h].kind \in {"Dir", "none"}
    BY <1>2, <2>2 DEF Missing
  <2> QED
    BY <2>1, <2>2, <2>3
<1> QED
  BY <1>5, <1>7, <1>8, <1>9, <1>10, <1>11, <1>12 DEF Story

-----------------------------------------------------------------------------
(* rename and rename_exchange. *)

\* No entry but the two leads to an inode that starts or ceases to be a directory.
DirsKept(p, n, q, m) ==
  \A d \in Inodes, x \in Names : dir[d][x] # 0 /\ ~(d = p /\ x = n) /\ ~(d = q /\ x = m) =>
    ((node'[dir[d][x]].kind = "Dir") <=> (node[dir[d][x]].kind = "Dir"))

\* The subdirectories after two entries have changed.
LEMMA SubdirsPut2 ==
  ASSUME TypeOK, NEW p \in Inodes, NEW n \in Names, NEW v \in {0} \cup Inodes,
         NEW q \in Inodes, NEW m \in Names, NEW u \in {0} \cup Inodes,
         ~(p = q /\ n = m), Put2(p, n, v, q, m, u), DirsKept(p, n, q, m)
  PROVE  /\ \A d \in Inodes, x \in Names : ~(d = p /\ x = n) /\ ~(d = q /\ x = m) =>
              (x \in Subdirs(d)' <=> x \in Subdirs(d))
         /\ n \in Subdirs(p)' <=> v \in Inodes /\ node'[v].kind = "Dir"
         /\ m \in Subdirs(q)' <=> u \in Inodes /\ node'[u].kind = "Dir"
         /\ \A d \in Inodes : Subdirs(d) \subseteq Names /\ Subdirs(d)' \subseteq Names
<1>0. 0 \notin Inodes
  BY NamespaceAssumption DEF Inodes
<1>1. \A d \in Inodes, x \in Names : dir[d][x] \in {0} \cup Inodes
  BY DEF TypeOK
<1>2. ASSUME NEW d \in Inodes, NEW x \in Names, ~(d = p /\ x = n), ~(d = q /\ x = m)
      PROVE  x \in Subdirs(d)' <=> x \in Subdirs(d)
  <2>1. dir'[d][x] = dir[d][x] /\ (dir[d][x] # 0 =>
          ((node'[dir[d][x]].kind = "Dir") <=> (node[dir[d][x]].kind = "Dir")))
    BY <1>2 DEF Put2, DirsKept
  <2>2. x \in Subdirs(d)' <=> dir[d][x] # 0 /\ dir[d][x] \in Inodes /\ node'[dir[d][x]].kind = "Dir"
    BY <2>1 DEF Subdirs, Listing, IsDir
  <2>3. x \in Subdirs(d) <=> dir[d][x] # 0 /\ dir[d][x] \in Inodes /\ node[dir[d][x]].kind = "Dir"
    BY DEF Subdirs, Listing, IsDir
  <2> QED
    BY <2>1, <2>2, <2>3
<1>3. n \in Subdirs(p)' <=> v \in Inodes /\ node'[v].kind = "Dir"
  <2>1. dir'[p][n] = v
    BY DEF Put2
  <2> QED
    BY <1>0, <2>1 DEF Subdirs, Listing, IsDir
<1>4. m \in Subdirs(q)' <=> u \in Inodes /\ node'[u].kind = "Dir"
  <2>1. dir'[q][m] = u
    BY DEF Put2
  <2> QED
    BY <1>0, <2>1 DEF Subdirs, Listing, IsDir
<1>5. \A d \in Inodes : Subdirs(d) \subseteq Names /\ Subdirs(d)' \subseteq Names
  BY DEF Subdirs, Listing
<1> QED
  BY <1>2, <1>3, <1>4, <1>5

\* One when b holds.
One(b) == IF b THEN 1 ELSE 0

\* A set that differs in one element at most ...
LEMMA CountOne ==
  ASSUME NEW S, IsFiniteSet(S), NEW T, NEW x, \A y : y # x => (y \in T <=> y \in S)
  PROVE  IsFiniteSet(T) /\ Cardinality(T) = Cardinality(S) - One(x \in S) + One(x \in T)
         /\ Cardinality(T) \in Nat /\ Cardinality(S) \in Nat
<1>1. /\ Cardinality(S) \in Nat /\ IsFiniteSet(S \cup {x}) /\ IsFiniteSet(S \ {x})
      /\ x \notin S => Cardinality(S \cup {x}) = Cardinality(S) + 1 /\ S \ {x} = S
      /\ x \in S => Cardinality(S \ {x}) = Cardinality(S) - 1 /\ S \cup {x} = S
  BY Counting
<1>2. T = IF x \in T THEN S \cup {x} ELSE S \ {x}
  OBVIOUS
<1>3. IsFiniteSet(T)
  BY <1>1, <1>2
<1>4. Cardinality(T) \in Nat
  BY <1>3, FS_CardinalityType
<1>5. CASE x \in T
  <2>1. T = S \cup {x}
    BY <1>2, <1>5
  <2>2. One(x \in T) = 1
    BY <1>5 DEF One
  <2>3. CASE x \in S
    <3>1. One(x \in S) = 1
      BY <2>3 DEF One
    <3>2. Cardinality(T) = Cardinality(S) - One(x \in S) + One(x \in T)
      <4>1. T = S
        BY <2>1, <2>3
      <4> QED
        BY <1>1, <2>2, <3>1, <4>1
    <3> QED
      BY <1>1, <1>3, <1>4, <3>2
  <2>4. CASE x \notin S
    <3>1. One(x \in S) = 0
      BY <2>4 DEF One
    <3>2. Cardinality(T) = Cardinality(S) - One(x \in S) + One(x \in T)
      BY <1>1, <2>1, <2>2, <2>4, <3>1
    <3> QED
      BY <1>1, <1>3, <1>4, <3>2
  <2> QED
    BY <2>3, <2>4
<1>6. CASE x \notin T
  <2>1. T = S \ {x}
    BY <1>2, <1>6
  <2>2. One(x \in T) = 0
    BY <1>6 DEF One
  <2>3. CASE x \in S
    <3>1. One(x \in S) = 1
      BY <2>3 DEF One
    <3>2. Cardinality(T) = Cardinality(S) - One(x \in S) + One(x \in T)
      BY <1>1, <2>1, <2>2, <2>3, <3>1
    <3> QED
      BY <1>1, <1>3, <1>4, <3>2
  <2>4. CASE x \notin S
    <3>1. One(x \in S) = 0
      BY <2>4 DEF One
    <3>2. Cardinality(T) = Cardinality(S) - One(x \in S) + One(x \in T)
      <4>1. T = S
        BY <2>1, <2>4
      <4> QED
        BY <1>1, <2>2, <3>1, <4>1
    <3> QED
      BY <1>1, <1>3, <1>4, <3>2
  <2> QED
    BY <2>3, <2>4
<1> QED
  BY <1>5, <1>6

\* ... and in two.
LEMMA CountTwo ==
  ASSUME NEW S, IsFiniteSet(S), NEW T, NEW x, NEW z, x # z,
         \A y : y # x /\ y # z => (y \in T <=> y \in S)
  PROVE  Cardinality(T) = Cardinality(S) - One(x \in S) + One(x \in T) - One(z \in S) + One(z \in T)
         /\ Cardinality(S) \in Nat
<1> DEFINE M == IF x \in T THEN S \cup {x} ELSE S \ {x}
<1>1. (\A y : y # x => (y \in M <=> y \in S)) /\ (x \in M <=> x \in T) /\ (z \in M <=> z \in S)
  OBVIOUS
<1>2. \A y : y # z => (y \in T <=> y \in M)
  OBVIOUS
<1> HIDE DEF M
<1>3. IsFiniteSet(M) /\ Cardinality(M) = Cardinality(S) - One(x \in S) + One(x \in M)
      /\ Cardinality(M) \in Nat /\ Cardinality(S) \in Nat
  BY <1>1, CountOne
<1>4. IsFiniteSet(T) /\ Cardinality(T) = Cardinality(M) - One(z \in M) + One(z \in T)
      /\ Cardinality(T) \in Nat
  BY <1>2, <1>3, CountOne
<1>5. One(x \in M) = One(x \in T) /\ One(z \in M) = One(z \in S)
  BY <1>1 DEF One
<1>6. One(x \in S) \in Int /\ One(x \in T) \in Int /\ One(z \in S) \in Int /\ One(z \in T) \in Int
  BY DEF One
<1> QED
  BY <1>3, <1>4, <1>5, <1>6

\* The record and the links of an inode whose entry moved agree with where it is.
LEMMA MovedSound ==
  ASSUME TypeOK, NEW i \in Inodes, NEW es, NEW e, NEW f, e \in es, f \notin es,
         f = <<f[1], f[2]>>, i # Root, node[i].kind \in {"File", "Dir", "Symlink"},
         Sound(i, node[i], links[i], i \in deleted, i \in trash, es)
  PROVE  /\ Sound(i, MovedRecord(i, f), MovedLinks(i, e, f), i \in deleted, i \in trash, (es \ {e}) \cup {f})
         /\ MovedRecord(i, f).kind = node[i].kind
         /\ IsDir(i) => MovedRecord(i, f).parent = f[1]
         /\ i \notin deleted /\ i \notin trash
<1>1. /\ MovedRecord(i, f).kind = node[i].kind /\ MovedRecord(i, f).nlink = node[i].nlink
      /\ MovedRecord(i, f).deleted = node[i].deleted
      /\ Hardlinked(i) => MovedRecord(i, f).parent = 0
      /\ ~Hardlinked(i) => MovedRecord(i, f).parent = f[1] /\ MovedRecord(i, f).name = f[2]
  <2>1. node[i] \in Record
    BY DEF TypeOK
  <2> QED
    BY <2>1 DEF MovedRecord, Record
<1>2. PICK fs : fs = (es \ {e}) \cup {f}
  OBVIOUS
<1>3. IsFiniteSet(fs) /\ Cardinality(fs) = Cardinality(es) /\ Cardinality(es) \in Nat /\ Cardinality(es) # 0
  <2>1. IsFiniteSet(es)
    BY DEF Sound
  <2>2. /\ IsFiniteSet(es \ {e}) /\ Cardinality(es \ {e}) = Cardinality(es) - 1
        /\ Cardinality(es) \in Nat /\ Cardinality(es) # 0
    BY <2>1, Counting
  <2>3. f \notin es \ {e}
    OBVIOUS
  <2>4. IsFiniteSet(fs) /\ Cardinality(fs) = Cardinality(es) - 1 + 1
    BY <1>2, <2>2, <2>3, FS_AddElement
  <2> QED
    BY <2>2, <2>4
<1>4. Hardlinked(i) <=> node[i].kind # "Dir" /\ node[i].nlink > 1
  BY DEF Hardlinked, IsDir
<1>5. i \notin deleted /\ i \notin trash
  BY DEF Sound
<1>6. ASSUME ~Hardlinked(i) PROVE es = {e} /\ fs = {<<f[1], f[2]>>} /\ links[i] = {}
  <2>1. links[i] = {}
    BY <1>4, <1>6 DEF Sound
  <2>2. CASE node[i].kind = "Dir"
    <3>1. es = {<<node[i].parent, node[i].name>>}
      BY <2>2 DEF Sound
    <3>2. es = {e}
      BY <3>1
    <3> QED
      BY <1>2, <2>1, <3>2
  <2>3. CASE node[i].kind # "Dir"
    <3>1. node[i].nlink = Cardinality(es) /\ ~(node[i].nlink > 1)
      BY <1>4, <1>6, <2>3 DEF Sound
    <3>2. Cardinality(es) = 1 /\ IsFiniteSet(es)
      BY <1>3, <3>1 DEF Sound
    <3>3. es = {e}
      BY <3>2, Counting
    <3> QED
      BY <1>2, <2>1, <3>3
  <2> QED
    BY <2>2, <2>3
<1>7. Sound(i, MovedRecord(i, f), MovedLinks(i, e, f), i \in deleted, i \in trash, fs)
  <2>1. CASE Hardlinked(i)
    <3>1. MovedLinks(i, e, f) = fs
      BY <1>2, <1>4, <2>1 DEF MovedLinks, Sound
    <3>2. node[i].nlink # 1 /\ node[i].nlink = Cardinality(es)
      BY <1>3, <1>4, <2>1 DEF Sound
    <3> QED
      BY <1>1, <1>3, <1>4, <1>5, <2>1, <3>1, <3>2 DEF Sound
  <2>2. CASE ~Hardlinked(i)
    <3>1. MovedLinks(i, e, f) = {}
      BY <1>6, <2>2 DEF MovedLinks
    <3>2. fs = {<<MovedRecord(i, f).parent, MovedRecord(i, f).name>>}
      BY <1>1, <1>6, <2>2
    <3>3. node[i].kind # "Dir" => node[i].nlink = Cardinality(es)
      BY DEF Sound
    <3>4. ~(node[i].kind # "Dir" /\ node[i].nlink > 1)
      BY <1>4, <2>2
    <3>5. ~node[i].deleted
      BY <1>5 DEF Sound
    <3> QED
      BY <1>1, <1>3, <1>5, <3>1, <3>2, <3>3, <3>4, <3>5 DEF Sound
  <2> QED
    BY <2>1, <2>2
<1>8. IsDir(i) => ~Hardlinked(i)
  BY DEF Hardlinked
<1> QED
  BY <1>1, <1>2, <1>5, <1>7, <1>8

\* What the step does to all others; p and q may get another link count.
Untouched(i, j, p, q) ==
  \A k \in Inodes : k # i /\ k # j =>
    /\ node'[k].kind = node[k].kind /\ node'[k].parent = node[k].parent
    /\ node'[k].name = node[k].name /\ node'[k].deleted = node[k].deleted
    /\ (k # q /\ k # p) \/ ~IsDir(k) => node'[k] = node[k]
    /\ links'[k] = links[k]
    /\ (k \in deleted') <=> (k \in deleted)
    /\ (k \in trash') <=> (k \in trash)

\* A step that moves i to <<q, m>> and, when v is j, what was there to <<p, n>>.
LEMMA MoveStory ==
  ASSUME TypeOK, Story, NEW p \in Inodes, NEW n \in Names, NEW q \in Inodes, NEW m \in Names,
         NEW i \in Inodes, i = dir[p][n], NEW j \in {0} \cup Inodes, j = dir[q][m], i # j,
         NEW v \in {0, j}, Put2(p, n, v, q, m, i), IsDir(q),
         i # p, i # q, j # p, j # q,
         node'[i].kind = node[i].kind,
         IsDir(i) => node'[i].parent = q /\ ValidAncestry(q, i) /\ node'[i].nlink = node[i].nlink,
         j # 0 => IF v = j THEN /\ node'[j].kind = node[j].kind
                                /\ IsDir(j) => /\ node'[j].parent = p /\ IsDir(p) /\ ValidAncestry(p, j)
                                               /\ node'[j].nlink = node[j].nlink
                  ELSE IF IsDir(j) THEN node'[j].kind = "none" /\ Listing(j) = {}
                  ELSE node'[j].kind = node[j].kind,
         Untouched(i, j, p, q),
         p = q => node'[q].nlink = node[q].nlink - One(IsDir(j)) + One(v # 0 /\ IsDir(j)),
         p # q => /\ node'[q].nlink = node[q].nlink + One(IsDir(i)) - One(IsDir(j))
                  /\ IsDir(p) => node'[p].nlink = node[p].nlink - One(IsDir(i)) + One(v # 0 /\ IsDir(j)),
         Sound(i, node'[i], links'[i], (i \in deleted)', (i \in trash)',
               (EntriesOf(i) \ {<<p, n>>}) \cup {<<q, m>>}),
         j # 0 => Sound(j, node'[j], links'[j], (j \in deleted)', (j \in trash)',
                        IF v = j THEN (EntriesOf(j) \ {<<q, m>>}) \cup {<<p, n>>}
                        ELSE EntriesOf(j) \ {<<q, m>>}),
         UNCHANGED <<client, nextIno>>
  PROVE  Story'
<1> USE DEF Untouched
<1>0. /\ 0 \notin Inodes /\ i # 0 /\ i \in {0} \cup Inodes /\ ~(p = q /\ n = m) /\ v \in {0} \cup Inodes
      /\ i # Root /\ node[i].kind \in {"File", "Dir", "Symlink"} /\ <<p, n>> \in EntriesOf(i)
      /\ j # 0 => j \in Inodes /\ j # Root /\ node[j].kind \in {"File", "Dir", "Symlink"}
                  /\ <<q, m>> \in EntriesOf(j) /\ node'[j].kind \in {node[j].kind, "none"}
  <2>1. 0 \notin Inodes
    BY NamespaceAssumption DEF Inodes
  <2>2. i # Root /\ node[i].kind \in {"File", "Dir", "Symlink"} /\ <<p, n>> \in EntriesOf(i)
    BY <2>1, Target
  <2>3. j # 0 => j \in Inodes /\ j # Root /\ node[j].kind \in {"File", "Dir", "Symlink"}
                 /\ <<q, m>> \in EntriesOf(j)
    BY Target
  <2> QED
    BY <2>1, <2>2, <2>3
<1>1. \A k \in Inodes : EntriesOf(k)' =
        (EntriesOf(k) \ {<<p, n>>, <<q, m>>}) \cup (IF k = v THEN {<<p, n>>} ELSE {})
                                              \cup (IF k = i THEN {<<q, m>>} ELSE {})
  <2>1. /\ i \in {0} \cup Inodes /\ v \in {0} \cup Inodes /\ ~(p = q /\ n = m)
        /\ Put2(p, n, v, q, m, i)
    BY <1>0
  <2> QED
    BY ONLY <2>1, EntriesPut2, p \in Inodes, n \in Names, q \in Inodes, m \in Names
<1>2. \A k \in Inodes : /\ k # i => <<p, n>> \notin EntriesOf(k)
                        /\ k # j => <<q, m>> \notin EntriesOf(k)
  BY DEF EntriesOf, Entries
<1>3. InodesSound'
  <2> SUFFICES ASSUME NEW k \in Inodes
               PROVE  Sound(k, node[k], links[k], k \in deleted, k \in trash, EntriesOf(k))'
    BY DEF InodesSound
  <2>1. Sound(k, node[k], links[k], k \in deleted, k \in trash, EntriesOf(k))
    BY DEF Story, InodesSound
  <2>2. CASE k = i
    <3>1. EntriesOf(i)' = (EntriesOf(i) \ {<<p, n>>}) \cup {<<q, m>>}
      BY <1>0, <1>1, <1>2
    <3> QED
      BY <2>2, <3>1
  <2>3. CASE k = j
    <3>1. EntriesOf(j)' = IF v = j THEN (EntriesOf(j) \ {<<q, m>>}) \cup {<<p, n>>}
                          ELSE EntriesOf(j) \ {<<q, m>>}
      BY <1>0, <1>1, <1>2, <2>3
    <3> QED
      BY <1>0, <2>3, <3>1
  <2>4. CASE k # i /\ k # j
    <3>1. EntriesOf(k)' = EntriesOf(k)
      <4>1. k # v /\ <<p, n>> \notin EntriesOf(k) /\ <<q, m>> \notin EntriesOf(k)
        BY <1>0, <1>2, <2>4
      <4>2. EntriesOf(k)' = (EntriesOf(k) \ {<<p, n>>, <<q, m>>}) \cup {} \cup {}
        BY <1>1, <2>4, <4>1
      <4> QED
        BY <4>1, <4>2
    <3>2. CASE IsDir(k)
      BY <2>1, <2>4, <3>1, <3>2 DEF Sound, IsDir
    <3>3. CASE ~IsDir(k)
      BY <2>1, <2>4, <3>1, <3>3 DEF Sound
    <3> QED
      BY <3>2, <3>3
  <2> QED
    BY <2>2, <2>3, <2>4
<1>4. /\ \A k \in Inodes : IsDir(k)' => IsDir(k)
      /\ \A k \in Inodes : IsDir(k) => IsDir(k)' \/ (k = j /\ v # j /\ Listing(k) = {})
      /\ IsDir(j)' => v = j
  BY <1>0 DEF IsDir
<1>5. ParentsAreDirs'
  <2> SUFFICES ASSUME NEW k \in Inodes, IsDir(k)', k # Root PROVE IsDir(node[k].parent)'
    BY DEF ParentsAreDirs
  <2>1. CASE k = i
    <3>1. node'[k].parent = q /\ node'[q].kind = "Dir"
      BY <1>4, <2>1 DEF IsDir
    <3> QED
      BY <3>1 DEF IsDir
  <2>2. CASE k = j
    <3>1. node'[k].parent = p /\ node'[p].kind = "Dir"
      BY <1>0, <1>4, <2>2 DEF IsDir
    <3> QED
      BY <3>1 DEF IsDir
  <2>3. CASE k # i /\ k # j
    <3>1. PICK h : h = node[k].parent
      OBVIOUS
    <3>2. IsDir(k) /\ node'[k].parent = h /\ IsDir(h) /\ h \in Inodes
      BY <1>4, <2>3, <3>1 DEF Story, ParentsAreDirs, IsDir
    <3>3. Listing(h) # {}
      BY <3>1, <3>2, ParentsHaveEntries
    <3>4. node'[h].kind = "Dir"
      BY <1>4, <3>2, <3>3 DEF IsDir
    <3> QED
      BY <3>2, <3>4 DEF IsDir
  <2> QED
    BY <2>1, <2>2, <2>3
<1>6. Grounded'
  <2> SUFFICES ASSUME NEW X \in SUBSET Inodes, Circle(X)' PROVE X = {}
    BY DEF Grounded
  <2>1. \A x \in X : x # Root /\ IsDir(x) /\ IsDir(x)' /\ node'[x].parent \in X
    BY <1>4 DEF Circle
  <2>2. \A x \in X : x # i /\ x # j => node[x].parent \in X
    BY <2>1
  <2>3. Root \notin X
    BY <2>1
  <2>4. CASE i \in X
    <3>1. q \in X /\ ValidAncestry(q, i)
      BY <2>1, <2>4
    <3>2. \A x \in X : x # i => Up(x) \in X
      <4> SUFFICES ASSUME NEW x \in X, x # i PROVE node[x].parent \in X
        BY <2>1 DEF Up
      <4>1. CASE x = j
        <5>1. node[j].parent = q
          BY <1>0, <2>1, <4>1, Target DEF IsDir
        <5> QED
          BY <3>1, <4>1, <5>1
      <4> QED
        BY <2>2, <4>1
    <3> QED
      BY <2>3, <3>1, <3>2, ValidClimb
  <2>5. CASE i \notin X /\ j \in X
    <3>1. p \in X /\ ValidAncestry(p, j)
      BY <1>0, <1>4, <2>1, <2>5
    <3>2. \A x \in X : x # j => Up(x) \in X
      BY <2>1, <2>2, <2>5 DEF Up
    <3> QED
      BY <2>3, <3>1, <3>2, ValidClimb
  <2>6. CASE i \notin X /\ j \notin X
    <3>1. Circle(X)
      BY <2>1, <2>2, <2>6 DEF Circle
    <3> QED
      BY <3>1 DEF Story, Grounded
  <2> QED
    BY <2>4, <2>5, <2>6
<1>7. SubdirsCounted'
  <2>1. DirsKept(p, n, q, m)
    <3> SUFFICES ASSUME NEW d \in Inodes, NEW x \in Names, dir[d][x] # 0, ~(d = q /\ x = m)
                 PROVE  (node'[dir[d][x]].kind = "Dir") <=> (node[dir[d][x]].kind = "Dir")
      BY DEF DirsKept
    <3>1. PICK k : k = dir[d][x]
      OBVIOUS
    <3>2. k \in Inodes /\ <<d, x>> \in EntriesOf(k)
      BY <3>1, Target
    <3>3. ~(k = j /\ IsDir(j))
      <4> SUFFICES ASSUME k = j, IsDir(j) PROVE FALSE
        OBVIOUS
      <4>1. EntriesOf(j) = {<<q, m>>}
        BY <1>0, <3>2, Target DEF IsDir
      <4>2. <<d, x>> # <<q, m>>
        OBVIOUS
      <4> QED
        BY <3>2, <4>1, <4>2
    <3>4. (node'[k].kind = "Dir") <=> (node[k].kind = "Dir")
      BY <1>0, <3>2, <3>3 DEF IsDir
    <3> QED
      BY <3>1, <3>4
  <2>2. /\ \A d \in Inodes, x \in Names : ~(d = p /\ x = n) /\ ~(d = q /\ x = m) =>
             (x \in Subdirs(d)' <=> x \in Subdirs(d))
        /\ n \in Subdirs(p)' <=> v \in Inodes /\ node'[v].kind = "Dir"
        /\ m \in Subdirs(q)' <=> i \in Inodes /\ node'[i].kind = "Dir"
        /\ \A d \in Inodes : Subdirs(d) \subseteq Names /\ Subdirs(d)' \subseteq Names
    <3>1. /\ i \in {0} \cup Inodes /\ v \in {0} \cup Inodes /\ ~(p = q /\ n = m)
          /\ Put2(p, n, v, q, m, i) /\ TypeOK
      BY <1>0
    <3> QED
      BY ONLY <2>1, <3>1, SubdirsPut2, p \in Inodes, n \in Names, q \in Inodes, m \in Names
  <2>3. /\ n \in Subdirs(p)' <=> v # 0 /\ IsDir(j)
        /\ m \in Subdirs(q)' <=> IsDir(i)
        /\ n \in Subdirs(p) <=> IsDir(i)
        /\ m \in Subdirs(q) <=> IsDir(j)
    <3>1. n \in Subdirs(p) <=> IsDir(i)
      BY <1>0 DEF Subdirs, Listing
    <3>2. m \in Subdirs(q) <=> IsDir(j)
      BY <1>0 DEF Subdirs, Listing, IsDir
    <3>3. n \in Subdirs(p)' <=> v # 0 /\ IsDir(j)
      BY <1>0, <2>2 DEF IsDir
    <3>4. m \in Subdirs(q)' <=> IsDir(i)
      BY <2>2 DEF IsDir
    <3> QED
      BY <3>1, <3>2, <3>3, <3>4
  <2>4. \A d \in Inodes : IsFiniteSet(Subdirs(d))
    <3>1. \A d \in Inodes : IsFiniteSet(Listing(d)) /\ Subdirs(d) \in SUBSET Listing(d)
      BY DEF Story, HoldersKnown, Subdirs
    <3> QED
      BY <3>1, FS_Subset
  <2>5. /\ One(n \in Subdirs(p)) = One(IsDir(i)) /\ One(m \in Subdirs(q)) = One(IsDir(j))
        /\ One(n \in Subdirs(p)') = One(v # 0 /\ IsDir(j)) /\ One(m \in Subdirs(q)') = One(IsDir(i))
        /\ One(IsDir(i)) \in Int /\ One(IsDir(j)) \in Int /\ One(v # 0 /\ IsDir(j)) \in Int
    BY <2>3 DEF One
  <2> SUFFICES ASSUME NEW d \in Inodes, IsDir(d)' PROVE node'[d].nlink = 2 + Cardinality(Subdirs(d)')
    BY DEF SubdirsCounted
  <2>6. IsDir(d) /\ node[d].nlink = 2 + Cardinality(Subdirs(d))
    BY <1>4 DEF Story, SubdirsCounted
  <2>7. PICK T : T = Subdirs(d)'
    OBVIOUS
  <2>8. CASE d = q /\ p = q
    <3>1. n # m /\ \A y : y # n /\ y # m => (y \in T <=> y \in Subdirs(d))
      BY <1>0, <2>2, <2>7, <2>8
    <3>2. /\ Cardinality(T) = Cardinality(Subdirs(d)) - One(n \in Subdirs(d)) + One(n \in T)
               - One(m \in Subdirs(d)) + One(m \in T)
          /\ Cardinality(Subdirs(d)) \in Nat
      <4>1. IsFiniteSet(Subdirs(d))
        BY <2>4
      <4> QED
        BY ONLY <3>1, <4>1, CountTwo
    <3>3. /\ One(n \in T) = One(v # 0 /\ IsDir(j)) /\ One(m \in T) = One(IsDir(i))
          /\ One(n \in Subdirs(d)) = One(IsDir(i)) /\ One(m \in Subdirs(d)) = One(IsDir(j))
      BY <2>5, <2>7, <2>8
    <3>4. node'[d].nlink = node[d].nlink - One(IsDir(j)) + One(v # 0 /\ IsDir(j))
      BY <2>8
    <3>5. node'[d].nlink = 2 + Cardinality(T)
      BY <2>5, <2>6, <3>2, <3>3, <3>4
    <3> QED
      BY <2>7, <3>5
  <2>9. CASE d = q /\ p # q
    <3>1. \A y : y # m => (y \in T <=> y \in Subdirs(d))
      BY <2>2, <2>7, <2>9
    <3>2. /\ Cardinality(T) = Cardinality(Subdirs(d)) - One(m \in Subdirs(d)) + One(m \in T)
          /\ Cardinality(Subdirs(d)) \in Nat
      BY <2>4, <3>1, CountOne
    <3>3. One(m \in T) = One(IsDir(i)) /\ One(m \in Subdirs(d)) = One(IsDir(j))
      BY <2>5, <2>7, <2>9
    <3>4. node'[d].nlink = node[d].nlink + One(IsDir(i)) - One(IsDir(j))
      BY <2>9
    <3>5. node'[d].nlink = 2 + Cardinality(T)
      BY <2>5, <2>6, <3>2, <3>3, <3>4
    <3> QED
      BY <2>7, <3>5
  <2>10. CASE d = p /\ p # q
    <3>1. \A y : y # n => (y \in T <=> y \in Subdirs(d))
      BY <2>2, <2>7, <2>10
    <3>2. /\ Cardinality(T) = Cardinality(Subdirs(d)) - One(n \in Subdirs(d)) + One(n \in T)
          /\ Cardinality(Subdirs(d)) \in Nat
      BY <2>4, <3>1, CountOne
    <3>3. One(n \in T) = One(v # 0 /\ IsDir(j)) /\ One(n \in Subdirs(d)) = One(IsDir(i))
      BY <2>5, <2>7, <2>10
    <3>4. node'[d].nlink = node[d].nlink - One(IsDir(i)) + One(v # 0 /\ IsDir(j))
      BY <2>6, <2>10
    <3>5. node'[d].nlink = 2 + Cardinality(T)
      BY <2>5, <2>6, <3>2, <3>3, <3>4
    <3> QED
      BY <2>7, <3>5
  <2>11. CASE d # p /\ d # q
    <3>1. T = Subdirs(d)
      BY <2>2, <2>7, <2>11
    <3>2. node'[d].nlink = node[d].nlink
      <4>1. CASE d = i
        BY <2>6, <4>1
      <4>2. CASE d = j
        BY <1>0, <1>4, <2>6, <4>2
      <4>3. CASE d # i /\ d # j
        BY <2>11, <4>3
      <4> QED
        BY <4>1, <4>2, <4>3
    <3> QED
      BY <2>6, <2>7, <3>1, <3>2
  <2> QED
    BY <2>8, <2>9, <2>10, <2>11
<1>8. \A d \in Inodes : /\ d # q => Listing(d)' \subseteq Listing(d)
                        /\ Listing(q)' \subseteq Listing(q) \cup {m}
                        /\ Listing(d) # {} => node'[d].kind \in {"Dir", "none"}
  <2>1. \A d \in Inodes, x \in Names : ~(d = q /\ x = m) /\ x \in Listing(d)' => x \in Listing(d)
    <3> SUFFICES ASSUME NEW d \in Inodes, NEW x \in Names, ~(d = q /\ x = m), dir'[d][x] # 0
                 PROVE  dir[d][x] # 0
      BY DEF Listing
    <3> QED
      BY <1>0 DEF Put2
  <2>2. \A d \in Inodes : Listing(d)' \subseteq Names
    BY DEF Listing
  <2>3. \A d \in Inodes : Listing(d) # {} => node[d].kind \in {"Dir", "none"}
    BY DEF Story, HoldersKnown
  <2>4. ASSUME NEW d \in Inodes, Listing(d) # {} PROVE node'[d].kind \in {"Dir", "none"}
    <3>1. node[d].kind \in {"Dir", "none"}
      BY <2>3, <2>4
    <3> QED
      BY <1>0, <3>1
  <2> QED
    BY <2>1, <2>2, <2>4
<1>9. HoldersKnown'
  <2> SUFFICES ASSUME NEW d \in Inodes
               PROVE  IsFiniteSet(Listing(d)') /\ (Listing(d)' # {} => node'[d].kind \in {"Dir", "none"})
    BY DEF HoldersKnown
  <2>1. IsFiniteSet(Listing(d))
    BY DEF Story, HoldersKnown
  <2>2. CASE d = q
    <3>1. IsFiniteSet(Listing(d) \cup {m})
      BY <2>1, Counting
    <3>2. Listing(d)' \in SUBSET (Listing(d) \cup {m})
      BY <1>8, <2>2
    <3>3. IsFiniteSet(Listing(d)')
      BY <3>1, <3>2, FS_Subset
    <3> QED
      BY <2>2, <3>3 DEF IsDir
  <2>3. CASE d # q
    <3>1. Listing(d)' \in SUBSET Listing(d)
      BY <1>8, <2>3
    <3>2. IsFiniteSet(Listing(d)')
      BY <2>1, <3>1, FS_Subset
    <3> QED
      BY <1>8, <3>1, <3>2
  <2> QED
    BY <2>2, <2>3
<1>10. Fresh'
  <2> SUFFICES ASSUME NEW k \in Inodes, k >= nextIno PROVE node'[k] = Missing /\ Listing(k)' = {}
    BY DEF Fresh
  <2>1. node[k] = Missing /\ Listing(k) = {}
    BY DEF Story, Fresh
  <2>2. k # i /\ k # j /\ k # q /\ ~IsDir(k)
    BY <1>0, <2>1 DEF Missing, IsDir
  <2> QED
    BY <1>8, <2>1, <2>2
<1>11. LinkTargets'
  <2> SUFFICES ASSUME NEW b \in Clients, client[b].op = "link"
               PROVE  client[b].parent < nextIno /\ node'[client[b].parent].kind \in {"Dir", "none"}
    BY DEF LinkTargets
  <2>1. PICK h \in Inodes : h = client[b].parent
    BY DEF TypeOK, Idle
  <2>2. client[b].parent < nextIno /\ node[h].kind \in {"Dir", "none"}
    BY <2>1 DEF Story, LinkTargets
  <2>3. node'[h].kind \in {"Dir", "none"}
    BY <1>0, <2>2
  <2> QED
    BY <2>1, <2>2, <2>3
<1> QED
  BY <1>3, <1>5, <1>6, <1>7, <1>9, <1>10, <1>11 DEF Story

\* What moves is neither of the two directories.
LEMMA MoveApart ==
  ASSUME TypeOK, Story, NEW p \in Inodes, NEW n \in Names, NEW q \in Inodes, dir[p][n] # 0,
         IsDir(q), IsDir(dir[p][n]) => ValidAncestry(q, dir[p][n])
  PROVE  dir[p][n] # p /\ dir[p][n] # q
<1>1. PICK i : i = dir[p][n]
  OBVIOUS
<1>2. i \in Inodes /\ i # Root /\ node[i].kind \in {"File", "Dir", "Symlink"}
      /\ (node[i].kind = "Dir" => node[i].parent = p)
  BY <1>1, Target
<1>3. i # p
  <2>1. CASE IsDir(i)
    BY <1>2, <2>1, NotOwnParent DEF IsDir
  <2>2. CASE ~IsDir(i)
    <3>1. Listing(p) # {}
      BY DEF Listing
    <3>2. node[p].kind \in {"Dir", "none"}
      BY <3>1 DEF Story, HoldersKnown
    <3> QED
      BY <1>2, <2>2, <3>2 DEF IsDir
  <2> QED
    BY <2>1, <2>2
<1>4. i # q
  <2>1. CASE IsDir(i)
    <3>1. ValidAncestry(q, i) /\ 0 \in 0 .. MaxIno
      BY <1>1, <2>1, NamespaceAssumption
    <3>2. Walk(q)[0] # i /\ Walk(q)[0] = q
      BY <3>1, WalkSteps DEF ValidAncestry
    <3> QED
      BY <3>2
  <2>2. CASE ~IsDir(i)
    BY <2>2
  <2> QED
    BY <2>1, <2>2
<1> QED
  BY <1>1, <1>3, <1>4

\* DotDot counts the directories.
LEMMA DotDotOne ==
  ASSUME NEW i \in Inodes
  PROVE  DotDot(node[i].kind) = One(IsDir(i)) /\ One(IsDir(i)) \in Int
BY DEF DotDot, One, IsDir

\* rename_exchange
LEMMA ExchangeStory ==
  ASSUME TypeOK, Story, NEW p \in Inodes, NEW n \in Names, NEW q \in Inodes, NEW m \in Names,
         RenameExchange(p, n, q, m)
  PROVE  Story'
<1>a. PICK i : i = dir[p][n]
  OBVIOUS
<1>b. PICK j : j = dir[q][m]
  OBVIOUS
<1>c. PICK e : e = <<p, n>>
  OBVIOUS
<1>d. PICK f : f = <<q, m>>
  OBVIOUS
<1>e. PICK delta : delta = IF p = q THEN 0 ELSE DotDot(node[j].kind) - DotDot(node[i].kind)
  OBVIOUS
<1>0. /\ i # 0 /\ j # 0 /\ i # j /\ IsDir(p) /\ IsDir(q)
      /\ IsDir(i) => ValidAncestry(q, i)
      /\ IsDir(j) => ValidAncestry(p, j)
  BY <1>a, <1>b DEF RenameExchange, ExchangeValid
<1>1. /\ dir' = [dir EXCEPT ![p][n] = j, ![q][m] = i]
      /\ links' = [links EXCEPT ![i] = MovedLinks(i, e, f), ![j] = MovedLinks(j, f, e)]
      /\ node' = [[[node EXCEPT ![i] = MovedRecord(i, f), ![j] = MovedRecord(j, e)]
                   EXCEPT ![p].nlink = @ + delta] EXCEPT ![q].nlink = @ - delta]
      /\ UNCHANGED <<deleted, trash, client, nextIno>>
  BY <1>a, <1>b, <1>c, <1>d, <1>e DEF RenameExchange
<1>2. /\ i \in Inodes /\ i # Root /\ node[i].kind \in {"File", "Dir", "Symlink"} /\ e \in EntriesOf(i)
      /\ j \in Inodes /\ j # Root /\ node[j].kind \in {"File", "Dir", "Symlink"} /\ f \in EntriesOf(j)
  BY <1>0, <1>a, <1>b, <1>c, <1>d, Target
<1>3. i # p /\ i # q /\ j # p /\ j # q
  <2>1. i # p /\ i # q
    BY <1>0, <1>a, MoveApart
  <2>2. j # p /\ j # q
    BY <1>0, <1>b, MoveApart
  <2> QED
    BY <2>1, <2>2
<1>4. ~(p = q /\ n = m) /\ e # f /\ e \notin EntriesOf(j) /\ f \notin EntriesOf(i)
  BY <1>0, <1>a, <1>b, <1>c, <1>d DEF EntriesOf, Entries
<1>5. Put2(p, n, j, q, m, i)
  BY <1>1, <1>4 DEF Put2, TypeOK
<1>6. /\ Sound(i, node[i], links[i], i \in deleted, i \in trash, EntriesOf(i))
      /\ Sound(j, node[j], links[j], j \in deleted, j \in trash, EntriesOf(j))
      /\ f = <<f[1], f[2]>> /\ e = <<e[1], e[2]>> /\ f[1] = q /\ e[1] = p
  BY <1>2, <1>c, <1>d DEF Story, InodesSound
<1>7. /\ Sound(i, MovedRecord(i, f), MovedLinks(i, e, f), i \in deleted, i \in trash, (EntriesOf(i) \ {e}) \cup {f})
      /\ MovedRecord(i, f).kind = node[i].kind
      /\ IsDir(i) => MovedRecord(i, f).parent = f[1]
  BY <1>2, <1>4, <1>6, MovedSound
<1>8. /\ Sound(j, MovedRecord(j, e), MovedLinks(j, f, e), j \in deleted, j \in trash, (EntriesOf(j) \ {f}) \cup {e})
      /\ MovedRecord(j, e).kind = node[j].kind
      /\ IsDir(j) => MovedRecord(j, e).parent = e[1]
  BY <1>2, <1>4, <1>6, MovedSound
<1>9. /\ node'[i] = MovedRecord(i, f) /\ node'[j] = MovedRecord(j, e)
      /\ links'[i] = MovedLinks(i, e, f) /\ links'[j] = MovedLinks(j, f, e)
  BY <1>0, <1>1, <1>2, <1>3 DEF TypeOK
<1>10. /\ One(IsDir(i)) \in Int /\ One(IsDir(j)) \in Int
       /\ delta = IF p = q THEN 0 ELSE One(IsDir(j)) - One(IsDir(i))
       /\ node[p] \in Record /\ node[q] \in Record /\ node[p].nlink \in Nat /\ node[q].nlink \in Nat
  BY <1>2, <1>e, DotDotOne DEF TypeOK, Record
<1>11. /\ Untouched(i, j, p, q)
       /\ p = q => node'[q].nlink = node[q].nlink
       /\ p # q => node'[q].nlink = node[q].nlink - delta /\ node'[p].nlink = node[p].nlink + delta
  <2>0. PICK g : g = [node EXCEPT ![i] = MovedRecord(i, f), ![j] = MovedRecord(j, e)]
    OBVIOUS
  <2>g. g = [k \in Inodes |-> g[k]] /\ g[p] = node[p] /\ g[q] = node[q]
    BY <1>3, <2>0 DEF TypeOK
  <2>h. PICK h : h = [g EXCEPT ![p].nlink = @ + delta]
    OBVIOUS
  <2>i. node' = [h EXCEPT ![q].nlink = @ - delta] /\ h = [k \in Inodes |-> h[k]]
    <3>1. h = [k \in Inodes |-> h[k]]
      BY <2>g, <2>h
    <3>2. node' = [[g EXCEPT ![p].nlink = @ + delta] EXCEPT ![q].nlink = @ - delta]
      BY <1>1, <2>0
    <3> QED
      BY <2>h, <3>1, <3>2
  <2>1. p # q => /\ node'[q] = [node[q] EXCEPT !.nlink = @ - delta]
                 /\ node'[p] = [node[p] EXCEPT !.nlink = @ + delta]
    BY <2>g, <2>h, <2>i
  <2>2. p = q => node'[q] = [[node[q] EXCEPT !.nlink = @ + delta] EXCEPT !.nlink = @ - delta]
    <3>1. p = q => h[q] = [node[q] EXCEPT !.nlink = @ + delta]
      BY <2>g, <2>h
    <3>2. node'[q] = [h[q] EXCEPT !.nlink = @ - delta]
      BY <2>i
    <3> QED
      BY <3>1, <3>2
  <2>3. \A k \in Inodes : k # i /\ k # j /\ k # p /\ k # q => node'[k] = node[k]
    BY <1>1, <1>2 DEF TypeOK
  <2>4. \A k \in Inodes : k # i /\ k # j => links'[k] = links[k]
    BY <1>1, <1>2 DEF TypeOK
  <2>5. p = q => /\ node'[q].nlink = node[q].nlink
                 /\ node'[q].kind = node[q].kind /\ node'[q].parent = node[q].parent
                 /\ node'[q].name = node[q].name /\ node'[q].deleted = node[q].deleted
    <3> SUFFICES ASSUME p = q
                 PROVE  /\ node'[q].nlink = node[q].nlink
                        /\ node'[q].kind = node[q].kind /\ node'[q].parent = node[q].parent
                        /\ node'[q].name = node[q].name /\ node'[q].deleted = node[q].deleted
      OBVIOUS
    <3>1. delta = 0
      BY <1>10
    <3>2. PICK r : r = [node[q] EXCEPT !.nlink = @ + delta]
      OBVIOUS
    <3>3. node'[q] = [r EXCEPT !.nlink = @ - delta]
      BY <2>2, <3>2
    <3>4. r = node[q]
      BY <1>10, <3>1, <3>2 DEF Record
    <3>5. node'[q] = node[q]
      BY <1>10, <3>1, <3>3, <3>4 DEF Record
    <3> QED
      BY <3>5
  <2>6. p # q => /\ node'[q].nlink = node[q].nlink - delta /\ node'[p].nlink = node[p].nlink + delta
                 /\ \A k \in {p, q} :
                      /\ node'[k].kind = node[k].kind /\ node'[k].parent = node[k].parent
                      /\ node'[k].name = node[k].name /\ node'[k].deleted = node[k].deleted
    BY <1>10, <2>1 DEF Record
  <2>7. Untouched(i, j, p, q)
    BY <1>0, <1>1, <2>3, <2>4, <2>5, <2>6 DEF Untouched
  <2> QED
    BY <2>5, <2>6, <2>7
<1>12. /\ p = q => node'[q].nlink = node[q].nlink - One(IsDir(j)) + One(j # 0 /\ IsDir(j))
       /\ p # q => /\ node'[q].nlink = node[q].nlink + One(IsDir(i)) - One(IsDir(j))
                   /\ IsDir(p) => node'[p].nlink = node[p].nlink - One(IsDir(i)) + One(j # 0 /\ IsDir(j))
  <2>1. One(j # 0 /\ IsDir(j)) = One(IsDir(j))
    BY <1>0 DEF One
  <2> QED
    BY <1>10, <1>11, <2>1
<1>13. /\ IsDir(i) => MovedRecord(i, f).nlink = node[i].nlink
       /\ IsDir(j) => MovedRecord(j, e).nlink = node[j].nlink
  <2>1. node[i] \in Record /\ node[j] \in Record
    BY <1>2 DEF TypeOK
  <2> QED
    BY <2>1 DEF MovedRecord, Record
<1>14. /\ node'[i].kind = node[i].kind
       /\ IsDir(i) => node'[i].parent = q /\ ValidAncestry(q, i) /\ node'[i].nlink = node[i].nlink
       /\ j # 0 => IF j = j THEN /\ node'[j].kind = node[j].kind
                                 /\ IsDir(j) => /\ node'[j].parent = p /\ IsDir(p) /\ ValidAncestry(p, j)
                                                /\ node'[j].nlink = node[j].nlink
                   ELSE IF IsDir(j) THEN node'[j].kind = "none" /\ Listing(j) = {}
                   ELSE node'[j].kind = node[j].kind
  BY <1>0, <1>6, <1>7, <1>8, <1>9, <1>13
<1>15. /\ Sound(i, node'[i], links'[i], (i \in deleted)', (i \in trash)',
                (EntriesOf(i) \ {<<p, n>>}) \cup {<<q, m>>})
       /\ j # 0 => Sound(j, node'[j], links'[j], (j \in deleted)', (j \in trash)',
                         IF j = j THEN (EntriesOf(j) \ {<<q, m>>}) \cup {<<p, n>>}
                         ELSE EntriesOf(j) \ {<<q, m>>})
  BY <1>1, <1>7, <1>8, <1>9, <1>c, <1>d
<1>16. j \in {0} \cup Inodes /\ j \in {0, j} /\ i \in Inodes /\ UNCHANGED <<client, nextIno>>
  BY <1>1, <1>2
<1> QED
  BY ONLY TypeOK, Story, p \in Inodes, n \in Names, q \in Inodes, m \in Names, <1>a, <1>b, <1>0, <1>3,
     <1>5, <1>11, <1>12, <1>14, <1>15, <1>16, MoveStory

\* The record and the links of an inode that a rename replaces agree with the
\* entries it keeps.
LEMMA ReplacedSound ==
  ASSUME TypeOK, NEW j \in Inodes, NEW q, NEW m, NEW es, <<q, m>> \in es, es \subseteq Inodes \X Names,
         j # Root, node[j].kind \in {"File", "Dir", "Symlink"},
         Sound(j, node[j], links[j], j \in deleted, j \in trash, es)
  PROVE  /\ Sound(j, Replaced(j, q, m),
                  IF IsDir(j) THEN links[j] ELSE IF node[j].nlink <= 2 THEN {} ELSE links[j] \ {<<q, m>>},
                  ~IsDir(j) /\ node[j].nlink <= 1, ~IsDir(j) /\ node[j].nlink <= 1, es \ {<<q, m>>})
         /\ Replaced(j, q, m).kind = IF IsDir(j) THEN "none" ELSE node[j].kind
         /\ j \notin deleted /\ j \notin trash
<1>0. j \notin deleted /\ j \notin trash /\ ~node[j].deleted
  BY DEF Sound
<1>1. PICK fs : fs = es \ {<<q, m>>}
  OBVIOUS
<1>2. /\ IsFiniteSet(es) /\ IsFiniteSet(fs) /\ Cardinality(fs) = Cardinality(es) - 1
      /\ Cardinality(es) \in Nat /\ Cardinality(es) # 0
      /\ Cardinality(es) = 1 => es = {<<q, m>>}
  <2>1. IsFiniteSet(es)
    BY DEF Sound
  <2> QED
    BY <1>1, <2>1, Counting
<1>3. node[j] \in Record /\ (IsDir(j) <=> node[j].kind = "Dir")
  BY DEF TypeOK, IsDir
<1>4. CASE IsDir(j)
  <2>1. Replaced(j, q, m) = Missing
    BY <1>4 DEF Replaced
  <2>2. es = {<<node[j].parent, node[j].name>>} /\ links[j] = {}
    BY <1>3, <1>4 DEF Sound
  <2>3. fs = {}
    BY <1>1, <2>2
  <2>4. Sound(j, Missing, {}, FALSE, FALSE, fs) /\ Missing.kind = "none"
    BY <1>2, <2>3 DEF Sound, Missing
  <2>5. /\ (IF IsDir(j) THEN links[j] ELSE IF node[j].nlink <= 2 THEN {} ELSE links[j] \ {<<q, m>>}) = {}
        /\ (~IsDir(j) /\ node[j].nlink <= 1) = FALSE
    BY <1>4, <2>2
  <2>6. Sound(j, Replaced(j, q, m),
              IF IsDir(j) THEN links[j] ELSE IF node[j].nlink <= 2 THEN {} ELSE links[j] \ {<<q, m>>},
              ~IsDir(j) /\ node[j].nlink <= 1, ~IsDir(j) /\ node[j].nlink <= 1, es \ {<<q, m>>})
    BY <1>1, <2>1, <2>4, <2>5
  <2> QED
    BY <1>0, <1>4, <2>1, <2>4, <2>6
<1>5. CASE ~IsDir(j)
  <2>0. node[j].nlink = Cardinality(es) /\ node[j].kind # "Dir" /\ node[j].kind # "none"
    BY <1>3, <1>5 DEF Sound
  <2>1. CASE Cardinality(es) = 1
    <3>1. node[j].nlink <= 1 /\ node[j].nlink <= 2
      BY <2>0, <2>1
    <3>2. Replaced(j, q, m) = MarkDeleted(node[j])
      BY <1>5, <3>1 DEF Replaced
    <3>3. /\ MarkDeleted(node[j]).kind = node[j].kind /\ MarkDeleted(node[j]).nlink = 0
          /\ MarkDeleted(node[j]).deleted
      BY <1>3 DEF MarkDeleted, Record
    <3>4. fs = {} /\ Cardinality(fs) = 0
      BY <1>1, <1>2, <2>1
    <3>5. Sound(j, MarkDeleted(node[j]), {}, TRUE, TRUE, fs)
      BY <1>2, <2>0, <3>3, <3>4 DEF Sound
    <3>6. /\ (IF IsDir(j) THEN links[j] ELSE IF node[j].nlink <= 2 THEN {} ELSE links[j] \ {<<q, m>>}) = {}
          /\ (~IsDir(j) /\ node[j].nlink <= 1) = TRUE
      BY <1>5, <3>1
    <3>7. Sound(j, Replaced(j, q, m),
                IF IsDir(j) THEN links[j] ELSE IF node[j].nlink <= 2 THEN {} ELSE links[j] \ {<<q, m>>},
                ~IsDir(j) /\ node[j].nlink <= 1, ~IsDir(j) /\ node[j].nlink <= 1, es \ {<<q, m>>})
      BY <1>1, <3>2, <3>5, <3>6
    <3> QED
      BY <1>0, <1>5, <3>2, <3>3, <3>7
  <2>2. CASE Cardinality(es) = 2
    <3>1. node[j].nlink = 2 /\ ~(node[j].nlink <= 1) /\ node[j].nlink <= 2 /\ node[j].nlink > 1
      BY <2>0, <2>2
    <3>2. links[j] \ {<<q, m>>} = fs
      BY <1>1, <2>0, <3>1 DEF Sound
    <3>3. PICK e : e = CHOOSE x \in fs : TRUE
      OBVIOUS
    <3>4. e \in fs /\ Cardinality(fs) = 1
      <4>1. Cardinality(fs) = 1
        BY <1>2, <2>2
      <4>2. fs # {}
        BY <4>1, FS_EmptySet
      <4> QED
        BY <3>3, <4>1, <4>2
    <3>5. fs = {e} /\ e = <<e[1], e[2]>>
      <4>1. fs = {e}
        BY <1>2, <3>4, Counting
      <4> QED
        BY <1>1, <3>4, <4>1
    <3>6. Replaced(j, q, m) = [node[j] EXCEPT !.nlink = 1, !.parent = e[1], !.name = e[2]]
      BY <1>5, <3>1, <3>2, <3>3 DEF Replaced
    <3>7. /\ Replaced(j, q, m).kind = node[j].kind /\ Replaced(j, q, m).nlink = 1
          /\ ~Replaced(j, q, m).deleted
          /\ Replaced(j, q, m).parent = e[1] /\ Replaced(j, q, m).name = e[2]
      BY <1>0, <1>3, <3>6 DEF Record
    <3>8. Sound(j, Replaced(j, q, m), {}, FALSE, FALSE, fs)
      BY <1>2, <2>0, <3>4, <3>5, <3>7 DEF Sound
    <3>9. /\ (IF IsDir(j) THEN links[j] ELSE IF node[j].nlink <= 2 THEN {} ELSE links[j] \ {<<q, m>>}) = {}
          /\ (~IsDir(j) /\ node[j].nlink <= 1) = FALSE
      BY <1>5, <3>1
    <3>10. Sound(j, Replaced(j, q, m),
                IF IsDir(j) THEN links[j] ELSE IF node[j].nlink <= 2 THEN {} ELSE links[j] \ {<<q, m>>},
                ~IsDir(j) /\ node[j].nlink <= 1, ~IsDir(j) /\ node[j].nlink <= 1, es \ {<<q, m>>})
      BY <1>1, <3>8, <3>9
    <3> QED
      BY <1>0, <1>5, <3>7, <3>10
  <2>3. CASE Cardinality(es) # 1 /\ Cardinality(es) # 2
    <3>1. /\ node[j].nlink # 2 /\ ~(node[j].nlink <= 1) /\ ~(node[j].nlink <= 2) /\ node[j].nlink > 1
          /\ node[j].nlink - 1 > 1 /\ node[j].nlink - 1 # 1 /\ node[j].nlink - 1 = Cardinality(fs)
      BY <1>2, <2>0, <2>3
    <3>2. links[j] \ {<<q, m>>} = fs /\ node[j].parent = 0
      BY <1>1, <2>0, <3>1 DEF Sound
    <3>3. Replaced(j, q, m) = [node[j] EXCEPT !.nlink = @ - 1]
      BY <1>5, <3>1 DEF Replaced
    <3>4. /\ Replaced(j, q, m).kind = node[j].kind /\ Replaced(j, q, m).nlink = node[j].nlink - 1
          /\ ~Replaced(j, q, m).deleted /\ Replaced(j, q, m).parent = 0
      BY <1>0, <1>3, <3>2, <3>3 DEF Record
    <3>5. Sound(j, Replaced(j, q, m), fs, FALSE, FALSE, fs)
      BY <1>2, <2>0, <3>1, <3>4 DEF Sound
    <3>6. /\ (IF IsDir(j) THEN links[j] ELSE IF node[j].nlink <= 2 THEN {} ELSE links[j] \ {<<q, m>>}) = fs
          /\ (~IsDir(j) /\ node[j].nlink <= 1) = FALSE
      BY <1>5, <3>1, <3>2
    <3>7. Sound(j, Replaced(j, q, m),
                IF IsDir(j) THEN links[j] ELSE IF node[j].nlink <= 2 THEN {} ELSE links[j] \ {<<q, m>>},
                ~IsDir(j) /\ node[j].nlink <= 1, ~IsDir(j) /\ node[j].nlink <= 1, es \ {<<q, m>>})
      BY <1>1, <3>5, <3>6
    <3> QED
      BY <1>0, <1>5, <3>4, <3>7
  <2> QED
    BY <2>1, <2>2, <2>3
<1> QED
  BY <1>4, <1>5

\* rename
LEMMA RenameStory ==
  ASSUME TypeOK, Story, NEW p \in Inodes, NEW n \in Names, NEW q \in Inodes, NEW m \in Names,
         NEW noreplace \in BOOLEAN, Rename(p, n, q, m, noreplace)
  PROVE  Story'
<1>a. PICK i : i = dir[p][n]
  OBVIOUS
<1>b. PICK j : j = dir[q][m]
  OBVIOUS
<1>c. PICK e : e = <<p, n>>
  OBVIOUS
<1>d. PICK f : f = <<q, m>>
  OBVIOUS
<1> DEFINE gone == j # 0 /\ IsDir(j)
           dies == j # 0 /\ ~IsDir(j) /\ node[j].nlink <= 1
<1>0. /\ i # 0 /\ IsDir(q) /\ 0 \notin Inodes /\ i # j
      /\ IsDir(i) => ValidAncestry(q, i)
      /\ j # 0 /\ IsDir(j) => Listing(j) = {}
  <2>1. 0 \notin Inodes
    BY NamespaceAssumption DEF Inodes
  <2> QED
    BY <1>a, <1>b, <2>1 DEF Rename, Replaceable
<1>1. /\ dir' = [[dir EXCEPT ![p][n] = 0] EXCEPT ![q][m] = i]
      /\ links' = [k \in Inodes |->
           CASE k = i -> MovedLinks(i, e, f)
             [] k = j -> IF IsDir(j) THEN links[j]
                         ELSE IF node[j].nlink <= 2 THEN {} ELSE links[j] \ {f}
             [] OTHER -> links[k]]
      /\ node' = [k \in Inodes |->
           CASE k = i -> MovedRecord(i, f)
             [] k = j -> Replaced(j, q, m)
             [] k = q -> [node[q] EXCEPT !.nlink = @ + (IF p = q THEN 0 ELSE DotDot(node[i].kind))
                                                    - IF gone THEN 1 ELSE 0]
             [] k = p /\ p # q /\ Exists(p) -> [node[p] EXCEPT !.nlink = @ - DotDot(node[i].kind)]
             [] OTHER -> node[k]]
      /\ deleted' = (IF dies THEN deleted \cup {j} ELSE deleted)
      /\ trash' = (IF dies THEN trash \cup {j} ELSE IF gone THEN trash \ {j} ELSE trash)
      /\ UNCHANGED <<client, nextIno>>
  <2>1. dir' = [[dir EXCEPT ![p][n] = 0] EXCEPT ![q][m] = i]
    BY <1>a DEF Rename, EntryMoved
  <2>2. links' = [k \in Inodes |->
           CASE k = i -> MovedLinks(i, e, f)
             [] k = j -> IF IsDir(j) THEN links[j]
                         ELSE IF node[j].nlink <= 2 THEN {} ELSE links[j] \ {f}
             [] OTHER -> links[k]]
    BY <1>a, <1>b, <1>c, <1>d DEF Rename
  <2>3. node' = [k \in Inodes |->
           CASE k = i -> MovedRecord(i, f)
             [] k = j -> Replaced(j, q, m)
             [] k = q -> [node[q] EXCEPT !.nlink = @ + (IF p = q THEN 0 ELSE DotDot(node[i].kind))
                                                    - IF gone THEN 1 ELSE 0]
             [] k = p /\ p # q /\ Exists(p) -> [node[p] EXCEPT !.nlink = @ - DotDot(node[i].kind)]
             [] OTHER -> node[k]]
    BY <1>a, <1>b, <1>d DEF Rename
  <2>4. /\ deleted' = (IF dies THEN deleted \cup {j} ELSE deleted)
        /\ trash' = (IF dies THEN trash \cup {j} ELSE IF gone THEN trash \ {j} ELSE trash)
        /\ UNCHANGED <<client, nextIno>>
    BY <1>b DEF Rename
  <2> QED
    BY <2>1, <2>2, <2>3, <2>4
<1>2. /\ i \in Inodes /\ i # Root /\ node[i].kind \in {"File", "Dir", "Symlink"} /\ e \in EntriesOf(i)
      /\ j # 0 => /\ j \in Inodes /\ j # Root /\ node[j].kind \in {"File", "Dir", "Symlink"}
                  /\ f \in EntriesOf(j) /\ (node[j].kind = "Dir" => node[j].parent = q)
  BY <1>0, <1>a, <1>b, <1>c, <1>d, Target
<1>3. i # p /\ i # q /\ j # p /\ j # q
  <2>1. i # p /\ i # q
    BY <1>0, <1>a, MoveApart
  <2>2. Listing(p) # {} /\ node[p].kind \in {"Dir", "none"}
    <3>1. Listing(p) # {}
      BY <1>0, <1>a DEF Listing
    <3> QED
      BY <3>1 DEF Story, HoldersKnown
  <2>3. j # p
    BY <1>0, <1>2, <2>2 DEF IsDir
  <2>4. j # q
    <3>1. CASE j # 0 /\ IsDir(j)
      BY <1>2, <3>1, NotOwnParent DEF IsDir
    <3> QED
      BY <1>0, <3>1
  <2> QED
    BY <2>1, <2>3, <2>4
<1>4. ~(p = q /\ n = m) /\ e # f /\ f \notin EntriesOf(i)
  BY <1>0, <1>a, <1>b, <1>c, <1>d DEF EntriesOf, Entries
<1>5. Put2(p, n, 0, q, m, i)
  <2> SUFFICES ASSUME NEW d \in Inodes, NEW x \in Names
               PROVE  dir'[d][x] = IF d = p /\ x = n THEN 0 ELSE IF d = q /\ x = m THEN i ELSE dir[d][x]
    BY DEF Put2
  <2>1. PICK g : g = [dir EXCEPT ![p][n] = 0]
    OBVIOUS
  <2>2. /\ g[d][x] = IF d = p /\ x = n THEN 0 ELSE dir[d][x]
        /\ g = [k \in Inodes |-> g[k]] /\ \A k \in Inodes : g[k] = [y \in Names |-> g[k][y]]
    BY <2>1 DEF TypeOK
  <2>3. dir'[d][x] = IF d = q /\ x = m THEN i ELSE g[d][x]
    BY <1>1, <2>1, <2>2
  <2> QED
    BY <1>4, <2>2, <2>3
<1>6. /\ Sound(i, node[i], links[i], i \in deleted, i \in trash, EntriesOf(i))
      /\ j # 0 => Sound(j, node[j], links[j], j \in deleted, j \in trash, EntriesOf(j))
      /\ f = <<f[1], f[2]>> /\ f[1] = q
      /\ \A k \in Inodes : EntriesOf(k) \subseteq Inodes \X Names
  BY <1>2, <1>d DEF Story, InodesSound, EntriesOf, Entries
<1>7. /\ Sound(i, MovedRecord(i, f), MovedLinks(i, e, f), i \in deleted, i \in trash, (EntriesOf(i) \ {e}) \cup {f})
      /\ MovedRecord(i, f).kind = node[i].kind
      /\ IsDir(i) => MovedRecord(i, f).parent = f[1]
      /\ i \notin deleted /\ i \notin trash
  BY <1>2, <1>4, <1>6, MovedSound
<1>8. j # 0 =>
        /\ Sound(j, Replaced(j, q, m),
                 IF IsDir(j) THEN links[j] ELSE IF node[j].nlink <= 2 THEN {} ELSE links[j] \ {<<q, m>>},
                 ~IsDir(j) /\ node[j].nlink <= 1, ~IsDir(j) /\ node[j].nlink <= 1, EntriesOf(j) \ {<<q, m>>})
        /\ Replaced(j, q, m).kind = IF IsDir(j) THEN "none" ELSE node[j].kind
        /\ j \notin deleted /\ j \notin trash
  <2> SUFFICES ASSUME j # 0
      PROVE /\ Sound(j, Replaced(j, q, m),
                 IF IsDir(j) THEN links[j] ELSE IF node[j].nlink <= 2 THEN {} ELSE links[j] \ {<<q, m>>},
                 ~IsDir(j) /\ node[j].nlink <= 1, ~IsDir(j) /\ node[j].nlink <= 1, EntriesOf(j) \ {<<q, m>>})
            /\ Replaced(j, q, m).kind = IF IsDir(j) THEN "none" ELSE node[j].kind
            /\ j \notin deleted /\ j \notin trash
    OBVIOUS
  <2>1. PICK es : es = EntriesOf(j)
    OBVIOUS
  <2>2. /\ <<q, m>> \in es /\ es \subseteq Inodes \X Names /\ j \in Inodes /\ j # Root
        /\ node[j].kind \in {"File", "Dir", "Symlink"}
        /\ Sound(j, node[j], links[j], j \in deleted, j \in trash, es)
    BY <1>2, <1>6, <1>d, <2>1
  <2>3. /\ Sound(j, Replaced(j, q, m),
                 IF IsDir(j) THEN links[j] ELSE IF node[j].nlink <= 2 THEN {} ELSE links[j] \ {<<q, m>>},
                 ~IsDir(j) /\ node[j].nlink <= 1, ~IsDir(j) /\ node[j].nlink <= 1, es \ {<<q, m>>})
        /\ Replaced(j, q, m).kind = IF IsDir(j) THEN "none" ELSE node[j].kind
        /\ j \notin deleted /\ j \notin trash
    BY ONLY TypeOK, <2>2, ReplacedSound
  <2> QED
    BY <2>1, <2>3
<1>9. /\ node'[i] = MovedRecord(i, f) /\ links'[i] = MovedLinks(i, e, f)
      /\ j # 0 => /\ node'[j] = Replaced(j, q, m)
                  /\ links'[j] = IF IsDir(j) THEN links[j]
                                 ELSE IF node[j].nlink <= 2 THEN {} ELSE links[j] \ {<<q, m>>}
  <2> DEFINE N(k) == CASE k = i -> MovedRecord(i, f)
                       [] k = j -> Replaced(j, q, m)
                       [] k = q -> [node[q] EXCEPT !.nlink = @ + (IF p = q THEN 0 ELSE DotDot(node[i].kind))
                                                              - IF gone THEN 1 ELSE 0]
                       [] k = p /\ p # q /\ Exists(p) -> [node[p] EXCEPT !.nlink = @ - DotDot(node[i].kind)]
                       [] OTHER -> node[k]
             L(k) == CASE k = i -> MovedLinks(i, e, f)
                       [] k = j -> IF IsDir(j) THEN links[j]
                                   ELSE IF node[j].nlink <= 2 THEN {} ELSE links[j] \ {f}
                       [] OTHER -> links[k]
  <2>a. node' = [k \in Inodes |-> N(k)] /\ links' = [k \in Inodes |-> L(k)]
    BY <1>1
  <2>b. N(i) = MovedRecord(i, f) /\ (j # i => N(j) = Replaced(j, q, m)) /\ L(i) = MovedLinks(i, e, f)
    BY <1>0, <1>3
  <2> HIDE DEF N, L
  <2>1. node'[i] = MovedRecord(i, f) /\ (j # 0 => node'[j] = Replaced(j, q, m))
    BY <1>0, <1>2, <2>a, <2>b
  <2>2. links'[i] = MovedLinks(i, e, f)
    BY <1>2, <2>a, <2>b
  <2>3. j # 0 => links'[j] = IF IsDir(j) THEN links[j]
                             ELSE IF node[j].nlink <= 2 THEN {} ELSE links[j] \ {f}
    BY <1>0, <1>1, <1>2
  <2> QED
    BY <1>d, <2>1, <2>2, <2>3
<1>10. /\ One(IsDir(i)) \in Int /\ One(IsDir(j)) \in Int /\ DotDot(node[i].kind) = One(IsDir(i))
       /\ One(IsDir(j)) = IF gone THEN 1 ELSE 0
       /\ One(0 # 0 /\ IsDir(j)) = 0
       /\ node[p] \in Record /\ node[q] \in Record /\ node[p].nlink \in Nat /\ node[q].nlink \in Nat
  <2>1. IsDir(j) <=> gone
    BY <1>0 DEF IsDir
  <2>2. One(IsDir(j)) = IF gone THEN 1 ELSE 0
    BY <2>1 DEF One
  <2>3. One(0 # 0 /\ IsDir(j)) = 0
    BY DEF One
  <2> QED
    BY <1>2, <2>2, <2>3, DotDotOne DEF TypeOK, Record
<1>11. /\ node'[q] = [node[q] EXCEPT !.nlink = @ + (IF p = q THEN 0 ELSE One(IsDir(i))) - One(IsDir(j))]
       /\ p # q /\ IsDir(p) => node'[p] = [node[p] EXCEPT !.nlink = @ - One(IsDir(i))]
       /\ p # q /\ ~IsDir(p) => node'[p] = node[p]
       /\ \A k \in Inodes : k # i /\ k # j /\ k # p /\ k # q => node'[k] = node[k]
       /\ \A k \in Inodes : k # i /\ k # j => links'[k] = links[k]
  <2>1. node'[q] = [node[q] EXCEPT !.nlink = @ + (IF p = q THEN 0 ELSE One(IsDir(i))) - One(IsDir(j))]
    <3>1. node'[q] = [node[q] EXCEPT !.nlink = @ + (IF p = q THEN 0 ELSE DotDot(node[i].kind))
                                                    - IF gone THEN 1 ELSE 0]
      BY <1>1, <1>3
    <3> QED
      BY <1>10, <3>1
  <2>2. p # q /\ IsDir(p) => node'[p] = [node[p] EXCEPT !.nlink = @ - One(IsDir(i))]
    <3>1. p # q /\ IsDir(p) => node'[p] = [node[p] EXCEPT !.nlink = @ - DotDot(node[i].kind)]
      BY <1>1, <1>3 DEF Exists, IsDir
    <3> QED
      BY <1>10, <3>1
  <2>3. p # q /\ ~IsDir(p) => node'[p] = node[p]
    <3>1. Listing(p) # {}
      BY <1>0, <1>a DEF Listing
    <3>2. node[p].kind \in {"Dir", "none"}
      BY <3>1 DEF Story, HoldersKnown
    <3>3. ~IsDir(p) => ~Exists(p)
      BY <3>2 DEF IsDir, Exists
    <3> QED
      BY <1>1, <1>3, <3>3
  <2>4. \A k \in Inodes : k # i /\ k # j /\ k # p /\ k # q => node'[k] = node[k]
    BY <1>1
  <2>5. \A k \in Inodes : k # i /\ k # j => links'[k] = links[k]
    BY <1>1
  <2> QED
    BY <2>1, <2>2, <2>3, <2>4, <2>5
<1>12. /\ p = q => node'[q].nlink = node[q].nlink - One(IsDir(j)) + One(0 # 0 /\ IsDir(j))
       /\ p # q => /\ node'[q].nlink = node[q].nlink + One(IsDir(i)) - One(IsDir(j))
                   /\ IsDir(p) => node'[p].nlink = node[p].nlink - One(IsDir(i)) + One(0 # 0 /\ IsDir(j))
  <2>1. node'[q].nlink = node[q].nlink + (IF p = q THEN 0 ELSE One(IsDir(i))) - One(IsDir(j))
    BY <1>10, <1>11 DEF Record
  <2>2. p # q /\ IsDir(p) => node'[p].nlink = node[p].nlink - One(IsDir(i))
    BY <1>10, <1>11 DEF Record
  <2> QED
    BY <1>10, <2>1, <2>2
<1>13. Untouched(i, j, p, q)
  <2>1. \A k \in {p, q} : /\ node'[k].kind = node[k].kind /\ node'[k].parent = node[k].parent
                          /\ node'[k].name = node[k].name /\ node'[k].deleted = node[k].deleted
    BY <1>10, <1>11 DEF Record
  <2>2. \A k \in Inodes : k # j => ((k \in deleted') <=> (k \in deleted)) /\ ((k \in trash') <=> (k \in trash))
    BY <1>1
  <2> QED
    BY <1>0, <1>11, <2>1, <2>2 DEF Untouched
<1>14. /\ node'[i].kind = node[i].kind
       /\ IsDir(i) => node'[i].parent = q /\ ValidAncestry(q, i) /\ node'[i].nlink = node[i].nlink
  <2>1. IsDir(i) => MovedRecord(i, f).nlink = node[i].nlink
    <3>1. node[i] \in Record
      BY <1>2 DEF TypeOK
    <3> QED
      BY <3>1 DEF MovedRecord, Record
  <2> QED
    BY <1>0, <1>6, <1>7, <1>9, <2>1
<1>15. j # 0 => IF 0 = j THEN /\ node'[j].kind = node[j].kind
                              /\ IsDir(j) => /\ node'[j].parent = p /\ IsDir(p) /\ ValidAncestry(p, j)
                                             /\ node'[j].nlink = node[j].nlink
                ELSE IF IsDir(j) THEN node'[j].kind = "none" /\ Listing(j) = {}
                ELSE node'[j].kind = node[j].kind
  BY <1>0, <1>8, <1>9
<1>16. Sound(i, node'[i], links'[i], (i \in deleted)', (i \in trash)',
             (EntriesOf(i) \ {<<p, n>>}) \cup {<<q, m>>})
  <2>1. ((i \in deleted)' = (i \in deleted)) /\ ((i \in trash)' = (i \in trash))
    BY <1>0, <1>1
  <2> QED
    BY <1>7, <1>9, <1>c, <1>d, <2>1
<1>17. j # 0 => Sound(j, node'[j], links'[j], (j \in deleted)', (j \in trash)',
                      IF 0 = j THEN (EntriesOf(j) \ {<<q, m>>}) \cup {<<p, n>>}
                      ELSE EntriesOf(j) \ {<<q, m>>})
  <2> SUFFICES ASSUME j # 0
      PROVE  Sound(j, node'[j], links'[j], (j \in deleted)', (j \in trash)',
                   IF 0 = j THEN (EntriesOf(j) \ {<<q, m>>}) \cup {<<p, n>>}
                   ELSE EntriesOf(j) \ {<<q, m>>})
    OBVIOUS
  <2>1. /\ (j \in deleted)' = (~IsDir(j) /\ node[j].nlink <= 1)
        /\ (j \in trash)' = (~IsDir(j) /\ node[j].nlink <= 1)
    BY <1>1, <1>8
  <2>2. (IF 0 = j THEN (EntriesOf(j) \ {<<q, m>>}) \cup {<<p, n>>}
         ELSE EntriesOf(j) \ {<<q, m>>}) = EntriesOf(j) \ {<<q, m>>}
    OBVIOUS
  <2> QED
    BY <1>8, <1>9, <2>1, <2>2
<1>18. j \in {0} \cup Inodes /\ 0 \in {0, j} /\ UNCHANGED <<client, nextIno>>
  BY <1>1, <1>2
<1> QED
  BY ONLY TypeOK, Story, p \in Inodes, n \in Names, q \in Inodes, m \in Names, <1>a, <1>b, <1>0, <1>2, <1>3,
     <1>5, <1>12, <1>13, <1>14, <1>15, <1>16, <1>17, <1>18, MoveStory

-----------------------------------------------------------------------------
(* The index of names. *)

IndexOK == index \in [Inodes -> [complete: BOOLEAN, names: SUBSET Names]] /\ NamesIndexed

\* A name is added; the index that is started with it has no other name to hold.
LEMMA NamedIndex ==
  ASSUME TypeOK, NamesIndexed, NEW p \in Inodes, NEW n \in Names, NEW first,
         index' = Named(index, p, n, first), first => Listing(p)' = {n},
         Listing(p)' = Listing(p) \cup {n}, \A d \in Inodes : d # p => Listing(d)' = Listing(d)
  PROVE  IndexOK'
<1>1. index \in [Inodes -> [complete: BOOLEAN, names: SUBSET Names]]
  BY DEF TypeOK
<1>2. CASE index[p].complete
  <2>1. index' = [index EXCEPT ![p].names = @ \cup {n}]
    BY <1>2 DEF Named
  <2>2. index' \in [Inodes -> [complete: BOOLEAN, names: SUBSET Names]]
    BY <1>1, <2>1
  <2>3. ASSUME NEW d \in Inodes, index'[d].complete PROVE index'[d].names = Listing(d)'
    <3>1. CASE d = p
      BY <1>1, <1>2, <2>1, <3>1 DEF NamesIndexed
    <3>2. CASE d # p
      BY <1>1, <2>1, <2>3, <3>2 DEF NamesIndexed
    <3> QED
      BY <3>1, <3>2
  <2> QED
    BY <2>2, <2>3 DEF IndexOK, NamesIndexed
<1>3. CASE ~index[p].complete /\ first
  <2>1. index' = [index EXCEPT ![p] = [complete |-> TRUE, names |-> {n}]]
    BY <1>3 DEF Named
  <2>2. index' \in [Inodes -> [complete: BOOLEAN, names: SUBSET Names]]
    BY <1>1, <2>1
  <2>3. ASSUME NEW d \in Inodes, index'[d].complete PROVE index'[d].names = Listing(d)'
    <3>1. CASE d = p
      <4>1. Listing(p)' = {n}
        BY <1>3
      <4>2. index'[p].names = {n}
        BY <1>1, <2>1
      <4> QED
        BY <3>1, <4>1, <4>2
    <3>2. CASE d # p
      BY <1>1, <2>1, <2>3, <3>2 DEF NamesIndexed
    <3> QED
      BY <3>1, <3>2
  <2> QED
    BY <2>2, <2>3 DEF IndexOK, NamesIndexed
<1>4. CASE ~index[p].complete /\ ~first
  <2>1. index' = index
    BY <1>4 DEF Named
  <2> QED
    BY <1>1, <1>4, <2>1 DEF IndexOK, NamesIndexed
<1> QED
  BY <1>2, <1>3, <1>4

\* A name is taken away.
LEMMA UnnamedIndex ==
  ASSUME TypeOK, NamesIndexed, NEW p \in Inodes, NEW n \in Names
  PROVE  /\ Unnamed(index, p, n) \in [Inodes -> [complete: BOOLEAN, names: SUBSET Names]]
         /\ \A d \in Inodes : /\ Unnamed(index, p, n)[d].complete = index[d].complete
                              /\ index[d].complete => Unnamed(index, p, n)[d].names =
                                   IF d = p THEN Listing(p) \ {n} ELSE Listing(d)
<1>1. index \in [Inodes -> [complete: BOOLEAN, names: SUBSET Names]]
  BY DEF TypeOK
<1>2. Unnamed(index, p, n) \in [Inodes -> [complete: BOOLEAN, names: SUBSET Names]]
  BY <1>1 DEF Unnamed
<1>3. ASSUME NEW d \in Inodes
      PROVE  /\ Unnamed(index, p, n)[d].complete = index[d].complete
             /\ index[d].complete => Unnamed(index, p, n)[d].names =
                  IF d = p THEN Listing(p) \ {n} ELSE Listing(d)
  <2>1. CASE d = p
    BY <1>1, <2>1 DEF Unnamed, NamesIndexed
  <2>2. CASE d # p
    BY <1>1, <2>2 DEF Unnamed, NamesIndexed
  <2> QED
    BY <2>1, <2>2
<1> QED
  BY <1>2, <1>3

\* create_entry, restore_deleted_file and LINK_LUA add a name
LEMMA AddIndex ==
  ASSUME TypeOK, NamesIndexed, NEW p \in Inodes, NEW n \in Names, NEW v \in Inodes,
         dir' = [dir EXCEPT ![p][n] = v], index' = Named(index, p, n, Listing(p) = {})
  PROVE  IndexOK'
<1>1. Put(p, n, v) /\ v # 0 /\ v \in {0} \cup Inodes
  BY NamespaceAssumption DEF Put, TypeOK, Inodes
<1>2. \A d \in Inodes : Listing(d)' =
        IF d # p THEN Listing(d) ELSE IF v = 0 THEN Listing(p) \ {n} ELSE Listing(p) \cup {n}
  BY <1>1, EntriesPut
<1>3. Listing(p)' = Listing(p) \cup {n} /\ \A d \in Inodes : d # p => Listing(d)' = Listing(d)
  BY <1>1, <1>2
<1> QED
  BY <1>3, NamedIndex

\* unlink takes a name away ...
LEMMA DropIndex ==
  ASSUME TypeOK, NamesIndexed, NEW p \in Inodes, NEW n \in Names,
         Put(p, n, 0), index' = Unnamed(index, p, n)
  PROVE  IndexOK'
<1>1. \A d \in Inodes : Listing(d)' = IF d # p THEN Listing(d) ELSE Listing(p) \ {n}
  BY EntriesPut
<1>2. /\ index' \in [Inodes -> [complete: BOOLEAN, names: SUBSET Names]]
      /\ \A d \in Inodes : /\ index'[d].complete = index[d].complete
                           /\ index[d].complete => index'[d].names =
                                IF d = p THEN Listing(p) \ {n} ELSE Listing(d)
  <2>1. /\ Unnamed(index, p, n) \in [Inodes -> [complete: BOOLEAN, names: SUBSET Names]]
        /\ \A d \in Inodes : /\ Unnamed(index, p, n)[d].complete = index[d].complete
                             /\ index[d].complete => Unnamed(index, p, n)[d].names =
                                  IF d = p THEN Listing(p) \ {n} ELSE Listing(d)
    BY UnnamedIndex
  <2> QED
    BY <2>1
<1> QED
  BY <1>1, <1>2 DEF IndexOK, NamesIndexed

\* ... and rmdir the index of the directory as well.
LEMMA RmdirIndex ==
  ASSUME TypeOK, NamesIndexed, NEW p \in Inodes, NEW n \in Names, NEW i \in Inodes,
         Put(p, n, 0), index' = [Unnamed(index, p, n) EXCEPT ![i] = NoIndex]
  PROVE  IndexOK'
<1>1. \A d \in Inodes : Listing(d)' = IF d # p THEN Listing(d) ELSE Listing(p) \ {n}
  BY EntriesPut
<1>2. PICK ix : ix = Unnamed(index, p, n)
  OBVIOUS
<1>3. /\ ix \in [Inodes -> [complete: BOOLEAN, names: SUBSET Names]]
      /\ \A d \in Inodes : /\ ix[d].complete = index[d].complete
                           /\ index[d].complete => ix[d].names =
                                IF d = p THEN Listing(p) \ {n} ELSE Listing(d)
  <2>1. /\ Unnamed(index, p, n) \in [Inodes -> [complete: BOOLEAN, names: SUBSET Names]]
        /\ \A d \in Inodes : /\ Unnamed(index, p, n)[d].complete = index[d].complete
                             /\ index[d].complete => Unnamed(index, p, n)[d].names =
                                  IF d = p THEN Listing(p) \ {n} ELSE Listing(d)
    BY UnnamedIndex
  <2> QED
    BY <1>2, <2>1
<1>4. index' = [ix EXCEPT ![i] = NoIndex] /\ ~NoIndex.complete
      /\ NoIndex \in [complete: BOOLEAN, names: SUBSET Names]
  BY <1>2 DEF NoIndex
<1> QED
  BY <1>1, <1>3, <1>4 DEF IndexOK, NamesIndexed

\* rename: the count of the names left in the directory tells whether the new
\* one is alone there.
LEMMA RenameIndex ==
  ASSUME TypeOK, Story, NamesIndexed, NEW p \in Inodes, NEW n \in Names, NEW q \in Inodes, NEW m \in Names,
         NEW noreplace \in BOOLEAN, Rename(p, n, q, m, noreplace)
  PROVE  IndexOK'
<1>a. PICK i : i = dir[p][n]
  OBVIOUS
<1>b. PICK j : j = dir[q][m]
  OBVIOUS
<1>0. i # 0 /\ i # j /\ i \in Inodes /\ (j # 0 => j \in Inodes /\ (IsDir(j) => Listing(j) = {}))
      /\ ~(p = q /\ n = m) /\ 0 \notin Inodes
  <2>1. 0 \notin Inodes
    BY NamespaceAssumption DEF Inodes
  <2>2. i # 0 /\ (j # 0 => j # i /\ (IsDir(j) => Listing(j) = {}))
    BY <1>a, <1>b DEF Rename, Replaceable
  <2> QED
    BY <1>a, <1>b, <2>1, <2>2 DEF TypeOK
<1>1. PICK left : left = Cardinality(Listing(q)) + (IF j # 0 THEN 0 ELSE 1) - (IF p = q THEN 1 ELSE 0)
  OBVIOUS
<1>2. PICK ix : ix = Unnamed(index, p, n)
  OBVIOUS
<1>3. PICK iy : iy = Named(ix, q, m, left = 1)
  OBVIOUS
<1>4. /\ dir' = [[dir EXCEPT ![p][n] = 0] EXCEPT ![q][m] = i]
      /\ index' = IF j # 0 /\ IsDir(j) THEN [iy EXCEPT ![j] = NoIndex] ELSE iy
  BY <1>a, <1>b, <1>1, <1>2, <1>3 DEF Rename, EntryMoved
<1>5. \A d \in Inodes, x \in Names :
        x \in Listing(d)' <=> (IF d = p /\ x = n THEN FALSE ELSE IF d = q /\ x = m THEN TRUE ELSE x \in Listing(d))
  <2> SUFFICES ASSUME NEW d \in Inodes, NEW x \in Names
               PROVE  dir'[d][x] # 0 <=> IF d = p /\ x = n THEN FALSE
                                         ELSE IF d = q /\ x = m THEN TRUE ELSE dir[d][x] # 0
    BY DEF Listing
  <2>1. PICK g : g = [dir EXCEPT ![p][n] = 0]
    OBVIOUS
  <2>2. /\ g[d][x] = IF d = p /\ x = n THEN 0 ELSE dir[d][x]
        /\ g = [k \in Inodes |-> g[k]] /\ \A k \in Inodes : g[k] = [y \in Names |-> g[k][y]]
    BY <2>1 DEF TypeOK
  <2>3. dir'[d][x] = IF d = q /\ x = m THEN i ELSE g[d][x]
    BY <1>4, <2>1, <2>2
  <2> QED
    BY <1>0, <2>2, <2>3
<1>6. \A d \in Inodes : Listing(d) \subseteq Names /\ Listing(d)' \subseteq Names /\ IsFiniteSet(Listing(d))
  BY DEF Listing, Story, HoldersKnown
<1>7. n \in Listing(p) /\ (m \in Listing(q) <=> j # 0)
  BY <1>0, <1>a, <1>b DEF Listing
<1>8. \A d \in Inodes : Listing(d)' =
        IF d = q THEN (IF p = q THEN Listing(q) \ {n} ELSE Listing(q)) \cup {m}
        ELSE IF d = p THEN Listing(p) \ {n} ELSE Listing(d)
  BY <1>0, <1>5, <1>6
<1>9. left = 1 => Listing(q)' = {m}
  <2>1. PICK T : T = Listing(q)'
    OBVIOUS
  <2>2. m \in T /\ (p = q => n \notin T /\ n # m)
    BY <1>0, <1>5, <2>1
  <2>3. /\ Cardinality(T) = left /\ IsFiniteSet(T)
    <3>0. One(m \in T) = 1 /\ One(m \in Listing(q)) = (IF j # 0 THEN 1 ELSE 0)
      BY <1>7, <2>2 DEF One
    <3>1. IsFiniteSet(T)
      <4>1. IsFiniteSet(Listing(q) \cup {m})
        BY <1>6, Counting
      <4>2. T \in SUBSET (Listing(q) \cup {m})
        BY <1>8, <2>1
      <4> QED
        BY <4>1, <4>2, FS_Subset
    <3>2. CASE p = q
      <4>1. \A y : y # n /\ y # m => (y \in T <=> y \in Listing(q))
        BY <1>8, <2>1, <3>2
      <4>2. One(n \in T) = 0 /\ One(n \in Listing(q)) = 1
        BY <1>7, <2>2, <3>2 DEF One
      <4>3. /\ Cardinality(T) = Cardinality(Listing(q)) - One(n \in Listing(q)) + One(n \in T)
                 - One(m \in Listing(q)) + One(m \in T)
            /\ Cardinality(Listing(q)) \in Nat
        <5>1. IsFiniteSet(Listing(q)) /\ n # m
          BY <1>6, <2>2, <3>2
        <5> QED
          BY ONLY <4>1, <5>1, CountTwo
      <4>4. Cardinality(T) = left
        BY <1>1, <3>0, <3>2, <4>2, <4>3
      <4> QED
        BY <3>1, <4>4
    <3>3. CASE p # q
      <4>1. \A y : y # m => (y \in T <=> y \in Listing(q))
        BY <1>8, <2>1, <3>3
      <4>3. /\ Cardinality(T) = Cardinality(Listing(q)) - One(m \in Listing(q)) + One(m \in T)
            /\ Cardinality(Listing(q)) \in Nat
        <5>1. IsFiniteSet(Listing(q))
          BY <1>6
        <5> QED
          BY ONLY <4>1, <5>1, CountOne
      <4>4. Cardinality(T) = left
        BY <1>1, <3>0, <3>3, <4>3
      <4> QED
        BY <3>1, <4>4
    <3> QED
      BY <3>2, <3>3
  <2>4. left = 1 => T = {m}
    BY <2>2, <2>3, Counting
  <2> QED
    BY <2>1, <2>4
<1>10. /\ ix \in [Inodes -> [complete: BOOLEAN, names: SUBSET Names]]
       /\ \A d \in Inodes : ix[d].complete => ix[d].names = IF d = p THEN Listing(p) \ {n} ELSE Listing(d)
  <2>1. /\ ix \in [Inodes -> [complete: BOOLEAN, names: SUBSET Names]]
        /\ \A d \in Inodes : /\ ix[d].complete = index[d].complete
                             /\ index[d].complete => ix[d].names =
                                  IF d = p THEN Listing(p) \ {n} ELSE Listing(d)
    <3>1. /\ Unnamed(index, p, n) \in [Inodes -> [complete: BOOLEAN, names: SUBSET Names]]
          /\ \A d \in Inodes : /\ Unnamed(index, p, n)[d].complete = index[d].complete
                               /\ index[d].complete => Unnamed(index, p, n)[d].names =
                                    IF d = p THEN Listing(p) \ {n} ELSE Listing(d)
      BY UnnamedIndex
    <3> QED
      BY <1>2, <3>1
  <2> QED
    BY <2>1
<1>11. /\ iy \in [Inodes -> [complete: BOOLEAN, names: SUBSET Names]]
       /\ \A d \in Inodes : iy[d].complete => iy[d].names = Listing(d)'
  <2>1. CASE ix[q].complete
    <3>1. iy = [ix EXCEPT ![q].names = @ \cup {m}]
      BY <1>3, <2>1 DEF Named
    <3>2. iy \in [Inodes -> [complete: BOOLEAN, names: SUBSET Names]]
      BY <1>10, <3>1
    <3>3. iy[q].names = ix[q].names \cup {m} /\ \A d \in Inodes : d # q => iy[d] = ix[d]
      BY <1>10, <3>1
    <3>4. iy[q].names = Listing(q)'
      BY <1>8, <1>10, <2>1, <3>3
    <3>5. ASSUME NEW d \in Inodes, d # q, iy[d].complete PROVE iy[d].names = Listing(d)'
      BY <1>8, <1>10, <3>3, <3>5
    <3> QED
      BY <3>2, <3>4, <3>5
  <2>2. CASE ~ix[q].complete /\ left = 1
    <3>1. iy = [ix EXCEPT ![q] = [complete |-> TRUE, names |-> {m}]]
      BY <1>3, <2>2 DEF Named
    <3>2. iy \in [Inodes -> [complete: BOOLEAN, names: SUBSET Names]]
      BY <1>10, <3>1
    <3>3. iy[q].names = {m} /\ \A d \in Inodes : d # q => iy[d] = ix[d]
      BY <1>10, <3>1
    <3>4. iy[q].names = Listing(q)'
      BY <1>9, <2>2, <3>3
    <3>5. ASSUME NEW d \in Inodes, d # q, iy[d].complete PROVE iy[d].names = Listing(d)'
      BY <1>8, <1>10, <3>3, <3>5
    <3> QED
      BY <3>2, <3>4, <3>5
  <2>3. CASE ~ix[q].complete /\ ~(left = 1)
    <3>1. iy = ix
      BY <1>3, <2>3 DEF Named
    <3>2. ASSUME NEW d \in Inodes, iy[d].complete PROVE iy[d].names = Listing(d)'
      BY <1>8, <1>10, <2>3, <3>1, <3>2
    <3> QED
      BY <1>10, <3>1, <3>2
  <2> QED
    BY <2>1, <2>2, <2>3
<1>12. ~NoIndex.complete /\ NoIndex \in [complete: BOOLEAN, names: SUBSET Names]
  BY DEF NoIndex
<1>13. CASE j # 0 /\ IsDir(j)
  <2>1. index' = [iy EXCEPT ![j] = NoIndex] /\ j \in Inodes
    BY <1>0, <1>4, <1>13
  <2> QED
    BY <1>11, <1>12, <2>1 DEF IndexOK, NamesIndexed
<1>14. CASE ~(j # 0 /\ IsDir(j))
  <2>1. index' = iy
    BY <1>4, <1>14
  <2> QED
    BY <1>11, <2>1 DEF IndexOK, NamesIndexed
<1> QED
  BY <1>13, <1>14

-----------------------------------------------------------------------------
(* Each operation keeps the types. *)

\* The part of TypeOK about the keys other than the index
KeysOK ==
  /\ node \in [Inodes -> Record]
  /\ dir \in [Inodes -> [Names -> {0} \cup Inodes]]
  /\ links \in [Inodes -> SUBSET (({0} \cup Inodes) \X Recorded)]
  /\ deleted \subseteq Inodes /\ trash \subseteq Inodes

Task ==
  {Idle} \cup [op: {"link"}, ino: Inodes, parent: Inodes, name: Names]
         \cup [op: {"bump"}, ino: Inodes]
         \cup [op: {"save"}, ino: Inodes, rec: Record]

\* TypeOK, part by part.
LEMMA TypeParts ==
  /\ TypeOK => KeysOK /\ client \in [Clients -> Task] /\ nextIno \in 2 .. MaxIno + 1
               /\ drifted \in BOOLEAN /\ index \in [Inodes -> [complete: BOOLEAN, names: SUBSET Names]]
  /\ KeysOK' /\ IndexOK' /\ (client \in [Clients -> Task])' /\ (nextIno \in 2 .. MaxIno + 1)'
       /\ (drifted \in BOOLEAN)' => TypeOK' /\ NamesIndexed'
BY DEF TypeOK, KeysOK, IndexOK, Task

\* The records that the scripts write
LEMMA RecordTypes ==
  /\ Missing \in Record /\ Names \subseteq Recorded /\ NoName \in Recorded
  /\ \A p \in Inodes, n \in Names, kind \in {"File", "Dir", "Symlink"} : NewRecord(p, n, kind) \in Record
  /\ \A r \in Record : MarkDeleted(r) \in Record
  /\ \A r \in Record, a \in Nat : [r EXCEPT !.nlink = a] \in Record
  /\ \A r \in Record, a \in {0} \cup Inodes, b \in Recorded : [r EXCEPT !.parent = a, !.name = b] \in Record
<1>1. Names \subseteq Recorded /\ NoName \in Recorded
  BY DEF Recorded
<1>2. Missing \in Record
  BY <1>1 DEF Missing, Record
<1>3. ASSUME NEW p \in Inodes, NEW n \in Names, NEW kind \in {"File", "Dir", "Symlink"}
      PROVE  NewRecord(p, n, kind) \in Record
  <2>1. n \in Recorded
    BY <1>1
  <2> QED
    BY <2>1 DEF NewRecord, Record
<1>4. ASSUME NEW r \in Record PROVE MarkDeleted(r) \in Record
  BY DEF MarkDeleted, Record
<1>5. ASSUME NEW r \in Record, NEW a \in Nat PROVE [r EXCEPT !.nlink = a] \in Record
  BY DEF Record
<1>6. ASSUME NEW r \in Record, NEW a \in {0} \cup Inodes, NEW b \in Recorded
      PROVE  [r EXCEPT !.parent = a, !.name = b] \in Record
  BY DEF Record
<1> QED
  BY <1>1, <1>2, <1>3, <1>4, <1>5, <1>6

\* A directory has a link of its own and one from its parent.
LEMMA DirNlink ==
  ASSUME TypeOK, Story, NEW d \in Inodes, IsDir(d)
  PROVE  node[d].nlink \in Nat /\ node[d].nlink - 1 \in Nat /\ node[d].nlink - 1 # 0
<1>1. IsFiniteSet(Listing(d)) /\ Subdirs(d) \in SUBSET Listing(d)
  BY DEF Story, HoldersKnown, Subdirs
<1>2. Cardinality(Subdirs(d)) \in Nat
  BY <1>1, FS_Subset, FS_CardinalityType
<1>3. node[d].nlink = 2 + Cardinality(Subdirs(d))
  BY DEF Story, SubdirsCounted
<1> QED
  BY <1>2, <1>3

\* create_entry
LEMMA CreateKeeps ==
  ASSUME IInv, ~drifted, NEW c \in Clients, NEW p \in Inodes, NEW n \in Names,
         NEW kind \in {"File", "Dir", "Symlink"}, CreateEntry(c, p, n, kind)
  PROVE  IInv'
<1>1. TypeOK /\ NamesIndexed /\ Story
  BY DEF IInv
<1>2. Story'
  BY <1>1, CreateStory
<1>a. PICK i : i = nextIno
  OBVIOUS
<1>3. i \in Inodes /\ i + 1 \in 2 .. MaxIno + 1
  BY <1>1, <1>a, NamespaceAssumption DEF CreateEntry, TypeOK, Inodes
<1>4. /\ node' = [node EXCEPT ![i] = NewRecord(p, n, kind), ![p].nlink = @ + DotDot(kind)]
      /\ dir' = [dir EXCEPT ![p][n] = i]
      /\ index' = Named(index, p, n, Listing(p) = {})
      /\ client' = IF kind = "Symlink"
                   THEN [client EXCEPT ![c] = [op |-> "save", ino |-> i, rec |-> NewRecord(p, n, kind)]]
                   ELSE client
      /\ UNCHANGED <<links, deleted, trash, drifted>> /\ nextIno' = i + 1
  BY <1>a DEF CreateEntry
<1>5. IndexOK'
  BY <1>1, <1>3, <1>4, AddIndex
<1>6. NewRecord(p, n, kind) \in Record /\ DotDot(kind) \in Nat
  BY RecordTypes DEF DotDot
<1>7. KeysOK'
  <2>1. node' \in [Inodes -> Record]
    <3>1. PICK g : g = [node EXCEPT ![i] = NewRecord(p, n, kind)]
      OBVIOUS
    <3>2. g \in [Inodes -> Record]
      BY <1>1, <1>6, <3>1 DEF TypeOK
    <3>3. PICK h : h = [g[p] EXCEPT !.nlink = @ + DotDot(kind)]
      OBVIOUS
    <3>4. h \in Record
      BY <1>6, <3>2, <3>3 DEF Record
    <3>5. \A k \in Inodes : node'[k] = IF k = p THEN h ELSE g[k]
      <4>1. p # i
        BY <1>1, <1>3, <1>a, NamespaceAssumption DEF CreateEntry, IsDir, Story, Fresh, Missing, TypeOK, Inodes
      <4> QED
        BY <1>1, <1>4, <3>1, <3>3, <4>1 DEF TypeOK
    <3>6. node' = [k \in Inodes |-> node'[k]]
      BY <1>1, <1>4 DEF TypeOK
    <3> QED
      BY <3>2, <3>4, <3>5, <3>6
  <2>2. dir' \in [Inodes -> [Names -> {0} \cup Inodes]]
    BY <1>1, <1>3, <1>4 DEF TypeOK
  <2> QED
    BY <1>1, <1>4, <2>1, <2>2 DEF KeysOK, TypeOK
<1>8. client' \in [Clients -> Task]
  <2>1. [op |-> "save", ino |-> i, rec |-> NewRecord(p, n, kind)] \in Task
    BY <1>3, <1>6 DEF Task
  <2> QED
    BY <1>1, <1>4, <2>1, TypeParts
<1>9. TypeOK' /\ NamesIndexed'
  BY <1>1, <1>3, <1>4, <1>5, <1>7, <1>8, TypeParts
<1> QED
  BY <1>2, <1>9 DEF IInv

\* unlink
LEMMA UnlinkKeeps ==
  ASSUME IInv, ~drifted, NEW p \in Inodes, NEW n \in Names, Unlink(p, n)
  PROVE  IInv'
<1>1. TypeOK /\ NamesIndexed /\ Story
  BY DEF IInv
<1>2. ~drifted' => Story'
  BY <1>1, UnlinkStory
<1>a. PICK i : i = dir[p][n]
  OBVIOUS
<1>b. PICK rest : rest = links[i] \ {<<p, n>>}
  OBVIOUS
<1>c. PICK r : r = [node[i] EXCEPT !.nlink = IF @ > 0 THEN @ - 1 ELSE 0]
  OBVIOUS
<1>3. /\ links' = [links EXCEPT ![i] = IF r.nlink = 1 /\ Cardinality(rest) = 1 THEN {} ELSE rest]
      /\ node' = [node EXCEPT ![i] = CASE r.nlink = 0 -> MarkDeleted(r)
                                       [] r.nlink = 1 -> SingleLink(r, rest)
                                       [] OTHER -> r]
      /\ deleted' = IF r.nlink = 0 THEN deleted \cup {i} ELSE deleted
      /\ trash' = IF node[i].nlink = 1 THEN trash \cup {i} ELSE trash
      /\ drifted' \in BOOLEAN /\ UNCHANGED <<client, nextIno>>
      /\ dir' = [dir EXCEPT ![p][n] = 0] /\ index' = Unnamed(index, p, n)
      /\ i # 0 /\ ~IsDir(i)
  BY <1>a, <1>b, <1>c DEF Unlink
<1>4. i \in Inodes /\ node[i] \in Record /\ node[i].kind # "Dir"
  BY <1>1, <1>3, <1>a DEF TypeOK, IsDir
<1>5. Put(p, n, 0)
  BY <1>1, <1>3 DEF Put, TypeOK
<1>6. IndexOK'
  BY <1>1, <1>3, <1>5, DropIndex
<1>7. r \in Record /\ r.nlink = IF node[i].nlink > 0 THEN node[i].nlink - 1 ELSE 0
  BY <1>4, <1>c DEF Record
<1>8. r.nlink = 1 => SingleLink(r, rest) \in Record
  <2> SUFFICES ASSUME r.nlink = 1, Cardinality(rest) = 1 PROVE SingleLink(r, rest) \in Record
    BY <1>7 DEF SingleLink
  <2>1. node[i].nlink > 1
    BY <1>4, <1>7 DEF Record
  <2>2. links[i] = EntriesOf(i)
    BY <1>1, <1>4, <2>1 DEF Story, InodesSound, Sound
  <2>3. rest \subseteq Inodes \X Names /\ rest # {}
    <3>1. Cardinality({}) = 0
      BY FS_EmptySet
    <3>2. rest # {}
      BY <3>1
    <3> QED
      BY <1>b, <2>2, <3>2 DEF EntriesOf, Entries
  <2>4. PICK e : e = CHOOSE x \in rest : TRUE
    OBVIOUS
  <2>5. e[1] \in {0} \cup Inodes /\ e[2] \in Names
    BY <2>3, <2>4
  <2>6. Pieces(e[2]) \in Recorded
    BY <2>5 DEF Recorded
  <2>7. SingleLink(r, rest) = IF Pieces(e[2]) = <<>> THEN r ELSE [r EXCEPT !.parent = e[1], !.name = Pieces(e[2])]
    BY <2>4 DEF SingleLink
  <2>8. [r EXCEPT !.parent = e[1], !.name = Pieces(e[2])] \in Record
    BY <1>7, <2>5, <2>6, RecordTypes
  <2> QED
    BY <1>7, <2>7, <2>8
<1>9. KeysOK'
  <2>1. node' \in [Inodes -> Record]
    <3>1. MarkDeleted(r) \in Record
      BY <1>7, RecordTypes
    <3>2. PICK w : w = CASE r.nlink = 0 -> MarkDeleted(r)
                         [] r.nlink = 1 -> SingleLink(r, rest)
                         [] OTHER -> r
      OBVIOUS
    <3>3. w \in Record
      BY <1>7, <1>8, <3>1, <3>2
    <3>4. node' = [node EXCEPT ![i] = w]
      BY <1>3, <3>2
    <3> QED
      BY <1>1, <3>3, <3>4 DEF TypeOK
  <2>2. dir' \in [Inodes -> [Names -> {0} \cup Inodes]]
    BY <1>1, <1>3 DEF TypeOK
  <2>3. links' \in [Inodes -> SUBSET (({0} \cup Inodes) \X Recorded)]
    <3>1. PICK l : l = IF r.nlink = 1 /\ Cardinality(rest) = 1 THEN {} ELSE rest
      OBVIOUS
    <3>2. l \in SUBSET (({0} \cup Inodes) \X Recorded)
      BY <1>1, <1>4, <1>b, <3>1 DEF TypeOK
    <3> QED
      BY <1>1, <1>3, <3>1, <3>2 DEF TypeOK
  <2>4. deleted' \subseteq Inodes /\ trash' \subseteq Inodes
    BY <1>1, <1>3, <1>4 DEF TypeOK
  <2> QED
    BY <2>1, <2>2, <2>3, <2>4 DEF KeysOK
<1>10. TypeOK' /\ NamesIndexed'
  BY <1>1, <1>3, <1>6, <1>9, TypeParts
<1> QED
  BY <1>2, <1>10 DEF IInv

\* rmdir
LEMMA RmdirKeeps ==
  ASSUME IInv, ~drifted, NEW p \in Inodes, NEW n \in Names, Rmdir(p, n)
  PROVE  IInv'
<1>1. TypeOK /\ NamesIndexed /\ Story
  BY DEF IInv
<1>2. Story'
  BY <1>1, RmdirStory
<1>a. PICK i : i = dir[p][n]
  OBVIOUS
<1>3. i # 0 /\ IsDir(i) /\ Listing(i) = {}
  BY <1>a DEF Rmdir, EmptyDir
<1>4. i \in Inodes /\ IsDir(p) /\ i # p
  <2>1. i \in Inodes /\ i # Root /\ IsDir(p) /\ node[i].parent = p
    BY <1>1, <1>3, <1>a, Target DEF IsDir
  <2> QED
    BY <1>1, <1>3, <2>1, NotOwnParent
<1>5. /\ node' = [node EXCEPT ![i] = Missing, ![p].nlink = @ - 1]
      /\ dir' = [dir EXCEPT ![p][n] = 0, ![i] = NoEntries]
      /\ index' = [Unnamed(index, p, n) EXCEPT ![i] = NoIndex]
      /\ trash' = trash \ {i} /\ UNCHANGED <<links, deleted, client, nextIno, drifted>>
  <2>1. Exists(p)
    BY <1>4 DEF Exists, IsDir
  <2> QED
    BY <1>a, <2>1 DEF Rmdir
<1>6. Put(p, n, 0)
  <2> SUFFICES ASSUME NEW d \in Inodes, NEW x \in Names
               PROVE  dir'[d][x] = IF d = p /\ x = n THEN 0 ELSE dir[d][x]
    BY DEF Put
  <2>1. dir[i][x] = 0
    BY <1>3 DEF Listing
  <2> QED
    BY <1>1, <1>4, <1>5, <2>1 DEF TypeOK, NoEntries
<1>7. IndexOK'
  BY <1>1, <1>4, <1>5, <1>6, RmdirIndex
<1>8. KeysOK'
  <2>1. node' \in [Inodes -> Record]
    <3>1. PICK h : h = [node[p] EXCEPT !.nlink = node[p].nlink - 1]
      OBVIOUS
    <3>2. h \in Record /\ Missing \in Record
      <4>1. node[p] \in Record /\ node[p].nlink - 1 \in Nat
        BY <1>1, <1>4, DirNlink DEF TypeOK
      <4> QED
        BY <3>1, <4>1, RecordTypes
    <3>3. node' = [k \in Inodes |-> IF k = i THEN Missing ELSE IF k = p THEN h ELSE node[k]]
      BY <1>1, <1>4, <1>5, <3>1 DEF TypeOK
    <3> QED
      BY <1>1, <3>2, <3>3 DEF TypeOK
  <2>2. dir' \in [Inodes -> [Names -> {0} \cup Inodes]]
    BY <1>1, <1>5 DEF TypeOK, NoEntries
  <2> QED
    BY <1>1, <1>5, <2>1, <2>2 DEF KeysOK, TypeOK
<1>9. TypeOK' /\ NamesIndexed'
  BY <1>1, <1>5, <1>7, <1>8, TypeParts
<1> QED
  BY <1>2, <1>9 DEF IInv

\* readdir_page
LEMMA BuildKeeps ==
  ASSUME IInv, ~drifted, NEW p \in Inodes, BuildIndex(p)
  PROVE  IInv'
<1>1. TypeOK /\ NamesIndexed /\ Story
  BY DEF IInv
<1>2. /\ index' = [index EXCEPT ![p] = [complete |-> TRUE, names |-> Listing(p)]]
      /\ UNCHANGED <<node, dir, links, deleted, trash, client, nextIno, drifted>>
  BY DEF BuildIndex
<1>3. LinkTargets'
  BY <1>1, <1>2 DEF Story, LinkTargets
<1>4. Story'
  BY <1>1, <1>2, <1>3, QuietStory
<1>5. IndexOK'
  <2>1. \A d \in Inodes : Listing(d)' = Listing(d) /\ Listing(d) \subseteq Names
    BY <1>2 DEF Listing
  <2>2. index' \in [Inodes -> [complete: BOOLEAN, names: SUBSET Names]]
    BY <1>1, <1>2, <2>1 DEF TypeOK
  <2>3. ASSUME NEW d \in Inodes, index'[d].complete PROVE index'[d].names = Listing(d)'
    <3>1. CASE d = p
      BY <1>1, <1>2, <2>1, <3>1 DEF TypeOK
    <3>2. CASE d # p
      BY <1>1, <1>2, <2>1, <2>3, <3>2 DEF TypeOK, NamesIndexed
    <3> QED
      BY <3>1, <3>2
  <2> QED
    BY <2>2, <2>3 DEF IndexOK, NamesIndexed
<1>6. KeysOK'
  BY <1>1, <1>2 DEF TypeOK, KeysOK
<1>7. TypeOK' /\ NamesIndexed'
  BY <1>1, <1>2, <1>5, <1>6, TypeParts
<1> QED
  BY <1>4, <1>7 DEF IInv

\* rename
LEMMA RenameKeeps ==
  ASSUME IInv, ~drifted, NEW p \in Inodes, NEW n \in Names, NEW q \in Inodes, NEW m \in Names,
         NEW noreplace \in BOOLEAN, Rename(p, n, q, m, noreplace)
  PROVE  IInv'
<1>1. TypeOK /\ NamesIndexed /\ Story
  BY DEF IInv
<1>2. Story' /\ IndexOK'
  BY <1>1, RenameStory, RenameIndex
<1>a. PICK i : i = dir[p][n]
  OBVIOUS
<1>b. PICK j : j = dir[q][m]
  OBVIOUS
<1> DEFINE gone == j # 0 /\ IsDir(j)
           dies == j # 0 /\ ~IsDir(j) /\ node[j].nlink <= 1
<1>3. i # 0 /\ IsDir(q) /\ i \in Inodes /\ (j # 0 => j \in Inodes /\ j # i)
  BY <1>1, <1>a, <1>b DEF Rename, TypeOK
<1>4. node' \in [Inodes -> Record]
  <2> DEFINE N(k) == CASE k = i -> MovedRecord(i, <<q, m>>)
                       [] k = j -> Replaced(j, q, m)
                       [] k = q -> [node[q] EXCEPT !.nlink = @ + (IF p = q THEN 0 ELSE DotDot(node[i].kind))
                                                              - IF gone THEN 1 ELSE 0]
                       [] k = p /\ p # q /\ Exists(p) -> [node[p] EXCEPT !.nlink = @ - DotDot(node[i].kind)]
                       [] OTHER -> node[k]
  <2>1. node' = [k \in Inodes |-> N(k)]
    BY <1>a, <1>b DEF Rename
  <2>2. MovedRecord(i, <<q, m>>) \in Record
    <3>1. node[i] \in Record /\ q \in {0} \cup Inodes /\ 0 \in {0} \cup Inodes /\ m \in Recorded /\ NoName \in Recorded
      BY <1>1, <1>3, RecordTypes DEF TypeOK
    <3>2. /\ [node[i] EXCEPT !.parent = q, !.name = m] \in Record
          /\ [node[i] EXCEPT !.parent = 0, !.name = NoName] \in Record
      BY <3>1, RecordTypes
    <3> QED
      BY <3>2 DEF MovedRecord
  <2>3. j # 0 => Replaced(j, q, m) \in Record
    <3> SUFFICES ASSUME j # 0 PROVE Replaced(j, q, m) \in Record
      OBVIOUS
    <3>1. j \in Inodes /\ node[j] \in Record /\ node[j].nlink \in Nat
      BY <1>1, <1>3 DEF TypeOK, Record
    <3>2. CASE IsDir(j)
      BY <3>2, RecordTypes DEF Replaced
    <3>3. CASE ~IsDir(j) /\ node[j].nlink <= 1
      <4>1. Replaced(j, q, m) = MarkDeleted(node[j])
        BY <3>3 DEF Replaced
      <4>2. MarkDeleted(node[j]) \in Record
        BY <3>1, RecordTypes
      <4> QED
        BY <4>1, <4>2
    <3>4. CASE ~IsDir(j) /\ node[j].nlink = 2
      <4>1. PICK rest : rest = links[j] \ {<<q, m>>}
        OBVIOUS
      <4>2. links[j] = EntriesOf(j) /\ IsFiniteSet(links[j])
        BY <1>1, <3>1, <3>4 DEF Story, InodesSound, Sound, IsDir
      <4>3. Cardinality(links[j]) = 2 /\ <<q, m>> \in links[j]
        <5>1. Replaceable(i, j, q, m)
          BY <1>a, <1>b DEF Rename
        <5>2. FileReplaceable(j, q, m)
          BY <3>4, <5>1 DEF Replaceable
        <5> QED
          BY <3>4, <5>2 DEF FileReplaceable
      <4>4. rest # {}
        <5>1. Cardinality(rest) = 1
          <6>1. Cardinality(rest) = Cardinality(links[j]) - 1
            BY <4>1, <4>2, <4>3, FS_RemoveElement
          <6> QED
            BY <4>3, <6>1
        <5>2. Cardinality({}) = 0
          BY FS_EmptySet
        <5> QED
          BY <5>1, <5>2
      <4>5. PICK e : e = CHOOSE x \in rest : TRUE
        OBVIOUS
      <4>6. e \in Inodes \X Names
        BY <4>1, <4>2, <4>4, <4>5 DEF EntriesOf, Entries
      <4>7. e[1] \in {0} \cup Inodes /\ e[2] \in Recorded
        BY <4>6, RecordTypes
      <4>8. Replaced(j, q, m) = [node[j] EXCEPT !.nlink = 1, !.parent = e[1], !.name = e[2]]
        BY <3>4, <4>1, <4>5 DEF Replaced
      <4>9. PICK a : a = [node[j] EXCEPT !.nlink = 1]
        OBVIOUS
      <4>10. a \in Record
        BY <3>1, <4>9, RecordTypes
      <4>11. [a EXCEPT !.parent = e[1], !.name = e[2]] \in Record
        BY <4>7, <4>10, RecordTypes
      <4>12. [node[j] EXCEPT !.nlink = 1, !.parent = e[1], !.name = e[2]] =
              [a EXCEPT !.parent = e[1], !.name = e[2]]
        BY ONLY <3>1, <4>9 DEF Record
      <4> QED
        BY <4>8, <4>11, <4>12
    <3>5. CASE ~IsDir(j) /\ ~(node[j].nlink <= 1) /\ node[j].nlink # 2
      <4>1. Replaced(j, q, m) = [node[j] EXCEPT !.nlink = @ - 1] /\ node[j].nlink - 1 \in Nat
        BY <3>1, <3>5 DEF Replaced
      <4> QED
        BY <3>1, <4>1, RecordTypes
    <3> QED
      BY <3>1, <3>2, <3>3, <3>4, <3>5
  <2>4. [node[q] EXCEPT !.nlink = @ + (IF p = q THEN 0 ELSE DotDot(node[i].kind))
                                    - IF gone THEN 1 ELSE 0] \in Record
    <3>1. node[q] \in Record /\ node[q].nlink \in Nat /\ node[q].nlink - 1 \in Nat /\ DotDot(node[i].kind) \in Nat
      BY <1>1, <1>3, DirNlink DEF TypeOK, DotDot
    <3>2. node[q].nlink + (IF p = q THEN 0 ELSE DotDot(node[i].kind)) - (IF gone THEN 1 ELSE 0) \in Nat
      BY <3>1
    <3> QED
      BY <3>1, <3>2, RecordTypes
  <2>5. Exists(p) => [node[p] EXCEPT !.nlink = @ - DotDot(node[i].kind)] \in Record
    <3> SUFFICES ASSUME Exists(p) PROVE [node[p] EXCEPT !.nlink = @ - DotDot(node[i].kind)] \in Record
      OBVIOUS
    <3>1. Listing(p) # {}
      BY <1>3, <1>a DEF Listing
    <3>2. IsDir(p)
      BY <1>1, <3>1 DEF Story, HoldersKnown, IsDir, Exists
    <3>3. node[p] \in Record /\ node[p].nlink - DotDot(node[i].kind) \in Nat
      BY <1>1, <3>2, DirNlink DEF TypeOK, DotDot
    <3> QED
      BY <3>3, RecordTypes
  <2>6. ASSUME NEW k \in Inodes PROVE N(k) \in Record
    <3>0. 0 \notin Inodes
      BY NamespaceAssumption DEF Inodes
    <3>1. node[k] \in Record /\ 0 \notin Inodes
      BY <1>1, <3>0 DEF TypeOK
    <3>2. PICK a : a = [node[q] EXCEPT !.nlink = @ + (IF p = q THEN 0 ELSE DotDot(node[i].kind))
                                    - IF gone THEN 1 ELSE 0]
      OBVIOUS
    <3>3. PICK b : b = [node[p] EXCEPT !.nlink = @ - DotDot(node[i].kind)]
      OBVIOUS
    <3>4. k = j => j # 0
      BY <3>1
    <3>5. N(k) = CASE k = i -> MovedRecord(i, <<q, m>>) [] k = j -> Replaced(j, q, m) [] k = q -> a
                   [] k = p /\ p # q /\ Exists(p) -> b [] OTHER -> node[k]
      BY <3>2, <3>3
    <3> HIDE DEF N
    <3>6. a \in Record /\ (Exists(p) => b \in Record)
      BY <2>4, <2>5, <3>2, <3>3
    <3> QED
      BY <2>2, <2>3, <3>1, <3>4, <3>5, <3>6
  <2> HIDE DEF N
  <2> QED
    BY <2>1, <2>6
<1>5. links' \in [Inodes -> SUBSET (({0} \cup Inodes) \X Recorded)]
  <2> DEFINE L(k) == CASE k = i -> MovedLinks(i, <<p, n>>, <<q, m>>)
                       [] k = j -> IF IsDir(j) THEN links[j]
                                   ELSE IF node[j].nlink <= 2 THEN {} ELSE links[j] \ {<<q, m>>}
                       [] OTHER -> links[k]
  <2>1. links' = [k \in Inodes |-> L(k)]
    BY <1>a, <1>b DEF Rename
  <2>2. \A k \in Inodes : links[k] \subseteq ({0} \cup Inodes) \X Recorded
    BY <1>1 DEF TypeOK
  <2>3. MovedLinks(i, <<p, n>>, <<q, m>>) \subseteq ({0} \cup Inodes) \X Recorded
    <3>1. <<q, m>> \in ({0} \cup Inodes) \X Recorded
      BY RecordTypes
    <3> QED
      BY <1>3, <2>2, <3>1 DEF MovedLinks
  <2>4. ASSUME NEW k \in Inodes PROVE L(k) \subseteq ({0} \cup Inodes) \X Recorded
    BY <2>2, <2>3
  <2> HIDE DEF L
  <2> QED
    BY <2>1, <2>4
<1>6. /\ dir' = [[dir EXCEPT ![p][n] = 0] EXCEPT ![q][m] = i]
      /\ deleted' = (IF dies THEN deleted \cup {j} ELSE deleted)
      /\ trash' = (IF dies THEN trash \cup {j} ELSE IF gone THEN trash \ {j} ELSE trash)
      /\ UNCHANGED <<client, nextIno, drifted>>
  BY <1>a, <1>b DEF Rename, EntryMoved
<1>7. dir' \in [Inodes -> [Names -> {0} \cup Inodes]]
  <2>1. PICK g : g = [dir EXCEPT ![p][n] = 0]
    OBVIOUS
  <2>2. g \in [Inodes -> [Names -> {0} \cup Inodes]]
    BY <1>1, <2>1 DEF TypeOK
  <2>3. dir' = [g EXCEPT ![q][m] = i]
    BY <1>6, <2>1
  <2> QED
    BY <1>3, <2>2, <2>3
<1>8. deleted' \subseteq Inodes /\ trash' \subseteq Inodes
  BY <1>1, <1>3, <1>6 DEF TypeOK
<1>9. KeysOK'
  BY <1>4, <1>5, <1>7, <1>8 DEF KeysOK
<1>10. TypeOK' /\ NamesIndexed'
  BY <1>1, <1>2, <1>6, <1>9, TypeParts
<1> QED
  BY <1>2, <1>10 DEF IInv

\* rename_exchange
LEMMA ExchangeKeeps ==
  ASSUME IInv, ~drifted, NEW p \in Inodes, NEW n \in Names, NEW q \in Inodes, NEW m \in Names,
         RenameExchange(p, n, q, m)
  PROVE  IInv'
<1>1. TypeOK /\ NamesIndexed /\ Story
  BY DEF IInv
<1>2. Story'
  BY <1>1, ExchangeStory
<1>a. PICK i : i = dir[p][n]
  OBVIOUS
<1>b. PICK j : j = dir[q][m]
  OBVIOUS
<1>e. PICK delta : delta = IF p = q THEN 0 ELSE DotDot(node[j].kind) - DotDot(node[i].kind)
  OBVIOUS
<1>3. /\ i # 0 /\ j # 0 /\ i # j /\ IsDir(p) /\ IsDir(q) /\ i \in Inodes /\ j \in Inodes
      /\ IsDir(i) => ValidAncestry(q, i)
      /\ IsDir(j) => ValidAncestry(p, j)
  BY <1>1, <1>a, <1>b DEF RenameExchange, ExchangeValid, TypeOK
<1>4. i # p /\ i # q /\ j # p /\ j # q
  <2>1. i # p /\ i # q
    BY <1>1, <1>3, <1>a, MoveApart
  <2>2. j # p /\ j # q
    BY <1>1, <1>3, <1>b, MoveApart
  <2> QED
    BY <2>1, <2>2
<1>5. /\ dir' = [dir EXCEPT ![p][n] = j, ![q][m] = i]
      /\ links' = [links EXCEPT ![i] = MovedLinks(i, <<p, n>>, <<q, m>>), ![j] = MovedLinks(j, <<q, m>>, <<p, n>>)]
      /\ UNCHANGED <<deleted, trash, index, client, nextIno, drifted>>
  BY <1>a, <1>b DEF RenameExchange
<1>6. node' \in [Inodes -> Record]
  <2>1. \A k \in {i, j}, d \in Inodes, x \in Names : MovedRecord(k, <<d, x>>) \in Record
    <3> SUFFICES ASSUME NEW k \in {i, j}, NEW d \in Inodes, NEW x \in Names
                 PROVE  MovedRecord(k, <<d, x>>) \in Record
      OBVIOUS
    <3>1. node[k] \in Record /\ d \in {0} \cup Inodes /\ 0 \in {0} \cup Inodes /\ x \in Recorded /\ NoName \in Recorded
      BY <1>1, <1>3, RecordTypes DEF TypeOK
    <3>2. /\ [node[k] EXCEPT !.parent = d, !.name = x] \in Record
          /\ [node[k] EXCEPT !.parent = 0, !.name = NoName] \in Record
      BY <3>1, RecordTypes
    <3> QED
      BY <3>2 DEF MovedRecord
  <2>2. PICK g : g = [node EXCEPT ![i] = MovedRecord(i, <<q, m>>), ![j] = MovedRecord(j, <<p, n>>)]
    OBVIOUS
  <2>3. g \in [Inodes -> Record] /\ g[p] = node[p] /\ g[q] = node[q]
    BY <1>1, <1>3, <1>4, <2>1, <2>2 DEF TypeOK
  <2>4. PICK h : h = [g EXCEPT ![p].nlink = @ + delta]
    OBVIOUS
  <2>5. node' = [h EXCEPT ![q].nlink = @ - delta]
    BY <1>a, <1>b, <1>e, <2>2, <2>4 DEF RenameExchange
  <2>6. /\ node[p].nlink \in Nat /\ node[q].nlink \in Nat /\ delta \in Int
        /\ node[p].nlink + delta \in Nat /\ node[q].nlink - delta \in Nat /\ (p = q => delta = 0)
    <3>1. node[p].nlink \in Nat /\ node[p].nlink - 1 \in Nat /\ node[q].nlink \in Nat /\ node[q].nlink - 1 \in Nat
      BY <1>1, <1>3, DirNlink
    <3>2. delta \in {0, 1, -1} /\ (p = q => delta = 0)
      BY <1>e DEF DotDot
    <3> QED
      BY <3>1, <3>2
  <2>7. PICK a : a = [node[p] EXCEPT !.nlink = node[p].nlink + delta]
    OBVIOUS
  <2>8. a \in Record /\ a.nlink = node[p].nlink + delta
    <3>1. node[p] \in Record
      BY <1>1 DEF TypeOK
    <3>2. a \in Record
      BY <2>6, <2>7, <3>1, RecordTypes
    <3> QED
      BY <2>7, <3>1, <3>2 DEF Record
  <2>9. h = [k \in Inodes |-> IF k = p THEN a ELSE g[k]]
    BY <2>3, <2>4, <2>7
  <2>10. PICK b : b = [h[q] EXCEPT !.nlink = h[q].nlink - delta]
    OBVIOUS
  <2>11. b \in Record
    <3>1. h[q] \in Record /\ h[q].nlink - delta \in Nat
      <4>1. CASE p = q
        BY <2>6, <2>8, <2>9, <4>1
      <4>2. CASE p # q
        BY <2>3, <2>6, <2>9, <4>2
      <4> QED
        BY <4>1, <4>2
    <3> QED
      BY <2>10, <3>1, RecordTypes
  <2>12. node' = [k \in Inodes |-> IF k = q THEN b ELSE h[k]]
    BY <2>5, <2>9, <2>10
  <2> QED
    BY <2>3, <2>8, <2>9, <2>11, <2>12
<1>7. dir' \in [Inodes -> [Names -> {0} \cup Inodes]]
  BY <1>1, <1>3, <1>5 DEF TypeOK
<1>8. links' \in [Inodes -> SUBSET (({0} \cup Inodes) \X Recorded)]
  <2>1. \A k \in Inodes : links[k] \subseteq ({0} \cup Inodes) \X Recorded
    BY <1>1 DEF TypeOK
  <2>2. \A d \in Inodes, x \in Names : <<d, x>> \in ({0} \cup Inodes) \X Recorded
    BY RecordTypes
  <2>3. /\ MovedLinks(i, <<p, n>>, <<q, m>>) \subseteq ({0} \cup Inodes) \X Recorded
        /\ MovedLinks(j, <<q, m>>, <<p, n>>) \subseteq ({0} \cup Inodes) \X Recorded
    BY <1>3, <2>1, <2>2 DEF MovedLinks
  <2> QED
    BY <1>1, <1>5, <2>3 DEF TypeOK
<1>9. IndexOK'
  <2>1. ASSUME NEW d \in Inodes PROVE Listing(d)' = Listing(d)
    <3>1. ASSUME NEW x \in Names PROVE dir'[d][x] # 0 <=> dir[d][x] # 0
      BY <1>1, <1>3, <1>5, <1>a, <1>b DEF TypeOK
    <3> QED
      BY <3>1 DEF Listing
  <2> QED
    BY <1>1, <1>5, <2>1 DEF IndexOK, NamesIndexed, TypeOK
<1>10. KeysOK'
  BY <1>1, <1>5, <1>6, <1>7, <1>8 DEF KeysOK, TypeOK
<1>11. TypeOK' /\ NamesIndexed'
  BY <1>1, <1>5, <1>9, <1>10, TypeParts
<1> QED
  BY <1>2, <1>11 DEF IInv

\* restore_deleted_file
LEMMA RestoreKeeps ==
  ASSUME IInv, ~drifted, NEW i \in Inodes, NEW p \in Inodes, NEW n \in Names, RestoreDeletedFile(i, p, n)
  PROVE  IInv'
<1>1. TypeOK /\ NamesIndexed /\ Story
  BY DEF IInv
<1>2. Story'
  BY <1>1, RestoreStory
<1>3. /\ node' = [node EXCEPT ![i].deleted = FALSE, ![i].nlink = 1, ![i].parent = p, ![i].name = n]
      /\ trash' = trash \ {i} /\ deleted' = deleted \ {i} /\ dir' = [dir EXCEPT ![p][n] = i]
      /\ index' = Named(index, p, n, Listing(p) = {})
      /\ UNCHANGED <<links, client, nextIno, drifted>>
  BY DEF RestoreDeletedFile, Undeleted
<1>4. IndexOK'
  BY <1>1, <1>3, AddIndex
<1>5. node' \in [Inodes -> Record]
  <2>1. n \in Recorded
    BY RecordTypes
  <2>2. node[i] \in Record
    BY <1>1 DEF TypeOK
  <2>3. PICK w : w = [kind |-> node[i].kind, nlink |-> 1, parent |-> p, name |-> n, deleted |-> FALSE]
    OBVIOUS
  <2>4. w \in Record
    BY <2>1, <2>2, <2>3 DEF Record
  <2>5. node'[i] = w
    BY <1>1, <1>3, <2>2, <2>3 DEF TypeOK, Record
  <2>6. node' = [k \in Inodes |-> IF k = i THEN w ELSE node[k]]
    BY <1>1, <1>3, <2>5 DEF TypeOK
  <2> QED
    BY <1>1, <2>4, <2>6 DEF TypeOK
<1>6. KeysOK'
  <2>1. dir' \in [Inodes -> [Names -> {0} \cup Inodes]]
    BY <1>1, <1>3 DEF TypeOK
  <2> QED
    BY <1>1, <1>3, <1>5, <2>1 DEF KeysOK, TypeOK
<1>7. TypeOK' /\ NamesIndexed'
  BY <1>1, <1>3, <1>4, <1>6, TypeParts
<1> QED
  BY <1>2, <1>7 DEF IInv

\* A step that leaves the directory hashes and their indexes alone
LEMMA SameIndex ==
  ASSUME TypeOK, NamesIndexed, UNCHANGED <<dir, index>>
  PROVE  IndexOK'
BY DEF IndexOK, NamesIndexed, TypeOK, Listing

\* remove_file_metadata
LEMMA RemoveKeeps ==
  ASSUME IInv, ~drifted, NEW i \in Inodes, RemoveFileMetadata(i)
  PROVE  IInv'
<1>1. TypeOK /\ NamesIndexed /\ Story
  BY DEF IInv
<1>2. Story'
  BY <1>1, RemoveStory
<1>3. /\ node' = [node EXCEPT ![i] = Missing] /\ deleted' = deleted \ {i} /\ trash' = trash \ {i}
      /\ UNCHANGED <<dir, links, index, client, nextIno, drifted>>
  BY DEF RemoveFileMetadata
<1>4. IndexOK'
  BY <1>1, <1>3, SameIndex
<1>5. KeysOK'
  <2>1. Missing \in Record
    BY RecordTypes
  <2> QED
    BY <1>1, <1>3, <2>1 DEF KeysOK, TypeOK
<1>6. TypeOK' /\ NamesIndexed'
  BY <1>1, <1>3, <1>4, <1>5, TypeParts
<1> QED
  BY <1>2, <1>6 DEF IInv

\* The steps of a client that change nothing else
LEMMA ClientKeeps ==
  ASSUME IInv, ~drifted, NEW c \in Clients, NEW x \in Task, client' = [client EXCEPT ![c] = x],
         UNCHANGED <<keys, nextIno, drifted>>,
         x.op = "link" => x.parent < nextIno /\ node[x.parent].kind \in {"Dir", "none"}
  PROVE  IInv'
<1>1. TypeOK /\ NamesIndexed /\ Story
  BY DEF IInv
<1>2. UNCHANGED <<node, dir, links, deleted, trash, nextIno>> /\ UNCHANGED <<dir, index>>
  BY DEF keys
<1>3. Story'
  BY <1>1, <1>2, ClientStory
<1>4. IndexOK'
  BY <1>1, <1>2, SameIndex
<1>5. KeysOK'
  BY <1>1, <1>2 DEF KeysOK, TypeOK
<1>6. client' \in [Clients -> Task]
  BY <1>1, TypeParts
<1>7. TypeOK' /\ NamesIndexed'
  BY <1>1, <1>2, <1>4, <1>5, <1>6, TypeParts
<1> QED
  BY <1>3, <1>7 DEF IInv

\* link, before its script
LEMMA LinkStartKeeps ==
  ASSUME IInv, ~drifted, NEW c \in Clients, NEW i \in Inodes, NEW p \in Inodes, NEW n \in Names,
         LinkStart(c, i, p, n)
  PROVE  IInv'
<1>1. TypeOK /\ Story
  BY DEF IInv
<1>2. PICK x : x = [op |-> "link", ino |-> i, parent |-> p, name |-> n]
  OBVIOUS
<1>3. x \in Task /\ x.parent = p
  BY <1>2 DEF Task
<1>4. client' = [client EXCEPT ![c] = x] /\ UNCHANGED <<keys, nextIno, drifted>> /\ IsDir(p)
  BY <1>2 DEF LinkStart
<1>5. p < nextIno /\ node[p].kind \in {"Dir", "none"}
  <2>1. node[p] # Missing /\ p \in Nat /\ nextIno \in Nat /\ node[p].kind = "Dir"
    BY <1>1, <1>4, NamespaceAssumption DEF IsDir, Missing, TypeOK, Inodes
  <2> QED
    BY <1>1, <2>1 DEF Story, Fresh
<1> QED
  BY <1>3, <1>4, <1>5, ClientKeeps

\* bump_dir_times, before it writes
LEMMA BumpReadKeeps ==
  ASSUME IInv, ~drifted, NEW c \in Clients, BumpRead(c)
  PROVE  IInv'
<1>1. TypeOK /\ Story
  BY DEF IInv
<1>2. PICK p : p = client[c].ino
  OBVIOUS
<1>3. p \in Inodes /\ node[p] \in Record
  BY <1>1, <1>2 DEF BumpRead, TypeOK, Idle
<1>4. PICK x : x = IF IsDir(p) THEN [op |-> "save", ino |-> p, rec |-> node[p]] ELSE Idle
  OBVIOUS
<1>5. x \in Task /\ x.op # "link"
  BY <1>3, <1>4 DEF Task, Idle
<1>6. client' = [client EXCEPT ![c] = x] /\ UNCHANGED <<keys, nextIno, drifted>>
  BY <1>2, <1>4 DEF BumpRead
<1> QED
  BY <1>5, <1>6, ClientKeeps

\* set_attr and set_file_size, before they write
LEMMA SetAttrReadKeeps ==
  ASSUME IInv, ~drifted, NEW c \in Clients, NEW i \in Inodes, SetAttrRead(c, i)
  PROVE  IInv'
<1>1. TypeOK /\ Story
  BY DEF IInv
<1>2. PICK x : x = [op |-> "save", ino |-> i, rec |-> node[i]]
  OBVIOUS
<1>3. x \in Task /\ x.op # "link"
  BY <1>1, <1>2 DEF Task, TypeOK
<1>4. client' = [client EXCEPT ![c] = x] /\ UNCHANGED <<keys, nextIno, drifted>>
  BY <1>2 DEF SetAttrRead
<1> QED
  BY <1>3, <1>4, ClientKeeps

\* save_node, whose record may be stale
LEMMA SaveNodeKeeps ==
  ASSUME IInv, ~drifted, NEW c \in Clients, SaveNode(c)
  PROVE  IInv'
<1>1. TypeOK /\ NamesIndexed /\ Story
  BY DEF IInv
<1>a. PICK i : i = client[c].ino
  OBVIOUS
<1>b. PICK r : r = client[c].rec
  OBVIOUS
<1>2. i \in Inodes /\ r \in Record
  BY <1>1, <1>a, <1>b DEF SaveNode, TypeOK, Idle
<1>3. /\ node' = [node EXCEPT ![i] = r] /\ client' = [client EXCEPT ![c] = Idle]
      /\ drifted' \in BOOLEAN /\ (~drifted' => node[i] = r)
      /\ UNCHANGED <<dir, links, deleted, trash, index, nextIno>>
  BY <1>a, <1>b DEF SaveNode
<1>4. ~drifted' => Story'
  <2> SUFFICES ASSUME ~drifted' PROVE Story'
    OBVIOUS
  <2>1. node' = node
    BY <1>1, <1>2, <1>3 DEF TypeOK
  <2>2. Idle.op # "link"
    BY DEF Idle
  <2> QED
    BY <1>1, <1>3, <2>1, <2>2, ClientStory
<1>5. IndexOK'
  BY <1>1, <1>3, SameIndex
<1>6. KeysOK'
  BY <1>1, <1>2, <1>3 DEF KeysOK, TypeOK
<1>7. client' \in [Clients -> Task]
  <2>1. Idle \in Task
    BY DEF Task
  <2> QED
    BY <1>1, <1>3, <2>1, TypeParts
<1>8. TypeOK' /\ NamesIndexed'
  BY <1>1, <1>3, <1>5, <1>6, <1>7, TypeParts
<1> QED
  BY <1>4, <1>8 DEF IInv

\* LINK_LUA
LEMMA LinkApplyKeeps ==
  ASSUME IInv, ~drifted, NEW c \in Clients, LinkApply(c)
  PROVE  IInv'
<1>1. TypeOK /\ NamesIndexed /\ Story
  BY DEF IInv
<1>2. Story'
  BY <1>1, LinkStory
<1>a. PICK i : i = client[c].ino
  OBVIOUS
<1>b. PICK p : p = client[c].parent
  OBVIOUS
<1>c. PICK n : n = client[c].name
  OBVIOUS
<1>3. i \in Inodes /\ p \in Inodes /\ n \in Names
  <2>1. client[c].op = "link"
    BY DEF LinkApply
  <2>2. client[c] \in [op: {"link"}, ino: Inodes, parent: Inodes, name: Names]
    BY <1>1, <2>1 DEF TypeOK, Idle
  <2> QED
    BY <1>a, <1>b, <1>c, <2>2
<1>4. UNCHANGED <<deleted, trash, nextIno, drifted>>
  BY DEF LinkApply
<1>5. CASE node[i].kind = "File" /\ ~node[i].deleted /\ node[i].nlink # 0 /\ dir[p][n] = 0
  <2>1. /\ links' = [links EXCEPT ![i] = LinksWith(i, p, n)]
        /\ node' = [node EXCEPT ![i].nlink = @ + 1,
                                ![i].parent = IF node[i].nlink = 1 THEN 0 ELSE @,
                                ![i].name = IF node[i].nlink = 1 THEN NoName ELSE @]
        /\ dir' = [dir EXCEPT ![p][n] = i]
        /\ index' = Named(index, p, n, Listing(p) = {})
        /\ client' = [client EXCEPT ![c] = [op |-> "bump", ino |-> p]]
    BY <1>5, <1>a, <1>b, <1>c DEF LinkApply
  <2>2. IndexOK'
    BY <1>1, <1>3, <2>1, AddIndex
  <2>3. node' \in [Inodes -> Record]
    <3>1. node[i] \in Record /\ NoName \in Recorded
      BY <1>1, <1>3, RecordTypes DEF TypeOK
    <3>2. PICK w : w = [kind |-> node[i].kind, nlink |-> node[i].nlink + 1,
                        parent |-> IF node[i].nlink = 1 THEN 0 ELSE node[i].parent,
                        name |-> IF node[i].nlink = 1 THEN NoName ELSE node[i].name,
                        deleted |-> node[i].deleted]
      OBVIOUS
    <3>3. w \in Record
      BY <3>1, <3>2 DEF Record
    <3>4. node'[i] = w
      BY <1>1, <1>3, <2>1, <3>1, <3>2 DEF TypeOK, Record
    <3>5. node' = [k \in Inodes |-> IF k = i THEN w ELSE node[k]]
      BY <1>1, <2>1, <3>4 DEF TypeOK
    <3> QED
      BY <1>1, <3>3, <3>5 DEF TypeOK
  <2>4. dir' \in [Inodes -> [Names -> {0} \cup Inodes]]
    BY <1>1, <1>3, <2>1 DEF TypeOK
  <2>5. links' \in [Inodes -> SUBSET (({0} \cup Inodes) \X Recorded)]
    <3>1. node[i] \in Record /\ links[i] \subseteq ({0} \cup Inodes) \X Recorded
      BY <1>1, <1>3 DEF TypeOK
    <3>2. /\ <<p, n>> \in ({0} \cup Inodes) \X Recorded
          /\ <<node[i].parent, node[i].name>> \in ({0} \cup Inodes) \X Recorded
      BY <1>3, <3>1, RecordTypes DEF Record
    <3>3. LinksWith(i, p, n) \subseteq ({0} \cup Inodes) \X Recorded
      BY <3>1, <3>2 DEF LinksWith
    <3> QED
      BY <1>1, <2>1, <3>3 DEF TypeOK
  <2>6. KeysOK'
    BY <1>1, <1>4, <2>3, <2>4, <2>5 DEF KeysOK, TypeOK
  <2>7. client' \in [Clients -> Task]
    <3>1. [op |-> "bump", ino |-> p] \in Task
      BY <1>3 DEF Task
    <3> QED
      BY <1>1, <2>1, <3>1, TypeParts
  <2>8. TypeOK' /\ NamesIndexed'
    BY <1>1, <1>4, <2>2, <2>6, <2>7, TypeParts
  <2> QED
    BY <1>2, <2>8 DEF IInv
<1>6. CASE ~(node[i].kind = "File" /\ ~node[i].deleted /\ node[i].nlink # 0 /\ dir[p][n] = 0)
  <2>1. client' = [client EXCEPT ![c] = Idle] /\ UNCHANGED <<keys, nextIno, drifted>>
    BY <1>4, <1>6, <1>a, <1>b, <1>c DEF LinkApply, keys
  <2>2. Idle \in Task /\ Idle.op # "link"
    BY DEF Task, Idle
  <2> QED
    BY <2>1, <2>2, ClientKeeps
<1> QED
  BY <1>5, <1>6

-----------------------------------------------------------------------------
(* The theorems. *)

\* Both initial states tell the story.
LEMMA InitIInv == Init => IInv
<1> SUFFICES ASSUME Init PROVE IInv
  OBVIOUS
<1>0. /\ Root \in Inodes /\ 0 \notin Inodes /\ MaxIno \in Nat /\ (MaxIno > 1 => 2 \in Inodes) /\ Root # 2
      /\ \A k \in Inodes : k \in Nat /\ k >= 1
  BY NamespaceAssumption DEF Root, Inodes
<1>1. /\ links = [i \in Inodes |-> {}] /\ deleted = {} /\ trash = {}
      /\ index = [i \in Inodes |-> NoIndex] /\ client = [c \in Clients |-> Idle] /\ drifted = FALSE
  BY DEF Init
<1>2. RootRecord \in Record /\ Missing \in Record
  <2>1. Missing \in Record /\ NoName \in Recorded
    BY RecordTypes
  <2> QED
    BY <1>0, <2>1 DEF RootRecord, Record
<1>3. IndexOK
  <2>1. NoIndex \in [complete: BOOLEAN, names: SUBSET Names] /\ ~NoIndex.complete
    BY DEF NoIndex
  <2> QED
    BY <1>1, <2>1 DEF IndexOK, NamesIndexed
<1>4. LinkTargets
  BY <1>1 DEF LinkTargets, Idle
<1>5. \E S \in SUBSET (Inodes \X Names) :
        /\ node \in [Inodes -> Record] /\ dir \in [Inodes -> [Names -> {0} \cup Inodes]]
        /\ nextIno \in 2 .. MaxIno + 1 /\ IsFiniteSet(S) /\ \A e \in S : e[1] = Root
        /\ \A d \in Inodes, x \in Names : dir[d][x] = IF <<d, x>> \in S THEN 2 ELSE 0
        /\ node[Root] = RootRecord
        /\ \A k \in Inodes : k # Root /\ k # 2 => node[k] = Missing
        /\ S = {} => nextIno = 2 /\ (2 \in Inodes => node[2] = Missing)
        /\ S # {} => /\ nextIno = 3 /\ 2 \in Inodes
                     /\ node[2].kind = "File" /\ node[2].nlink = 1 /\ ~node[2].deleted
                     /\ S = {<<node[2].parent, node[2].name>>}
  <2>1. CASE /\ node = [i \in Inodes |-> IF i = Root THEN RootRecord ELSE Missing]
             /\ dir = [i \in Inodes |-> NoEntries]
             /\ nextIno = 2
    <3> WITNESS {} \in SUBSET (Inodes \X Names)
    <3>1. IsFiniteSet({})
      BY FS_EmptySet
    <3>2. node \in [Inodes -> Record]
      BY <1>2, <2>1
    <3>3. dir \in [Inodes -> [Names -> {0} \cup Inodes]]
      BY <2>1 DEF NoEntries
    <3>4. \A d \in Inodes, x \in Names : dir[d][x] = 0
      BY <2>1 DEF NoEntries
    <3>5. nextIno \in 2 .. MaxIno + 1
      BY <2>1, NamespaceAssumption
    <3> QED
      BY <1>0, <2>1, <3>1, <3>2, <3>3, <3>4, <3>5
  <2>2. ASSUME NEW n \in Names, MaxIno > 1,
               node = [i \in Inodes |->
                 CASE i = Root -> RootRecord
                   [] i = 2 -> [kind |-> "File", nlink |-> 1, parent |-> Root, name |-> n, deleted |-> FALSE]
                   [] OTHER -> Missing],
               dir = [i \in Inodes |-> IF i = Root THEN [NoEntries EXCEPT ![n] = 2] ELSE NoEntries],
               nextIno = 3
        PROVE  \E S \in SUBSET (Inodes \X Names) :
                 /\ node \in [Inodes -> Record] /\ dir \in [Inodes -> [Names -> {0} \cup Inodes]]
                 /\ nextIno \in 2 .. MaxIno + 1 /\ IsFiniteSet(S) /\ \A e \in S : e[1] = Root
                 /\ \A d \in Inodes, x \in Names : dir[d][x] = IF <<d, x>> \in S THEN 2 ELSE 0
                 /\ node[Root] = RootRecord
                 /\ \A k \in Inodes : k # Root /\ k # 2 => node[k] = Missing
                 /\ S = {} => nextIno = 2 /\ (2 \in Inodes => node[2] = Missing)
                 /\ S # {} => /\ nextIno = 3 /\ 2 \in Inodes
                              /\ node[2].kind = "File" /\ node[2].nlink = 1 /\ ~node[2].deleted
                              /\ S = {<<node[2].parent, node[2].name>>}
    <3> {<<Root, n>>} \in SUBSET (Inodes \X Names)
      BY <1>0
    <3> WITNESS {<<Root, n>>} \in SUBSET (Inodes \X Names)
    <3>2. IsFiniteSet({<<Root, n>>})
      BY FS_Singleton
    <3>3. PICK r : r = [kind |-> "File", nlink |-> 1, parent |-> Root, name |-> n, deleted |-> FALSE]
      OBVIOUS
    <3>4. r \in Record
      <4>1. n \in Recorded
        BY RecordTypes
      <4> QED
        BY <1>0, <3>3, <4>1 DEF Record
    <3>5. node[Root] = RootRecord /\ node[2] = r /\ \A k \in Inodes : k # Root /\ k # 2 => node[k] = Missing
      BY <1>0, <2>2, <3>3
    <3>6. node \in [Inodes -> Record]
      <4>1. node = [k \in Inodes |-> node[k]]
        BY <2>2
      <4> QED
        BY <1>2, <3>4, <3>5, <4>1
    <3>7. \A d \in Inodes, x \in Names : dir[d][x] = IF d = Root /\ x = n THEN 2 ELSE 0
      BY <2>2 DEF NoEntries
    <3>8. dir \in [Inodes -> [Names -> {0} \cup Inodes]]
      BY <1>0, <2>2 DEF NoEntries
    <3>9. \A d \in Inodes, x \in Names : <<d, x>> \in {<<Root, n>>} <=> d = Root /\ x = n
      OBVIOUS
    <3>10. \A d \in Inodes, x \in Names : dir[d][x] = IF <<d, x>> \in {<<Root, n>>} THEN 2 ELSE 0
      BY <3>7, <3>9
    <3>11. nextIno \in 2 .. MaxIno + 1
      BY <1>0, <2>2
    <3>12. \A e \in {<<Root, n>>} : e[1] = Root
      OBVIOUS
    <3>13. /\ {<<Root, n>>} = {<<node[2].parent, node[2].name>>} /\ node[2].kind = "File"
           /\ node[2].nlink = 1 /\ ~node[2].deleted
      BY <3>3, <3>5
    <3> QED
      BY <1>0, <2>2, <3>2, <3>5, <3>6, <3>8, <3>10, <3>11, <3>12, <3>13
  <2> QED
    BY <2>1, <2>2 DEF Init
<1>6. PICK S \in SUBSET (Inodes \X Names) :
        /\ node \in [Inodes -> Record] /\ dir \in [Inodes -> [Names -> {0} \cup Inodes]]
        /\ nextIno \in 2 .. MaxIno + 1 /\ IsFiniteSet(S) /\ \A e \in S : e[1] = Root
        /\ \A d \in Inodes, x \in Names : dir[d][x] = IF <<d, x>> \in S THEN 2 ELSE 0
        /\ node[Root] = RootRecord
        /\ \A k \in Inodes : k # Root /\ k # 2 => node[k] = Missing
        /\ S = {} => nextIno = 2 /\ (2 \in Inodes => node[2] = Missing)
        /\ S # {} => /\ nextIno = 3 /\ 2 \in Inodes
                     /\ node[2].kind = "File" /\ node[2].nlink = 1 /\ ~node[2].deleted
                     /\ S = {<<node[2].parent, node[2].name>>}
  BY <1>5
<1>7. TypeOK /\ NamesIndexed
  <2>1. links \in [Inodes -> SUBSET (({0} \cup Inodes) \X Recorded)]
    BY <1>1
  <2>2. client \in [Clients -> Task]
    BY <1>1 DEF Task
  <2> QED
    BY <1>1, <1>3, <1>6, <2>1, <2>2 DEF TypeOK, IndexOK, Task
<1>8. EntriesOf(Root) = {} /\ \A k \in Inodes : EntriesOf(k) = IF k = 2 THEN S ELSE {}
  <2>1. ASSUME NEW k \in Inodes PROVE EntriesOf(k) = IF k = 2 THEN S ELSE {}
    <3>1. \A d \in Inodes, x \in Names : <<d, x>> \in EntriesOf(k) <=> dir[d][x] = k /\ dir[d][x] # 0
      BY DEF EntriesOf, Entries
    <3>2. \A d \in Inodes, x \in Names : <<d, x>> \in EntriesOf(k) <=> k = 2 /\ <<d, x>> \in S
      <4> SUFFICES ASSUME NEW d \in Inodes, NEW x \in Names
                   PROVE  <<d, x>> \in EntriesOf(k) <=> k = 2 /\ <<d, x>> \in S
        OBVIOUS
      <4>1. dir[d][x] = IF <<d, x>> \in S THEN 2 ELSE 0
        BY <1>6
      <4> QED
        BY <1>0, <3>1, <4>1
    <3>3. EntriesOf(k) \subseteq Inodes \X Names
      BY DEF EntriesOf, Entries
    <3> HIDE DEF EntriesOf
    <3>4. \A e \in Inodes \X Names : e \in EntriesOf(k) <=> k = 2 /\ e \in S
      BY <3>2
    <3> QED
      BY <3>3, <3>4
  <2> QED
    BY <1>0, <2>1
<1>9. /\ RootRecord.kind = "Dir" /\ RootRecord.nlink = 2 /\ ~RootRecord.deleted
      /\ Missing.kind = "none" /\ Missing.nlink = 0 /\ ~Missing.deleted
  BY DEF RootRecord, Missing
<1>10. InodesSound
  <2> SUFFICES ASSUME NEW k \in Inodes
               PROVE  Sound(k, node[k], links[k], k \in deleted, k \in trash, EntriesOf(k))
    BY DEF InodesSound
  <2>1. links[k] = {} /\ k \notin deleted /\ k \notin trash
    BY <1>1
  <2>2. IsFiniteSet({})
    BY FS_EmptySet
  <2>3. CASE k = Root
    BY <1>0, <1>6, <1>8, <1>9, <2>1, <2>2, <2>3 DEF Sound
  <2>4. CASE k # Root /\ (k # 2 \/ S = {})
    <3>1. node[k] = Missing /\ EntriesOf(k) = {}
      BY <1>6, <1>8, <2>4
    <3> QED
      BY <1>9, <2>1, <2>2, <2>4, <3>1 DEF Sound
  <2>5. CASE k = 2 /\ S # {}
    <3>1. EntriesOf(k) = S /\ S = {<<node[2].parent, node[2].name>>}
      BY <1>6, <1>8, <2>5
    <3>2. Cardinality({<<node[2].parent, node[2].name>>}) = 1
      BY FS_Singleton
    <3>3. Cardinality(S) = 1
      BY <3>1, <3>2
    <3>4. node[k].kind = "File" /\ node[k].nlink = 1 /\ ~node[k].deleted /\ k # Root /\ IsFiniteSet(EntriesOf(k))
      BY <1>0, <1>6, <2>5, <3>1
    <3>5. EntriesOf(k) = {<<node[k].parent, node[k].name>>} /\ Cardinality(EntriesOf(k)) = 1
      BY <2>5, <3>1, <3>3
    <3> QED
      BY <2>1, <3>4, <3>5 DEF Sound
  <2> QED
    BY <2>3, <2>4, <2>5
<1>11. \A k : IsDir(k) <=> k = Root
  BY <1>0, <1>6, <1>9 DEF IsDir
<1>12. ParentsAreDirs
  BY <1>11 DEF ParentsAreDirs
<1>13. Grounded
  BY <1>11 DEF Grounded, Circle
<1>14. SubdirsCounted
  <2>1. Subdirs(Root) = {}
    <3>1. \A x \in Names : dir[Root][x] # Root
      BY <1>0, <1>6
    <3> QED
      BY <1>11, <3>1 DEF Subdirs, Listing
  <2>2. Cardinality({}) = 0
    BY FS_EmptySet
  <2>3. node[Root].nlink = 2 + Cardinality(Subdirs(Root))
    BY <1>6, <1>9, <2>1, <2>2
  <2> QED
    BY <1>11, <2>3 DEF SubdirsCounted
<1>15. \A d \in Inodes : (d # Root => Listing(d) = {}) /\ IsFiniteSet(Listing(d))
  <2> SUFFICES ASSUME NEW d \in Inodes PROVE (d # Root => Listing(d) = {}) /\ IsFiniteSet(Listing(d))
    OBVIOUS
  <2>1. IsFiniteSet({})
    BY FS_EmptySet
  <2>2. d # Root => Listing(d) = {}
    <3>1. \A x \in Names : <<d, x>> \in S => d = Root
      BY <1>6
    <3> QED
      BY <1>6, <3>1 DEF Listing
  <2>3. CASE S = {}
    <3>1. Listing(d) = {}
      BY <1>6, <2>3 DEF Listing
    <3> QED
      BY <2>1, <3>1
  <2>4. CASE S # {}
    <3>1. PICK a : a = node[2].name
      OBVIOUS
    <3>2. \A x \in Names : <<d, x>> \in S => x = a
      BY <1>6, <2>4, <3>1
    <3>3. Listing(d) \in SUBSET {a}
      BY <1>6, <3>2 DEF Listing
    <3>4. IsFiniteSet({a})
      BY FS_Singleton
    <3>5. IsFiniteSet(Listing(d))
      BY <3>3, <3>4, FS_Subset
    <3> QED
      BY <2>2, <3>5
  <2> QED
    BY <2>3, <2>4, <2>2
<1>16. HoldersKnown
  BY <1>6, <1>9, <1>15 DEF HoldersKnown
<1>17. Fresh
  <2> SUFFICES ASSUME NEW k \in Inodes, k >= nextIno PROVE node[k] = Missing /\ Listing(k) = {}
    BY DEF Fresh
  <2>1. k # Root /\ (S # {} => k # 2)
    BY <1>0, <1>6 DEF Root
  <2>2. node[k] = Missing
    BY <1>6, <2>1
  <2> QED
    BY <1>15, <2>1, <2>2
<1> QED
  BY <1>4, <1>7, <1>10, <1>12, <1>13, <1>14, <1>16, <1>17 DEF IInv, Story

\* Every step keeps the invariant.
LEMMA NextIInv == IInv /\ [Next]_vars => IInv'
<1> SUFFICES ASSUME IInv, [Next]_vars PROVE IInv'
  OBVIOUS
<1>1. CASE UNCHANGED vars
  <2>1. UNCHANGED <<node, dir, links, deleted, trash, index, client, nextIno, drifted>>
    BY <1>1 DEF vars, keys
  <2>2. TypeOK' /\ NamesIndexed'
    BY <2>1 DEF IInv, TypeOK, NamesIndexed, Listing
  <2>3. ASSUME ~drifted PROVE Story'
    <3>1. Story
      BY <2>3 DEF IInv
    <3>2. LinkTargets'
      BY <2>1, <3>1 DEF Story, LinkTargets
    <3> QED
      BY <2>1, <3>1, <3>2, QuietStory
  <2> QED
    BY <2>1, <2>2, <2>3 DEF IInv
<1>2. ASSUME Next PROVE IInv'
  <2>0. ~drifted
    BY <1>2 DEF Next
  <2>1. CASE \E c \in Clients, p \in Inodes, n \in Names, k \in {"File", "Dir", "Symlink"} :
               k \in Calls /\ CreateEntry(c, p, n, k)
    BY <2>0, <2>1, CreateKeeps
  <2>2. CASE \E p \in Inodes, n \in Names : Unlink(p, n) \/ Rmdir(p, n)
    BY <2>0, <2>2, UnlinkKeeps, RmdirKeeps
  <2>3. CASE \E p \in Inodes : BuildIndex(p)
    BY <2>0, <2>3, BuildKeeps
  <2>4. CASE \E p, q \in Inodes, n, m \in Names :
               \/ "rename" \in Calls /\ \E b \in BOOLEAN : Rename(p, n, q, m, b)
               \/ "exchange" \in Calls /\ RenameExchange(p, n, q, m)
    BY <2>0, <2>4, RenameKeeps, ExchangeKeeps
  <2>5. CASE "trash" \in Calls /\ \E i \in Inodes :
               \/ \E p \in Inodes, n \in Names : RestoreDeletedFile(i, p, n)
               \/ RemoveFileMetadata(i)
    BY <2>0, <2>5, RestoreKeeps, RemoveKeeps
  <2>6. CASE \E c \in Clients :
               \/ "link" \in Calls /\ \E i, p \in Inodes, n \in Names : LinkStart(c, i, p, n)
               \/ LinkApply(c) \/ BumpRead(c)
               \/ "set_attr" \in Calls /\ \E i \in Inodes : SetAttrRead(c, i)
               \/ SaveNode(c)
    BY <2>0, <2>6, LinkStartKeeps, LinkApplyKeeps, BumpReadKeeps, SetAttrReadKeeps, SaveNodeKeeps
  <2> QED
    BY <1>2, <2>1, <2>2, <2>3, <2>4, <2>5, <2>6 DEF Next
<1> QED
  BY <1>1, <1>2

\* The directories form a tree under the root, each with one entry that its
\* record names and a link count that counts its subdirectories, whatever
\* renames, exchanges, rmdirs and creations follow each other.
THEOREM TreeStands == Spec => []DirectoryTree
<1>1. Spec => []IInv
  BY InitIInv, NextIInv, PTL DEF Spec
<1> QED
  BY <1>1, TreeHolds, PTL

\* Link counts, link_parents, the deleted set, the trash attributes and the
\* indexes of names agree with the entries of the directories after every script.
THEOREM LinksAgree == Spec => []LinksConsistent
<1>1. Spec => []IInv
  BY InitIInv, NextIInv, PTL DEF Spec
<1> QED
  BY <1>1, LinksHold, PTL
=============================================================================
