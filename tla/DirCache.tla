------------------------------ MODULE DirCache ------------------------------
(* The children of one directory in the client's inode cache                 *)
(* (src/meta/client): operations of this mount change the store first and    *)
(* the cache afterwards, lookups and listings copy what they read from the   *)
(* store into the cache, and a generation number is meant to reject a        *)
(* listing that a mutation has overtaken.  A Complete map is trusted: it     *)
(* answers readdir, and lookups of names that are not in it, with no request.*)
(*                                                                           *)
(* An entry is the number of its inode, files and directories alike.         *)
EXTENDS Naturals

CONSTANTS Names,
          Mutators, Lookers, Listers,   \* tasks, by what they do
          Ops,                          \* the operations the mutators use
          MaxOps, MaxLosses,            \* bounds
          None

Actors  == Mutators \cup Lookers \cup Listers
Inodes == 0..MaxOps
Maps   == [Names -> Inodes \cup {None}]
Empty  == [n \in Names |-> None]

VARIABLES dir,          \* the store's directory
          node,         \* is the directory's node in the cache?
          state, children, generation,  \* ChildrenState and children_generation of the node
          pc, name, to, \* what a task is doing, to which name, and the rename's target
          held,         \* the entry a lookup or a mutation carries to the cache
          listing, expected,    \* what a lister read, and the generation before
          count,        \* operations so far; fresh stats and evictions so far
          overtaken     \* history: has a step outrun the generation number?

vars == <<dir, node, state, children, generation, pc, name, to, held, listing, expected, count,
          overtaken>>

CacheKept == UNCHANGED <<node, state, children, generation>>

TypeOK ==
    /\ dir \in Maps
    /\ node \in BOOLEAN
    /\ state \in {"NotLoaded", "Partial", "Complete"}
    /\ children \in Maps /\ generation \in Nat
    /\ state = "NotLoaded" => children = Empty
    /\ ~node => state = "NotLoaded" /\ generation = 0
    /\ pc \in [Actors -> {"idle", "lookup", "ask", "keep", "remove", "created", "removed",
                         "rename", "renamed", "moved", "ensure", "link",
                         "generation", "scan", "reensure", "load"}]
    /\ name \in [Actors -> Names] /\ to \in [Actors -> Names \cup {None}]
    /\ held \in [Actors -> Inodes \cup {None}]
    /\ listing \in [Listers -> Maps] /\ expected \in [Listers -> Nat]
    /\ count \in [ops : 0..MaxOps, losses : 0..MaxLosses]
    /\ overtaken \in BOOLEAN

\* The mount finds an empty directory, or one with an entry.
Init ==
    /\ dir \in {Empty} \cup {[Empty EXCEPT ![n] = 0] : n \in Names}
    /\ node = TRUE /\ state = "NotLoaded" /\ children = Empty /\ generation = 0
    /\ pc = [t \in Actors |-> "idle"]
    /\ name = [t \in Actors |-> CHOOSE n \in Names : TRUE]
    /\ to = [t \in Actors |-> None]
    /\ held = [t \in Actors |-> None]
    /\ listing = [l \in Listers |-> Empty] /\ expected = [l \in Listers |-> 0]
    /\ count = [ops |-> 0, losses |-> 0]
    /\ overtaken = FALSE

Goto(t, label) == pc' = [pc EXCEPT ![t] = label]
Step(t, from, label) == pc[t] = from /\ Goto(t, label)

-----------------------------------------------------------------------------
(* InodeCache.                                                               *)

\* A mutant adds a child and leaves the generation alone.
AddChildQuietly(n, ino) ==
    IF node
    THEN /\ state' = IF state = "NotLoaded" THEN "Partial" ELSE state
         /\ children' = [children EXCEPT ![n] = ino]
         /\ UNCHANGED <<node, generation>>
    ELSE CacheKept

AddChild(n, ino) ==
    IF node
    THEN /\ state' = IF state = "NotLoaded" THEN "Partial" ELSE state
         /\ children' = [children EXCEPT ![n] = ino]
         /\ generation' = generation + 1
         /\ UNCHANGED node
    ELSE CacheKept

\* remove_child, remove_child_but_keep_inode: only a name that is there.
RemoveChild(n) ==
    IF children[n] # None
    THEN /\ children' = [children EXCEPT ![n] = None]
         /\ generation' = generation + 1
         /\ UNCHANGED <<node, state>>
    ELSE CacheKept

\* ensure_node_in_cache: a new InodeEntry has no children and generation 0,
\* which is how the variables stand while there is no node.
EnsureNode == node' = TRUE /\ UNCHANGED <<state, children, generation>>

-----------------------------------------------------------------------------
(* cached_lookup: on its own, or before an unlink or a rename.               *)

\* The VFS looks up what it is to remove or rename, and gives up without it.
After(t) == IF t \in Lookers THEN "idle" ELSE IF to[t] = None THEN "remove" ELSE "rename"

StartLookup(t, n) ==
    /\ Step(t, "idle", "lookup")
    /\ name' = [name EXCEPT ![t] = n]
    /\ CacheKept /\ UNCHANGED <<dir, to, held, listing, expected, count>>

\* lookup_if_loaded
LookupCache(t) ==
    /\ Step(t, "lookup", IF children[name[t]] # None THEN After(t)
                         ELSE IF state = "Complete" THEN "idle" ELSE "ask")
    /\ CacheKept /\ UNCHANGED <<dir, name, to, held, listing, expected, count>>

LookupStore(t) ==
    /\ Step(t, "ask", IF dir[name[t]] = None THEN "idle" ELSE "keep")
    /\ held' = [held EXCEPT ![t] = dir[name[t]]]
    /\ CacheKept /\ UNCHANGED <<dir, name, to, listing, expected, count>>

\* cache_lookup_attr
CacheLookup(t) ==
    /\ Step(t, "keep", After(t))
    /\ AddChild(name[t], held[t])
    /\ held' = [held EXCEPT ![t] = None]
    /\ UNCHANGED <<dir, name, to, listing, expected, count>>

-----------------------------------------------------------------------------
(* Mutations.  A refused one leaves the cache alone.                         *)

Begin(t, op, n, m) ==
    /\ pc[t] = "idle" /\ op \in Ops /\ count.ops < MaxOps
    /\ name' = [name EXCEPT ![t] = n] /\ to' = [to EXCEPT ![t] = m]
    /\ count' = [count EXCEPT !.ops = @ + 1]

\* create_file, mkdir, link: the store, then add_child.
Create(t, n) ==
    /\ Begin(t, "create", n, None) /\ dir[n] = None
    /\ dir' = [dir EXCEPT ![n] = count.ops + 1]
    /\ held' = [held EXCEPT ![t] = count.ops + 1]
    /\ Goto(t, "created")
    /\ CacheKept /\ UNCHANGED <<listing, expected>>

AddCreated(t) ==
    /\ pc[t] \in {"created", "link"} /\ Goto(t, "idle")
    /\ AddChild(IF pc[t] = "link" THEN to[t] ELSE name[t], held[t])
    /\ held' = [held EXCEPT ![t] = None]
    /\ UNCHANGED <<dir, name, to, listing, expected, count>>

\* unlink, rmdir: the lookup, the store, then remove_child.
Remove(t, n) ==
    /\ Begin(t, "remove", n, None)
    /\ Goto(t, "lookup")
    /\ CacheKept /\ UNCHANGED <<dir, held, listing, expected>>

StoreRemove(t) ==
    /\ Step(t, "remove", IF dir[name[t]] = None THEN "idle" ELSE "removed")
    /\ dir' = [dir EXCEPT ![name[t]] = None]
    /\ CacheKept /\ UNCHANGED <<name, to, held, listing, expected, count>>

RemoveRemoved(t) ==
    /\ Step(t, "removed", "idle")
    /\ RemoveChild(name[t])
    /\ UNCHANGED <<dir, name, to, held, listing, expected, count>>

\* rename within the directory, over a target that may exist.
Rename(t, n, m) ==
    /\ Begin(t, "rename", n, m) /\ n # m
    /\ Goto(t, "lookup")
    /\ CacheKept /\ UNCHANGED <<dir, held, listing, expected>>

StoreRename(t) ==
    /\ pc[t] = "rename"
    /\ IF dir[name[t]] = None
       THEN Goto(t, "idle") /\ UNCHANGED <<dir, held>>
       ELSE /\ Goto(t, "renamed")
            /\ held' = [held EXCEPT ![t] = dir[name[t]]]
            /\ dir' = [dir EXCEPT ![to[t]] = dir[name[t]], ![name[t]] = None]
    /\ CacheKept /\ UNCHANGED <<name, to, listing, expected, count>>

RenameForget(t) ==
    /\ \/ Step(t, "renamed", "moved") /\ RemoveChild(name[t])
       \/ Step(t, "moved", "ensure") /\ RemoveChild(to[t])
    /\ UNCHANGED <<dir, name, to, held, listing, expected, count>>

RenameEnsure(t) ==
    /\ Step(t, "ensure", "link")
    /\ EnsureNode
    /\ UNCHANGED <<dir, name, to, held, listing, expected, count>>

-----------------------------------------------------------------------------
(* readdir, when the cache does not answer it.                               *)

ListEnsure(l) ==
    /\ state # "Complete"
    /\ Step(l, "idle", "generation")
    /\ EnsureNode
    /\ UNCHANGED <<dir, name, to, held, listing, expected, count>>

ListGeneration(l) ==
    /\ Step(l, "generation", "scan")
    /\ expected' = [expected EXCEPT ![l] = generation]
    /\ CacheKept /\ UNCHANGED <<dir, name, to, held, listing, count>>

ListScan(l) ==
    /\ Step(l, "scan", "reensure")
    /\ listing' = [listing EXCEPT ![l] = dir]
    /\ CacheKept /\ UNCHANGED <<dir, name, to, held, expected, count>>

ListReensure(l) ==
    /\ Step(l, "reensure", "load")
    /\ EnsureNode
    /\ UNCHANGED <<dir, name, to, held, listing, expected, count>>

\* load_children_if_fresh
ListLoad(l) ==
    /\ Step(l, "load", "idle")
    /\ IF node /\ generation = expected[l]
       THEN state' = "Complete" /\ children' = listing[l] /\ UNCHANGED <<node, generation>>
       ELSE CacheKept
    /\ listing' = [listing EXCEPT ![l] = Empty] /\ expected' = [expected EXCEPT ![l] = 0]
    /\ UNCHANGED <<dir, name, to, held, count>>

List(l) == ListEnsure(l) \/ ListGeneration(l) \/ ListScan(l) \/ ListReensure(l) \/ ListLoad(l)

-----------------------------------------------------------------------------
\* stat_fresh of the directory forgets its children, in the node it has.
FreshStat ==
    /\ count.losses < MaxLosses
    /\ count' = [count EXCEPT !.losses = @ + 1]
    /\ IF node
       THEN state' = "NotLoaded" /\ children' = Empty /\ generation' = generation + 1 /\ UNCHANGED node
       ELSE EnsureNode
    /\ UNCHANGED <<dir, pc, name, to, held, listing, expected>>

\* Eviction by time or capacity.
Evict ==
    /\ node /\ count.losses < MaxLosses
    /\ count' = [count EXCEPT !.losses = @ + 1]
    /\ node' = FALSE /\ state' = "NotLoaded" /\ children' = Empty /\ generation' = 0
    /\ UNCHANGED <<dir, pc, name, to, held, listing, expected>>

Mutate(t) ==
    \/ \E n \in Names : \/ Create(t, n) \/ Remove(t, n)
                        \/ \E m \in Names : Rename(t, n, m)
    \/ AddCreated(t) \/ StoreRemove(t) \/ RemoveRemoved(t)
    \/ StoreRename(t) \/ RenameForget(t) \/ RenameEnsure(t)

Lookup(t) == LookupCache(t) \/ LookupStore(t) \/ CacheLookup(t)

\* The names whose state in the store a task is about to copy into the cache.
Pending(t) ==
    IF pc[t] \in {"keep", "created", "removed"} THEN {name[t]}
    ELSE IF pc[t] = "renamed" THEN {name[t], to[t]}
    ELSE IF pc[t] \in {"moved", "ensure", "link"} THEN {to[t]} ELSE {}

\* What the generation number does not catch, each told by the step itself:
\* the store changes a name whose earlier state a task is about to copy; the
\* node, and with it the number, goes while a listing is under way; a removal
\* that finds nothing in the cache outdates a listing that has the name.
Outruns ==
    \/ \E t \in Actors : \E n \in Pending(t) : dir'[n] # dir[n]
    \/ node /\ ~node' /\ \E l \in Listers : pc[l] # "idle"
    \/ \E t \in Actors, l \in Listers :
          LET n == IF pc[t] = "moved" THEN to[t] ELSE name[t] IN
          /\ pc[t] \in {"removed", "renamed", "moved"} /\ pc'[t] # pc[t]
          /\ children[n] = None /\ listing[l][n] # None

Act ==
    \/ \E t \in Mutators \cup Lookers : Lookup(t)
    \/ \E t \in Lookers, n \in Names : StartLookup(t, n)
    \/ \E t \in Mutators : Mutate(t)
    \/ \E l \in Listers : List(l)
    \/ FreshStat \/ Evict

Next == ~overtaken /\ Act /\ overtaken' = Outruns

Spec == Init /\ [][Next]_vars

-----------------------------------------------------------------------------
\* No mutation is between the store and the cache.
Quiet == \A t \in Mutators : pc[t] \in {"idle", "lookup", "ask", "keep", "remove", "rename"}

(* When no operation of this mount is under way, the cached children agree   *)
(* with the store: a name that is kept has the store's inode, and a Complete *)
(* map lists every name (add_child, remove_child, load_children_if_fresh).   *)
CacheAgrees ==
    Quiet /\ ~overtaken => \A n \in Names :
        /\ children[n] # None => children[n] = dir[n]
        /\ state = "Complete" => children[n] = dir[n]
=============================================================================
