------------------------------ MODULE Namespace ------------------------------
(***************************************************************************)
(* The namespace of the Redis metadata store: inode records, directory     *)
(* hashes, the link_parents sets of hard-linked files, the set of deleted  *)
(* files with their trash attribute, and the sorted index of names of a    *)
(* directory.                                                              *)
(*                                                                         *)
(* A script runs alone at Redis and is one step.  The operations that read *)
(* an inode record (from the node cache or from Redis) and later write the *)
(* whole record back are two steps of a client: set_attr, set_file_size,   *)
(* the second half of symlink, and bump_dir_times after a link.  A cached  *)
(* record is one that was read early, so the cache itself is not kept.     *)
(* Times, modes and owners of a record are left out.                       *)
(*                                                                         *)
(* A name is the sequence of its pieces between colons: link_parents holds *)
(* "parent:name" and the scripts take such a member apart.                 *)
(***************************************************************************)
EXTENDS Integers, Sequences, FiniteSets

CONSTANTS
  MaxIno,     \* bound: inode numbers ever allocated
  Names,      \* names callers use
  Clients,    \* tasks that may be in the middle of a multi-step operation
  Calls       \* bound: the operations callers use

ASSUME NamespaceAssumption ==
  /\ MaxIno \in Nat \ {0}
  /\ Names \subseteq Seq(STRING) /\ <<>> \notin Names

VARIABLES
  node,       \* i<ino>: the inode records
  dir,        \* d<ino>: name to inode, 0 when the name is not there
  links,      \* link_parents of an inode
  deleted,    \* the deleted set
  trash,      \* inodes with the trash attribute
  index,      \* d<ino>:names; complete when the empty member is in it
  client,     \* a multi-step operation under way
  nextIno,    \* the inode counter, plus one
  drifted     \* history: a record was written back over a newer one, or lost part of a name

keys == <<node, dir, links, deleted, trash, index>>
vars == <<keys, client, nextIno, drifted>>

Root == 1
Inodes == 1 .. MaxIno
NoName == <<>>
Missing == [kind |-> "none", nlink |-> 0, parent |-> 0, name |-> NoName, deleted |-> FALSE]
Idle == [op |-> "idle"]

IsDir(i) == i \in Inodes /\ node[i].kind = "Dir"
Exists(i) == node[i].kind # "none"
Entries == {e \in Inodes \X Names : dir[e[1]][e[2]] # 0}
EntriesOf(i) == {e \in Entries : dir[e[1]][e[2]] = i}
Listing(d) == {n \in Names : dir[d][n] # 0}

(* A name an inode record may hold: one of Names, or what UNLINK made of it. *)
Pieces(n) == SelectSeq(n, LAMBDA p : p # "")
Recorded == {NoName} \cup Names \cup {Pieces(n) : n \in Names}

Record ==
  [kind: {"none", "File", "Dir", "Symlink"}, nlink: Nat,
   parent: {0} \cup Inodes, name: Recorded, deleted: BOOLEAN]

TypeOK ==
  /\ node \in [Inodes -> Record]
  /\ dir \in [Inodes -> [Names -> {0} \cup Inodes]]
  /\ links \in [Inodes -> SUBSET (({0} \cup Inodes) \X Recorded)]
  /\ deleted \subseteq Inodes /\ trash \subseteq Inodes
  /\ index \in [Inodes -> [complete: BOOLEAN, names: SUBSET Names]]
  /\ client \in [Clients ->
       {Idle} \cup [op: {"link"}, ino: Inodes, parent: Inodes, name: Names]
              \cup [op: {"bump"}, ino: Inodes]
              \cup [op: {"save"}, ino: Inodes, rec: Record]]
  /\ nextIno \in 2 .. MaxIno + 1
  /\ drifted \in BOOLEAN

(* init_root_directory on an empty database, or a volume with one file     *)
(* written before directories had an index of names.                       *)
RootRecord == [kind |-> "Dir", nlink |-> 2, parent |-> Root, name |-> NoName, deleted |-> FALSE]
NoEntries == [n \in Names |-> 0]
NoIndex == [complete |-> FALSE, names |-> {}]

Init ==
  /\ links = [i \in Inodes |-> {}]
  /\ deleted = {} /\ trash = {}
  /\ index = [i \in Inodes |-> NoIndex]
  /\ client = [c \in Clients |-> Idle]
  /\ drifted = FALSE
  /\ \/ /\ node = [i \in Inodes |-> IF i = Root THEN RootRecord ELSE Missing]
        /\ dir = [i \in Inodes |-> NoEntries]
        /\ nextIno = 2
     \/ \E n \in Names :
          /\ MaxIno > 1
          /\ node = [i \in Inodes |->
               CASE i = Root -> RootRecord
                 [] i = 2 -> [kind |-> "File", nlink |-> 1, parent |-> Root,
                              name |-> n, deleted |-> FALSE]
                 [] OTHER -> Missing]
          /\ dir = [i \in Inodes |-> IF i = Root THEN [NoEntries EXCEPT ![n] = 2] ELSE NoEntries]
          /\ nextIno = 3

-----------------------------------------------------------------------------
(* Helpers of the scripts *)

(* The parents a walk from p up the inline parent fields meets. *)
Walk(p) ==
  LET w[k \in 0 .. MaxIno] ==
        IF k = 0 THEN p
        ELSE IF w[k - 1] # Root /\ IsDir(w[k - 1]) THEN node[w[k - 1]].parent
        ELSE w[k - 1]
  IN  w

ReachesRoot(p) == Walk(p)[MaxIno] = Root

(* A bug to compare with: only the parent itself is compared. *)
ParentDiffers(p, a) == p # a

(* validate_ancestry: p's ancestors lead to the root and a is none of them. *)
ValidAncestry(p, a) == ReachesRoot(p) /\ \A k \in 0 .. MaxIno : Walk(p)[k] # a

(* The index after a name was added; first: it is the only one there. *)
Named(ix, d, n, first) ==
  IF ix[d].complete THEN [ix EXCEPT ![d].names = @ \cup {n}]
  ELSE IF first THEN [ix EXCEPT ![d] = [complete |-> TRUE, names |-> {n}]]
  ELSE ix

Unnamed(ix, d, n) == [ix EXCEPT ![d].names = @ \ {n}]

(* What an entry of this kind adds to the link count of its directory. *)
DotDot(kind) == IF kind = "Dir" THEN 1 ELSE 0

(* The record of a file without links. *)
MarkDeleted(r) == [r EXCEPT !.nlink = 0, !.deleted = TRUE]

-----------------------------------------------------------------------------
(* Operations of one script *)

NewRecord(p, n, kind) ==
  [kind |-> kind, nlink |-> IF kind = "Dir" THEN 2 ELSE 1, parent |-> p, name |-> n,
   deleted |-> FALSE]

(* create_entry: CREATE_ENTRY_LUA.  symlink goes on to write the record of *)
(* the new inode, which it takes from the cache, once more.                *)
CreateEntry(c, p, n, kind) ==
  LET i == nextIno IN
  /\ i <= MaxIno /\ client[c] = Idle
  /\ IsDir(p) /\ dir[p][n] = 0
  /\ nextIno' = i + 1
  /\ node' = [node EXCEPT ![i] = NewRecord(p, n, kind),
                          ![p].nlink = @ + DotDot(kind)]
  /\ dir' = [dir EXCEPT ![p][n] = i]
  /\ index' = Named(index, p, n, Listing(p) = {})
  /\ client' = IF kind = "Symlink"
               THEN [client EXCEPT ![c] = [op |-> "save", ino |-> i, rec |-> NewRecord(p, n, kind)]]
               ELSE client
  /\ UNCHANGED <<links, deleted, trash, drifted>>

(* UNLINK_LUA on the way from two links to one: the remaining member is    *)
(* split at every colon, empty pieces are lost, and the pieces after the   *)
(* first (the parent) are joined again.                                    *)
SingleLink(r, rest) ==
  IF Cardinality(rest) # 1 THEN r
  ELSE LET e == CHOOSE e \in rest : TRUE IN
       IF Pieces(e[2]) = <<>> THEN r ELSE [r EXCEPT !.parent = e[1], !.name = Pieces(e[2])]

(* unlink: UNLINK_LUA.  The last link needs a path to the root for the     *)
(* trash attribute; without one the script stops before it writes.         *)
Unlink(p, n) ==
  LET i == dir[p][n]
      rest == links[i] \ {<<p, n>>}
      r == [node[i] EXCEPT !.nlink = IF @ > 0 THEN @ - 1 ELSE 0]
  IN
  /\ i # 0 /\ Exists(i) /\ ~IsDir(i)
  /\ node[i].nlink = 1 => ReachesRoot(p)
  /\ dir' = [dir EXCEPT ![p][n] = 0]
  /\ index' = Unnamed(index, p, n)
  /\ links' = [links EXCEPT ![i] = IF r.nlink = 1 /\ Cardinality(rest) = 1 THEN {} ELSE rest]
  /\ node' = [node EXCEPT ![i] = CASE r.nlink = 0 -> MarkDeleted(r)
                                   [] r.nlink = 1 -> SingleLink(r, rest)
                                   [] OTHER -> r]
  /\ deleted' = IF r.nlink = 0 THEN deleted \cup {i} ELSE deleted
  /\ trash' = IF node[i].nlink = 1 THEN trash \cup {i} ELSE trash
  /\ drifted' = (drifted \/ LET s == SingleLink(r, rest)
                              IN  r.nlink = 1 /\ <<s.parent, s.name>> \notin rest)
  /\ UNCHANGED <<client, nextIno>>

(* RMDIR_LUA's conditions on the child. *)
EmptyDir(i) == IsDir(i) /\ Listing(i) = {}

(* rmdir: RMDIR_LUA.  The child was looked up before; the script looks     *)
(* again and gives up when the name leads elsewhere.                       *)
Rmdir(p, n) ==
  LET i == dir[p][n] IN
  /\ i # 0 /\ EmptyDir(i)
  /\ node' = [node EXCEPT ![i] = Missing,
                          ![p].nlink = IF Exists(p) THEN @ - 1 ELSE @]
  /\ dir' = [dir EXCEPT ![p][n] = 0, ![i] = NoEntries]
  /\ index' = [Unnamed(index, p, n) EXCEPT ![i] = NoIndex]
  /\ trash' = trash \ {i}
  /\ UNCHANGED <<links, deleted, client, nextIno, drifted>>

(* readdir_page: builds the index of a directory that has none. *)
BuildIndex(p) ==
  /\ IsDir(p) /\ ~index[p].complete
  /\ index' = [index EXCEPT ![p] = [complete |-> TRUE, names |-> Listing(p)]]
  /\ UNCHANGED <<node, dir, links, deleted, trash, client, nextIno, drifted>>

-----------------------------------------------------------------------------
(* rename and rename_exchange *)

(* The conditions on a file that a rename replaces: the index of links is  *)
(* checked before anything is written.                                     *)
FileReplaceable(i, p, n) ==
  /\ node[i].nlink > 1 =>
       /\ Cardinality(links[i]) = node[i].nlink /\ <<p, n>> \in links[i]
       /\ node[i].nlink = 2 => \A e \in links[i] \ {<<p, n>>} : e \in EntriesOf(i)
  /\ node[i].nlink <= 1 => ReachesRoot(p)

Replaceable(i, j, p, n) ==
  /\ Exists(j)
  /\ IsDir(i) <=> IsDir(j)
  /\ IF IsDir(j) THEN Listing(j) = {} ELSE FileReplaceable(j, p, n)

(* The record of a replaced inode. *)
Replaced(j, p, n) ==
  LET rest == links[j] \ {<<p, n>>} IN
  CASE IsDir(j) -> Missing
    [] ~IsDir(j) /\ node[j].nlink <= 1 -> MarkDeleted(node[j])
    [] ~IsDir(j) /\ node[j].nlink = 2 ->
         LET e == CHOOSE e \in rest : TRUE
         IN  [node[j] EXCEPT !.nlink = 1, !.parent = e[1], !.name = e[2]]
    [] OTHER -> [node[j] EXCEPT !.nlink = @ - 1]

(* Directories keep parent and name in the record whatever their nlink. *)
Hardlinked(i) == ~IsDir(i) /\ node[i].nlink > 1

(* The record and the links of i after its entry moved from e to f. *)
MovedRecord(i, f) ==
  IF Hardlinked(i) THEN [node[i] EXCEPT !.parent = 0, !.name = NoName]
  ELSE [node[i] EXCEPT !.parent = f[1], !.name = f[2]]
MovedLinks(i, e, f) == IF Hardlinked(i) THEN (links[i] \ {e}) \cup {f} ELSE links[i]

(* HDEL of the old entry, HSET of the new one. *)
EntryMoved(p, n, q, m) == [[dir EXCEPT ![p][n] = 0] EXCEPT ![q][m] = dir[p][n]]

(* rename: RENAME_LUA, noreplace or not. *)
Rename(p, n, q, m, noreplace) ==
  LET i == dir[p][n]
      j == dir[q][m]
      same == p = q
      gone == j # 0 /\ IsDir(j)
      dies == j # 0 /\ ~IsDir(j) /\ node[j].nlink <= 1
      left == Cardinality(Listing(q)) + (IF j # 0 THEN 0 ELSE 1) - (IF same THEN 1 ELSE 0)
  IN
  /\ i # 0 /\ IsDir(q) /\ Exists(i)
  /\ IsDir(i) => ValidAncestry(q, i)
  /\ j # 0 => ~noreplace /\ j # i /\ Replaceable(i, j, q, m)
  /\ Hardlinked(i) => <<p, n>> \in links[i]
  /\ dir' = EntryMoved(p, n, q, m)
  /\ index' = LET ix == Named(Unnamed(index, p, n), q, m, left = 1)
              IN  IF gone THEN [ix EXCEPT ![j] = NoIndex] ELSE ix
  /\ links' = [k \in Inodes |->
       CASE k = i -> MovedLinks(i, <<p, n>>, <<q, m>>)
         [] k = j -> IF IsDir(j) THEN links[j]
                     ELSE IF node[j].nlink <= 2 THEN {} ELSE links[j] \ {<<q, m>>}
         [] OTHER -> links[k]]
  /\ node' = [k \in Inodes |->
       CASE k = i -> MovedRecord(i, <<q, m>>)
         [] k = j -> Replaced(j, q, m)
         [] k = q -> [node[q] EXCEPT !.nlink = @ + (IF same THEN 0 ELSE DotDot(node[i].kind))
                                                - IF gone THEN 1 ELSE 0]
         [] k = p /\ ~same /\ Exists(p) -> [node[p] EXCEPT !.nlink = @ - DotDot(node[i].kind)]
         [] OTHER -> node[k]]
  /\ deleted' = IF dies THEN deleted \cup {j} ELSE deleted
  /\ trash' = IF dies THEN trash \cup {j} ELSE IF gone THEN trash \ {j} ELSE trash
  /\ UNCHANGED <<client, nextIno, drifted>>

(* Neither directory may move below itself. *)
ExchangeValid(p, q, i, j) ==
  /\ IsDir(i) => ValidAncestry(q, i)
  /\ IsDir(j) => ValidAncestry(p, j)

(* rename_exchange: RENAME_EXCHANGE_LUA. *)
RenameExchange(p, n, q, m) ==
  LET i == dir[p][n]
      j == dir[q][m]
      delta == IF p = q THEN 0
               ELSE DotDot(node[j].kind) - DotDot(node[i].kind)
  IN
  /\ i # 0 /\ j # 0 /\ i # j
  /\ Exists(i) /\ Exists(j) /\ IsDir(p) /\ IsDir(q)
  /\ ExchangeValid(p, q, i, j)
  /\ Hardlinked(i) => <<p, n>> \in links[i]
  /\ Hardlinked(j) => <<q, m>> \in links[j]
  /\ dir' = [dir EXCEPT ![p][n] = j, ![q][m] = i]
  /\ links' = [links EXCEPT ![i] = MovedLinks(i, <<p, n>>, <<q, m>>),
                            ![j] = MovedLinks(j, <<q, m>>, <<p, n>>)]
  /\ LET moved == [node EXCEPT ![i] = MovedRecord(i, <<q, m>>), ![j] = MovedRecord(j, <<p, n>>)]
     IN  node' = [[moved EXCEPT ![p].nlink = @ + delta] EXCEPT ![q].nlink = @ - delta]
  /\ UNCHANGED <<deleted, trash, index, client, nextIno, drifted>>

-----------------------------------------------------------------------------
(* Trash *)

(* The deleted set after a restore. *)
Undeleted(i) == deleted \ {i}

(* restore_deleted_file: restore_trash.lua, at whatever place the caller   *)
(* resolved the original path to.                                          *)
RestoreDeletedFile(i, p, n) ==
  /\ Exists(i) /\ node[i].deleted /\ node[i].nlink = 0 /\ i \in deleted
  /\ IsDir(p) /\ ~node[p].deleted /\ dir[p][n] = 0
  /\ node' = [node EXCEPT ![i].deleted = FALSE, ![i].nlink = 1, ![i].parent = p, ![i].name = n]
  /\ trash' = trash \ {i}
  /\ deleted' = Undeleted(i)
  /\ dir' = [dir EXCEPT ![p][n] = i]
  /\ index' = Named(index, p, n, Listing(p) = {})
  /\ UNCHANGED <<links, client, nextIno, drifted>>

(* REMOVE_FILE_METADATA_LUA's condition on a record that is still there. *)
Tombstone(i) == node[i].deleted

(* remove_file_metadata: REMOVE_FILE_METADATA_LUA, for an inode that a     *)
(* collector or a caller of the trash found in the deleted set earlier.    *)
RemoveFileMetadata(i) ==
  /\ Exists(i) => Tombstone(i)
  /\ Exists(i) \/ i \in deleted \cup trash
  /\ node' = [node EXCEPT ![i] = Missing]
  /\ deleted' = deleted \ {i} /\ trash' = trash \ {i}
  /\ UNCHANGED <<dir, links, index, client, nextIno, drifted>>

-----------------------------------------------------------------------------
(* Operations of several steps *)

(* link: ensure_parent_dir and the look at the inode, from the cache. *)
LinkStart(c, i, p, n) ==
  /\ client[c] = Idle
  /\ IsDir(p) /\ i # Root /\ node[i].kind = "File" /\ ~node[i].deleted /\ node[i].nlink > 0
  /\ client' = [client EXCEPT ![c] = [op |-> "link", ino |-> i, parent |-> p, name |-> n]]
  /\ UNCHANGED <<keys, nextIno, drifted>>

(* A bug to compare with: the first link is not entered into the set. *)
NewLinksOnly(i, p, n) == links[i] \cup {<<p, n>>}

(* link_parents after LINK_LUA: a file that had one link brings it along. *)
LinksWith(i, p, n) ==
  links[i] \cup {<<p, n>>} \cup
  (IF node[i].nlink = 1 THEN {<<node[i].parent, node[i].name>>} ELSE {})

(* LINK_LUA: it looks at the inode again and at the name, but not at the   *)
(* directory.  When it refuses, link ends.                                 *)
LinkApply(c) ==
  LET i == client[c].ino
      p == client[c].parent
      n == client[c].name
  IN
  /\ client[c].op = "link"
  /\ IF /\ node[i].kind = "File" /\ ~node[i].deleted /\ node[i].nlink # 0
        /\ dir[p][n] = 0
     THEN /\ links' = [links EXCEPT ![i] = LinksWith(i, p, n)]
          /\ node' = [node EXCEPT ![i].nlink = @ + 1,
                                  ![i].parent = IF node[i].nlink = 1 THEN 0 ELSE @,
                                  ![i].name = IF node[i].nlink = 1 THEN NoName ELSE @]
          /\ dir' = [dir EXCEPT ![p][n] = i]
          /\ index' = Named(index, p, n, Listing(p) = {})
          /\ client' = [client EXCEPT ![c] = [op |-> "bump", ino |-> p]]
     ELSE /\ client' = [client EXCEPT ![c] = Idle]
          /\ UNCHANGED <<links, node, dir, index>>
  /\ UNCHANGED <<deleted, trash, nextIno, drifted>>

(* bump_dir_times reads the directory's record. *)
BumpRead(c) ==
  LET p == client[c].ino IN
  /\ client[c].op = "bump"
  /\ client' = [client EXCEPT ![c] =
       IF IsDir(p) THEN [op |-> "save", ino |-> p, rec |-> node[p]] ELSE Idle]
  /\ UNCHANGED <<keys, nextIno, drifted>>

(* set_attr, set_file_size: the record is read, possibly from the cache. *)
SetAttrRead(c, i) ==
  /\ client[c] = Idle /\ Exists(i)
  /\ client' = [client EXCEPT ![c] = [op |-> "save", ino |-> i, rec |-> node[i]]]
  /\ UNCHANGED <<keys, nextIno, drifted>>

(* save_node: the whole record, whatever happened to it since. *)
SaveNode(c) ==
  /\ client[c].op = "save"
  /\ node' = [node EXCEPT ![client[c].ino] = client[c].rec]
  /\ client' = [client EXCEPT ![c] = Idle]
  /\ drifted' = (drifted \/ node[client[c].ino] # client[c].rec)
  /\ UNCHANGED <<dir, links, deleted, trash, index, nextIno>>

(* A stale record written back makes everything after it meaningless, and  *)
(* lets link counts drift without end: behaviours are followed up to there. *)
Next ==
  /\ ~drifted
  /\ \/ \E c \in Clients, p \in Inodes, n \in Names, k \in {"File", "Dir", "Symlink"} :
          k \in Calls /\ CreateEntry(c, p, n, k)
     \/ \E p \in Inodes, n \in Names : Unlink(p, n) \/ Rmdir(p, n)
     \/ \E p \in Inodes : BuildIndex(p)
     \/ \E p, q \in Inodes, n, m \in Names :
          \/ "rename" \in Calls /\ \E b \in BOOLEAN : Rename(p, n, q, m, b)
          \/ "exchange" \in Calls /\ RenameExchange(p, n, q, m)
     \/ "trash" \in Calls /\ \E i \in Inodes :
          \/ \E p \in Inodes, n \in Names : RestoreDeletedFile(i, p, n)
          \/ RemoveFileMetadata(i)
     \/ \E c \in Clients :
          \/ "link" \in Calls /\ \E i, p \in Inodes, n \in Names : LinkStart(c, i, p, n)
          \/ LinkApply(c) \/ BumpRead(c)
          \/ "set_attr" \in Calls /\ \E i \in Inodes : SetAttrRead(c, i)
          \/ SaveNode(c)

Spec == Init /\ [][Next]_vars

-----------------------------------------------------------------------------
(* Properties *)

(* Every file's link count is the number of directory entries that lead to *)
(* it, however links, unlinks, renames over it, exchanges and restores of  *)
(* several clients follow each other: a count too low deletes a file that  *)
(* still has a name, a count too high never frees it.  Once save_node has  *)
(* put a stale record over a newer one this is lost.                       *)
FileLinksExact ==
  ~drifted => \A i \in Inodes :
    Exists(i) /\ ~IsDir(i) => node[i].nlink = Cardinality(EntriesOf(i))

(* The way back from a file to its names, which get_names, get_paths and   *)
(* the checks of the rename scripts use: with several links it is the set  *)
(* link_parents, with one it is the record's own parent and name, and the  *)
(* switch between the two forms loses nothing, unless a record is          *)
(* overwritten or UNLINK drops an empty piece of a name with colons.       *)
LinkIndexExact ==
  ~drifted => \A i \in Inodes :
    /\ Hardlinked(i) => links[i] = EntriesOf(i) /\ node[i].parent = 0
    /\ ~Hardlinked(i) => links[i] = {}
    /\ Exists(i) /\ ~IsDir(i) /\ node[i].nlink = 1 =>
         EntriesOf(i) = {<<node[i].parent, node[i].name>>}

(* A file is a tombstone (deleted, listed in the deleted set, with a trash *)
(* attribute) exactly while no name leads to it, so that the trash and the *)
(* collector neither miss a file nor take one that has a name.             *)
TombstonesExact ==
  ~drifted => \A i \in Inodes :
    /\ i \in deleted <=> Exists(i) /\ node[i].deleted
    /\ i \in trash <=> i \in deleted
    /\ i \in deleted => EntriesOf(i) = {}

(* An index of names that counts as complete holds exactly the names of    *)
(* the directory's hash: readdir_page returns them all and fails on none.  *)
NamesIndexed == \A d \in Inodes : index[d].complete => index[d].names = Listing(d)

(* The directories form a tree under the root: each is reached, by exactly *)
(* one entry of a directory, its record names that entry, and the link     *)
(* count of the parent has one for it, whatever renames, exchanges and     *)
(* rmdirs of several clients are made of it.                               *)
DirectoryTree ==
  ~drifted => \A i \in Inodes : IsDir(i) =>
    /\ i # Root => EntriesOf(i) = {<<node[i].parent, node[i].name>>} /\ IsDir(node[i].parent)
    /\ ReachesRoot(i)
    /\ node[i].nlink = 2 + Cardinality({n \in Listing(i) : IsDir(dir[i][n])})

(* Every entry leads to an inode that exists: neither the trash nor a      *)
(* collector nor a rename takes an inode that has a name.                  *)
NoDanglingEntry == ~drifted => \A e \in Entries : Exists(dir[e[1]][e[2]])

(* The records, the entries, the index of names, the link sets and the     *)
(* deleted set tell one story after every script.                          *)
LinksConsistent ==
  /\ TypeOK /\ NoDanglingEntry /\ NamesIndexed
  /\ FileLinksExact /\ LinkIndexExact /\ TombstonesExact
=============================================================================
