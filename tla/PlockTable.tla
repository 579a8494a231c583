----------------------------- MODULE PlockTable ------------------------------
(***************************************************************************)
(* The POSIX locks of one inode as the Redis store keeps them: for every   *)
(* owner a list of records, ordered by position, that a script reads,      *)
(* checks against the other owners' lists and replaces.  The same list     *)
(* algorithm, PlockRecord::update_locks, serves the other stores.          *)
(*                                                                         *)
(* Sessions, fencing and the inventory of locked inodes are in             *)
(* SessionLocks.                                                           *)
(***************************************************************************)
EXTENDS Integers, Sequences, SequencesExt

CONSTANTS
  Owners,    \* fields "<session>:<owner>" of the inode's hash
  Pids,      \* process ids recorded with a lock, 0 not among them
  Size       \* positions 0 .. Size

VARIABLE plock   \* plock[o]: the records of owner o; << >> is no field

Positions == 0 .. Size

LockTypes == {"R", "W", "U"}

(* PlockRecord: type, pid and the half-open range from .. to. *)
PlockRecord == [type: LockTypes, pid: Pids, from: Positions, to: Positions]

(* FileLockRange::overlaps and the script's overlaps. *)
Overlaps(r, s) == r.to > s.from /\ r.from < s.to

(* Does request nl conflict with another owner's records? *)
CheckConflict(nl, records) ==
  \E i \in DOMAIN records :
     /\ nl.type = "W" \/ records[i].type = "W"
     /\ Overlaps(nl, records[i])

(* What is left of record r before and after the request's range. *)
Before(r, nl) ==
  IF r.to <= nl.from THEN <<r>>
  ELSE IF r.from < nl.from THEN <<[r EXCEPT !.to = nl.from]>>
  ELSE << >>

(* A bug to compare with: a request strictly inside a record loses the tail. *)
AfterDropped(r, nl) ==
  IF r.to <= nl.from THEN << >>
  ELSE IF r.from >= nl.to THEN <<r>>
  ELSE << >>

After(r, nl) ==
  IF r.to <= nl.from THEN << >>
  ELSE IF r.from >= nl.to THEN <<r>>
  ELSE IF r.to > nl.to THEN <<[r EXCEPT !.from = nl.to]>>
  ELSE << >>

(* One turn of the loop: the request goes in before the first record that  *)
(* reaches past its start.                                                 *)
Insert(acc, r, nl) ==
  LET new == IF acc.inserted \/ r.to <= nl.from THEN << >> ELSE <<nl>> IN
  [result |-> acc.result \o Before(r, nl) \o new \o After(r, nl),
   inserted |-> acc.inserted \/ r.to > nl.from]

(* A bug to compare with: neighbours are left as they are. *)
NeverJoined(merged, r) == Append(merged, r)

(* One turn of the final loop: neighbours of one type and pid are joined. *)
Joined(merged, r) ==
  IF /\ merged # << >>
     /\ LET last == Last(merged) IN
          last.type = r.type /\ last.pid = r.pid /\ last.to = r.from
  THEN [merged EXCEPT ![Len(merged)].to = r.to]
  ELSE Append(merged, r)

Kept(r) == r.type # "U" /\ r.from < r.to

UpdateLocks(existing, nl) ==
  LET split == FoldLeft(LAMBDA acc, r : Insert(acc, r, nl),
                        [result |-> << >>, inserted |-> FALSE], existing)
      all == IF split.inserted THEN split.result ELSE Append(split.result, nl)
  IN  FoldLeft(Joined, << >>, SelectSeq(all, Kept))

Init == plock = [o \in Owners |-> << >>]

(* SET_PLOCK_LUA: an unlock of an owner without a field changes nothing,   *)
(* which is what UpdateLocks makes of an empty list; a request that        *)
(* conflicts is refused.                                                   *)
SetPlock(o, nl) ==
  /\ nl.type = "U" \/ \A p \in Owners \ {o} : ~CheckConflict(nl, plock[p])
  /\ plock' = [plock EXCEPT ![o] = UpdateLocks(@, nl)]

Next == \E o \in Owners, nl \in PlockRecord :
          nl.from <= nl.to /\ SetPlock(o, nl)

Spec == Init /\ [][Next]_plock

-----------------------------------------------------------------------------

(* Stored records are locks: an unlock is a request, never a record. *)
TypeOK == plock \in [Owners -> Seq({r \in PlockRecord : r.type # "U"})]

(***************************************************************************)
(* A list stays in the one form that stands for its bytes: in order,       *)
(* without overlap, without empty records, and with no two neighbours      *)
(* that could be one record.  update_locks relies on it: its single pass   *)
(* over the list inserts at the first record past the start.               *)
(***************************************************************************)
Canonical ==
  \A o \in Owners :
    LET ls == plock[o] IN
    /\ \A i \in DOMAIN ls : ls[i].from < ls[i].to
    /\ \A i \in 1 .. Len(ls) - 1 :
         /\ ls[i].to <= ls[i + 1].from
         /\ ls[i].to = ls[i + 1].from =>
              <<ls[i].type, ls[i].pid>> # <<ls[i + 1].type, ls[i + 1].pid>>

(* The bytes a list of records stands for. *)
ByteView(ls) ==
  [b \in 0 .. Size - 1 |->
     IF \E i \in DOMAIN ls : ls[i].from <= b /\ b < ls[i].to
     THEN LET i == CHOOSE j \in DOMAIN ls : ls[j].from <= b /\ b < ls[j].to
          IN  [mode |-> ls[i].type, pid |-> ls[i].pid]
     ELSE [mode |-> "U", pid |-> 0]]

Bytewise == INSTANCE ByteLocks WITH held <- [o \in Owners |-> ByteView(plock[o])]

(* Splitting, inserting and joining records is, byte by byte, setting the  *)
(* mode of the requested range, and a request is granted only where no     *)
(* byte is held in a mode that excludes it.                                *)
ByteSpec == Bytewise!Spec

(* No byte is ever locked by two owners in modes that exclude each other. *)
PlockExclusion == Bytewise!Exclusion

(* The lists of an inode are canonical and exclude each other.             *)
TableSound == TypeOK /\ Canonical /\ PlockExclusion
=============================================================================
