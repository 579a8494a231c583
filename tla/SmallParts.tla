----------------------------- MODULE SmallParts ------------------------------
(***************************************************************************)
(* The safety of five parts that share no state, checked side by side: the *)
(* gate of an open file (HandleGate), the single flight of block reads     *)
(* (SingleFlight), the cached children of a directory (DirCache), the      *)
(* record-lock lists of an inode (PlockTable) and coalesced objects with   *)
(* two collectors (CoalescedGroups).  A behaviour is one of one part; the  *)
(* others keep their initial values.                                       *)
(***************************************************************************)
EXTENDS HandleGate

CONSTANTS
  Callers, Keys, MaxFlights,                                   \* SingleFlight's
  Names, Mutators, Lookers, Listers, Ops, MaxOps,
  MaxLosses, None,                                             \* DirCache's
  Owners, Pids, Size,                                          \* PlockTable's
  Groups, Slots, Collectors                                    \* CoalescedGroups'

\* The bounds are numbers, a directory has room for a name, and a group has
\* finitely many members.
ASSUME PartsAssumption ==
  /\ MaxFlights \in Nat
  /\ Names # {} /\ MaxOps \in Nat /\ MaxLosses \in Nat
  /\ IsFiniteSet(Slots)

VARIABLES
  part,
  in_flight, f_state, created, f_pc, entry, result, f_notified, key,
  dir, node, d_state, children, generation, d_pc, name, to, held, listing,
  expected, count, overtaken,
  plock,
  ledger, uc, list, version, delayed, object, up, wr, gc, strayed

F == INSTANCE SingleFlight WITH state <- f_state, pc <- f_pc, notified <- f_notified
D == INSTANCE DirCache WITH state <- d_state, pc <- d_pc
P == INSTANCE PlockTable
G == INSTANCE CoalescedGroups

flightVars == <<in_flight, f_state, created, f_pc, entry, result, f_notified, key>>
dirVars == <<dir, node, d_state, children, generation, d_pc, name, to, held,
             listing, expected, count, overtaken>>
groupVars == <<ledger, uc, list, version, delayed, object, up, wr, gc, strayed>>
partVars == <<part, vars, flightVars, dirVars, plock, groupVars>>

PartInit ==
  /\ part \in {"gate", "flight", "dir", "plock", "groups"}
  /\ Init /\ F!Init /\ D!Init /\ P!Init /\ G!Init
  /\ part # "dir" => dir = D!Empty

PartNext ==
  \/ part = "gate" /\ Next /\ UNCHANGED <<part, flightVars, dirVars, plock, groupVars>>
  \/ part = "flight" /\ F!Next /\ UNCHANGED <<part, vars, dirVars, plock, groupVars>>
  \/ part = "dir" /\ D!Next /\ UNCHANGED <<part, vars, flightVars, plock, groupVars>>
  \/ part = "plock" /\ P!Next /\ UNCHANGED <<part, vars, flightVars, dirVars, groupVars>>
  \/ part = "groups" /\ G!Next /\ UNCHANGED <<part, vars, flightVars, dirVars, plock>>

PartSpec == PartInit /\ [][PartNext]_partVars

-----------------------------------------------------------------------------
(* Properties: GateSound of HandleGate, and                                *)

(* At most one task runs the operation of a key, however leaders finish or *)
(* are cancelled, and a key in the map has a live leader, so that nobody   *)
(* joins a flight that no task ends (execute_with_status, LeaderGuard).    *)
FlightsSound == F!FlightsSound

(* A caller that joins gets a result published after it joined: the key    *)
(* leaves the map before the result is published (complete).               *)
NoReplay == F!NoReplay

(* With no operation of this mount between the store and the cache, the    *)
(* cached children agree with the store, unless a step has outrun the      *)
(* generation number (add_child, remove_child, load_children_if_fresh).    *)
CacheAgrees == D!TypeOK /\ D!CacheAgrees

(* A record list stays in the one form that stands for its bytes, which    *)
(* the single pass of update_locks relies on, and no byte is locked by two *)
(* owners in modes that exclude each other (check_conflict).               *)
TableSound == P!TableSound

(* Byte by byte, update_locks sets the mode of the requested range, and    *)
(* grants it only where no byte is held in a mode that excludes it.        *)
ByteSpec == P!ByteSpec

(* A member still in a chunk list has its shared object, however often     *)
(* members are retired (retire_coalesced_member, delete_coalesced_group).  *)
LiveMemberReadable == G!TypeOK /\ G!LiveMemberReadable
=============================================================================
