------------------------------ MODULE ByteLocks ------------------------------
(***************************************************************************)
(* What POSIX record locks promise: every byte of a file has, for every    *)
(* owner, a mode; a request sets the mode of the bytes of its range, and   *)
(* is granted only if no other owner holds one of them in a mode that      *)
(* excludes the requested one.  PlockTable implements this with lists of   *)
(* records, SessionLocks builds sessions on top of it.                     *)
(***************************************************************************)
EXTENDS Integers

CONSTANTS
  Owners,    \* lock owners of one file
  Pids,      \* processes an owner's requests come from
  Size       \* bytes 0 .. Size-1 of the file

VARIABLE held   \* held[o][b]: how owner o holds byte b

Bytes == 0 .. Size - 1

Modes == {"R", "W"}

(* FileLockType: an unlock is a request whose mode is "U". *)
Requests == Modes \cup {"U"}

Free == [mode |-> "U", pid |-> 0]

Hold == [mode: Modes, pid: Pids] \cup {Free}

(* Two modes that cannot be held together on one byte by two owners. *)
Excludes(m, n) == m \in Modes /\ n \in Modes /\ (m = "W" \/ n = "W")

(* The bytes of the half-open range [from, to). *)
Range2(from, to) == {b \in Bytes : from <= b /\ b < to}

(* An owner's bytes after a request of mode m for the bytes B. *)
Overlaid(bytes, B, m, pid) ==
  [b \in Bytes |->
     IF b \notin B THEN bytes[b]
     ELSE IF m = "U" THEN Free ELSE [mode |-> m, pid |-> pid]]

Init == held = [o \in Owners |-> [b \in Bytes |-> Free]]

Set(o, m, pid, B) ==
  /\ \A p \in Owners \ {o} : \A b \in B : ~Excludes(m, held[p][b].mode)
  /\ held' = [held EXCEPT ![o] = Overlaid(@, B, m, pid)]

Next ==
  \E o \in Owners, m \in Requests, pid \in Pids, from \in 0 .. Size :
   \E to \in from .. Size :
     Set(o, m, pid, Range2(from, to))

Spec == Init /\ [][Next]_held

(* No byte is held by two owners in modes that exclude each other. *)
Exclusion ==
  \A o, p \in Owners : o # p =>
    \A b \in Bytes : ~Excludes(held[o][b].mode, held[p][b].mode)
=============================================================================
