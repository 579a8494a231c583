---------------------------- MODULE ChunkContent ----------------------------
(***************************************************************************)
(* What a chunk promises its readers: its content changes only when a      *)
(* write takes effect, once, or when the file is cut short.  Compaction    *)
(* and garbage collection do not exist at this level.                      *)
(***************************************************************************)
EXTENDS Integers

CONSTANTS
  Len,      \* positions in the chunk
  Writes    \* identities of writes: positive integers, 0 is a hole

VARIABLES
  content,  \* content[p]: the write whose bytes position p shows
  applied   \* the writes that have taken effect

Positions == 0 .. Len - 1

Init ==
  /\ content = [p \in Positions |-> 0]
  /\ applied = {}

Write(v, off, len) ==
  /\ v \notin applied
  /\ applied' = applied \cup {v}
  /\ content' = [p \in Positions |-> IF off <= p /\ p < off + len THEN v ELSE content[p]]

Truncate(cutoff) ==
  /\ content' = [p \in Positions |-> IF p < cutoff THEN content[p] ELSE 0]
  /\ UNCHANGED applied

Next ==
  \/ \E v \in Writes, off \in Positions, len \in 1 .. Len : Write(v, off, len)
  \/ \E cutoff \in Positions : Truncate(cutoff)

Spec == Init /\ [][Next]_<<content, applied>>
=============================================================================
