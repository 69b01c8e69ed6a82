--------------------------- MODULE ByteAllocator ---------------------------
(***************************************************************************)
(* What allocating byte ranges promises, without saying how: every byte of *)
(* the file is handed out at most once, as part of a non-empty contiguous  *)
(* block of at most MaxRequest bytes, and no byte is taken back.           *)
(* RangeAllocator implements it.                                           *)
(***************************************************************************)
EXTENDS Integers, FiniteSets

CONSTANTS Size, MaxRequest, Thread

VARIABLES
  free,    \* the bytes nobody has been given
  given    \* thread -> the blocks it has been given, as sets of bytes

Init ==
  /\ free \in SUBSET (0 .. Size - 1)
  /\ given = [t \in Thread |-> {}]

Blocks == {lo .. hi : lo, hi \in 0 .. Size - 1} \ {{}}

Grant(t) ==
  \E b \in Blocks :
    /\ b \subseteq free
    /\ Cardinality(b) <= MaxRequest
    /\ free' = free \ b
    /\ given' = [given EXCEPT ![t] = @ \cup {b}]

Next == \E t \in Thread : Grant(t)

Spec == Init /\ [][Next]_<<free, given>>

=============================================================================
