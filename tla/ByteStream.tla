----------------------------- MODULE ByteStream -----------------------------
(***************************************************************************)
(* What http_stream promises the code that reads response bodies: of each  *)
(* body the bytes, each once and in order, the count of every call being   *)
(* the number of bytes it placed, then one end, which comes before the     *)
(* last byte only when the connection was lost.  A read may also fail:     *)
(* when it may is for the module that implements this one to say.          *)
(***************************************************************************)
EXTENDS Naturals, Sequences, SequencesExt

VARIABLES
  bodies,          \* the bodies the peer has for this caller, never changed
  lost,            \* whether the peer goes away before the last one is sent
  turn,            \* which of them is being read
  delivered,       \* its bytes placed in the caller's buffers
  reported,        \* the sum of the counts of the calls that succeeded
  status           \* "reading", "ended" or "failed"

vars == <<bodies, lost, turn, delivered, reported, status>>

Init ==
  /\ turn = 1
  /\ delivered = << >>
  /\ reported = 0
  /\ status = "reading"

(* The body may end here: all of it was delivered, or the rest is lost. *)
MayEnd(bytes) == bytes = bodies[turn] \/ (lost /\ turn = Len(bodies))

(* A call places the next bytes and says how many; it may be the last. *)
Deliver ==
  /\ status = "reading"
  /\ \E n \in Len(delivered) + 1 .. Len(bodies[turn]) :
       /\ delivered' = SubSeq(bodies[turn], 1, n)
       /\ reported' = reported + (n - Len(delivered))
  /\ \/ status' = "reading"
     \/ status' = "ended" /\ MayEnd(delivered')
  /\ UNCHANGED <<bodies, lost, turn>>

(* A call reports the end: an end of file, or no byte and no error. *)
End ==
  /\ status = "reading"
  /\ MayEnd(delivered)
  /\ status' = "ended"
  /\ UNCHANGED <<bodies, lost, turn, delivered, reported>>

Fail ==
  /\ status = "reading"
  /\ status' = "failed"
  /\ UNCHANGED <<bodies, lost, turn, delivered, reported>>

(* After an end the caller asks for the next body. *)
Ask ==
  /\ status = "ended" /\ turn < Len(bodies)
  /\ status' \in {"reading", "failed"}
  /\ turn' = turn + 1
  /\ delivered' = << >>
  /\ reported' = 0
  /\ UNCHANGED <<bodies, lost>>

Next == Deliver \/ End \/ Fail \/ Ask

Spec == Init /\ [][Next]_vars
=============================================================================
