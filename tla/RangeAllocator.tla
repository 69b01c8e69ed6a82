--------------------------- MODULE RangeAllocator ---------------------------
(***************************************************************************)
(* multi_download::allocate_range called by the threads that run the       *)
(* io_service, on the shared m_rangefield and under m_rangefield_mutex,    *)
(* while a user thread moves m_download_point (fetch_data).                *)
(*                                                                         *)
(* A thread takes the mutex (Lock), asks for a gap (AskSpace) and records  *)
(* the clipped gap (Record).  The rangefield starts as start() leaves it:  *)
(* empty, or filled from a meta file of an interrupted download.           *)
(***************************************************************************)
EXTENDS RangeRequest, Integers, FiniteSets

CONSTANTS
  Size,        \* m_file_size
  MaxRequest,  \* request_piece_num * piece_size
  Piece,       \* piece size of the meta file
  Thread       \* threads running the io_service

ASSUME SizeAssumption == Size \in Nat \ {0}
ASSUME RequestAssumption == MaxRequest \in Nat \ {0} /\ Piece \in Nat \ {0}

VARIABLES
  m_ranges, m_need_merge,   \* m_rangefield
  m_download_point,
  mutex,                    \* the holder of m_rangefield_mutex, or NoThread
  pc,                       \* thread -> "idle", "ask", "record" or "done"
  temp,                     \* thread -> the gap it works on
  given                     \* thread -> the requests allocate_range returned

vars == <<m_ranges, m_need_merge, m_download_point, mutex, pc, temp, given>>

NoThread == "none"
ASSUME ThreadAssumption == NoThread \notin Thread

NoGap    == [left |-> -1, right |-> -1]

AllBytes == 0 .. (Size - 1)

Init ==
  /\ \/ m_ranges = EmptyMap /\ m_need_merge = FALSE
     \/ \E ones \in SUBSET (0 .. PieceNum(Size, Piece) - 1) :
          /\ m_ranges = BitfieldToRange([len |-> PieceNum(Size, Piece), ones |-> ones],
                                        Size, Piece, 2 * Size + 2 * Piece)
          /\ m_need_merge = TRUE
  /\ m_download_point = 0
  /\ mutex = NoThread
  /\ pc = [t \in Thread |-> "idle"]
  /\ temp = [t \in Thread |-> NoGap]
  /\ given = [t \in Thread |-> {}]

(* Mutant of Lock: without m_rangefield_mutex. *)
LockNothing(t) ==
  /\ pc[t] = "idle"
  /\ mutex' = t
  /\ pc' = [pc EXCEPT ![t] = "ask"]
  /\ UNCHANGED <<m_ranges, m_need_merge, m_download_point, temp, given>>

Lock(t) ==
  /\ pc[t] = "idle" /\ mutex = NoThread
  /\ mutex' = t
  /\ pc' = [pc EXCEPT ![t] = "ask"]
  /\ UNCHANGED <<m_ranges, m_need_merge, m_download_point, temp, given>>

(* out_space(), with the merge it starts with; without a gap the call       *)
(* returns false and the stream is done.                                   *)
AskSpace(t) ==
  /\ pc[t] = "ask"
  /\ m_ranges' = IF m_need_merge THEN Merge(m_ranges) ELSE m_ranges
  /\ m_need_merge' = FALSE
  /\ \E gap \in {OutSpace(m_ranges', Size, m_download_point)} :
       IF gap.found
       THEN /\ temp' = [temp EXCEPT ![t] = Clip(gap, MaxRequest)]
            /\ pc' = [pc EXCEPT ![t] = "record"]
            /\ UNCHANGED mutex
       ELSE /\ pc' = [pc EXCEPT ![t] = "done"]
            /\ mutex' = NoThread
            /\ UNCHANGED temp
  /\ UNCHANGED <<m_download_point, given>>

(* update(); if it refuses, the loop asks again, else the call returns true *)
(* with the inclusive range.                                               *)
Record(t) ==
  LET l == temp[t].left  r == temp[t].right IN
  /\ pc[t] = "record"
  /\ IF CanUpdate(Size, l, r)
     THEN /\ m_ranges' = Update(m_ranges, l, r)
          /\ m_need_merge' = TRUE
          /\ given' = [given EXCEPT ![t] = @ \cup {Inclusive(temp[t])}]
          /\ mutex' = NoThread
          /\ pc' = [pc EXCEPT ![t] = "idle"]
     ELSE /\ pc' = [pc EXCEPT ![t] = "ask"]
          /\ UNCHANGED <<m_ranges, m_need_merge, given, mutex>>
  /\ temp' = [temp EXCEPT ![t] = NoGap]
  /\ UNCHANGED m_download_point

(* fetch_data(buffers, offset): no lock at all. *)
MovePoint(offset) ==
  /\ m_download_point' = offset
  /\ UNCHANGED <<m_ranges, m_need_merge, mutex, pc, temp, given>>

Step(t) == Lock(t) \/ AskSpace(t) \/ Record(t)

Next ==
  \/ \E t \in Thread : Step(t)
  \/ \E offset \in AllBytes : MovePoint(offset)

Spec == Init /\ [][Next]_vars

(* Every thread keeps allocating until it is told that nothing is left, as *)
(* the handlers of a running download do.                                  *)
FairSpec == Spec /\ \A t \in Thread : WF_vars(Step(t))

-----------------------------------------------------------------------------
TypeOK ==
  /\ DOMAIN m_ranges \subseteq 0 .. Size
  /\ m_need_merge \in BOOLEAN
  /\ m_download_point \in AllBytes
  /\ mutex \in Thread \cup {NoThread}
  /\ pc \in [Thread -> {"idle", "ask", "record", "done"}]
  /\ \A t \in Thread : temp[t] = NoGap \/ temp[t].left \in AllBytes
  /\ \A t \in Thread : \A r \in given[t] : RequestBytes(r) \subseteq AllBytes

(* The bytes of m_rangefield that nobody has claimed yet. *)
Free == AllBytes \ Covered(m_ranges)
Blocks(t) == {RequestBytes(r) : r \in given[t]}

(* No byte belongs to two requests, of one thread or of two: otherwise it  *)
(* is downloaded twice, and two handlers write it at the same time.        *)
RequestsDisjoint ==
  \A t, u \in Thread : \A a \in given[t], b \in given[u] :
    (t # u \/ a # b) => RequestBytes(a) \cap RequestBytes(b) = {}

(* allocate_range tells a stream that nothing is left only when that is so: *)
(* a stream that is told so is done for good.                              *)
DoneMeansNothingLeft == (\E t \in Thread : pc[t] = "done") => Free = {}

(* The allocator is a ByteAllocator: seen from outside, every step hands   *)
(* out one fresh block or nothing, whatever the threads and fetch_data do. *)
Abstract == INSTANCE ByteAllocator WITH
              free <- Free, given <- [t \in Thread |-> Blocks(t)]
ImplementsByteAllocator == Abstract!Spec

(* The loop of allocate_range always ends and the whole file is handed out. *)
EverythingIsAllocated == <>(Free = {} /\ \A t \in Thread : pc[t] = "done")

=============================================================================
