------------------------ MODULE RangeAllocatorProofs ------------------------
(***************************************************************************)
(* Proofs about RangeAllocator, for every file size, request size, piece   *)
(* size and set of threads: no byte is handed out twice, a stream is told  *)
(* that nothing is left only when that is so, and the allocator implements *)
(* ByteAllocator.                                                          *)
(***************************************************************************)
EXTENDS RangeAllocator, RangefieldProofs

(* The rangefield under its lazy merge: m_need_merge is only false when    *)
(* the map is merged.                                                      *)
FieldInv ==
  /\ IsRanges(m_ranges, Size)
  /\ m_need_merge \in BOOLEAN
  /\ ~m_need_merge => IsMerged(m_ranges)
  /\ m_download_point \in AllBytes

Request == [left : AllBytes, right : AllBytes]
ThreadsInv ==
  /\ mutex \in Thread \cup {NoThread}
  /\ pc \in [Thread -> {"idle", "ask", "record", "done"}]
  /\ temp = [t \in Thread |-> temp[t]]
  /\ \A t \in Thread : temp[t] = NoGap \/ temp[t].left \in AllBytes
  /\ given \in [Thread -> SUBSET Request]

(* m_rangefield_mutex is held by the thread that is between out_space()    *)
(* and update(), and by no other.                                          *)
MutexInv == \A t \in Thread : pc[t] \in {"ask", "record"} <=> mutex = t

(* What a thread is about to record is a non-empty part of the file, no    *)
(* longer than a request may be, of which no byte is claimed.              *)
IsFreshGap(gap, claimed) ==
  /\ gap.left \in AllBytes /\ gap.right \in 0 .. Size
  /\ gap.left < gap.right
  /\ gap.right - gap.left <= MaxRequest
  /\ Bytes(gap.left, gap.right) \cap claimed = {}
TempInv == \A t \in Thread : pc[t] = "record" => IsFreshGap(temp[t], Covered(m_ranges))

(* What was handed out is recorded. *)
GivenInv ==
  \A t \in Thread : \A r \in given[t] :
    r.left <= r.right /\ RequestBytes(r) \subseteq Covered(m_ranges)

IInv ==
  /\ FieldInv
  /\ ThreadsInv
  /\ MutexInv
  /\ TempInv
  /\ GivenInv
  /\ RequestsDisjoint
  /\ DoneMeansNothingLeft

(* The merge with which out_space() begins changes no byte. *)
LEMMA TidyKeepsBytes ==
  ASSUME FieldInv, NEW m, m = IF m_need_merge THEN Merge(m_ranges) ELSE m_ranges
  PROVE  IsRanges(m, Size) /\ IsMerged(m) /\ Covered(m) = Covered(m_ranges)
  BY SizeAssumption, MergeKeepsBytes DEF FieldInv

(* The initial field, also one restored from any bitfield, is well-formed. *)
LEMMA InitInv == Init => IInv
<1> SUFFICES ASSUME Init
             PROVE  IInv
  OBVIOUS
<1>1. FieldInv
  <2>1. m_download_point \in AllBytes
    BY SizeAssumption DEF Init, AllBytes
  <2>2. CASE m_ranges = EmptyMap /\ m_need_merge = FALSE
    <3>1. DOMAIN m_ranges = {} /\ m_ranges = [l \in DOMAIN m_ranges |-> m_ranges[l]]
      BY <2>2 DEF EmptyMap
    <3> QED
      BY <2>1, <2>2, <3>1 DEF FieldInv, IsRanges, IsMerged
  <2>3. ASSUME NEW ones \in SUBSET (0 .. PieceNum(Size, Piece) - 1),
               m_ranges = BitfieldToRange([len |-> PieceNum(Size, Piece), ones |-> ones],
                                          Size, Piece, 2 * Size + 2 * Piece),
               m_need_merge = TRUE
        PROVE  FieldInv
    <3>1. /\ Size \in Nat /\ Piece \in Nat \ {0}
          /\ 2 * Size + 2 * Piece \in Nat /\ Size <= 2 * Size + 2 * Piece
      BY SizeAssumption, RequestAssumption
    <3>2. IsRanges(m_ranges, Size)
      BY <2>3, <3>1, BitfieldCoversItsPieces
    <3> QED
      BY <2>1, <2>3, <3>2 DEF FieldInv
  <2> QED
    BY <2>2, <2>3 DEF Init
<1>2. ThreadsInv /\ MutexInv
  BY ThreadAssumption DEF Init, ThreadsInv, MutexInv
<1>3. TempInv /\ GivenInv /\ RequestsDisjoint /\ DoneMeansNothingLeft
  BY DEF Init, TempInv, GivenInv, RequestsDisjoint, DoneMeansNothingLeft
<1> QED
  BY <1>1, <1>2, <1>3 DEF IInv

(* Lock: only one thread passes. *)
LEMMA LockKeepsInv ==
  ASSUME IInv, NEW t \in Thread, Lock(t)
  PROVE  IInv'
<1> USE DEF IInv
<1>1. FieldInv' /\ ThreadsInv'
  BY DEF Lock, FieldInv, ThreadsInv
<1>2. MutexInv'
  BY ThreadAssumption DEF Lock, MutexInv, ThreadsInv
<1>3. TempInv'
  BY DEF Lock, TempInv, ThreadsInv, IsFreshGap
<1>4. GivenInv' /\ RequestsDisjoint'
  BY DEF Lock, GivenInv, RequestsDisjoint
<1>5. DoneMeansNothingLeft'
  BY DEF Lock, DoneMeansNothingLeft, ThreadsInv, Free
<1> QED
  BY <1>1, <1>2, <1>3, <1>4, <1>5

(* AskSpace: the gap it finds is free, and stays so while the mutex is     *)
(* held; without a gap nothing is left.                                    *)
LEMMA AskSpaceKeepsInv ==
  ASSUME IInv, NEW t \in Thread, AskSpace(t)
  PROVE  IInv' /\ Free' = Free
<1> DEFINE gap == OutSpace(m_ranges', Size, m_download_point)
<1>1. IsRanges(m_ranges', Size) /\ IsMerged(m_ranges') /\ Covered(m_ranges') = Covered(m_ranges)
  BY TidyKeepsBytes DEF IInv, AskSpace
<1>2. m_need_merge' = FALSE /\ m_download_point' = m_download_point /\ given' = given
  BY DEF AskSpace
<1>3. FieldInv'
  BY <1>1, <1>2 DEF IInv, FieldInv
<1>4. Free' = Free
  BY <1>1 DEF Free
<1>5. GivenInv' /\ RequestsDisjoint'
  BY <1>1, <1>2 DEF IInv, GivenInv, RequestsDisjoint
<1>6. \A u \in Thread : u # t => pc[u] \notin {"ask", "record"}
  BY DEF IInv, MutexInv, AskSpace
<1>7. /\ Missing(m_ranges', Size) = Free
      /\ gap.found <=> Free # {}
      /\ gap.found =>
           /\ gap.left \in AllBytes /\ gap.right \in 0 .. Size /\ gap.left < gap.right
           /\ Bytes(gap.left, gap.right) \subseteq Free
  <2>1. Missing(m_ranges', Size) = Free
    BY <1>1 DEF Missing, Free, AllBytes
  <2>2. m_download_point \in Nat
    BY DEF IInv, FieldInv, AllBytes
  <2> QED
    BY <1>1, <2>1, <2>2, SizeAssumption, OutSpaceFindsGap DEF AllBytes
<1> HIDE DEF gap
<1>8. CASE gap.found
  <2>1. /\ temp' = [temp EXCEPT ![t] = Clip(gap, MaxRequest)]
        /\ pc' = [pc EXCEPT ![t] = "record"]
        /\ mutex' = mutex
    BY <1>8 DEF AskSpace, gap
  <2>2. MutexInv'
    BY <2>1 DEF IInv, MutexInv, ThreadsInv, AskSpace
  <2>3. IsFreshGap(Clip(gap, MaxRequest), Covered(m_ranges'))
    <3>1. gap.left \in Nat /\ gap.right \in Nat
      BY <1>7, <1>8, SizeAssumption DEF AllBytes
    <3> DEFINE c == Clip(gap, MaxRequest)
    <3>2. /\ c.left = gap.left /\ c.right \in Nat /\ gap.left < c.right
          /\ c.right <= gap.right /\ c.right - gap.left <= MaxRequest
      BY <1>7, <1>8, <3>1, RequestAssumption, ClipOfGap
    <3> HIDE DEF c
    <3>3. Bytes(c.left, c.right) \subseteq Bytes(gap.left, gap.right)
      BY <3>1, <3>2 DEF Bytes
    <3>4. Bytes(c.left, c.right) \cap Covered(m_ranges') = {}
      BY <1>1, <1>7, <1>8, <3>3 DEF Free
    <3>5. c.left \in AllBytes /\ c.right \in 0 .. Size
      BY <1>7, <1>8, <3>1, <3>2, SizeAssumption DEF AllBytes
    <3> QED
      BY <3>2, <3>4, <3>5 DEF IsFreshGap, c
  <2>4. ThreadsInv'
    <3>1. Clip(gap, MaxRequest).left \in AllBytes
      BY <2>3 DEF IsFreshGap
    <3>2. temp' = [u \in Thread |-> temp'[u]]
      BY <2>1 DEF IInv, ThreadsInv
    <3>3. \A u \in Thread : temp'[u] = NoGap \/ temp'[u].left \in AllBytes
      BY <2>1, <3>1 DEF IInv, ThreadsInv
    <3> QED
      BY <1>2, <2>1, <3>2, <3>3 DEF IInv, ThreadsInv
  <2>5. TempInv'
    BY <1>6, <2>1, <2>3 DEF IInv, TempInv, ThreadsInv, IsFreshGap
  <2>6. DoneMeansNothingLeft'
    BY <1>4, <2>1 DEF IInv, DoneMeansNothingLeft, ThreadsInv
  <2> QED
    BY <1>3, <1>4, <1>5, <2>2, <2>4, <2>5, <2>6 DEF IInv
<1>9. CASE ~gap.found
  <2>1. temp' = temp /\ pc' = [pc EXCEPT ![t] = "done"] /\ mutex' = NoThread
    BY <1>9 DEF AskSpace, gap
  <2>2. ThreadsInv'
    BY <1>2, <2>1 DEF IInv, ThreadsInv
  <2>3. MutexInv'
    BY <1>6, <2>1, ThreadAssumption DEF IInv, MutexInv, ThreadsInv
  <2>4. TempInv'
    BY <1>6, <2>1 DEF IInv, TempInv, ThreadsInv
  <2>5. DoneMeansNothingLeft'
    BY <1>4, <1>7, <1>9 DEF DoneMeansNothingLeft
  <2> QED
    BY <1>3, <1>4, <1>5, <2>2, <2>3, <2>4, <2>5 DEF IInv
<1> QED
  BY <1>8, <1>9

(* Record: update() never refuses what allocate_range gives it, so that    *)
(* its loop ends in the first round; the bytes it claims were free.        *)
LEMMA RecordClaims ==
  ASSUME IInv, NEW t \in Thread, Record(t)
  PROVE  /\ mutex = t
         /\ CanUpdate(Size, temp[t].left, temp[t].right)
         /\ IsFreshGap(temp[t], Covered(m_ranges))
         /\ RequestBytes(Inclusive(temp[t])) = Bytes(temp[t].left, temp[t].right)
         /\ m_ranges' = Update(m_ranges, temp[t].left, temp[t].right)
         /\ IsRanges(m_ranges', Size)
         /\ Covered(m_ranges') = Covered(m_ranges) \cup Bytes(temp[t].left, temp[t].right)
         /\ m_need_merge' = TRUE
         /\ given' = [given EXCEPT ![t] = @ \cup {Inclusive(temp[t])}]
         /\ mutex' = NoThread
         /\ pc' = [pc EXCEPT ![t] = "idle"]
<1> DEFINE l == temp[t].left
           r == temp[t].right
<1>1. pc[t] = "record" /\ mutex = t /\ IsFreshGap(temp[t], Covered(m_ranges))
  BY DEF Record, IInv, MutexInv, TempInv
<1>2. l \in Int /\ r \in Int /\ 0 <= l /\ l < r /\ r <= Size
  BY <1>1, SizeAssumption DEF IsFreshGap, AllBytes
<1>3. CanUpdate(Size, l, r)
  BY <1>2, SizeAssumption DEF CanUpdate
<1>4. /\ m_ranges' = Update(m_ranges, l, r)
      /\ m_need_merge' = TRUE
      /\ given' = [given EXCEPT ![t] = @ \cup {Inclusive(temp[t])}]
      /\ mutex' = NoThread
      /\ pc' = [pc EXCEPT ![t] = "idle"]
  BY <1>3 DEF Record
<1>5. l \notin Covered(m_ranges)
  BY <1>1, <1>2 DEF IsFreshGap, Bytes
<1> HIDE DEF l, r
<1>6. IsRanges(m_ranges, Size)
  BY DEF IInv, FieldInv
<1>7. IsRanges(Update(m_ranges, l, r), Size)
  BY <1>2, <1>3, <1>6, SizeAssumption, UpdateAddsBytes
<1>8. Covered(Update(m_ranges, l, r)) = Covered(m_ranges) \cup Bytes(l, r)
  BY <1>2, <1>3, <1>5, <1>6, SizeAssumption, UpdateOfMissing
<1>9. RequestBytes(Inclusive(temp[t])) = Bytes(l, r)
  BY DEF RequestBytes, Inclusive, Bytes, l, r
<1> QED
  BY <1>1, <1>3, <1>4, <1>7, <1>8, <1>9 DEF l, r

(* Record: what it hands out was free, so that it meets no other request. *)
LEMMA RecordKeepsInv ==
  ASSUME IInv, NEW t \in Thread, Record(t)
  PROVE  IInv'
<1> DEFINE a == Inclusive(temp[t])
           block == Bytes(temp[t].left, temp[t].right)
<1>1. /\ mutex = t
      /\ IsFreshGap(temp[t], Covered(m_ranges))
      /\ RequestBytes(a) = block
      /\ IsRanges(m_ranges', Size)
      /\ Covered(m_ranges') = Covered(m_ranges) \cup block
      /\ m_need_merge' = TRUE
      /\ given' = [given EXCEPT ![t] = @ \cup {a}]
      /\ mutex' = NoThread
      /\ pc' = [pc EXCEPT ![t] = "idle"]
  BY RecordClaims
<1>2. block \cap Covered(m_ranges) = {}
  BY <1>1 DEF IsFreshGap
<1>3. temp' = [temp EXCEPT ![t] = NoGap] /\ m_download_point' = m_download_point
  BY DEF Record
<1>4. a \in Request /\ a.left <= a.right
  BY <1>1, SizeAssumption DEF IsFreshGap, Request, Inclusive, AllBytes
<1> HIDE DEF a, block
<1>5. FieldInv'
  BY <1>1, <1>3 DEF IInv, FieldInv
<1>6. ThreadsInv'
  <2>1. temp' = [u \in Thread |-> temp'[u]]
    BY <1>3 DEF IInv, ThreadsInv
  <2>2. given' \in [Thread -> SUBSET Request]
    BY <1>1, <1>4 DEF IInv, ThreadsInv
  <2>3. \A u \in Thread : temp'[u] = NoGap \/ temp'[u].left \in AllBytes
    BY <1>3 DEF IInv, ThreadsInv
  <2> QED
    BY <1>1, <2>1, <2>2, <2>3 DEF IInv, ThreadsInv
<1>7. MutexInv'
  BY <1>1, ThreadAssumption DEF IInv, MutexInv, ThreadsInv
<1>8. TempInv'
  BY <1>1 DEF IInv, TempInv, MutexInv, ThreadsInv
<1>9. \A u \in Thread : given'[u] = IF u = t THEN given[t] \cup {a} ELSE given[u]
  BY <1>1 DEF IInv, ThreadsInv
<1>10. GivenInv'
  BY <1>1, <1>4, <1>9 DEF IInv, GivenInv
<1>11. ASSUME NEW u \in Thread, NEW b \in given[u]
       PROVE  RequestBytes(b) \cap RequestBytes(a) = {}
  BY <1>1, <1>2 DEF IInv, GivenInv
<1>12. RequestsDisjoint'
  <2> SUFFICES ASSUME NEW u \in Thread, NEW v \in Thread,
                      NEW b \in given'[u], NEW c \in given'[v], u # v \/ b # c
               PROVE  RequestBytes(b) \cap RequestBytes(c) = {}
    BY DEF RequestsDisjoint
  <2>1. CASE b \in given[u] /\ c \in given[v]
    BY <2>1 DEF IInv, RequestsDisjoint
  <2>2. CASE b \in given[u] /\ v = t /\ c = a
    BY <1>11, <2>2
  <2>3. CASE u = t /\ b = a /\ c \in given[v]
    BY <1>11, <2>3
  <2>4. CASE u = t /\ b = a /\ v = t /\ c = a
    BY <2>4
  <2> QED
    BY <1>9, <2>1, <2>2, <2>3, <2>4
<1>13. DoneMeansNothingLeft'
  <2>1. Free' \subseteq Free
    BY <1>1 DEF Free
  <2>2. \A u \in Thread : pc'[u] = "done" => pc[u] = "done"
    BY <1>1 DEF IInv, ThreadsInv
  <2> QED
    BY <2>1, <2>2 DEF IInv, DoneMeansNothingLeft
<1> QED
  BY <1>5, <1>6, <1>7, <1>8, <1>10, <1>12, <1>13 DEF IInv

(* fetch_data moves m_download_point without a lock: it touches nothing    *)
(* that the invariant is about.                                            *)
LEMMA MovePointKeepsInv ==
  ASSUME IInv, NEW offset \in AllBytes, MovePoint(offset)
  PROVE  IInv'
<1>1. UNCHANGED <<m_ranges, m_need_merge, mutex, pc, temp, given>> /\ m_download_point' = offset
  BY DEF MovePoint
<1>2. FieldInv' /\ ThreadsInv' /\ MutexInv' /\ TempInv'
  BY <1>1 DEF IInv, FieldInv, ThreadsInv, MutexInv, TempInv
<1>3. GivenInv' /\ RequestsDisjoint' /\ DoneMeansNothingLeft'
  BY <1>1 DEF IInv, GivenInv, RequestsDisjoint, DoneMeansNothingLeft, Free
<1> QED
  BY <1>2, <1>3 DEF IInv

(* Every step, and stuttering. *)
LEMMA NextKeepsInv == IInv /\ [Next]_vars => IInv'
<1> SUFFICES ASSUME IInv, [Next]_vars
             PROVE  IInv'
  OBVIOUS
<1>1. ASSUME NEW t \in Thread, Step(t)
      PROVE  IInv'
  BY <1>1, LockKeepsInv, AskSpaceKeepsInv, RecordKeepsInv DEF Step
<1>2. ASSUME NEW offset \in AllBytes, MovePoint(offset)
      PROVE  IInv'
  BY <1>2, MovePointKeepsInv
<1>3. CASE UNCHANGED vars
  BY <1>3 DEF vars, IInv, FieldInv, ThreadsInv, MutexInv, TempInv, GivenInv,
              RequestsDisjoint, DoneMeansNothingLeft, Free
<1> QED
  BY <1>1, <1>2, <1>3 DEF Next

(* The inductive invariant of the allocator: what is about to be recorded  *)
(* is free, only the holder of m_rangefield_mutex is about to record, and  *)
(* the map is merged whenever m_need_merge says so.                        *)
THEOREM AllocatorInvariant == Spec => []IInv
<1> QED
  BY InitInv, NextKeepsInv, PTL DEF Spec

(* No byte belongs to two requests, of one thread or of two, however many  *)
(* threads allocate and wherever fetch_data moves m_download_point: no     *)
(* byte of the file is downloaded twice or written by two handlers.        *)
THEOREM NoByteTwice == Spec => []RequestsDisjoint
<1>1. IInv => RequestsDisjoint
  BY DEF IInv
<1> QED
  BY <1>1, AllocatorInvariant, PTL

(* allocate_range answers that nothing is left only when every byte of the *)
(* file is claimed: the stream it tells so is done for good.               *)
THEOREM DoneIsFinal == Spec => []DoneMeansNothingLeft
<1>1. IInv => DoneMeansNothingLeft
  BY DEF IInv
<1> QED
  BY <1>1, AllocatorInvariant, PTL

(* The variables are of their types, and the rangefield's borders within   *)
(* the file.                                                               *)
THEOREM AllocatorTypeCorrect == Spec => []TypeOK
<1>1. IInv => TypeOK
  <2> SUFFICES ASSUME IInv
               PROVE  TypeOK
    OBVIOUS
  <2>1. DOMAIN m_ranges \subseteq 0 .. Size /\ m_need_merge \in BOOLEAN
    BY DEF IInv, FieldInv, IsRanges
  <2>2. ASSUME NEW r \in Request
        PROVE  RequestBytes(r) \subseteq AllBytes
    BY SizeAssumption DEF Request, RequestBytes, AllBytes
  <2> QED
    BY <2>1, <2>2 DEF IInv, FieldInv, ThreadsInv, TypeOK
<1> QED
  BY <1>1, AllocatorInvariant, PTL

(* The blocks handed out are those of ByteAllocator: t's grow by b when    *)
(* Record hands out a, and nobody else's.                                  *)
LEMMA BlocksOf ==
  ASSUME ThreadsInv, NEW t \in Thread, NEW a,
         given' = [given EXCEPT ![t] = @ \cup {a}]
  PROVE  [u \in Thread |-> Blocks(u)]' =
         [[u \in Thread |-> Blocks(u)] EXCEPT ![t] = @ \cup {RequestBytes(a)}]
<1>1. \A u \in Thread : Blocks(u)' = IF u = t THEN Blocks(t) \cup {RequestBytes(a)} ELSE Blocks(u)
  BY DEF Blocks, ThreadsInv
<1> QED
  BY <1>1

(* Record is a Grant: a block of free bytes, not empty and not too long.   *)
LEMMA RecordGrants ==
  ASSUME IInv, NEW t \in Thread, Record(t)
  PROVE  Abstract!Grant(t)
<1> DEFINE l == temp[t].left
           r == temp[t].right
           a == Inclusive(temp[t])
           block == RequestBytes(a)
<1>1. /\ IsFreshGap(temp[t], Covered(m_ranges))
      /\ block = Bytes(l, r)
      /\ Covered(m_ranges') = Covered(m_ranges) \cup Bytes(l, r)
      /\ given' = [given EXCEPT ![t] = @ \cup {a}]
  BY RecordClaims
<1>2. l \in Nat /\ r \in Nat /\ l < r /\ r <= Size /\ r - l <= MaxRequest
  BY <1>1, SizeAssumption DEF IsFreshGap, AllBytes
<1>3. block = l .. (r - 1)
  BY DEF RequestBytes, Inclusive
<1> HIDE DEF a, block, l, r
<1>4. block \in Abstract!Blocks
  <2>1. l \in 0 .. Size - 1 /\ r - 1 \in 0 .. Size - 1
    BY <1>2, SizeAssumption
  <2>2. l \in block
    BY <1>2, <1>3
  <2> QED
    BY <1>3, <2>1, <2>2 DEF Abstract!Blocks
<1>5. block \subseteq Free
  <2>1. block \cap Covered(m_ranges) = {}
    BY <1>1 DEF IsFreshGap, l, r
  <2>2. block \subseteq AllBytes
    BY <1>2, <1>3, SizeAssumption DEF AllBytes
  <2> QED
    BY <2>1, <2>2 DEF Free
<1>6. Cardinality(block) <= MaxRequest
  <2>1. Cardinality(l .. (r - 1)) = IF l > r - 1 THEN 0 ELSE (r - 1) - l + 1
    BY <1>2, FS_Interval
  <2> QED
    BY <1>2, <1>3, <2>1, RequestAssumption
<1>7. Free' = Free \ block
  BY <1>1 DEF Free
<1>8. [u \in Thread |-> Blocks(u)]' = [[u \in Thread |-> Blocks(u)] EXCEPT ![t] = @ \cup {block}]
  BY <1>1, BlocksOf DEF IInv, block
<1>9. Abstract!Cardinality(block) = Cardinality(block)
  BY DEF Abstract!Cardinality, Cardinality
<1> QED
  BY <1>4, <1>5, <1>6, <1>7, <1>8, <1>9 DEF Abstract!Grant

(* Everything else is a stuttering step of ByteAllocator. *)
LEMMA StepRefines ==
  IInv /\ [Next]_vars => [Abstract!Next]_<<Free, [t \in Thread |-> Blocks(t)]>>
<1> SUFFICES ASSUME IInv, [Next]_vars
             PROVE  Abstract!Next \/ (Free' = Free /\ [t \in Thread |-> Blocks(t)]' = [t \in Thread |-> Blocks(t)])
  OBVIOUS
<1>1. ASSUME given' = given
      PROVE  [t \in Thread |-> Blocks(t)]' = [t \in Thread |-> Blocks(t)]
  BY <1>1 DEF Blocks
<1>2. ASSUME NEW t \in Thread, Lock(t)
      PROVE  Free' = Free /\ given' = given
  BY <1>2 DEF Lock, Free
<1>3. ASSUME NEW t \in Thread, AskSpace(t)
      PROVE  Free' = Free /\ given' = given
  BY <1>3, AskSpaceKeepsInv DEF AskSpace
<1>4. ASSUME NEW t \in Thread, Record(t)
      PROVE  Abstract!Next
  BY <1>4, RecordGrants DEF Abstract!Next
<1>5. ASSUME NEW offset \in AllBytes, MovePoint(offset)
      PROVE  Free' = Free /\ given' = given
  BY <1>5 DEF MovePoint, Free
<1>6. CASE UNCHANGED vars
  BY <1>1, <1>6 DEF vars, Free
<1> QED
  BY <1>1, <1>2, <1>3, <1>4, <1>5, <1>6 DEF Next, Step

(* allocate_range, called by any threads while fetch_data moves            *)
(* m_download_point, implements ByteAllocator: seen from outside, every    *)
(* step hands out one fresh block or nothing.                              *)
THEOREM AllocatorRefines == Spec => ImplementsByteAllocator
<1>1. Init => Abstract!Init
  <2> SUFFICES ASSUME Init
               PROVE  Abstract!Init
    OBVIOUS
  <2>1. Free \in SUBSET (0 .. Size - 1)
    BY DEF Free, AllBytes
  <2>2. [t \in Thread |-> Blocks(t)] = [t \in Thread |-> {}]
    BY DEF Init, Blocks
  <2> QED
    BY <2>1, <2>2 DEF Abstract!Init
<1> QED
  BY <1>1, StepRefines, AllocatorInvariant, PTL DEF Spec, ImplementsByteAllocator, Abstract!Spec
=============================================================================
