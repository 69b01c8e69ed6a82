---------------------- MODULE RangefieldThreadsProofs ----------------------
(***************************************************************************)
(* Proofs about RangefieldThreads, for any number of threads, any queries  *)
(* and any blocks: a block that is recorded stays, and every answer was    *)
(* right at some moment of the call, although m_need_merge is read without *)
(* the lock and the map may be unmerged when a query looks at it.          *)
(***************************************************************************)
EXTENDS RangefieldThreads, RangefieldProofs

(* No block lies within the others, as those that multi_download reports:  *)
(* the requests they belong to share no byte (RangeAllocatorProofs).       *)
BlockBytes(b) == Bytes(b[1], b[2])
NoBlockTwice ==
  \A b \in Blocks : \E x \in BlockBytes(b) : \A c \in Blocks \ {b} : x \notin BlockBytes(c)

(* The map holds what was reported, and an entry that is not empty begins  *)
(* where a block does that was reported.                                   *)
FieldInv ==
  /\ IsRanges(m_ranges, Size)
  /\ m_need_merge \in BOOLEAN
  /\ ~m_need_merge => IsMerged(m_ranges)
  /\ unreported \subseteq Blocks
  /\ Have = UNION {BlockBytes(b) : b \in Blocks \ unreported}
  /\ \A k \in DOMAIN m_ranges :
       k < m_ranges[k] => \E b \in Blocks \ unreported : b[1] = k

(* What a query that is past its merge will answer: never no to what was   *)
(* all there when it was called.                                           *)
Answerable(c, m) ==
  /\ c.op = "check_range" => (Bytes(c.l, c.r) \subseteq c.before => CheckRange(m, c.l, c.r))
  /\ c.op = "is_full" => (c.before = AllBytes => IsFull(m, Size))

IsCall(c) ==
  /\ c.op \in {"check_range", "range_to_bitfield", "is_full"}
  /\ c.l \in Int /\ c.r \in Int /\ c.l < c.r

CallsInv ==
  /\ pc \in [Thread -> {"idle", "merge", "body"}]
  /\ call = [t \in Thread |-> call[t]]
  /\ \A t \in Thread : pc[t] # "idle" => IsCall(call[t]) /\ call[t].before \subseteq Have
  /\ \A t \in Thread : pc[t] = "body" => Answerable(call[t], m_ranges)

IInv == FieldInv /\ CallsInv /\ AnswersLinearize

(* yes is right on any map, merged or not. *)
LEMMA YesIsSound ==
  ASSUME NEW m, IsRanges(m, Size), NEW l \in Int, NEW r \in Int
  PROVE  /\ CheckRange(m, l, r) => Bytes(l, r) \subseteq Covered(m)
         /\ IsFull(m, Size) => Covered(m) = AllBytes
<1>1. ASSUME CheckRange(m, l, r)
      PROVE  Bytes(l, r) \subseteq Covered(m)
  <2>1. PICK k \in DOMAIN m : l >= k /\ r <= m[k]
    BY <1>1 DEF CheckRange
  <2>2. k \in Int /\ m[k] \in Int
    BY DEF IsRanges
  <2>3. Bytes(l, r) \subseteq Bytes(k, m[k])
    BY <2>1, <2>2 DEF Bytes
  <2> QED
    BY <2>3 DEF Covered
<1>2. ASSUME IsFull(m, Size)
      PROVE  Covered(m) = AllBytes
  BY <1>2 DEF IsFull, Covered, Bytes, AllBytes
<1> QED
  BY <1>1, <1>2

(* A merged map makes every query answerable whose bytes were there.       *)
LEMMA MergedIsAnswerable ==
  ASSUME NEW m, IsRanges(m, Size), IsMerged(m),
         NEW c, IsCall(c), c.before \subseteq Covered(m)
  PROVE  Answerable(c, m)
<1>1. ASSUME Bytes(c.l, c.r) \subseteq c.before
      PROVE  CheckRange(m, c.l, c.r)
  BY <1>1, SizeAssumption, CheckRangeIsExact DEF IsCall
<1>2. ASSUME c.before = AllBytes
      PROVE  IsFull(m, Size)
  <2>1. Covered(m) \subseteq 0 .. (Size - 1)
    BY SizeAssumption, CoveredBytes
  <2>2. Covered(m) = 0 .. (Size - 1)
    BY <1>2, <2>1 DEF AllBytes
  <2> QED
    BY <2>2, SizeAssumption, IsFullIsExact
<1> QED
  BY <1>1, <1>2 DEF Answerable

(* An answer that was right stays right when bytes are only added. *)
LEMMA AnswersStay ==
  ASSUME AnswersLinearize, answer' = answer, Have \subseteq Have', Have' \subseteq AllBytes
  PROVE  AnswersLinearize'
<1>1. AllBytes' = AllBytes
  BY DEF AllBytes
<1>2. CASE answer.call.op = "check_range"
  BY <1>2 DEF AnswersLinearize
<1>3. CASE answer.call.op = "is_full"
  <2>1. Have = AllBytes => Have' = AllBytes'
    BY <1>1
  <2> QED
    BY <1>1, <1>3, <2>1 DEF AnswersLinearize
<1>4. CASE answer.call.op = "range_to_bitfield"
  <2>1. \A i \in answer.out : PieceBytes(i, Size, Piece) \subseteq Have
    BY <1>4 DEF AnswersLinearize
  <2> QED
    BY <1>4, <2>1 DEF AnswersLinearize
<1>5. CASE answer.call.op \notin {"check_range", "is_full", "range_to_bitfield"}
  BY <1>5 DEF AnswersLinearize
<1> QED
  BY <1>2, <1>3, <1>4, <1>5

(* update() replaces no entry that holds a byte: it adds the block, and    *)
(* what a query could answer it still can.                                 *)
LEMMA ReportAdds ==
  ASSUME NoBlockTwice, FieldInv, NEW block \in unreported,
         NEW m, m = Update(m_ranges, block[1], block[2])
  PROVE  /\ IsRanges(m, Size)
         /\ Covered(m) = Have \cup BlockBytes(block)
         /\ \A k \in DOMAIN m : k < m[k] => k = block[1] \/ (k \in DOMAIN m_ranges /\ k < m_ranges[k])
         /\ \A c : IsCall(c) /\ c.before \subseteq Have /\ Answerable(c, m_ranges) => Answerable(c, m)
<1> DEFINE l == block[1]
           r == block[2]
<1>1. /\ block \in Blocks /\ l \in Int /\ r \in Int /\ l < r /\ 0 <= l /\ r <= Size
      /\ CanUpdate(Size, l, r)
  BY SizeAssumption, BlocksAssumption DEF FieldInv, CanUpdate
<1>2. PICK x \in BlockBytes(block) : \A c \in Blocks \ {block} : x \notin BlockBytes(c)
  BY <1>1 DEF NoBlockTwice
<1>3. x \notin Have
  BY <1>2 DEF FieldInv
<1>4. IsRanges(m_ranges, Size) /\ Size \in Nat
  BY SizeAssumption DEF FieldInv
<1>5. l \in DOMAIN m_ranges => ~(l < m_ranges[l])
  <2> SUFFICES ASSUME l \in DOMAIN m_ranges, l < m_ranges[l]
               PROVE  FALSE
    OBVIOUS
  <2>1. PICK b \in Blocks \ unreported : b[1] = l
    BY DEF FieldInv
  <2>2. b \in Blocks /\ b # block
    OBVIOUS
  <2>3. PICK y \in BlockBytes(b) : \A c \in Blocks \ {b} : y \notin BlockBytes(c)
    BY <2>2 DEF NoBlockTwice
  <2>4. b[2] \in Int /\ x \in Int /\ y \in Int
    BY <1>1, <1>2, <2>2, <2>3, BlocksAssumption DEF BlockBytes, Bytes
  <2>5. x \notin BlockBytes(b) /\ y \notin BlockBytes(block)
    BY <1>1, <1>2, <2>2, <2>3
  <2> QED
    BY <1>1, <1>2, <2>1, <2>3, <2>4, <2>5 DEF BlockBytes, Bytes
<1>6. /\ IsRanges(m, Size)
      /\ Bytes(l, r) \subseteq Covered(m)
      /\ Covered(m) \subseteq Have \cup Bytes(l, r)
      /\ \A b \in Have \ Covered(m) : l \in DOMAIN m_ranges /\ r <= b /\ b < m_ranges[l]
  BY <1>1, <1>4, UpdateAddsBytes DEF Have
<1>7. Have \subseteq Covered(m)
  <2> SUFFICES ASSUME NEW b \in Have, b \notin Covered(m)
               PROVE  FALSE
    OBVIOUS
  <2>1. l \in DOMAIN m_ranges /\ r <= b /\ b < m_ranges[l]
    BY <1>6
  <2>2. b \in Int
    BY <1>4, CoveredBytes DEF Have
  <2>3. m_ranges[l] \in Int
    BY <1>4, <2>1 DEF IsRanges
  <2> QED
    BY <1>1, <1>5, <2>1, <2>2, <2>3
<1>8. \A k : k \in DOMAIN m <=> k = l \/ k \in DOMAIN m_ranges
  BY DEF Update, Replace
<1>9. \A k \in DOMAIN m : k # l => m[k] = m_ranges[k]
  BY DEF Update, Replace
<1> HIDE DEF l, r
<1>10. ASSUME NEW c, IsCall(c), c.before \subseteq Have, Answerable(c, m_ranges)
       PROVE  Answerable(c, m)
  <2>1. ASSUME CheckRange(m_ranges, c.l, c.r)
        PROVE  CheckRange(m, c.l, c.r)
    <3>1. PICK k \in DOMAIN m_ranges : c.l >= k /\ c.r <= m_ranges[k]
      BY <2>1 DEF CheckRange
    <3>2. k \in Int /\ m_ranges[k] \in Int /\ c.l \in Int /\ c.r \in Int /\ c.l < c.r
      BY <1>4, <1>10 DEF IsRanges, IsCall
    <3>3. k # l
      BY <1>5, <3>1, <3>2
    <3> QED
      BY <1>8, <1>9, <3>1, <3>3 DEF CheckRange
  <2>2. c.before # AllBytes
    <3>1. x \in AllBytes
      BY <1>1, <1>2, <1>4 DEF BlockBytes, Bytes, AllBytes, l, r
    <3> QED
      BY <1>3, <1>10, <3>1
  <2> QED
    BY <1>10, <2>1, <2>2 DEF Answerable
<1>11. Covered(m) = Have \cup BlockBytes(block)
  BY <1>6, <1>7 DEF BlockBytes, l, r
<1> QED
  BY <1>6, <1>8, <1>9, <1>10, <1>11 DEF l

(* update(), called while other threads are inside a query. *)
LEMMA ReportKeepsInv ==
  ASSUME NoBlockTwice, IInv, NEW t \in Thread, NEW block \in Blocks, Report(t, block)
  PROVE  IInv' /\ Have \subseteq Have'
<1>1. /\ block \in unreported /\ block \in Blocks /\ unreported' = unreported \ {block}
      /\ m_ranges' = Update(m_ranges, block[1], block[2])
      /\ m_need_merge' = TRUE
      /\ pc' = pc /\ call' = call /\ answer' = answer
  BY DEF Report
<1>2. FieldInv /\ CallsInv /\ AnswersLinearize
  BY DEF IInv
<1>3. /\ IsRanges(m_ranges', Size)
      /\ Have' = Have \cup BlockBytes(block)
      /\ \A k \in DOMAIN m_ranges' : k < m_ranges'[k] => k = block[1] \/ (k \in DOMAIN m_ranges /\ k < m_ranges[k])
      /\ \A c : IsCall(c) /\ c.before \subseteq Have /\ Answerable(c, m_ranges) => Answerable(c, m_ranges')
  BY <1>1, <1>2, ReportAdds DEF Have
<1>4. FieldInv'
  <2>1. Blocks \ unreported' = (Blocks \ unreported) \cup {block}
    BY <1>1
  <2>2. Have' = UNION {BlockBytes(b) : b \in Blocks \ unreported'}
    BY <1>2, <1>3, <2>1 DEF FieldInv
  <2>3. \A k \in DOMAIN m_ranges' :
          k < m_ranges'[k] => \E b \in Blocks \ unreported' : b[1] = k
    BY <1>2, <1>3, <2>1 DEF FieldInv
  <2> QED
    BY <1>1, <1>2, <1>3, <2>2, <2>3 DEF FieldInv
<1>5. CallsInv'
  BY <1>1, <1>2, <1>3 DEF CallsInv
<1>6. Have' \subseteq AllBytes
  BY <1>3, SizeAssumption, CoveredBytes DEF AllBytes, Have
<1> QED
  BY <1>1, <1>2, <1>3, <1>4, <1>5, <1>6, AnswersStay DEF IInv

(* The unlocked look at m_need_merge: if it is not set, the map is merged. *)
LEMMA StartKeepsInv ==
  ASSUME IInv, NEW t \in Thread, NEW op \in Ops, NEW q \in Questions, Start(t, op, q)
  PROVE  IInv' /\ Have \subseteq Have'
<1> DEFINE c == [op |-> op, l |-> q[1], r |-> q[2], before |-> Have]
<1>1. FieldInv /\ CallsInv /\ AnswersLinearize
  BY DEF IInv
<1>2. /\ pc' = [pc EXCEPT ![t] = IF m_need_merge THEN "merge" ELSE "body"]
      /\ call' = [call EXCEPT ![t] = c]
      /\ m_ranges' = m_ranges /\ m_need_merge' = m_need_merge
      /\ answer' = answer /\ unreported' = unreported
  BY DEF Start
<1>3. IsCall(c) /\ c.before = Have
  BY OpsAssumption, BlocksAssumption, SizeAssumption DEF IsCall
<1>4. ~m_need_merge => Answerable(c, m_ranges)
  BY <1>1, <1>3, MergedIsAnswerable DEF FieldInv, Have
<1> HIDE DEF c
<1>5. Have' = Have
  BY <1>2 DEF Have
<1>6. FieldInv'
  BY <1>1, <1>2, <1>5 DEF FieldInv
<1>7. CallsInv'
  <2>1. pc' \in [Thread -> {"idle", "merge", "body"}]
    BY <1>1, <1>2 DEF CallsInv
  <2>2. \A u \in Thread : u # t => pc'[u] = pc[u] /\ call'[u] = call[u]
    BY <1>1, <1>2 DEF CallsInv
  <2>3. call'[t] = c /\ pc'[t] = (IF m_need_merge THEN "merge" ELSE "body")
    BY <1>1, <1>2 DEF CallsInv
  <2>4. call' = [u \in Thread |-> call'[u]]
    BY <1>1, <1>2 DEF CallsInv
  <2>5. pc'[t] = "body" => ~m_need_merge
    BY <2>3
  <2>6. \A u \in Thread : pc'[u] # "idle" => IsCall(call'[u]) /\ call'[u].before \subseteq Have'
    BY <1>1, <1>3, <1>5, <2>2, <2>3 DEF CallsInv
  <2>7. \A u \in Thread : pc'[u] = "body" => Answerable(call'[u], m_ranges')
    BY <1>1, <1>2, <1>4, <2>2, <2>3, <2>5 DEF CallsInv
  <2> QED
    BY <2>1, <2>4, <2>6, <2>7 DEF CallsInv
<1>8. Have' \subseteq AllBytes
  BY <1>1, <1>5, SizeAssumption, CoveredBytes DEF AllBytes, Have, FieldInv
<1> QED
  BY <1>1, <1>2, <1>5, <1>6, <1>7, <1>8, AnswersStay DEF IInv

(* merge(): no byte changes, and every query that waits can be answered.   *)
LEMMA MergeKeepsInv ==
  ASSUME IInv, NEW t \in Thread, MergeLocked(t)
  PROVE  IInv' /\ Have \subseteq Have'
<1>1. FieldInv /\ CallsInv /\ AnswersLinearize
  BY DEF IInv
<1>2. /\ pc[t] = "merge" /\ pc' = [pc EXCEPT ![t] = "body"]
      /\ m_ranges' = Merge(m_ranges) /\ m_need_merge' = FALSE
      /\ call' = call /\ answer' = answer /\ unreported' = unreported
  BY DEF MergeLocked
<1>3. IsRanges(m_ranges', Size) /\ IsMerged(m_ranges') /\ Have' = Have
  BY <1>1, <1>2, SizeAssumption, MergeKeepsBytes DEF FieldInv, Have
<1>4. \A k \in DOMAIN m_ranges' : k < m_ranges'[k] => k \in DOMAIN m_ranges /\ k < m_ranges[k]
  BY <1>1, <1>2, SizeAssumption, MergedEntriesBegin DEF FieldInv
<1>5. FieldInv'
  BY <1>1, <1>2, <1>3, <1>4 DEF FieldInv
<1>6. CallsInv'
  <2>1. pc' \in [Thread -> {"idle", "merge", "body"}]
        /\ \A u \in Thread : pc'[u] # "idle" <=> pc[u] # "idle"
    BY <1>1, <1>2 DEF CallsInv
  <2>2. \A u \in Thread : pc'[u] # "idle" => IsCall(call'[u]) /\ call'[u].before \subseteq Have'
    BY <1>1, <1>2, <1>3, <2>1 DEF CallsInv
  <2>3. \A u \in Thread : pc'[u] = "body" => Answerable(call'[u], m_ranges')
    BY <1>3, <2>2, MergedIsAnswerable DEF Have
  <2> QED
    BY <1>1, <1>2, <2>1, <2>2, <2>3 DEF CallsInv
<1>7. Have' \subseteq AllBytes
  BY <1>3, SizeAssumption, CoveredBytes DEF AllBytes, Have
<1> QED
  BY <1>1, <1>2, <1>3, <1>5, <1>6, <1>7, AnswersStay DEF IInv

(* The locked look at the map: the answer is right. *)
LEMMA BodyKeepsInv ==
  ASSUME Size + Piece <= IntLimit, IInv, NEW t \in Thread, Body(t)
  PROVE  IInv' /\ Have \subseteq Have'
<1> DEFINE c == call[t]
<1>1. FieldInv /\ CallsInv /\ AnswersLinearize
  BY DEF IInv
<1>2. /\ pc[t] = "body" /\ pc' = [pc EXCEPT ![t] = "idle"]
      /\ call' = [call EXCEPT ![t] = NoCall]
      /\ answer' = [call |-> c, out |-> Outcome(c)]
      /\ m_ranges' = m_ranges /\ m_need_merge' = m_need_merge /\ unreported' = unreported
  BY DEF Body
<1>3. IsCall(c) /\ c.before \subseteq Have /\ Answerable(c, m_ranges)
  BY <1>1, <1>2 DEF CallsInv
<1>4. Have' = Have /\ IsRanges(m_ranges, Size) /\ AllBytes' = AllBytes
  BY <1>1, <1>2 DEF FieldInv, Have, AllBytes
<1>5. FieldInv'
  BY <1>1, <1>2, <1>4 DEF FieldInv
<1>6. CallsInv'
  <2>1. pc' \in [Thread -> {"idle", "merge", "body"}] /\ pc'[t] = "idle"
        /\ \A u \in Thread : u # t => pc'[u] = pc[u] /\ call'[u] = call[u]
    BY <1>1, <1>2 DEF CallsInv
  <2>2. call' = [u \in Thread |-> call'[u]]
    BY <1>1, <1>2 DEF CallsInv
  <2> QED
    BY <1>1, <1>2, <1>4, <2>1, <2>2 DEF CallsInv
<1> HIDE DEF c
<1>7. answer'.call = c /\ answer'.out = Outcome(c)
  BY <1>2
<1>8. CASE c.op = "check_range"
  <2>1. answer'.out = CheckRange(m_ranges, c.l, c.r)
    BY <1>7, <1>8 DEF Outcome
  <2>2. CheckRange(m_ranges, c.l, c.r) => Bytes(c.l, c.r) \subseteq Have
    BY <1>3, <1>4, YesIsSound DEF IsCall, Have
  <2>3. Bytes(c.l, c.r) \subseteq c.before => CheckRange(m_ranges, c.l, c.r)
    BY <1>3, <1>8 DEF Answerable
  <2>4. AnswersLinearize'
    BY <1>4, <1>7, <1>8, <2>1, <2>2, <2>3 DEF AnswersLinearize
  <2> QED
    BY <1>4, <1>5, <1>6, <2>4 DEF IInv
<1>9. CASE c.op = "is_full"
  <2>1. answer'.out = IsFull(m_ranges, Size)
    BY <1>7, <1>9 DEF Outcome
  <2>2. IsFull(m_ranges, Size) => Have = AllBytes
    BY <1>4, YesIsSound, 0 \in Int DEF Have
  <2>3. c.before = AllBytes => IsFull(m_ranges, Size)
    BY <1>3, <1>9 DEF Answerable
  <2>4. AnswersLinearize'
    BY <1>4, <1>7, <1>9, <2>1, <2>2, <2>3 DEF AnswersLinearize
  <2> QED
    BY <1>4, <1>5, <1>6, <2>4 DEF IInv
<1>10. CASE c.op = "range_to_bitfield"
  <2>1. answer'.out = RangeToBitfield(m_ranges, Size, Piece, IntLimit).ones
    BY <1>7, <1>10 DEF Outcome
  <2>2. IntLimit \in Nat /\ Size \in Nat /\ Piece \in Nat \ {0} /\ Size + Piece <= IntLimit
    BY SizeAssumption DEF IntLimit
  <2>3. \A i \in answer'.out : PieceBytes(i, Size, Piece) \subseteq Have
    BY <1>4, <2>1, <2>2, BitfieldMarksWholePieces DEF Have
  <2>4. AnswersLinearize'
    BY <1>4, <1>7, <1>10, <2>3 DEF AnswersLinearize
  <2> QED
    BY <1>4, <1>5, <1>6, <2>4 DEF IInv
<1> QED
  BY <1>3, <1>8, <1>9, <1>10 DEF IsCall

(* Every step keeps the invariant, and every byte. *)
LEMMA NextKeepsInv ==
  ASSUME NoBlockTwice, IInv, [Next]_vars
  PROVE  IInv' /\ Have \subseteq Have'
<1>1. ASSUME NEW t \in Thread, Step(t)
      PROVE  IInv' /\ Have \subseteq Have'
  <2>1. Size + Piece <= IntLimit
    BY SizeAssumption DEF IntLimit
  <2> QED
    BY <1>1, <2>1, ReportKeepsInv, StartKeepsInv, MergeKeepsInv, BodyKeepsInv DEF Step
<1>2. CASE UNCHANGED vars
  <2>1. Have' = Have /\ AllBytes' = AllBytes
    BY <1>2 DEF vars, Have, AllBytes
  <2> QED
    BY <1>2, <2>1 DEF vars, IInv, FieldInv, CallsInv, AnswersLinearize
<1> QED
  BY <1>1, <1>2 DEF Next

(* The inductive invariant of the shared rangefield: what was all there at *)
(* the call still lies inside one entry when the query looks at the map.   *)
THEOREM ThreadsInvariant == ASSUME NoBlockTwice PROVE Spec => []IInv
<1>1. Init => IInv
  <2> SUFFICES ASSUME Init
               PROVE  IInv
    OBVIOUS
  <2>1. DOMAIN m_ranges = {} /\ m_ranges = [l \in DOMAIN m_ranges |-> m_ranges[l]]
    BY DEF Init, EmptyMap
  <2>2. Have = {}
    BY <2>1 DEF Have, Covered
  <2>3. FieldInv
    BY <2>1, <2>2 DEF Init, FieldInv, IsRanges, IsMerged
  <2>4. CallsInv
    BY DEF Init, CallsInv
  <2>5. AnswersLinearize
    BY DEF Init, AnswersLinearize, NoCall
  <2> QED
    BY <2>3, <2>4, <2>5 DEF IInv
<1>2. IInv /\ [Next]_vars => IInv'
  BY NextKeepsInv
<1> QED
  BY <1>1, <1>2, PTL DEF Spec

(* Every answer was right at some moment between the call and its return:  *)
(* yes when it was given, no when the call was made, whatever the other    *)
(* threads recorded and merged meanwhile.                                  *)
THEOREM AnswersAreLinear == ASSUME NoBlockTwice PROVE Spec => []AnswersLinearize
<1>1. IInv => AnswersLinearize
  BY DEF IInv
<1> QED
  BY <1>1, ThreadsInvariant, PTL

(* A merge in one thread loses nothing that another has just recorded.     *)
THEOREM RecordedStays == ASSUME NoBlockTwice PROVE Spec => RecordedBytesStay
<1>1. IInv /\ [Next]_vars => [Have \subseteq Have']_vars
  BY NextKeepsInv
<1> QED
  BY <1>1, ThreadsInvariant, PTL DEF Spec, RecordedBytesStay
=============================================================================
