----------------------- MODULE RangefieldCallsProofs -----------------------
(***************************************************************************)
(* Proofs about RangefieldCalls, for every size, piece size and order of   *)
(* calls: the object keeps its shape, a merged map is the list of maximal  *)
(* runs, every question is answered exactly, out_space() offers the next   *)
(* gap, and the bitfield that is saved promises nothing that is missing.   *)
(*                                                                         *)
(* Two hypotheses appear, each only where the result fails without it.     *)
(***************************************************************************)
EXTENDS RangefieldCalls, RangefieldProofs

(* No product of a piece number and a piece size reaches 2^31 (the run     *)
(* RangefieldIntWrap shows what happens where it does).                    *)
NoWrap == \A size \in Sizes, piece \in Pieces : size + piece <= IntLimit

(* No object is made for an empty file: one of size 0 is never full, and   *)
(* out_space() finds the empty gap <<0, 0>> in it.                         *)
NoEmptyFile == 0 \notin Sizes

(* The object under its lazy merge. *)
CallsInv ==
  /\ m_size \in Sizes
  /\ m_need_merge \in BOOLEAN
  /\ IsRanges(m_ranges, m_size)
  /\ ~m_need_merge => IsMerged(m_ranges)

(* What every query looks at: the map merged, with the bytes it had.       *)
LEMMA TidiedIsMerged ==
  ASSUME CallsInv
  PROVE  /\ m_size \in Nat
         /\ IsRanges(Tidied, m_size) /\ IsMerged(Tidied)
         /\ Covered(Tidied) = Have
<1>1. m_size \in Nat
  BY SizesAssumption DEF CallsInv
<1> QED
  BY <1>1, MergeKeepsBytes DEF CallsInv, Tidied, Tidy, Have

(* A query leaves the map merged and no byte different. *)
LEMMA QueryKeepsInv ==
  ASSUME CallsInv, MergeFirst
  PROVE  /\ CallsInv'
         /\ m_ranges' = Tidied /\ m_size' = m_size
         /\ Have' = Have
<1>1. m_ranges' = Tidied /\ m_need_merge' = FALSE /\ m_size' = m_size
  BY DEF MergeFirst
<1>2. CallsInv'
  BY <1>1, TidiedIsMerged DEF CallsInv
<1> QED
  BY <1>1, <1>2, TidiedIsMerged DEF Have

(* update() keeps the object well-formed. *)
LEMMA UpdateKeepsInv ==
  ASSUME CallsInv, NEW l \in Int, NEW r \in Int, DoUpdate(l, r)
  PROVE  CallsInv'
<1>1. m_size \in Nat
  BY SizesAssumption DEF CallsInv
<1>2. CASE CanUpdate(m_size, l, r)
  <2>1. m_ranges' = Update(m_ranges, l, r) /\ m_need_merge' = TRUE /\ m_size' = m_size
    BY <1>2 DEF DoUpdate
  <2>2. IsRanges(Update(m_ranges, l, r), m_size)
    BY <1>1, <1>2, UpdateAddsBytes DEF CallsInv
  <2> QED
    BY <2>1, <2>2 DEF CallsInv
<1>3. CASE ~CanUpdate(m_size, l, r)
  BY <1>3 DEF DoUpdate, CallsInv
<1> QED
  BY <1>2, <1>3

(* bitfield_to_range() records exactly the bytes of the pieces whose bit   *)
(* is 1.                                                                   *)
LEMMA RestoreKeepsInv ==
  ASSUME NoWrap, CallsInv, NEW piece \in Pieces,
         NEW ones \in SUBSET (0 .. PieceNum(m_size, piece) - 1),
         DoBitfieldToRange(ones, piece)
  PROVE  /\ CallsInv'
         /\ Have' = UNION {PieceBytes(i, m_size, piece) : i \in ones}
<1> DEFINE bf == [len |-> PieceNum(m_size, piece), ones |-> ones]
<1>1. /\ m_size \in Nat /\ piece \in Nat \ {0} /\ IntLimit \in Nat
      /\ m_size <= IntLimit
  BY SizesAssumption, PiecesAssumption, IntLimitAssumption DEF CallsInv, NoWrap
<1>2. /\ m_ranges' = BitfieldToRange(bf, m_size, piece, IntLimit)
      /\ m_need_merge' = TRUE
      /\ m_size' = m_size
  BY DEF DoBitfieldToRange
<1> HIDE DEF bf
<1>3. /\ IsRanges(m_ranges', m_size)
      /\ Covered(m_ranges') = UNION {PieceBytes(i, m_size, piece) : i \in ones}
  BY <1>1, <1>2, BitfieldCoversItsPieces DEF bf
<1> QED
  BY <1>2, <1>3 DEF CallsInv, Have

(* Every call keeps the object well-formed. *)
LEMMA CallsKeepInv ==
  ASSUME NoWrap, CallsInv, [Next]_vars
  PROVE  CallsInv'
<1>1. m_size \in Nat
  BY SizesAssumption DEF CallsInv
<1>2. ASSUME NEW size \in Sizes, DoReset(size)
      PROVE  CallsInv'
  <2>1. size \in Nat
    BY SizesAssumption
  <2> QED
    BY <1>2, <2>1, EmptyMapIsMerged DEF DoReset, CallsInv
<1>3. ASSUME NEW p \in AnyIntervals, DoUpdate(p[1], p[2])
      PROVE  CallsInv'
  <2>1. p[1] \in Int /\ p[2] \in Int
    BY <1>1 DEF AnyIntervals, Positions
  <2> QED
    BY <1>3, <2>1, UpdateKeepsInv
<1>4. ASSUME NEW p \in Intervals, DoCheckRange(p[1], p[2]) \/ DoGetRange(p[1], p[2])
      PROVE  CallsInv'
  BY <1>4, QueryKeepsInv DEF DoCheckRange, DoGetRange
<1>5. ASSUME NEW o \in Positions, DoOutSpace(o)
      PROVE  CallsInv'
  BY <1>5, QueryKeepsInv DEF DoOutSpace
<1>6. CASE DoIsFull \/ DoInverse
  BY <1>6, QueryKeepsInv DEF DoIsFull, DoInverse
<1>7. CASE DoRangeSize
  BY <1>7 DEF DoRangeSize, CallsInv
<1>8. ASSUME NEW piece \in Pieces, DoRangeToBitfield(piece)
      PROVE  CallsInv'
  BY <1>8, QueryKeepsInv DEF DoRangeToBitfield
<1>9. ASSUME NEW piece \in Pieces, NEW ones \in SUBSET (0 .. PieceNum(m_size, piece) - 1),
             DoBitfieldToRange(ones, piece)
      PROVE  CallsInv'
  BY <1>9, RestoreKeepsInv
<1>10. CASE UNCHANGED vars
  BY <1>10 DEF vars, CallsInv
<1> QED
  BY <1>2, <1>3, <1>4, <1>5, <1>6, <1>7, <1>8, <1>9, <1>10 DEF Next

(* The inductive invariant of the object. *)
THEOREM CallsInvariant == ASSUME NoWrap PROVE Spec => []CallsInv
<1>1. Init => CallsInv
  BY SizesAssumption, EmptyMapIsMerged DEF Init, CallsInv
<1>2. CallsInv /\ [Next]_vars => CallsInv'
  BY CallsKeepInv
<1> QED
  BY <1>1, <1>2, PTL DEF Spec

(* The object keeps its shape, whatever is called: m_ranges maps borders   *)
(* inside the file to borders inside the file.                             *)
THEOREM CallsTypeCorrect == ASSUME NoWrap PROVE Spec => []TypeOK
<1>1. CallsInv => TypeOK
  <2> SUFFICES ASSUME CallsInv
               PROVE  TypeOK
    OBVIOUS
  <2>1. m_size \in Nat
    BY SizesAssumption DEF CallsInv
  <2> QED
    BY <2>1 DEF CallsInv, TypeOK, IsRanges, Positions
<1> QED
  BY <1>1, CallsInvariant, PTL

(* Once merge() has run, the map is the list of maximal runs of bytes.     *)
THEOREM MergedMapIsMaximal == ASSUME NoWrap PROVE Spec => []MergedIsMaximal
<1>1. CallsInv => MergedIsMaximal
  <2> SUFFICES ASSUME CallsInv, ~m_need_merge, NEW l \in DOMAIN m_ranges
               PROVE  \/ l < m_ranges[l] /\ l - 1 \notin Have /\ m_ranges[l] \notin Have
                      \/ l = 0 /\ m_ranges[l] = 0 /\ Have = {}
    BY DEF MergedIsMaximal
  <2>1. m_size \in Nat /\ IsRanges(m_ranges, m_size) /\ IsMerged(m_ranges)
    BY SizesAssumption DEF CallsInv
  <2>2. CASE l < m_ranges[l]
    BY <2>1, <2>2, EntryIsMaximal DEF Have
  <2>3. CASE ~(l < m_ranges[l])
    <3>1. m_ranges = [k \in {0} |-> 0] /\ l = 0
      BY <2>1, <2>3 DEF IsMerged
    <3>2. Have = {}
      BY <3>1 DEF Have, Covered, Bytes
    <3> QED
      BY <3>1, <3>2
  <2> QED
    BY <2>2, <2>3
<1> QED
  BY <1>1, CallsInvariant, PTL

(* What the last call answered is true of the bytes there are now.         *)
LEMMA AnswersStayExact ==
  ASSUME NoWrap, NoEmptyFile, CallsInv, AnswersAreExact, [Next]_vars
  PROVE  AnswersAreExact'
<1>1. /\ m_size \in Nat \ {0}
      /\ IsRanges(Tidied, m_size) /\ IsMerged(Tidied) /\ Covered(Tidied) = Have
  BY SizesAssumption, TidiedIsMerged DEF NoEmptyFile, CallsInv
<1> DEFINE m == Tidied
<1> HIDE DEF m
<1>2. ASSUME NEW p \in Intervals, DoCheckRange(p[1], p[2])
      PROVE  AnswersAreExact'
  <2>1. ret' = Ret("check_range", <<p[1], p[2]>>, CheckRange(Tidied, p[1], p[2])) /\ Have' = Have
    BY <1>2, QueryKeepsInv DEF DoCheckRange
  <2>2. p[1] \in Int /\ p[2] \in Int /\ p[1] < p[2]
    BY <1>1 DEF Intervals, Positions
  <2>3. CheckRange(Tidied, p[1], p[2]) <=> Bytes(p[1], p[2]) \subseteq Have
    BY <1>1, <2>2, CheckRangeIsExact
  <2>4. /\ ret'.op = "check_range" /\ ret'.in[1] = p[1] /\ ret'.in[2] = p[2]
        /\ ret'.out = CheckRange(Tidied, p[1], p[2])
    BY <2>1 DEF Ret
  <2> QED
    BY <2>1, <2>3, <2>4 DEF AnswersAreExact
<1>3. ASSUME NEW p \in Intervals, DoGetRange(p[1], p[2])
      PROVE  AnswersAreExact'
  <2> DEFINE got == GetRange(Tidied, p[1], p[2])
  <2>1. ret' = Ret("get_range", <<p[1], p[2]>>, got) /\ Have' = Have
    BY <1>3, QueryKeepsInv DEF DoGetRange
  <2>2. p[1] \in Int /\ p[2] \in Int /\ p[1] < p[2]
    BY <1>1 DEF Intervals, Positions
  <2>3. /\ got.found <=> p[1] \in Have
        /\ got.found =>
             /\ Bytes(p[1], got.right) \subseteq Have
             /\ got.right = p[2] \/ got.right \notin Have
    BY <1>1, <2>2, GetRangeCutsAtGap
  <2> HIDE DEF got
  <2>4. /\ ret'.op = "get_range" /\ ret'.in[1] = p[1] /\ ret'.in[2] = p[2] /\ ret'.out = got
    BY <2>1 DEF Ret
  <2> QED
    BY <2>1, <2>3, <2>4 DEF AnswersAreExact
<1>4. CASE DoIsFull
  <2>1. ret' = Ret("is_full", <<>>, IsFull(Tidied, m_size)) /\ Have' = Have /\ m_size' = m_size
    BY <1>4, QueryKeepsInv DEF DoIsFull
  <2>2. IsFull(Tidied, m_size) <=> Have = AllBytes
    BY <1>1, IsFullIsExact DEF AllBytes
  <2>3. ret'.op = "is_full" /\ ret'.out = IsFull(Tidied, m_size)
    BY <2>1 DEF Ret
  <2>4. AllBytes' = AllBytes
    BY <2>1 DEF AllBytes
  <2> QED
    BY <2>1, <2>2, <2>3, <2>4 DEF AnswersAreExact
<1>5. CASE DoInverse
  <2>1. ret' = Ret("inverse", <<>>, InverseImpl(Tidied, m_size)) /\ Have' = Have /\ m_size' = m_size
    BY <1>5, QueryKeepsInv DEF DoInverse
  <2>2. Covered(InverseImpl(Tidied, m_size)) = AllBytes \ Have
    BY <1>1, GapsAreMissingBytes DEF AllBytes
  <2>3. ret'.op = "inverse" /\ ret'.out = InverseImpl(Tidied, m_size)
    BY <2>1 DEF Ret
  <2>4. AllBytes' = AllBytes
    BY <2>1 DEF AllBytes
  <2> QED
    BY <2>1, <2>2, <2>3, <2>4 DEF AnswersAreExact
<1>6. CASE DoRangeSize
  <2>1. /\ ret' = Ret("range_size", <<>>, RangeSize(m_ranges))
        /\ m_ranges' = m_ranges /\ m_need_merge' = m_need_merge
    BY <1>6 DEF DoRangeSize
  <2>2. /\ Cardinality(Have) <= RangeSize(m_ranges)
        /\ ~m_need_merge => Cardinality(Have) = RangeSize(m_ranges)
    BY <1>1, RangeSizeCounts DEF CallsInv, Have
  <2>3. ret'.op = "range_size" /\ ret'.out = RangeSize(m_ranges) /\ Have' = Have
    BY <2>1 DEF Ret, Have
  <2>4. RangeSize(m_ranges) >= Cardinality(Have)
    BY <2>2
  <2> QED
    BY <2>1, <2>2, <2>3, <2>4 DEF AnswersAreExact
<1>7. ASSUME ret'.op \in {"reset", "update", "out_space", "range_to_bitfield", "bitfield_to_range"}
      PROVE  AnswersAreExact'
  BY <1>7 DEF AnswersAreExact
<1>8. ASSUME NEW size \in Sizes, DoReset(size)
      PROVE  AnswersAreExact'
  BY <1>7, <1>8 DEF DoReset, Ret
<1>9. ASSUME NEW p \in AnyIntervals, DoUpdate(p[1], p[2])
      PROVE  AnswersAreExact'
  BY <1>7, <1>9 DEF DoUpdate, Ret
<1>10. ASSUME NEW o \in Positions, DoOutSpace(o)
       PROVE  AnswersAreExact'
  BY <1>7, <1>10 DEF DoOutSpace, Ret
<1>11. ASSUME NEW piece \in Pieces, DoRangeToBitfield(piece)
       PROVE  AnswersAreExact'
  BY <1>7, <1>11 DEF DoRangeToBitfield, Ret
<1>12. ASSUME NEW piece \in Pieces, NEW ones \in SUBSET (0 .. PieceNum(m_size, piece) - 1),
              DoBitfieldToRange(ones, piece)
       PROVE  AnswersAreExact'
  BY <1>7, <1>12 DEF DoBitfieldToRange, Ret
<1>13. CASE UNCHANGED vars
  <2>1. ret' = ret /\ Have' = Have /\ AllBytes' = AllBytes /\ m_need_merge' = m_need_merge
    BY <1>13 DEF vars, Have, AllBytes
  <2> QED
    BY <2>1 DEF AnswersAreExact
<1> QED
  BY <1>2, <1>3, <1>4, <1>5, <1>6, <1>8, <1>9, <1>10, <1>11, <1>12, <1>13 DEF Next

(* Every question is answered exactly, whatever was recorded before, in    *)
(* whatever order and however it overlaps.                                 *)
THEOREM AnswersExact == ASSUME NoWrap, NoEmptyFile PROVE Spec => []AnswersAreExact
<1>1. Init => AnswersAreExact
  BY DEF Init, Ret, AnswersAreExact
<1>2. CallsInv /\ AnswersAreExact /\ [Next]_vars => AnswersAreExact'
  BY AnswersStayExact
<1> QED
  BY <1>1, <1>2, CallsInvariant, PTL DEF Spec

(* The name of the last call says which action it was. *)
LEMMA CallsHaveNames ==
  ASSUME [Next]_vars
  PROVE  /\ ret'.op = "out_space" =>
              (\E o \in Positions : DoOutSpace(o)) \/ UNCHANGED vars
         /\ ret'.op = "range_to_bitfield" =>
              (\E piece \in Pieces : DoRangeToBitfield(piece)) \/ UNCHANGED vars
         /\ ret'.op = "bitfield_to_range" =>
              \/ \E piece \in Pieces : \E ones \in SUBSET (0 .. PieceNum(m_size, piece) - 1) :
                   DoBitfieldToRange(ones, piece)
              \/ UNCHANGED vars
<1>1. \A size \in Sizes : DoReset(size) => ret'.op = "reset"
  BY DEF DoReset, Ret
<1>2. \A p \in AnyIntervals : DoUpdate(p[1], p[2]) => ret'.op = "update"
  BY DEF DoUpdate, Ret
<1>3. \A p \in Intervals : /\ DoCheckRange(p[1], p[2]) => ret'.op = "check_range"
                           /\ DoGetRange(p[1], p[2]) => ret'.op = "get_range"
  BY DEF DoCheckRange, DoGetRange, Ret
<1>4. \A o \in Positions : DoOutSpace(o) => ret'.op = "out_space"
  BY DEF DoOutSpace, Ret
<1>5. /\ DoIsFull => ret'.op = "is_full"
      /\ DoInverse => ret'.op = "inverse"
      /\ DoRangeSize => ret'.op = "range_size"
  BY DEF DoIsFull, DoInverse, DoRangeSize, Ret
<1>6. \A piece \in Pieces : DoRangeToBitfield(piece) => ret'.op = "range_to_bitfield"
  BY DEF DoRangeToBitfield, Ret
<1>7. \A piece \in Pieces : \A ones \in SUBSET (0 .. PieceNum(m_size, piece) - 1) :
        DoBitfieldToRange(ones, piece) => ret'.op = "bitfield_to_range"
  BY DEF DoBitfieldToRange, Ret
<1> QED
  BY <1>1, <1>2, <1>3, <1>4, <1>5, <1>6, <1>7 DEF Next

(* out_space() offers the next gap. *)
LEMMA OutSpaceStaysNextGap ==
  ASSUME NoEmptyFile, CallsInv, OutSpaceIsNextGap, [Next]_vars
  PROVE  OutSpaceIsNextGap'
<1>1. ASSUME NEW o \in Positions, DoOutSpace(o)
      PROVE  OutSpaceIsNextGap'
  <2> DEFINE gap == OutSpace(Tidied, m_size, o)
             missing == AllBytes \ Have
             after == {b \in missing : b >= o}
             first == IF after # {} THEN after ELSE missing
  <2>1. /\ m_size \in Nat \ {0} /\ o \in Nat
        /\ IsRanges(Tidied, m_size) /\ IsMerged(Tidied) /\ Covered(Tidied) = Have
    BY SizesAssumption, TidiedIsMerged DEF NoEmptyFile, CallsInv, Positions
  <2>2. Missing(Tidied, m_size) = missing
    BY <2>1 DEF Missing, AllBytes
  <2>3. /\ gap.found <=> missing # {}
        /\ gap.found =>
              /\ gap.left \in 0 .. (m_size - 1) /\ gap.right \in 0 .. m_size
              /\ gap.left < gap.right
              /\ Bytes(gap.left, gap.right) \subseteq missing
              /\ gap.right \notin missing
              /\ \A b \in missing : o <= b => gap.left <= b
              /\ gap.left < o => \A b \in missing : b < o /\ gap.left <= b
    BY <2>1, <2>2, OutSpaceFindsGap
  <2>4. missing \subseteq Int
    BY <2>1 DEF AllBytes
  <2>5. ret' = Ret("out_space", <<o>>, gap) /\ Have' = Have /\ m_size' = m_size
    BY <1>1, QueryKeepsInv DEF DoOutSpace
  <2> HIDE DEF gap
  <2>6. ret'.in[1] = o /\ ret'.out = gap
    BY <2>5 DEF Ret
  <2>7. AllBytes' \ Have' = missing
    BY <2>5 DEF AllBytes
  <2> HIDE DEF missing
  <2>8. ASSUME gap.found
        PROVE  gap.left \in first /\ \A b \in first : gap.left <= b
    <3>1. gap.left \in Int /\ gap.left \in missing
      BY <2>1, <2>3, <2>8 DEF Bytes
    <3>2. CASE after # {}
      <4>1. gap.left >= o
        <5>1. PICK b \in missing : b >= o
          BY <3>2
        <5>2. ~(b < o)
          BY <2>1, <2>4, <5>1
        <5>3. ~(gap.left < o)
          BY <2>3, <2>8, <5>2
        <5> QED
          BY <2>1, <3>1, <5>3
      <4> QED
        BY <2>1, <2>3, <2>4, <2>8, <3>1, <3>2, <4>1
    <3>3. CASE after = {}
      <4>1. gap.left < o
        BY <2>1, <3>1, <3>3
      <4> QED
        BY <2>3, <2>8, <3>1, <3>3, <4>1
    <3> QED
      BY <3>2, <3>3
  <2> QED
    BY <2>3, <2>6, <2>7, <2>8 DEF OutSpaceIsNextGap
<1>2. CASE UNCHANGED vars
  <2>1. ret' = ret /\ Have' = Have /\ AllBytes' = AllBytes
    BY <1>2 DEF vars, Have, AllBytes
  <2> QED
    BY <2>1 DEF OutSpaceIsNextGap
<1>3. CASE ret'.op # "out_space"
  BY <1>3 DEF OutSpaceIsNextGap
<1> QED
  BY <1>1, <1>2, <1>3, CallsHaveNames

(* out_space() offers a gap exactly when a byte is missing, it is all      *)
(* missing up to the next byte that is there, and it begins at the first   *)
(* missing byte from offset on, else at the first of the file.             *)
THEOREM OutSpaceNextGap == ASSUME NoWrap, NoEmptyFile PROVE Spec => []OutSpaceIsNextGap
<1>1. Init => OutSpaceIsNextGap
  BY DEF Init, Ret, OutSpaceIsNextGap
<1>2. CallsInv /\ OutSpaceIsNextGap /\ [Next]_vars => OutSpaceIsNextGap'
  BY OutSpaceStaysNextGap
<1> QED
  BY <1>1, <1>2, CallsInvariant, PTL DEF Spec

(* The bitfield that is saved promises no byte that is missing. *)
LEMMA BitfieldStaysSound ==
  ASSUME NoWrap, CallsInv, BitfieldSound, [Next]_vars
  PROVE  BitfieldSound'
<1>1. ASSUME NEW piece \in Pieces, DoRangeToBitfield(piece)
      PROVE  BitfieldSound'
  <2> DEFINE bf == RangeToBitfield(Tidied, m_size, piece, IntLimit)
  <2>1. /\ m_size \in Nat /\ piece \in Nat \ {0} /\ IntLimit \in Nat
        /\ m_size + piece <= IntLimit
        /\ IsRanges(Tidied, m_size) /\ Covered(Tidied) = Have
    BY TidiedIsMerged, PiecesAssumption, IntLimitAssumption DEF NoWrap, CallsInv
  <2>2. \A i \in bf.ones : PieceBytes(i, m_size, piece) \subseteq Have
    BY <2>1, BitfieldMarksWholePieces
  <2>3. ret' = Ret("range_to_bitfield", <<piece>>, bf) /\ Have' = Have /\ m_size' = m_size
    BY <1>1, QueryKeepsInv DEF DoRangeToBitfield
  <2> HIDE DEF bf
  <2>4. ret'.in[1] = piece /\ ret'.out = bf
    BY <2>3 DEF Ret
  <2> QED
    BY <2>2, <2>3, <2>4 DEF BitfieldSound
<1>2. CASE UNCHANGED vars
  <2>1. ret' = ret /\ Have' = Have /\ m_size' = m_size
    BY <1>2 DEF vars, Have
  <2> QED
    BY <2>1 DEF BitfieldSound
<1>3. CASE ret'.op # "range_to_bitfield"
  BY <1>3 DEF BitfieldSound
<1> QED
  BY <1>1, <1>2, <1>3, CallsHaveNames

(* A bit of the bitfield that goes to the meta file is 1 only if every     *)
(* byte of the piece is there, as long as no int wraps.                    *)
THEOREM SavedBitfieldSound == ASSUME NoWrap PROVE Spec => []BitfieldSound
<1>1. Init => BitfieldSound
  BY DEF Init, Ret, BitfieldSound
<1>2. CallsInv /\ BitfieldSound /\ [Next]_vars => BitfieldSound'
  BY BitfieldStaysSound
<1> QED
  BY <1>1, <1>2, CallsInvariant, PTL DEF Spec

(* What was restored would be saved as it was. *)
LEMMA RoundTripStays ==
  ASSUME NoWrap, CallsInv, BitfieldRoundTrip, [Next]_vars
  PROVE  BitfieldRoundTrip'
<1>1. ASSUME NEW piece \in Pieces, NEW ones \in SUBSET (0 .. PieceNum(m_size, piece) - 1),
             DoBitfieldToRange(ones, piece)
      PROVE  BitfieldRoundTrip'
  <2> DEFINE bf == [len |-> PieceNum(m_size, piece), ones |-> ones]
             restored == UNION {PieceBytes(i, m_size, piece) : i \in ones}
  <2>1. /\ m_size \in Nat /\ piece \in Nat \ {0} /\ IntLimit \in Nat
        /\ m_size + piece <= IntLimit
    BY SizesAssumption, PiecesAssumption, IntLimitAssumption DEF NoWrap, CallsInv
  <2>2. CallsInv' /\ Have' = restored
    BY <1>1, RestoreKeepsInv
  <2>3. /\ ret' = Ret("bitfield_to_range", <<piece, bf>>, TRUE)
        /\ m_size' = m_size /\ m_need_merge' = TRUE
    BY <1>1 DEF DoBitfieldToRange
  <2>4. Tidied' = Merge(m_ranges')
    BY <2>3 DEF Tidied, Tidy
  <2>5. IsRanges(m_ranges', m_size)
    BY <2>2, <2>3 DEF CallsInv
  <2>6. IsRanges(Tidied', m_size) /\ IsMerged(Tidied') /\ Covered(Tidied') = restored
    BY <2>1, <2>2, <2>4, <2>5, MergeKeepsBytes DEF Have
  <2>7. RangeToBitfield(Tidied', m_size, piece, IntLimit) = bf
    BY <2>1, <2>6, BitfieldSurvives
  <2> HIDE DEF bf
  <2>8. ret'.in[1] = piece /\ ret'.in[2] = bf
    BY <2>3 DEF Ret
  <2>9. bf.ones = ones
    BY DEF bf
  <2> QED
    BY <2>2, <2>3, <2>7, <2>8, <2>9 DEF BitfieldRoundTrip
<1>2. CASE UNCHANGED vars
  <2>1. ret' = ret /\ Have' = Have /\ m_size' = m_size /\ Tidied' = Tidied
    BY <1>2 DEF vars, Have, Tidied
  <2> QED
    BY <2>1 DEF BitfieldRoundTrip
<1>3. CASE ret'.op # "bitfield_to_range"
  BY <1>3 DEF BitfieldRoundTrip
<1> QED
  BY <1>1, <1>2, <1>3, CallsHaveNames

(* A download that is resumed and interrupted at once forgets nothing: the *)
(* bitfield it restores marks exactly the bytes of its 1 pieces, and is    *)
(* the bitfield it would save.                                             *)
THEOREM RoundTrip == ASSUME NoWrap PROVE Spec => []BitfieldRoundTrip
<1>1. Init => BitfieldRoundTrip
  BY DEF Init, Ret, BitfieldRoundTrip
<1>2. CallsInv /\ BitfieldRoundTrip /\ [Next]_vars => BitfieldRoundTrip'
  BY RoundTripStays
<1> QED
  BY <1>1, <1>2, CallsInvariant, PTL DEF Spec

(* Asking changes no byte; update() adds its bytes and loses none but      *)
(* those of a longer entry with the same left border.                      *)
THEOREM ChangesAsAsked == ASSUME NoWrap PROVE Spec => ChangesAreAsAsked
<1> DEFINE A == /\ ret'.op \notin {"update", "reset", "bitfield_to_range"} => Have' = Have
                /\ ret'.op = "update" /\ ret'.out =>
                     \/ Have' = Have \cup Bytes(ret'.in[1], ret'.in[2])
                     \/ /\ ret'.in[1] \in DOMAIN m_ranges
                        /\ m_ranges[ret'.in[1]] > ret'.in[2]
                        /\ Have \ Have' \subseteq Bytes(ret'.in[2], m_ranges[ret'.in[1]])
<1>1. ASSUME CallsInv, Next
      PROVE  A
  <2>1. ASSUME ret'.op \notin {"update", "reset", "bitfield_to_range"}, Have' = Have
        PROVE  A
    BY <2>1
  <2>2. ASSUME NEW p \in AnyIntervals, DoUpdate(p[1], p[2])
        PROVE  A
    <3> DEFINE l == p[1]
               r == p[2]
    <3>1. m_size \in Nat /\ l \in Int /\ r \in Int
      BY <1>1, SizesAssumption DEF CallsInv, AnyIntervals, Positions
    <3>2. ret' = Ret("update", <<l, r>>, CanUpdate(m_size, l, r))
      BY <2>2 DEF DoUpdate
    <3>3. /\ ret'.op = "update" /\ ret'.in[1] = l /\ ret'.in[2] = r
          /\ ret'.out = CanUpdate(m_size, l, r)
      BY <3>2 DEF Ret
    <3> HIDE DEF l, r
    <3>4. ASSUME CanUpdate(m_size, l, r)
          PROVE  \/ Have' = Have \cup Bytes(l, r)
                 \/ /\ l \in DOMAIN m_ranges
                    /\ m_ranges[l] > r
                    /\ Have \ Have' \subseteq Bytes(r, m_ranges[l])
      <4>1. m_ranges' = Update(m_ranges, l, r)
        BY <2>2, <3>4 DEF DoUpdate, l, r
      <4>2. /\ Bytes(l, r) \subseteq Have'
            /\ Have' \subseteq Have \cup Bytes(l, r)
            /\ \A b \in Have \ Have' : l \in DOMAIN m_ranges /\ r <= b /\ b < m_ranges[l]
        BY <1>1, <3>1, <3>4, <4>1, UpdateAddsBytes DEF CallsInv, Have
      <4>3. CASE Have \subseteq Have'
        BY <4>2, <4>3
      <4>4. CASE ~(Have \subseteq Have')
        <5>1. Have \subseteq Int
          BY <1>1, <3>1, CoveredBytes DEF CallsInv, Have
        <5>2. PICK b \in Have : b \notin Have'
          BY <4>4
        <5>3. l \in DOMAIN m_ranges /\ r <= b /\ b < m_ranges[l] /\ b \in Int
          BY <4>2, <5>1, <5>2
        <5>4. m_ranges[l] \in Int
          BY <1>1, <3>1, <5>3 DEF CallsInv, IsRanges
        <5>5. Have \ Have' \subseteq Bytes(r, m_ranges[l])
          BY <3>1, <4>2, <5>1, <5>4 DEF Bytes
        <5> QED
          BY <3>1, <5>3, <5>4, <5>5
      <4> QED
        BY <4>3, <4>4
    <3> QED
      BY <3>3, <3>4
  <2>3. ASSUME NEW p \in Intervals, DoCheckRange(p[1], p[2]) \/ DoGetRange(p[1], p[2])
        PROVE  A
    BY <1>1, <2>1, <2>3, QueryKeepsInv DEF DoCheckRange, DoGetRange, Ret
  <2>4. ASSUME NEW o \in Positions, DoOutSpace(o)
        PROVE  A
    BY <1>1, <2>1, <2>4, QueryKeepsInv DEF DoOutSpace, Ret
  <2>5. CASE DoIsFull \/ DoInverse
    BY <1>1, <2>1, <2>5, QueryKeepsInv DEF DoIsFull, DoInverse, Ret
  <2>6. CASE DoRangeSize
    BY <2>1, <2>6 DEF DoRangeSize, Ret, Have
  <2>7. ASSUME NEW piece \in Pieces, DoRangeToBitfield(piece)
        PROVE  A
    BY <1>1, <2>1, <2>7, QueryKeepsInv DEF DoRangeToBitfield, Ret
  <2>8. ASSUME NEW size \in Sizes, DoReset(size)
        PROVE  A
    BY <2>8 DEF DoReset, Ret
  <2>9. ASSUME NEW piece \in Pieces, NEW ones \in SUBSET (0 .. PieceNum(m_size, piece) - 1),
               DoBitfieldToRange(ones, piece)
        PROVE  A
    BY <2>9 DEF DoBitfieldToRange, Ret
  <2> HIDE DEF A
  <2> QED
    BY <1>1, <2>2, <2>3, <2>4, <2>5, <2>6, <2>7, <2>8, <2>9 DEF Next
<1>2. CallsInv /\ [Next]_vars => [A]_vars
  BY <1>1
<1> QED
  BY <1>2, CallsInvariant, PTL DEF Spec, ChangesAreAsAsked
=============================================================================
