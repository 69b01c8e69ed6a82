-------------------------- MODULE RangefieldCalls --------------------------
(***************************************************************************)
(* One rangefield object and a client that calls its public operations in  *)
(* any order (include/avhttp/rangefield.hpp, built without threads: the    *)
(* mutex of the class is the subject of RangefieldThreads).                *)
(*                                                                         *)
(* m_ranges, m_need_merge and m_size are the fields of the class.  ret is  *)
(* the last call: its name, its arguments and what it answered.            *)
(***************************************************************************)
EXTENDS Rangefield, Integers, FiniteSets

CONSTANTS
  Sizes,      \* the sizes the client passes to reset()
  Pieces,     \* the piece sizes it uses for bitfields
  IntLimit    \* 2^31 in the program: where an int wraps

ASSUME SizesAssumption == Sizes \subseteq Nat /\ Sizes # {}
ASSUME PiecesAssumption == Pieces \subseteq Nat \ {0}
ASSUME IntLimitAssumption == IntLimit \in Nat \ {0}

VARIABLES m_ranges, m_need_merge, m_size, ret

vars == <<m_ranges, m_need_merge, m_size, ret>>

Ret(op, in, out) == [op |-> op, in |-> in, out |-> out]

(* The pairs a client may pass as [left, right): update() checks them, the *)
(* other calls assert left < right <= m_size.                              *)
Positions    == 0 .. m_size
Intervals    == {p \in Positions \X Positions : p[1] < p[2]}
AnyIntervals == Positions \X (0 .. m_size + 1)

Init ==
  /\ m_size \in Sizes
  /\ m_ranges = EmptyMap
  /\ m_need_merge = FALSE
  /\ ret = Ret("reset", <<m_size>>, TRUE)

(* What every query does first. *)
Tidy(m, dirty) == IF dirty THEN Merge(m) ELSE m
Tidied         == Tidy(m_ranges, m_need_merge)

MergeFirst ==
  /\ m_ranges' = Tidied
  /\ m_need_merge' = FALSE
  /\ UNCHANGED m_size

DoReset(size) ==
  /\ m_size' = size
  /\ m_ranges' = EmptyMap
  /\ m_need_merge' = FALSE
  /\ ret' = Ret("reset", <<size>>, TRUE)

DoUpdate(l, r) ==
  /\ IF CanUpdate(m_size, l, r)
     THEN m_ranges' = Update(m_ranges, l, r) /\ m_need_merge' = TRUE
     ELSE UNCHANGED <<m_ranges, m_need_merge>>
  /\ ret' = Ret("update", <<l, r>>, CanUpdate(m_size, l, r))
  /\ UNCHANGED m_size

DoCheckRange(l, r) ==
  /\ MergeFirst
  /\ ret' = Ret("check_range", <<l, r>>, CheckRange(Tidied, l, r))

DoGetRange(l, r) ==
  /\ MergeFirst
  /\ ret' = Ret("get_range", <<l, r>>, GetRange(Tidied, l, r))

DoOutSpace(offset) ==
  /\ MergeFirst
  /\ ret' = Ret("out_space", <<offset>>, OutSpace(Tidied, m_size, offset))

DoIsFull ==
  /\ MergeFirst
  /\ ret' = Ret("is_full", <<>>, IsFull(Tidied, m_size))

DoInverse ==
  /\ MergeFirst
  /\ ret' = Ret("inverse", <<>>, InverseImpl(Tidied, m_size))

(* range_size() is const: it sums the map as it stands. *)
DoRangeSize ==
  /\ ret' = Ret("range_size", <<>>, RangeSize(m_ranges))
  /\ UNCHANGED <<m_ranges, m_need_merge, m_size>>

DoRangeToBitfield(piece) ==
  /\ MergeFirst
  /\ ret' = Ret("range_to_bitfield", <<piece>>,
                RangeToBitfield(Tidied, m_size, piece, IntLimit))

DoBitfieldToRange(ones, piece) ==
  LET bf == [len |-> PieceNum(m_size, piece), ones |-> ones] IN
  /\ m_ranges' = BitfieldToRange(bf, m_size, piece, IntLimit)
  /\ m_need_merge' = TRUE
  /\ ret' = Ret("bitfield_to_range", <<piece, bf>>, TRUE)
  /\ UNCHANGED m_size

Next ==
  \/ \E size \in Sizes : DoReset(size)
  \/ \E p \in AnyIntervals : DoUpdate(p[1], p[2])
  \/ \E p \in Intervals : DoCheckRange(p[1], p[2])
  \/ \E p \in Intervals : DoGetRange(p[1], p[2])
  \/ \E o \in Positions : DoOutSpace(o)
  \/ DoIsFull
  \/ DoInverse
  \/ DoRangeSize
  \/ \E piece \in Pieces : DoRangeToBitfield(piece)
  \/ \E piece \in Pieces :
       \E ones \in SUBSET (0 .. PieceNum(m_size, piece) - 1) :
         DoBitfieldToRange(ones, piece)

Spec == Init /\ [][Next]_vars

-----------------------------------------------------------------------------
AllBytes == 0 .. (m_size - 1)
Have     == Covered(m_ranges)

(* The shape of the object: m_ranges maps borders to borders.              *)
TypeOK ==
  /\ m_size \in Sizes
  /\ m_need_merge \in BOOLEAN
  /\ DOMAIN m_ranges \subseteq Positions
  /\ \A l \in DOMAIN m_ranges : m_ranges[l] \in Positions /\ m_ranges[l] >= l

(* Once merge() has run, the map is the list of maximal runs of bytes: no  *)
(* two entries overlap or touch.  is_full(), check_range() and             *)
(* inverse_impl() look at one entry at a time and rely on it.  (<<0, 0>>   *)
(* is what merge() makes of an empty map.)                                 *)
MergedIsMaximal ==
  ~m_need_merge =>
    \A l \in DOMAIN m_ranges :
      \/ l < m_ranges[l] /\ l - 1 \notin Have /\ m_ranges[l] \notin Have
      \/ l = 0 /\ m_ranges[l] = 0 /\ Have = {}

(* Every question is answered about the bytes that were recorded, whatever *)
(* the order and overlaps in which they were: a range is present iff all   *)
(* of its bytes are, the field is full iff every byte of the file is,      *)
(* get_range() cuts the range at the first byte that is missing, and        *)
(* range_size() is the number of bytes, or, as it does not merge, more.    *)
AnswersAreExact ==
  CASE ret.op = "check_range" ->
         ret.out <=> Bytes(ret.in[1], ret.in[2]) \subseteq Have
    [] ret.op = "is_full" -> ret.out <=> Have = AllBytes
    [] ret.op = "inverse" -> Covered(ret.out) = AllBytes \ Have
    [] ret.op = "get_range" ->
         /\ ret.out.found <=> ret.in[1] \in Have
         /\ ret.out.found =>
              /\ Bytes(ret.in[1], ret.out.right) \subseteq Have
              /\ ret.out.right = ret.in[2] \/ ret.out.right \notin Have
    [] ret.op = "range_size" ->
         /\ ret.out >= Cardinality(Have)
         /\ ~m_need_merge => ret.out = Cardinality(Have)
    [] OTHER -> TRUE

(* out_space() offers a gap exactly when a byte is missing; none of the    *)
(* bytes offered is present, the gap runs up to the next present byte, and *)
(* it starts at the first missing byte from offset on whenever there is    *)
(* one (else at the first missing byte of the file).                       *)
OutSpaceIsNextGap ==
  ret.op = "out_space" =>
    LET missing == AllBytes \ Have
        after   == {b \in missing : b >= ret.in[1]}
        first   == IF after # {} THEN after ELSE missing
    IN  /\ ret.out.found <=> missing # {}
        /\ ret.out.found =>
             /\ ret.out.left \in first
             /\ \A b \in first : ret.out.left <= b
             /\ Bytes(ret.out.left, ret.out.right) \subseteq missing
             /\ ret.out.right \notin missing

(* A bit of the bitfield that goes to the meta file is 1 only if every     *)
(* byte of the piece is present: a resumed download skips what it says.    *)
BitfieldSound ==
  ret.op = "range_to_bitfield" =>
    \A i \in ret.out.ones : PieceBytes(i, m_size, ret.in[1]) \subseteq Have

(* rangefield.hpp:338, "为0表示空, 为1表示满" (0 empty, 1 full): the bit of a   *)
(* piece that is all there is 1, however many intervals lie before it.     *)
BitfieldComplete ==
  ret.op = "range_to_bitfield" =>
    \A i \in 0 .. ret.out.len - 1 :
      PieceBytes(i, m_size, ret.in[1]) \subseteq Have => i \in ret.out.ones

(* Restoring a bitfield marks exactly the bytes of its 1 pieces, and       *)
(* saving it again gives the same bitfield: a download that is resumed and *)
(* interrupted at once forgets nothing.                                    *)
BitfieldRoundTrip ==
  ret.op = "bitfield_to_range" =>
    LET piece == ret.in[1]  bf == ret.in[2] IN
    /\ Have = UNION {PieceBytes(i, m_size, piece) : i \in bf.ones}
    /\ RangeToBitfield(Tidied, m_size, piece, IntLimit) = bf

(* Asking never changes which bytes are recorded, although every query may *)
(* rewrite the map; update() adds its bytes and loses none, unless a longer *)
(* entry begins at the same left border: that one it replaces.             *)
ChangesAreAsAsked ==
  [][/\ ret'.op \notin {"update", "reset", "bitfield_to_range"} => Have' = Have
     /\ ret'.op = "update" /\ ret'.out =>
          \/ Have' = Have \cup Bytes(ret'.in[1], ret'.in[2])
          \/ /\ ret'.in[1] \in DOMAIN m_ranges
             /\ m_ranges[ret'.in[1]] > ret'.in[2]
             /\ Have \ Have' \subseteq Bytes(ret'.in[2], m_ranges[ret'.in[1]])]_vars

=============================================================================
