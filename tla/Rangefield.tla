----------------------------- MODULE Rangefield -----------------------------
(***************************************************************************)
(* The algorithms of class rangefield (include/avhttp/rangefield.hpp): a   *)
(* set of half-open byte intervals [left, right) kept as a std::map from   *)
(* left to right.  A map is a function from a finite set of left borders   *)
(* to right borders; every operator takes the map as it stands and returns *)
(* what the C++ function leaves behind or answers.  Nothing here has state *)
(* of its own: RangefieldCalls, RangeAllocator and MultiDownload do.       *)
(*                                                                         *)
(* No operator is RECURSIVE: a C++ loop over the map is a fold over its    *)
(* left borders in increasing order.                                       *)
(***************************************************************************)
EXTENDS Integers, FiniteSets, Folds, FiniteSetsExt

EmptyMap == [l \in {} |-> 0]

(* std::map::insert keeps an existing entry, operator[] = replaces it. *)
Insert(m, l, r)  == [k \in DOMAIN m \cup {l} |-> IF k \in DOMAIN m THEN m[k] ELSE r]
Replace(m, l, r) == [k \in DOMAIN m \cup {l} |-> IF k = l THEN r ELSE m[k]]

(* Visit the entries of m from the smallest left border to the largest. *)
FoldMap(op(_, _, _), base, m) ==
  MapThenFoldSet(LAMBDA l, acc : op(acc, l, m[l]), base,
                 LAMBDA l : l, LAMBDA S : Max(S), DOMAIN m)

(***************************************************************************)
(* The bytes an entry, and a whole map, stand for.                         *)
(***************************************************************************)
Bytes(l, r) == l .. (r - 1)
Covered(m)  == UNION {Bytes(l, m[l]) : l \in DOMAIN m}

-----------------------------------------------------------------------------
(* Mutant of MergeStep: intervals that touch are not joined. *)
MergeStepApart(acc, l, r) ==
  IF acc.first <= l /\ r <= acc.second THEN acc
  ELSE IF acc.first < l /\ l < acc.second THEN [acc EXCEPT !.second = r]
  ELSE [result |-> IF acc.second # 0 THEN Insert(acc.result, acc.first, acc.second)
                                     ELSE acc.result,
        first |-> l, second |-> r]

(* merge(): acc.first and acc.second are max_value, acc.result the map that *)
(* is being built; <<0, 0>> means that no interval has been picked up yet. *)
(* The cases are tested in this order: inside max_value, sticking out to   *)
(* its left, sticking out to its right (or touching it), beyond it.        *)
MergeStep(acc, l, r) ==
  LET f == acc.first  s == acc.second IN
  IF f <= l /\ r <= s THEN acc
  ELSE IF l <= f /\ f <= r /\ r <= s THEN [acc EXCEPT !.first = l]
  ELSE IF f < l /\ l <= s THEN [acc EXCEPT !.second = r]
  ELSE IF s < l \/ (f = 0 /\ s = 0)
       THEN [result |-> IF f # 0 \/ s # 0 THEN Insert(acc.result, f, s)
                                         ELSE acc.result,
             first  |-> l, second |-> r]
  ELSE acc

(* Mutant of Merge: the interval that is still being built is forgotten. *)
MergeForgetsLast(m) ==
  FoldMap(MergeStep, [result |-> EmptyMap, first |-> 0, second |-> 0], m).result

WithLast(acc) == Insert(acc.result, acc.first, acc.second)
Merge(m) ==
  WithLast(FoldMap(MergeStep, [result |-> EmptyMap, first |-> 0, second |-> 0], m))

(* inverse_impl() on a merged map: the gaps, as a map of their own. *)
InverseImpl(m, size) ==
  LET step(acc, l, r) ==
        [gaps  |-> IF acc.begin /\ l = 0 THEN acc.gaps
                   ELSE Insert(acc.gaps, acc.point, l),
         point |-> r,
         begin |-> FALSE]
      tail(end) == IF end.point # size \/ DOMAIN m = {}
                   THEN Insert(end.gaps, end.point, size)
                   ELSE end.gaps
  IN  tail(FoldMap(step, [gaps |-> EmptyMap, point |-> 0, begin |-> TRUE], m))

(* update(): refuses an empty or out-of-bounds interval; otherwise the     *)
(* entry at left is replaced, whatever it was.                             *)
CanUpdate(size, l, r) == ~(l < 0 \/ r > size \/ r <= l)

Update(m, l, r) == Replace(m, l, r)

(* check_range(), get_range() and is_full() on a merged map. *)
(* Mutant of CheckRange: the right border taken as included. *)
CheckRangeIncluded(m, l, r) == \E k \in DOMAIN m : l >= k /\ r <= m[k] + 1
CheckRange(m, l, r) == \E k \in DOMAIN m : l >= k /\ r <= m[k]

GetRange(m, l, r) ==
  LET hits == {k \in DOMAIN m : /\ l >= k
                                /\ \/ r <= m[k]
                                   \/ r > k /\ m[k] > l}
      k    == Min(hits)
  IN  IF hits = {}
      THEN [found |-> FALSE, right |-> r]
      ELSE [found |-> TRUE, right |-> IF r <= m[k] THEN r ELSE m[k]]

IsFull(m, size) == DOMAIN m = {0} /\ m[0] = size

(* Mutant of Behind: the gap that offset lies in is passed over. *)
BehindOnly(inv, offset) == {k \in DOMAIN inv : offset < k}

(* The gaps that end behind offset. *)
Behind(inv, offset) == {k \in DOMAIN inv : offset < k \/ offset < inv[k]}

(* Mutant of OutSpace: gaps before offset are not gaps. *)
OutSpaceForward(m, size, offset) ==
  LET after(inv, hits) ==
        IF hits = {}
        THEN [found |-> FALSE, left |-> 0, right |-> 0]
        ELSE [found |-> TRUE, left |-> Max({offset, Min(hits)}), right |-> inv[Min(hits)]]
      forward(inv) == after(inv, Behind(inv, offset))
  IN  forward(InverseImpl(m, size))

(* out_space(offset, left, right) on a merged map: the part from offset on  *)
(* of the first gap that ends after offset, else the first gap of all.     *)
SpaceIn(inv, hits, offset) ==
  IF hits # {}
  THEN [found |-> TRUE, left |-> Max({offset, Min(hits)}), right |-> inv[Min(hits)]]
  ELSE IF DOMAIN inv # {}
  THEN [found |-> TRUE, left |-> Min(DOMAIN inv), right |-> inv[Min(DOMAIN inv)]]
  ELSE [found |-> FALSE, left |-> 0, right |-> 0]

OutSpace(m, size, offset) ==
  LET find(inv) == SpaceIn(inv, Behind(inv, offset), offset)
  IN  find(InverseImpl(m, size))

(* range_size(): the sum over the map as it stands; this one never merges. *)
RangeSize(m) == FoldMap(LAMBDA acc, l, r : acc + (r - l), 0, m)

-----------------------------------------------------------------------------
(* Bitfields.  A bitfield is the number of its bits and the set of those   *)
(* that are 1.  Piece borders are products of two ints: they wrap at       *)
(* intLimit, which is 2^31 in the program.                                 *)
Wrap(x, intLimit) == ((x + intLimit) % (2 * intLimit)) - intLimit

PieceNum(size, piece) ==
  (size \div piece) + (IF size % piece = 0 THEN 0 ELSE 1)

(* The bytes the i-th piece of a file stands for. *)
PieceBytes(i, size, piece) ==
  {b \in 0 .. (size - 1) : i * piece <= b /\ b < (i + 1) * piece}

(* Mutant of RangeToBitfield: a piece counts as soon as a byte of it is there. *)
RangeToBitfieldAnyByte(m, size, piece, intLimit) ==
  [len  |-> PieceNum(size, piece),
   ones |-> {i \in 0 .. (PieceNum(size, piece) - 1) :
               PieceBytes(i, size, piece) \cap Covered(m) # {}}]

(* range_to_bitfield() on a merged map: one pass over the pieces that moves *)
(* on by at most one interval per piece.  acc.rest holds the left borders  *)
(* from the iterator it on; it is end() when there are none.               *)
RangeToBitfield(m, size, piece, intLimit) ==
  LET inside(l, r, rest) == /\ rest # {}
                            /\ l >= Min(rest)
                            /\ r <= m[Min(rest)]
      step(i, acc) ==
        LET l    == Wrap(i * piece, intLimit)
            wide == Wrap((i + 1) * piece, intLimit)
            r    == IF wide > size THEN size ELSE wide
            past == /\ acc.rest # {}
                    /\ ~inside(l, r, acc.rest)
                    /\ r >= m[Min(acc.rest)]
            rest == IF past THEN acc.rest \ {Min(acc.rest)} ELSE acc.rest
        IN  [rest |-> rest,
             ones |-> IF inside(l, r, rest) THEN acc.ones \cup {i} ELSE acc.ones]
      end == MapThenFoldSet(step, [rest |-> DOMAIN m, ones |-> {}],
                            LAMBDA i : i, LAMBDA S : Max(S),
                            0 .. (PieceNum(size, piece) - 1))
  IN  [len |-> PieceNum(size, piece), ones |-> end.ones]

(* Mutant of Runs: a run that reaches the last bit is forgotten. *)
RunsInside(bf) ==
  {i \in bf.ones : i - 1 \notin bf.ones /\ \E j \in i .. (bf.len - 1) : j \notin bf.ones}
Runs(bf) == {i \in bf.ones : i - 1 \notin bf.ones}

(* Mutant of Cut: the last piece is taken as a whole one. *)
CutNot(right, size) == right
Cut(right, size) == Min({size, right})

(* bitfield_to_range(): one entry per run of 1 bits, the last cut at size. *)
BitfieldToRange(bf, size, piece, intLimit) ==
  LET starts == Runs(bf)
      stop(i) == Min({j \in i .. bf.len : j \notin bf.ones})
      left(i) == Wrap(i * piece, intLimit)
      right(i) == Cut(left(i) + (stop(i) - i) * piece, size)
  IN  [l \in {left(i) : i \in starts} |->
         right(Max({i \in starts : left(i) = l}))]

=============================================================================
