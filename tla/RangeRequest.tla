---------------------------- MODULE RangeRequest ----------------------------
(***************************************************************************)
(* What multi_download::allocate_range does with the gap that out_space()  *)
(* offers it (include/avhttp/impl/multi_download.ipp:1626).  The byte      *)
(* ranges of rangefield are half-open, those of an HTTP request include    *)
(* their right border; a request is a record [left, right] of the second   *)
(* kind.                                                                   *)
(***************************************************************************)
EXTENDS Rangefield
LOCAL INSTANCE Integers

(* Mutant of Clip: one byte too many. *)
ClipLong(gap, maxRequest) ==
  [left  |-> gap.left,
   right |-> IF gap.right - gap.left > maxRequest + 1
             THEN gap.left + maxRequest + 1 ELSE gap.right]

(* Mutant of Clip: a gap that is too long is cut to nothing. *)
ClipToNothing(gap, maxRequest) ==
  [left  |-> gap.left,
   right |-> IF gap.right - gap.left > maxRequest THEN gap.left ELSE gap.right]

(* Cut the gap to at most maxRequest bytes.  range::size() adds one for    *)
(* the right border although the gap is half-open.                         *)
Clip(gap, maxRequest) ==
  [left  |-> gap.left,
   right |-> IF gap.right - gap.left + 1 > maxRequest
             THEN gap.left + maxRequest ELSE gap.right]

(* Mutants of Inclusive: r.right not decremented, or decremented twice. *)
InclusiveNot(r) == [left |-> r.left, right |-> r.right]
InclusiveTwice(r) == [left |-> r.left, right |-> r.right - 2]

(* --r.right: from half-open to inclusive. *)
Inclusive(r) == [left |-> r.left, right |-> r.right - 1]

RequestBytes(r) == r.left .. r.right

(* Mutant of AllocateRange: what it hands out is not recorded. *)
AllocateUnrecorded(m, size, point, maxRequest) ==
  LET take(gap) == [ok |-> gap.found, ranges |-> Merge(m),
                    request |-> Inclusive(Clip(gap, maxRequest))]
  IN  take(OutSpace(Merge(m), size, point))

(* The whole of allocate_range on a map m, when nothing runs between its   *)
(* steps and the file is not empty: ok, the request, and the map after it. *)
AllocateRange(m, size, point, maxRequest) ==
  LET take(tidy, found, temp) ==
        IF ~found \/ ~CanUpdate(size, temp.left, temp.right)
        THEN [ok |-> FALSE, ranges |-> tidy, request |-> [left |-> 0, right |-> 0]]
        ELSE [ok |-> TRUE, ranges |-> Update(tidy, temp.left, temp.right),
              request |-> Inclusive(temp)]
      from(tidy, gap) == take(tidy, gap.found, Clip(gap, maxRequest))
      ask(tidy) == from(tidy, OutSpace(tidy, size, point))
  IN  ask(Merge(m))
=============================================================================
