-------------------------- MODULE RangefieldProofs --------------------------
(***************************************************************************)
(* What the algorithms of Rangefield compute, for every map and every      *)
(* size: merge() keeps the bytes and leaves maximal runs, the gaps of a    *)
(* merged map are the bytes it lacks, out_space() finds one whenever there *)
(* is one, update() adds its bytes, and a bitfield becomes a map.          *)
(*                                                                         *)
(* A loop over a map is a fold; a proof about it is an induction over the  *)
(* entries visited so far; the lemmas for that come first.                 *)
(***************************************************************************)
EXTENDS RangeRequest, Integers, FiniteSets, FiniteSetsExt, Folds, FiniteSetTheorems,
        WellFoundedInduction, TLAPS

-----------------------------------------------------------------------------
(* Induction over finite sets of integers, and folds over them from the    *)
(* smallest element to the largest.  The properties an induction is about  *)
(* are given as sets and functions, never as operators, so that the lemmas *)
(* can be used by provers that know first-order logic only: the set of the *)
(* subsets that have the property, the function that is a fold's step.     *)

(* A non-empty family of subsets of a finite set has a smallest member:    *)
(* what every loop over the entries of a rangefield ends by.               *)
LEMMA SmallestSubset ==
  ASSUME NEW S, IsFiniteSet(S), NEW G, G \subseteq SUBSET S, G # {}
  PROVE  \E T \in G : \A U \in SUBSET T : U # T => U \notin G
<1>1. IsWellFoundedOn(StrictSubsetOrdering(S), SUBSET S)
  BY FS_StrictSubsetOrderingWellFounded, FS_FiniteSubsetsOfFinite
<1>2. PICK T \in G : \A U \in G : ~(<<U, T>> \in StrictSubsetOrdering(S))
  BY <1>1, WFMin
<1>3. ASSUME NEW U \in SUBSET T, U # T, U \in G
      PROVE  FALSE
  BY <1>2, <1>3 DEF StrictSubsetOrdering
<1> QED
  BY <1>2, <1>3

(* A finite set of integers that is not empty has a largest element. *)
LEMMA LargestExists ==
  ASSUME NEW S, IsFiniteSet(S), S # {}, S \subseteq Int
  PROVE  \E x \in S : \A y \in S : x >= y
<1> DEFINE Bad == {T \in SUBSET S : T # {} /\ ~\E x \in T : \A y \in T : x >= y}
<1> SUFFICES ASSUME Bad # {}
             PROVE  FALSE
  OBVIOUS
<1>1. PICK T \in Bad : \A U \in SUBSET T : U # T => U \notin Bad
  <2>1. Bad \subseteq SUBSET S
    OBVIOUS
  <2> HIDE DEF Bad
  <2> QED
    BY <2>1, SmallestSubset
<1>2. PICK a \in T : TRUE
  OBVIOUS
<1>3. CASE T = {a}
  BY <1>2, <1>3
<1>4. CASE T # {a}
  <2> DEFINE U == T \ {a}
  <2>0. U \in SUBSET T /\ U # T
    BY <1>2
  <2>1. U \in SUBSET S /\ U # {} /\ U \notin Bad
    <3>1. U \notin Bad
      BY <1>1, <2>0
    <3>2. U # {}
      BY <1>2, <1>4
    <3> QED
      BY <3>1, <3>2
  <2>2. PICK x \in T \ {a} : \A y \in T \ {a} : x >= y
    BY <2>1
  <2>3. x \in Int /\ a \in Int /\ T \subseteq Int
    BY <1>2, <2>2
  <2> HIDE DEF Bad
  <2>4. CASE x >= a
    BY <1>1, <2>2, <2>4 DEF Bad
  <2>5. CASE ~(x >= a)
    <3>1. \A y \in T : a >= y
      BY <2>2, <2>3, <2>5
    <3> QED
      BY <1>1, <1>2, <3>1 DEF Bad
  <2> QED
    BY <2>4, <2>5
<1> QED
  BY <1>3, <1>4

(* Max of a finite set of integers is its largest element, and what is     *)
(* left without it is smaller.                                             *)
LEMMA MaxIsLargest ==
  ASSUME NEW S, IsFiniteSet(S), S # {}, S \subseteq Int
  PROVE  /\ Max(S) \in S
         /\ Max(S) \in Int
         /\ \A y \in S : Max(S) >= y
         /\ \A y \in S \ {Max(S)} : y < Max(S)
<1>1. \E x \in S : \A y \in S : x >= y
  BY LargestExists
<1>2. Max(S) \in S /\ \A y \in S : Max(S) >= y
  BY <1>1 DEF Max
<1>3. Max(S) \in Int
  BY <1>2
<1>4. ASSUME NEW y \in S \ {Max(S)}
      PROVE  y < Max(S)
  <2>1. y \in Int /\ y # Max(S) /\ Max(S) >= y
    BY <1>2
  <2> QED
    BY <1>3, <2>1
<1> QED
  BY <1>2, <1>3, <1>4

(* The values of a function on a finite set are finitely many. *)
LEMMA ImageIsFinite ==
  ASSUME NEW S, IsFiniteSet(S), NEW f, f = [x \in S |-> f[x]]
  PROVE  IsFiniteSet({f[x] : x \in S})
<1> DEFINE T == {f[x] : x \in S}
<1>1. f \in Surjection(S, T)
  BY DEF Surjection
<1> HIDE DEF T
<1> QED
  BY <1>1, FS_Surjection DEF T

(* Min of a finite set of integers is its smallest element. *)
LEMMA MinIsSmallest ==
  ASSUME NEW S, IsFiniteSet(S), S # {}, S \subseteq Int
  PROVE  /\ Min(S) \in S
         /\ Min(S) \in Int
         /\ \A y \in S : Min(S) <= y
<1> DEFINE f == [y \in S |-> -y]
           N == {f[y] : y \in S}
<1>1. N # {} /\ N \subseteq Int
  BY \A y \in S : f[y] = -y /\ -y \in Int
<1>2. IsFiniteSet(N)
  BY ImageIsFinite, f = [y \in S |-> f[y]]
<1>3. PICK x \in N : \A y \in N : x >= y
  <2> HIDE DEF N
  <2> QED
    BY <1>1, <1>2, LargestExists
<1>4. PICK z \in S : x = -z
  BY <1>3
<1>5. ASSUME NEW y \in S
      PROVE  z <= y
  <2>1. f[y] \in N /\ f[y] = -y /\ y \in Int /\ z \in Int
    BY <1>4
  <2>2. -z >= -y
    BY <1>3, <1>4, <2>1
  <2> QED
    BY <2>1, <2>2
<1>6. Min(S) \in S /\ \A y \in S : Min(S) =< y
  BY <1>4, <1>5 DEF Min
<1> QED
  BY <1>6

-----------------------------------------------------------------------------
(* Induction over the subsets of a finite set of integers by their largest *)
(* element: G are the subsets that have the property.                      *)
LEMMA SubsetInduction ==
  ASSUME NEW D, IsFiniteSet(D), D \subseteq Int,
         NEW G, {} \in G,
         \A s \in SUBSET D : s # {} /\ s \ {Max(s)} \in G => s \in G
  PROVE  SUBSET D \subseteq G
<1> DEFINE Bad == {s \in SUBSET D : s \notin G}
<1> SUFFICES ASSUME Bad # {}
             PROVE  FALSE
  OBVIOUS
<1>1. PICK s \in Bad : \A u \in SUBSET s : u # s => u \notin Bad
  <2>1. Bad \subseteq SUBSET D
    OBVIOUS
  <2> HIDE DEF Bad
  <2> QED
    BY <2>1, SmallestSubset
<1>2. s # {} /\ s \subseteq D /\ IsFiniteSet(s) /\ s \subseteq Int
  BY FS_Subset
<1>3. Max(s) \in s
  BY <1>2, MaxIsLargest
<1>4. s \ {Max(s)} \in SUBSET s /\ s \ {Max(s)} # s
  BY <1>3
<1>5. s \ {Max(s)} \in G
  BY <1>1, <1>2, <1>4
<1> QED
  BY <1>2, <1>5

(* What a fold computes for each subset of D: base for the empty set, and  *)
(* for every other one what the step F makes of its largest element and of *)
(* the value for the rest.                                                 *)
IsFold(g, D, base, F) ==
  \A s \in SUBSET D :
    g[s] = IF s = {} THEN base ELSE F[<<Max(s), g[s \ {Max(s)}]>>]

(* The function that a fold over D defines exists; A is the set of its     *)
(* values.                                                                 *)
LEMMA FoldExists ==
  ASSUME NEW D, IsFiniteSet(D), D \subseteq Int,
         NEW A, NEW base \in A, NEW F \in [D \X A -> A]
  PROVE  \E g \in [SUBSET D -> A] : IsFold(g, D, base, F)
<1> DEFINE Solves(g, T) ==
             \A s \in SUBSET T :
               g[s] = IF s = {} THEN base ELSE F[<<Max(s), g[s \ {Max(s)}]>>]
           G == {T \in SUBSET D : \E g \in [SUBSET T -> A] : Solves(g, T)}
<1>1. {} \in G
  <2>1. [s \in {{}} |-> base] \in [SUBSET {} -> A]
    OBVIOUS
  <2>2. Solves([s \in {{}} |-> base], {})
    OBVIOUS
  <2> QED
    BY <2>1, <2>2
<1>2. ASSUME NEW T \in SUBSET D, T # {}, T \ {Max(T)} \in G
      PROVE  T \in G
  <2> DEFINE m == Max(T)
             R == T \ {m}
  <2>1. PICK h \in [SUBSET R -> A] : Solves(h, R)
    BY <1>2
  <2> DEFINE g == [s \in SUBSET T |-> IF m \in s THEN F[<<m, h[s \ {m}]>>] ELSE h[s]]
  <2>2. /\ IsFiniteSet(T) /\ T \subseteq Int
        /\ m \in T /\ \A y \in T : m >= y
    BY FS_Subset, MaxIsLargest, <1>2
  <2> HIDE DEF m
  <2>3. g \in [SUBSET T -> A]
    <3> SUFFICES ASSUME NEW s \in SUBSET T
                 PROVE  (IF m \in s THEN F[<<m, h[s \ {m}]>>] ELSE h[s]) \in A
      OBVIOUS
    <3>1. m \in s => s \ {m} \in SUBSET R /\ m \in D
      BY <2>2
    <3>2. m \notin s => s \in SUBSET R
      OBVIOUS
    <3> QED
      BY <3>1, <3>2
  <2>4. ASSUME NEW s \in SUBSET T
        PROVE  g[s] = IF s = {} THEN base ELSE F[<<Max(s), g[s \ {Max(s)}]>>]
    <3>1. CASE m \in s
      <4>1. IsFiniteSet(s) /\ s # {} /\ s \subseteq Int
        BY <2>2, <3>1, FS_Subset
      <4>2. Max(s) \in s /\ \A y \in s : Max(s) >= y
        BY <4>1, MaxIsLargest
      <4>3. Max(s) = m
        <5>1. Max(s) \in Int /\ m \in Int /\ Max(s) >= m /\ m >= Max(s)
          BY <2>2, <3>1, <4>1, <4>2
        <5> QED
          BY <5>1
      <4>4. g[s] = F[<<m, h[s \ {m}]>>] /\ g[s \ {m}] = h[s \ {m}]
        BY <3>1
      <4> QED
        BY <3>1, <4>3, <4>4
    <3>2. CASE m \notin s
      <4>1. s \in SUBSET R /\ g[s] = h[s]
        BY <3>2
      <4>2. s \ {Max(s)} \in SUBSET T /\ m \notin s \ {Max(s)}
        BY <3>2
      <4>3. g[s \ {Max(s)}] = h[s \ {Max(s)}]
        BY <4>2
      <4> QED
        BY <2>1, <4>1, <4>3
    <3> QED
      BY <3>1, <3>2
  <2> HIDE DEF g
  <2>5. Solves(g, T)
    BY <2>4
  <2> QED
    BY <1>2, <2>3, <2>5
<1> HIDE DEF G
<1>3. D \in G
  BY <1>1, <1>2, SubsetInduction
<1> QED
  BY <1>3 DEF G, IsFold

-----------------------------------------------------------------------------

(* The maps a rangefield of size bytes holds.  The one empty entry there   *)
(* can be is <<0, 0>>: merge() makes it of an empty map.                   *)
IsRanges(m, size) ==
  /\ m = [l \in DOMAIN m |-> m[l]]
  /\ DOMAIN m \subseteq 0 .. size
  /\ \A l \in DOMAIN m : /\ m[l] \in 0 .. size
                         /\ l <= m[l]
                         /\ l = m[l] => l = 0

(* What merge() leaves: entries that are neither empty nor touch, or the   *)
(* entry <<0, 0>> alone.                                                   *)
IsMerged(m) ==
  \/ m = [l \in {0} |-> 0]
  \/ /\ \A l \in DOMAIN m : l < m[l]
     /\ \A k, l \in DOMAIN m : k < l => m[k] < l

(* The values of merge()'s local variables while it runs. *)
Maps  == UNION {[S -> Int] : S \in SUBSET Int}
Picks == [result : Maps, first : Int, second : Int]
NoPick == [result |-> EmptyMap, first |-> 0, second |-> 0]

(* g is what the fold of merge() computes for each set of entries of m. *)
IsMergeOf(g, m) ==
  /\ g[{}] = NoPick
  /\ \A s \in SUBSET DOMAIN m :
       s # {} => g[s] = MergeStep(g[s \ {Max(s)}], Max(s), m[Max(s)])

(* The borders of a well-formed map are finitely many integers. *)
LEMMA RangesAreFinite ==
  ASSUME NEW size \in Nat, NEW m, IsRanges(m, size)
  PROVE  /\ IsFiniteSet(DOMAIN m)
         /\ DOMAIN m \subseteq Int
         /\ \A l \in DOMAIN m : m[l] \in Int
<1>1. IsFiniteSet(0 .. size)
  BY FS_Interval
<1>2. DOMAIN m \subseteq 0 .. size
  BY DEF IsRanges
<1> QED
  BY <1>1, <1>2, FS_Subset DEF IsRanges

(* insert() adds a border to a map of integers. *)
LEMMA InsertIsMap ==
  ASSUME NEW m \in Maps, NEW l \in Int, NEW r \in Int
  PROVE  Insert(m, l, r) \in Maps
<1>1. PICK S \in SUBSET Int : m \in [S -> Int]
  BY DEF Maps
<1>2. Insert(m, l, r) \in [S \cup {l} -> Int]
  BY <1>1 DEF Insert
<1> QED
  BY <1>2 DEF Maps

(* What merge()'s locals are before the first entry. *)
LEMMA NoPickIsPick == NoPick \in Picks
<1>1. EmptyMap \in [{} -> Int]
  BY DEF EmptyMap
<1>2. EmptyMap \in Maps
  BY <1>1, {} \in SUBSET Int DEF Maps
<1> QED
  BY <1>2 DEF NoPick, Picks

(* A step of merge() on its locals gives its locals. *)
LEMMA MergeStepIsPick ==
  ASSUME NEW acc \in Picks, NEW l \in Int, NEW r \in Int
  PROVE  MergeStep(acc, l, r) \in Picks
<1>1. /\ acc.result \in Maps /\ acc.first \in Int /\ acc.second \in Int
      /\ acc = [result |-> acc.result, first |-> acc.first, second |-> acc.second]
  BY DEF Picks
<1>2. Insert(acc.result, acc.first, acc.second) \in Maps
  BY <1>1, InsertIsMap
<1> QED
  BY <1>1, <1>2 DEF MergeStep, Picks

(* merge() is a loop that visits the entries by increasing left border. *)
LEMMA MergeIsFold ==
  ASSUME NEW size \in Nat, NEW m, IsRanges(m, size)
  PROVE  \E g : IsMergeOf(g, m) /\ Merge(m) = WithLast(g[DOMAIN m])
<1> DEFINE D == DOMAIN m
           F == [p \in D \X Picks |-> MergeStep(p[2], p[1], m[p[1]])]
           Solves(g) == g = [s \in SUBSET D |->
                               IF s = {} THEN NoPick
                               ELSE MergeStep(g[s \ {Max(s)}], Max(s), m[Max(s)])]
<1>1. IsFiniteSet(D) /\ D \subseteq Int /\ \A l \in D : m[l] \in Int
  BY RangesAreFinite
<1>2. NoPick \in Picks
  BY NoPickIsPick
<1>3. F \in [D \X Picks -> Picks]
  BY <1>1, MergeStepIsPick
<1>4. PICK g \in [SUBSET D -> Picks] : IsFold(g, D, NoPick, F)
  <2> HIDE DEF F, D
  <2> QED
    BY <1>1, <1>2, <1>3, FoldExists
<1>5. \A s \in SUBSET D : s # {} => Max(s) \in s
  BY <1>1, FS_Subset, MaxIsLargest
<1>6. \A s \in SUBSET D :
        g[s] = IF s = {} THEN NoPick ELSE MergeStep(g[s \ {Max(s)}], Max(s), m[Max(s)])
  BY <1>4, <1>5 DEF IsFold
<1>7. Solves(g)
  BY <1>6
<1> DEFINE h == CHOOSE f : Solves(f)
<1>8. Solves(h)
  <2> HIDE DEF Solves
  <2> QED
    BY <1>7
<1>9. Merge(m) = WithLast(h[D])
  BY DEF Merge, FoldMap, MapThenFoldSet, NoPick
<1>10. IsMergeOf(h, m)
  <2> HIDE DEF h
  <2> QED
    BY <1>8 DEF IsMergeOf
<1> QED
  BY <1>9, <1>10

(* An empty map is a well-formed and merged one. *)
LEMMA EmptyMapIsMerged ==
  ASSUME NEW size \in Nat
  PROVE  IsRanges(EmptyMap, size) /\ IsMerged(EmptyMap) /\ Covered(EmptyMap) = {}
<1>1. DOMAIN EmptyMap = {} /\ EmptyMap = [l \in DOMAIN EmptyMap |-> EmptyMap[l]]
  BY DEF EmptyMap
<1> QED
  BY <1>1 DEF IsRanges, IsMerged, Covered

-----------------------------------------------------------------------------
(* A byte is covered by a map that has an interval around it. *)
Within(b, m, s) == \E l \in s : l <= b /\ b < m[l]

(* merge()'s locals after it has visited the entries s of m: they cover    *)
(* the same bytes, the intervals in the result are maximal and lie before  *)
(* the one that is still growing.                                          *)
MergeInv(acc, m, s, size) ==
  /\ acc.result = [k \in DOMAIN acc.result |-> acc.result[k]]
  /\ DOMAIN acc.result \subseteq s
  /\ \A k \in DOMAIN acc.result :
       /\ acc.result[k] \in 0 .. size
       /\ k < acc.result[k]
       /\ acc.result[k] < acc.first
  /\ \A k, l \in DOMAIN acc.result : k < l => acc.result[k] < l
  /\ acc.first \in 0 .. size /\ acc.second \in 0 .. size
  /\ \/ acc.first \in s /\ acc.first < acc.second
     \/ /\ acc.first = 0 /\ acc.second = 0
        /\ \A l \in s : l = 0 /\ m[l] = 0
  /\ \A b \in Int :
       Within(b, m, s) <=> \/ acc.first <= b /\ b < acc.second
                          \/ Within(b, acc.result, DOMAIN acc.result)

(* The bytes of a map are those within one of its intervals. *)
LEMMA CoveredBytes ==
  ASSUME NEW size \in Nat, NEW m, IsRanges(m, size)
  PROVE  /\ Covered(m) \subseteq 0 .. (size - 1)
         /\ \A b : b \in Covered(m) <=> b \in Int /\ Within(b, m, DOMAIN m)
<1>1. \A l \in DOMAIN m : l \in 0 .. size /\ m[l] \in 0 .. size
  BY DEF IsRanges
<1>2. ASSUME NEW l \in DOMAIN m, NEW b
      PROVE  b \in Bytes(l, m[l]) <=> b \in Int /\ l <= b /\ b < m[l]
  BY <1>1 DEF Bytes
<1>3. ASSUME NEW b
      PROVE  b \in Covered(m) <=> b \in Int /\ Within(b, m, DOMAIN m)
  BY <1>2 DEF Covered, Within
<1>4. ASSUME NEW b \in Covered(m)
      PROVE  b \in 0 .. (size - 1)
  BY <1>1, <1>3 DEF Within
<1> QED
  BY <1>3, <1>4

(* One step of merge() keeps its invariant. *)
LEMMA MergeStepKeepsInv ==
  ASSUME NEW size \in Nat, NEW m, IsRanges(m, size),
         NEW s \in SUBSET DOMAIN m, NEW x \in s, \A y \in s \ {x} : y < x,
         NEW acc \in Picks,
         MergeInv(acc, m, s \ {x}, size)
  PROVE  MergeInv(MergeStep(acc, x, m[x]), m, s, size)
<1> DEFINE R == acc.result
           f == acc.first
           t == acc.second
           r == m[x]
           u == s \ {x}
<1>1. /\ x \in 0 .. size /\ r \in 0 .. size /\ x <= r /\ (x = r => x = 0)
      /\ f \in 0 .. size /\ t \in 0 .. size
      /\ \A l \in s : l \in 0 .. size /\ m[l] \in 0 .. size
  BY DEF IsRanges, MergeInv
<1>2. \/ f < t /\ f \in u /\ f < x
      \/ f = 0 /\ t = 0 /\ \A l \in u : l = 0 /\ m[l] = 0
  BY <1>1 DEF MergeInv
<1>3. ASSUME NEW b \in Int
      PROVE  Within(b, m, s) <=> Within(b, m, u) \/ (x <= b /\ b < r)
  BY DEF Within
<1>4. CASE f <= x /\ r <= t
  <2>1. MergeStep(acc, x, r) = acc
    BY <1>4 DEF MergeStep
  <2>2. ASSUME NEW b \in Int
        PROVE  Within(b, m, s) <=> \/ f <= b /\ b < t
                                  \/ Within(b, R, DOMAIN R)
    BY <1>1, <1>3, <1>4 DEF MergeInv
  <2>3. f = 0 /\ t = 0 => x = 0 /\ r = 0
    BY <1>1, <1>4
  <2> QED
    BY <1>1, <1>2, <2>1, <2>2, <2>3 DEF MergeInv
<1>5. CASE ~(f <= x /\ r <= t) /\ f < x /\ x <= t
  <2>1. MergeStep(acc, x, r) = [result |-> R, first |-> f, second |-> r]
    BY <1>1, <1>5 DEF MergeStep, Picks
  <2>2. f \in u /\ f < t /\ t < r
    BY <1>1, <1>2, <1>5
  <2>3. ASSUME NEW b \in Int
        PROVE  Within(b, m, s) <=> \/ f <= b /\ b < r
                                  \/ Within(b, R, DOMAIN R)
    BY <1>1, <1>3, <1>5, <2>2 DEF MergeInv
  <2> QED
    BY <1>1, <2>1, <2>2, <2>3 DEF MergeInv
<1>6. CASE ~(f <= x /\ r <= t) /\ ~(f < x /\ x <= t) /\ f = 0 /\ t = 0
  <2>1. MergeStep(acc, x, r) = [result |-> R, first |-> x, second |-> r]
    BY <1>1, <1>6 DEF MergeStep
  <2>2. x < r
    BY <1>1, <1>6
  <2>3. DOMAIN R = {}
    BY <1>1, <1>6 DEF MergeInv
  <2>4. ASSUME NEW b \in Int
        PROVE  Within(b, m, s) <=> x <= b /\ b < r
    BY <1>1, <1>2, <1>3, <1>6 DEF Within
  <2>5. ASSUME NEW b \in Int
        PROVE  ~Within(b, R, DOMAIN R)
    BY <2>3 DEF Within
  <2>6. R = [k \in DOMAIN R |-> R[k]]
    BY DEF MergeInv
  <2>7. MergeInv([result |-> R, first |-> x, second |-> r], m, s, size)
    BY <1>1, <2>2, <2>3, <2>4, <2>5, <2>6 DEF MergeInv
  <2> QED
    BY <2>1, <2>7
<1>7. CASE ~(f <= x /\ r <= t) /\ ~(f < x /\ x <= t) /\ ~(f = 0 /\ t = 0)
  <2> DEFINE Q == Insert(R, f, t)
  <2>1. f \in u /\ f < t /\ t < x
    BY <1>1, <1>2, <1>7
  <2>2. MergeStep(acc, x, r) = [result |-> Q, first |-> x, second |-> r]
    BY <1>1, <1>7, <2>1 DEF MergeStep
  <2>3. x < r
    BY <1>1, <2>1
  <2>4. f \notin DOMAIN R
    BY <1>1 DEF MergeInv
  <2>5. /\ DOMAIN Q = DOMAIN R \cup {f}
        /\ Q[f] = t
        /\ \A k \in DOMAIN R : Q[k] = R[k]
        /\ Q = [k \in DOMAIN Q |-> Q[k]]
    BY <2>4 DEF Insert
  <2>6. ASSUME NEW b \in Int
        PROVE  Within(b, Q, DOMAIN Q) <=> (f <= b /\ b < t) \/ Within(b, R, DOMAIN R)
    BY <2>5 DEF Within
  <2>7. ASSUME NEW b \in Int
        PROVE  Within(b, m, s) <=> (x <= b /\ b < r) \/ Within(b, Q, DOMAIN Q)
    BY <1>3, <2>6 DEF MergeInv
  <2>8. DOMAIN Q \subseteq s
    BY <2>1, <2>5 DEF MergeInv
  <2>9. \A k \in DOMAIN Q : Q[k] \in 0 .. size /\ k < Q[k] /\ Q[k] < x
    BY <1>1, <2>1, <2>5 DEF MergeInv
  <2>10. \A k, l \in DOMAIN Q : k < l => Q[k] < l
    BY <1>1, <2>1, <2>5 DEF MergeInv
  <2> HIDE DEF Q
  <2>11. MergeInv([result |-> Q, first |-> x, second |-> r], m, s, size)
    <3>1. Q = [k \in DOMAIN Q |-> Q[k]]
      BY <2>5
    <3> HIDE DEF f, t, R, u, r
    <3> QED
      BY <1>1, <2>3, <2>7, <2>8, <2>9, <2>10, <3>1 DEF MergeInv
  <2> QED
    BY <2>2, <2>11
<1> QED
  BY <1>4, <1>5, <1>6, <1>7

(* merge() keeps the bytes, and leaves maximal runs of them. *)
THEOREM MergeKeepsBytes ==
  ASSUME NEW size \in Nat, NEW m, IsRanges(m, size)
  PROVE  /\ IsRanges(Merge(m), size)
         /\ IsMerged(Merge(m))
         /\ Covered(Merge(m)) = Covered(m)
<1> DEFINE D == DOMAIN m
<1>1. IsFiniteSet(D) /\ D \subseteq Int /\ \A l \in D : m[l] \in Int
  BY RangesAreFinite
<1>2. PICK g : IsMergeOf(g, m) /\ Merge(m) = WithLast(g[D])
  BY MergeIsFold
<1> DEFINE G == {s \in SUBSET D : g[s] \in Picks /\ MergeInv(g[s], m, s, size)}
<1>3. {} \in G
  <2>1. g[{}] = NoPick /\ EmptyMap = [l \in {} |-> 0] /\ DOMAIN EmptyMap = {}
    BY <1>2 DEF IsMergeOf, EmptyMap
  <2>3. NoPick \in Picks
    BY NoPickIsPick
  <2>4. MergeInv(NoPick, m, {}, size)
    BY <2>1 DEF MergeInv, NoPick, Within
  <2> QED
    BY <2>1, <2>3, <2>4
<1>4. ASSUME NEW s \in SUBSET D, s # {}, s \ {Max(s)} \in G
      PROVE  s \in G
  <2> DEFINE x == Max(s)
             acc == g[s \ {x}]
  <2>1. x \in s /\ \A y \in s \ {x} : y < x
    BY <1>1, <1>4, FS_Subset, MaxIsLargest
  <2>2. g[s] = MergeStep(acc, x, m[x])
    BY <1>2, <1>4 DEF IsMergeOf
  <2>3. acc \in Picks /\ MergeInv(acc, m, s \ {x}, size)
    BY <1>4
  <2> HIDE DEF x, acc
  <2>4. g[s] \in Picks
    BY <1>1, <2>1, <2>2, <2>3, MergeStepIsPick
  <2>5. MergeInv(g[s], m, s, size)
    BY <2>1, <2>2, <2>3, MergeStepKeepsInv
  <2> QED
    BY <2>4, <2>5
<1>5. SUBSET D \subseteq G
  <2> HIDE DEF G, D
  <2> QED
    BY <1>1, <1>3, <1>4, SubsetInduction
<1> DEFINE acc == g[D]
           R == acc.result
           f == acc.first
           t == acc.second
           M == Merge(m)
<1>6. acc \in Picks /\ MergeInv(acc, m, D, size)
  BY <1>5
<1>7. M = Insert(R, f, t)
  BY <1>2 DEF WithLast
<1>8. D \subseteq 0 .. size
  BY DEF IsRanges
<1> HIDE DEF acc, D, M
<1>9. f \notin DOMAIN R
  BY <1>6, <1>8 DEF MergeInv
<1>10. /\ DOMAIN M = DOMAIN R \cup {f}
       /\ M[f] = t
       /\ \A k \in DOMAIN R : M[k] = R[k]
       /\ M = [k \in DOMAIN M |-> M[k]]
  BY <1>7, <1>9 DEF Insert
<1>11. IsRanges(M, size) /\ IsMerged(M)
  <2>1. CASE f = 0 /\ t = 0
    <3>1. DOMAIN R = {}
      BY <1>6, <1>8, <2>1 DEF MergeInv
    <3>2. DOMAIN M = {0} /\ M[0] = 0 /\ M = [l \in {0} |-> 0]
      BY <1>10, <2>1, <3>1
    <3> QED
      BY <3>2 DEF IsRanges, IsMerged
  <2>2. CASE ~(f = 0 /\ t = 0)
    <3>1. f \in D /\ f < t /\ f \in 0 .. size /\ t \in 0 .. size
      BY <1>6, <2>2 DEF MergeInv
    <3>2. \A k \in DOMAIN R : k \in 0 .. size /\ R[k] \in 0 .. size /\ k < R[k] /\ R[k] < f
      BY <1>6, <1>8 DEF MergeInv
    <3>3. \A k \in DOMAIN M : k \in 0 .. size /\ M[k] \in 0 .. size /\ k < M[k]
      BY <1>10, <3>1, <3>2
    <3>4. \A k, l \in DOMAIN M : k < l => M[k] < l
      BY <1>6, <1>10, <3>1, <3>2 DEF MergeInv
    <3> QED
      BY <1>10, <3>3, <3>4 DEF IsRanges, IsMerged
  <2> QED
    BY <2>1, <2>2
<1>12. ASSUME NEW b \in Int
       PROVE  Within(b, M, DOMAIN M) <=> Within(b, m, D)
  <2>1. Within(b, M, DOMAIN M) <=> (f <= b /\ b < t) \/ Within(b, R, DOMAIN R)
    BY <1>10 DEF Within
  <2> QED
    BY <1>6, <2>1 DEF MergeInv
<1>13. Covered(M) = Covered(m)
  BY <1>11, <1>12, CoveredBytes DEF D
<1> QED
  BY <1>11, <1>13 DEF M

-----------------------------------------------------------------------------
(* inverse_impl() with its loop body and what follows the loop by name. *)
Gaps   == [gaps : Maps, point : Int, begin : BOOLEAN]
NoGaps == [gaps |-> EmptyMap, point |-> 0, begin |-> TRUE]

GapStep(acc, l, r) ==
  [gaps  |-> IF acc.begin /\ l = 0 THEN acc.gaps ELSE Insert(acc.gaps, acc.point, l),
   point |-> r,
   begin |-> FALSE]

GapTail(end, m, size) ==
  IF end.point # size \/ DOMAIN m = {} THEN Insert(end.gaps, end.point, size) ELSE end.gaps

(* g is what the fold of inverse_impl() computes for each set of entries. *)
IsInverseOf(g, m) ==
  /\ g[{}] = NoGaps
  /\ \A s \in SUBSET DOMAIN m :
       s # {} => g[s] = GapStep(g[s \ {Max(s)}], Max(s), m[Max(s)])

(* What inverse_impl()'s locals are before the first entry. *)
LEMMA NoGapsIsGaps == NoGaps \in Gaps
<1>1. EmptyMap \in [{} -> Int]
  BY DEF EmptyMap
<1>2. EmptyMap \in Maps
  BY <1>1, {} \in SUBSET Int DEF Maps
<1> QED
  BY <1>2 DEF NoGaps, Gaps

(* A step of inverse_impl() on its locals gives its locals. *)
LEMMA GapStepIsGaps ==
  ASSUME NEW acc \in Gaps, NEW l \in Int, NEW r \in Int
  PROVE  GapStep(acc, l, r) \in Gaps
<1>1. acc.gaps \in Maps /\ acc.point \in Int /\ acc.begin \in BOOLEAN
  BY DEF Gaps
<1>2. Insert(acc.gaps, acc.point, l) \in Maps
  BY <1>1, InsertIsMap
<1> QED
  BY <1>1, <1>2 DEF GapStep, Gaps

(* inverse_impl() is a loop that visits the entries by increasing border. *)
LEMMA InverseIsFold ==
  ASSUME NEW size \in Nat, NEW m, IsRanges(m, size)
  PROVE  \E g : IsInverseOf(g, m) /\ InverseImpl(m, size) = GapTail(g[DOMAIN m], m, size)
<1> DEFINE D == DOMAIN m
           F == [p \in D \X Gaps |-> GapStep(p[2], p[1], m[p[1]])]
           Solves(g) == g = [s \in SUBSET D |->
                               IF s = {} THEN NoGaps
                               ELSE GapStep(g[s \ {Max(s)}], Max(s), m[Max(s)])]
<1>1. IsFiniteSet(D) /\ D \subseteq Int /\ \A l \in D : m[l] \in Int
  BY RangesAreFinite
<1>2. NoGaps \in Gaps
  BY NoGapsIsGaps
<1>3. F \in [D \X Gaps -> Gaps]
  BY <1>1, GapStepIsGaps
<1>4. PICK g \in [SUBSET D -> Gaps] : IsFold(g, D, NoGaps, F)
  <2> HIDE DEF F, D
  <2> QED
    BY <1>1, <1>2, <1>3, FoldExists
<1>5. \A s \in SUBSET D : s # {} => Max(s) \in s
  BY <1>1, FS_Subset, MaxIsLargest
<1>6. \A s \in SUBSET D :
        g[s] = IF s = {} THEN NoGaps ELSE GapStep(g[s \ {Max(s)}], Max(s), m[Max(s)])
  BY <1>4, <1>5 DEF IsFold
<1>7. Solves(g)
  BY <1>6
<1> DEFINE h == CHOOSE f : Solves(f)
<1>8. Solves(h)
  <2> HIDE DEF Solves
  <2> QED
    BY <1>7
<1>9. InverseImpl(m, size) = GapTail(h[D], m, size)
  BY DEF InverseImpl, GapTail, GapStep, FoldMap, MapThenFoldSet, NoGaps
<1>10. IsInverseOf(h, m)
  <2> HIDE DEF h
  <2> QED
    BY <1>8 DEF IsInverseOf
<1> QED
  BY <1>9, <1>10

(* inverse_impl()'s locals after it has visited the entries s of a merged  *)
(* map: the gaps are the bytes up to point that s lacks.                   *)
GapInv(acc, m, s, size) ==
  /\ acc.begin <=> s = {}
  /\ s = {} => acc.point = 0 /\ DOMAIN acc.gaps = {}
  /\ acc.point \in 0 .. size
  /\ s # {} => \E l \in s : acc.point = m[l] /\ \A k \in s : k <= l
  /\ \A k \in s : m[k] <= acc.point
  /\ acc.gaps = [k \in DOMAIN acc.gaps |-> acc.gaps[k]]
  /\ \A k \in DOMAIN acc.gaps :
       k \in 0 .. size /\ acc.gaps[k] \in s /\ k < acc.gaps[k] /\ k < acc.point
  /\ \A b \in Int :
       Within(b, acc.gaps, DOMAIN acc.gaps) <=> 0 <= b /\ b < acc.point /\ ~Within(b, m, s)

(* One step of inverse_impl() keeps its invariant. *)
LEMMA GapStepKeepsInv ==
  ASSUME NEW size \in Nat, NEW m, IsRanges(m, size), IsMerged(m),
         NEW s \in SUBSET DOMAIN m, NEW x \in s, \A y \in s \ {x} : y < x,
         NEW acc \in Gaps, GapInv(acc, m, s \ {x}, size)
  PROVE  GapInv(GapStep(acc, x, m[x]), m, s, size)
<1> DEFINE Q == acc.gaps
           p == acc.point
           r == m[x]
           u == s \ {x}
<1>1. /\ x \in 0 .. size /\ r \in 0 .. size /\ x <= r
      /\ p \in 0 .. size
      /\ \A l \in s : l \in 0 .. size /\ m[l] \in 0 .. size /\ l <= m[l]
  BY DEF IsRanges, GapInv
<1>2. ASSUME NEW b \in Int
      PROVE  Within(b, m, s) <=> Within(b, m, u) \/ (x <= b /\ b < r)
  BY DEF Within
<1>3. \A l \in u : m[l] < x
  BY <1>1 DEF IsMerged
<1>4. \A k \in s : m[k] <= r /\ k <= x
  BY <1>1, <1>3
<1>5. CASE u = {} /\ x = 0
  <2>1. GapStep(acc, x, r) = [gaps |-> Q, point |-> r, begin |-> FALSE]
    BY <1>5 DEF GapStep, GapInv
  <2>2. DOMAIN Q = {} /\ Q = [k \in DOMAIN Q |-> Q[k]]
    BY <1>5 DEF GapInv
  <2>3. ASSUME NEW b \in Int
        PROVE  Within(b, Q, DOMAIN Q) <=> 0 <= b /\ b < r /\ ~Within(b, m, s)
    BY <1>1, <1>2, <1>5, <2>2 DEF Within
  <2>4. GapInv([gaps |-> Q, point |-> r, begin |-> FALSE], m, s, size)
    <3> HIDE DEF Q, p, u
    <3> QED
      BY <1>1, <1>4, <2>2, <2>3 DEF GapInv
  <2> QED
    BY <2>1, <2>4
<1>6. CASE ~(u = {} /\ x = 0)
  <2> DEFINE N == Insert(Q, p, x)
  <2>1. p < x
    BY <1>1, <1>3, <1>6 DEF GapInv
  <2>2. GapStep(acc, x, r) = [gaps |-> N, point |-> r, begin |-> FALSE]
    BY <1>6 DEF GapStep, GapInv
  <2>3. p \notin DOMAIN Q
    BY <1>1 DEF GapInv
  <2>4. /\ DOMAIN N = DOMAIN Q \cup {p}
        /\ N[p] = x
        /\ \A k \in DOMAIN Q : N[k] = Q[k]
        /\ N = [k \in DOMAIN N |-> N[k]]
    BY <2>3 DEF Insert
  <2> HIDE DEF N
  <2>5. ASSUME NEW b \in Int
        PROVE  Within(b, N, DOMAIN N) <=> (p <= b /\ b < x) \/ Within(b, Q, DOMAIN Q)
    BY <2>4 DEF Within
  <2>6. ASSUME NEW b \in Int
        PROVE  Within(b, m, u) => b < p
    BY <1>1 DEF Within, GapInv
  <2>7. ASSUME NEW b \in Int
        PROVE  Within(b, N, DOMAIN N) <=> 0 <= b /\ b < r /\ ~Within(b, m, s)
    <3>1. Within(b, Q, DOMAIN Q) <=> 0 <= b /\ b < p /\ ~Within(b, m, u)
      BY DEF GapInv
    <3> QED
      BY <1>1, <1>2, <2>1, <2>5, <2>6, <3>1
  <2>8. \A k \in DOMAIN N : k \in 0 .. size /\ N[k] \in s /\ k < N[k] /\ k < r
    BY <1>1, <2>1, <2>4 DEF GapInv
  <2>9. N = [k \in DOMAIN N |-> N[k]]
    BY <2>4
  <2>10. GapInv([gaps |-> N, point |-> r, begin |-> FALSE], m, s, size)
    <3> HIDE DEF Q, p, u
    <3> QED
      BY <1>1, <1>4, <2>7, <2>8, <2>9 DEF GapInv
  <2> QED
    BY <2>2, <2>10
<1> QED
  BY <1>5, <1>6

(* The gaps that inverse() answers of a merged map are exactly the bytes   *)
(* it lacks, and each gap runs up to a byte that is there or to the end.   *)
THEOREM GapsAreMissingBytes ==
  ASSUME NEW size \in Nat \ {0}, NEW m, IsRanges(m, size), IsMerged(m)
  PROVE  /\ IsRanges(InverseImpl(m, size), size)
         /\ Covered(InverseImpl(m, size)) = (0 .. (size - 1)) \ Covered(m)
         /\ \A k \in DOMAIN InverseImpl(m, size) :
              /\ k < InverseImpl(m, size)[k]
              /\ \/ InverseImpl(m, size)[k] = size
                 \/ InverseImpl(m, size)[k] \in Covered(m)
<1> DEFINE D == DOMAIN m
<1>1. IsFiniteSet(D) /\ D \subseteq Int /\ \A l \in D : m[l] \in Int
  BY RangesAreFinite
<1>2. PICK g : IsInverseOf(g, m) /\ InverseImpl(m, size) = GapTail(g[D], m, size)
  BY InverseIsFold
<1> DEFINE G == {s \in SUBSET D : g[s] \in Gaps /\ GapInv(g[s], m, s, size)}
<1>3. {} \in G
  <2>1. g[{}] = NoGaps /\ EmptyMap = [l \in {} |-> 0] /\ DOMAIN EmptyMap = {}
    BY <1>2 DEF IsInverseOf, EmptyMap
  <2>3. NoGaps \in Gaps
    BY NoGapsIsGaps
  <2>4. GapInv(NoGaps, m, {}, size)
    BY <2>1 DEF GapInv, NoGaps, Within
  <2> QED
    BY <2>1, <2>3, <2>4
<1>4. ASSUME NEW s \in SUBSET D, s # {}, s \ {Max(s)} \in G
      PROVE  s \in G
  <2> DEFINE x == Max(s)
             acc == g[s \ {x}]
  <2>1. x \in s /\ \A y \in s \ {x} : y < x
    BY <1>1, <1>4, FS_Subset, MaxIsLargest
  <2>2. g[s] = GapStep(acc, x, m[x])
    BY <1>2, <1>4 DEF IsInverseOf
  <2>3. acc \in Gaps /\ GapInv(acc, m, s \ {x}, size)
    BY <1>4
  <2> HIDE DEF x, acc
  <2>4. g[s] \in Gaps
    BY <1>1, <2>1, <2>2, <2>3, GapStepIsGaps
  <2>5. GapInv(g[s], m, s, size)
    BY <2>1, <2>2, <2>3, GapStepKeepsInv
  <2> QED
    BY <2>4, <2>5
<1>5. SUBSET D \subseteq G
  <2> HIDE DEF G, D
  <2> QED
    BY <1>1, <1>3, <1>4, SubsetInduction
<1> DEFINE acc == g[D]
           Q == acc.gaps
           p == acc.point
           V == InverseImpl(m, size)
<1>6. acc \in Gaps /\ GapInv(acc, m, D, size)
  BY <1>5
<1>7. V = IF p # size \/ D = {} THEN Insert(Q, p, size) ELSE Q
  BY <1>2 DEF GapTail
<1>8. D \subseteq 0 .. size
  BY DEF IsRanges
<1> HIDE DEF acc, D, V
<1>9. p \in 0 .. size /\ p \notin DOMAIN Q
  BY <1>6 DEF GapInv
<1>10. /\ V = [k \in DOMAIN V |-> V[k]]
       /\ \/ p < size /\ DOMAIN V = DOMAIN Q \cup {p} /\ V[p] = size
          \/ p = size /\ DOMAIN V = DOMAIN Q
       /\ \A k \in DOMAIN Q : V[k] = Q[k]
  <2>1. D = {} => p = 0
    BY <1>6 DEF GapInv
  <2>2. Q = [k \in DOMAIN Q |-> Q[k]]
    BY <1>6 DEF GapInv
  <2>3. CASE p # size
    BY <1>7, <1>9, <2>3 DEF Insert
  <2>4. CASE p = size
    BY <1>7, <2>1, <2>2, <2>4
  <2> QED
    BY <2>3, <2>4
<1>11. ASSUME NEW k \in DOMAIN V
       PROVE  /\ k \in 0 .. size /\ V[k] \in 0 .. size /\ k < V[k]
              /\ V[k] = size \/ V[k] \in Covered(m)
  <2>1. CASE k = p /\ p < size
    BY <1>9, <1>10, <2>1
  <2>2. CASE k \in DOMAIN Q
    <3>1. k \in 0 .. size /\ Q[k] \in D /\ k < Q[k] /\ V[k] = Q[k]
      BY <1>6, <1>10, <2>2 DEF GapInv
    <3>2. Q[k] \in 0 .. size /\ Q[k] < m[Q[k]]
      BY <1>8, <3>1 DEF IsMerged, D
    <3>3. Within(Q[k], m, D)
      BY <3>1, <3>2 DEF Within
    <3> QED
      BY <3>1, <3>2, <3>3, CoveredBytes DEF D
  <2> QED
    BY <1>10, <2>1, <2>2
<1>12. IsRanges(V, size)
  BY <1>10, <1>11 DEF IsRanges
<1>13. ASSUME NEW b \in Int
       PROVE  Within(b, V, DOMAIN V) <=> b \in 0 .. (size - 1) /\ ~Within(b, m, D)
  <2>1. Within(b, V, DOMAIN V) <=> (p <= b /\ b < size) \/ Within(b, Q, DOMAIN Q)
    <3>1. CASE p < size
      BY <1>10, <3>1 DEF Within
    <3>2. CASE p = size
      BY <1>10, <3>2 DEF Within
    <3> QED
      BY <1>9, <3>1, <3>2
  <2>2. Within(b, Q, DOMAIN Q) <=> 0 <= b /\ b < p /\ ~Within(b, m, D)
    BY <1>6 DEF GapInv
  <2>3. Within(b, m, D) => b < p
    <3>1. \A l \in D : m[l] \in 0 .. size /\ m[l] <= p /\ l \in 0 .. size
      BY <1>6, <1>8 DEF GapInv, IsRanges, D
    <3> QED
      BY <1>9, <3>1 DEF Within
  <2> QED
    BY <1>9, <2>1, <2>2, <2>3
<1>14. Covered(V) = (0 .. (size - 1)) \ Covered(m)
  BY <1>12, <1>13, CoveredBytes DEF D
<1> QED
  BY <1>11, <1>12, <1>14 DEF V

-----------------------------------------------------------------------------
(* The bytes of a file that a map does not cover. *)
Missing(m, size) == (0 .. (size - 1)) \ Covered(m)

(* The larger and the smaller of two integers. *)
LEMMA MaxOfTwo ==
  ASSUME NEW a \in Int, NEW b \in Int
  PROVE  Max({a, b}) = IF a >= b THEN a ELSE b
<1>1. \E x \in {a, b} : \A y \in {a, b} : x >= y
  OBVIOUS
<1>2. Max({a, b}) \in {a, b} /\ \A y \in {a, b} : Max({a, b}) >= y
  BY <1>1 DEF Max
<1> QED
  BY <1>2

LEMMA MinOfTwo ==
  ASSUME NEW a \in Int, NEW b \in Int
  PROVE  Min({a, b}) = IF a <= b THEN a ELSE b
<1>1. \E x \in {a, b} : \A y \in {a, b} : x =< y
  OBVIOUS
<1>2. Min({a, b}) \in {a, b} /\ \A y \in {a, b} : Min({a, b}) =< y
  BY <1>1 DEF Min
<1> QED
  BY <1>2

(* out_space() on a merged map offers a gap exactly when a byte is         *)
(* missing; all it offers is missing, up to the next byte that is there,   *)
(* and it begins at the first missing byte from offset on, or, when there  *)
(* is none, at the first missing byte of the file.                         *)
THEOREM OutSpaceFindsGap ==
  ASSUME NEW size \in Nat \ {0}, NEW m, IsRanges(m, size), IsMerged(m),
         NEW offset \in Nat, NEW gap, gap = OutSpace(m, size, offset)
  PROVE  /\ gap.found <=> Missing(m, size) # {}
         /\ gap.found =>
              /\ gap.left \in 0 .. (size - 1) /\ gap.right \in 0 .. size
              /\ gap.left < gap.right
              /\ Bytes(gap.left, gap.right) \subseteq Missing(m, size)
              /\ gap.right \notin Missing(m, size)
              /\ \A b \in Missing(m, size) : offset <= b => gap.left <= b
              /\ gap.left < offset =>
                   \A b \in Missing(m, size) : b < offset /\ gap.left <= b
<1> DEFINE V == InverseImpl(m, size)
           hits == Behind(V, offset)
           missing == Missing(m, size)
<1>1. IsRanges(V, size) /\ Covered(V) = missing
  BY GapsAreMissingBytes DEF Missing
<1>2. ASSUME NEW k \in DOMAIN V
      PROVE  /\ k \in 0 .. size /\ V[k] \in 0 .. size /\ k < V[k]
             /\ V[k] \notin missing
  <2>1. V[k] = size \/ V[k] \in Covered(m)
    BY GapsAreMissingBytes
  <2>2. k < V[k]
    BY GapsAreMissingBytes
  <2>3. k \in 0 .. size /\ V[k] \in 0 .. size
    BY <1>1 DEF IsRanges
  <2>4. V[k] \notin missing
    BY <2>1 DEF Missing
  <2> QED
    BY <2>2, <2>3, <2>4
<1>3. gap = SpaceIn(V, hits, offset)
  BY DEF OutSpace
<1>4. IsFiniteSet(DOMAIN V) /\ DOMAIN V \subseteq Int
  BY <1>1, RangesAreFinite
<1>5. \A b : b \in missing <=> b \in Int /\ \E k \in DOMAIN V : k <= b /\ b < V[k]
  BY <1>1, CoveredBytes DEF Within
<1> HIDE DEF V, missing
<1>6. hits \subseteq DOMAIN V /\ \A k \in DOMAIN V : k \in hits <=> offset < k \/ offset < V[k]
  BY DEF Behind
<1>7. IsFiniteSet(hits) /\ hits \subseteq Int
  BY <1>4, <1>6, FS_Subset
<1> HIDE DEF hits
<1>8. ASSUME NEW k \in DOMAIN V, NEW l \in Int, k <= l, l < V[k]
      PROVE  Bytes(l, V[k]) \subseteq missing
  BY <1>2, <1>5, <1>8 DEF Bytes
<1>9. CASE DOMAIN V = {}
  <2>1. missing = {} /\ hits = {}
    BY <1>5, <1>6, <1>9
  <2>2. gap.found = FALSE
    BY <1>3, <1>9, <2>1 DEF SpaceIn
  <2> QED
    BY <2>1, <2>2 DEF missing
<1>10. CASE hits # {}
  <2> DEFINE k == Min(hits)
  <2>1. k \in hits /\ \A j \in hits : k <= j
    BY <1>7, <1>10, MinIsSmallest
  <2>2. gap = [found |-> TRUE, left |-> Max({offset, k}), right |-> V[k]]
    BY <1>3, <1>10 DEF SpaceIn
  <2> HIDE DEF k
  <2>3. /\ k \in DOMAIN V /\ k \in 0 .. size /\ V[k] \in 0 .. size /\ k < V[k]
        /\ offset < k \/ offset < V[k]
    BY <1>2, <1>6, <2>1
  <2>4. Max({offset, k}) = IF offset >= k THEN offset ELSE k
    BY <2>3, MaxOfTwo
  <2>5. /\ gap.found = TRUE /\ gap.right = V[k]
        /\ gap.left = IF offset >= k THEN offset ELSE k
    BY <2>2, <2>4
  <2>6. /\ gap.left \in 0 .. (size - 1) /\ gap.right \in 0 .. size
        /\ gap.left < gap.right /\ k <= gap.left /\ offset <= gap.left
    <3>1. CASE offset >= k
      BY <2>3, <2>5, <3>1
    <3>2. CASE ~(offset >= k)
      BY <2>3, <2>5, <3>2
    <3> QED
      BY <3>1, <3>2
  <2>7. Bytes(gap.left, gap.right) \subseteq missing /\ gap.right \notin missing
    BY <1>2, <1>8, <2>3, <2>5, <2>6
  <2>8. gap.left \in missing
    BY <1>5, <2>3, <2>5, <2>6
  <2>9. ASSUME NEW b \in missing, offset <= b
        PROVE  gap.left <= b
    <3>1. PICK j \in DOMAIN V : b \in Int /\ j <= b /\ b < V[j]
      BY <1>5
    <3>2. j \in hits
      BY <1>2, <1>6, <2>9, <3>1
    <3> QED
      BY <1>2, <2>1, <2>3, <2>5, <2>9, <3>1, <3>2
  <2>10. missing # {} /\ ~(gap.left < offset)
    BY <2>6, <2>8
  <2> QED
    BY <2>5, <2>6, <2>7, <2>9, <2>10 DEF missing
<1>11. CASE hits = {} /\ DOMAIN V # {}
  <2> DEFINE k == Min(DOMAIN V)
  <2>1. k \in DOMAIN V /\ \A j \in DOMAIN V : k <= j
    BY <1>4, <1>11, MinIsSmallest
  <2>2. gap = [found |-> TRUE, left |-> k, right |-> V[k]]
    BY <1>3, <1>11 DEF SpaceIn
  <2> HIDE DEF k
  <2>3. /\ k \in 0 .. size /\ V[k] \in 0 .. size /\ k < V[k]
        /\ gap.found = TRUE /\ gap.left = k /\ gap.right = V[k]
    BY <1>2, <2>1, <2>2
  <2>4. /\ gap.left \in 0 .. (size - 1) /\ gap.right \in 0 .. size
        /\ gap.left < gap.right
    BY <2>3
  <2>5. Bytes(gap.left, gap.right) \subseteq missing /\ gap.right \notin missing
    BY <1>2, <1>8, <2>1, <2>3
  <2>6. gap.left \in missing
    BY <1>5, <2>1, <2>3
  <2>7. ASSUME NEW b \in missing
        PROVE  b < offset /\ gap.left <= b
    <3>1. PICK j \in DOMAIN V : b \in Int /\ j <= b /\ b < V[j]
      BY <1>5
    <3>2. j \in 0 .. size /\ V[j] \in 0 .. size /\ V[j] <= offset /\ k <= j
      BY <1>2, <1>6, <1>11, <2>1
    <3> QED
      BY <2>3, <3>1, <3>2
  <2>8. \A b \in missing : ~(offset <= b)
    BY <1>5, <2>7
  <2> QED
    BY <2>3, <2>4, <2>5, <2>6, <2>7, <2>8 DEF missing
<1> QED
  BY <1>9, <1>10, <1>11

-----------------------------------------------------------------------------
(* update() of bounds it accepts: the map stays well-formed, the bytes of  *)
(* the interval are added, and none is lost but those of a longer entry    *)
(* that begins at the same border, which the new one replaces.             *)
THEOREM UpdateAddsBytes ==
  ASSUME NEW size \in Nat, NEW m, IsRanges(m, size),
         NEW l \in Int, NEW r \in Int, CanUpdate(size, l, r)
  PROVE  /\ IsRanges(Update(m, l, r), size)
         /\ Bytes(l, r) \subseteq Covered(Update(m, l, r))
         /\ Covered(Update(m, l, r)) \subseteq Covered(m) \cup Bytes(l, r)
         /\ \A b \in Covered(m) \ Covered(Update(m, l, r)) :
              l \in DOMAIN m /\ r <= b /\ b < m[l]
<1> DEFINE N == Update(m, l, r)
<1>1. 0 <= l /\ l < r /\ r <= size
  BY DEF CanUpdate
<1>2. /\ DOMAIN N = DOMAIN m \cup {l}
      /\ N[l] = r
      /\ \A k \in DOMAIN m \ {l} : N[k] = m[k]
      /\ N = [k \in DOMAIN N |-> N[k]]
  BY DEF Update, Replace
<1> HIDE DEF N
<1>3. IsRanges(N, size)
  BY <1>1, <1>2 DEF IsRanges
<1>4. ASSUME NEW b \in Int
      PROVE  /\ b \in Covered(m) <=> Within(b, m, DOMAIN m)
             /\ b \in Covered(N) <=> Within(b, N, DOMAIN N)
             /\ b \in Bytes(l, r) <=> l <= b /\ b < r
  BY <1>3, CoveredBytes DEF Bytes
<1>5. Covered(m) \subseteq Int /\ Covered(N) \subseteq Int /\ Bytes(l, r) \subseteq Int
  BY <1>3, CoveredBytes DEF Bytes
<1>6. ASSUME NEW b \in Int
      PROVE  Within(b, N, DOMAIN N) <=>
               (l <= b /\ b < r) \/ \E k \in DOMAIN m \ {l} : k <= b /\ b < m[k]
  BY <1>2 DEF Within
<1>7. \A k \in DOMAIN m : k \in Int /\ m[k] \in Int
  BY RangesAreFinite
<1>8. ASSUME NEW b \in Covered(m), b \notin Covered(N)
      PROVE  l \in DOMAIN m /\ r <= b /\ b < m[l]
  <2>1. PICK k \in DOMAIN m : k <= b /\ b < m[k]
    BY <1>4, <1>5 DEF Within
  <2>2. k = l /\ ~(l <= b /\ b < r)
    BY <1>4, <1>5, <1>6, <1>8, <2>1
  <2> QED
    BY <1>5, <2>1, <2>2
<1> QED
  BY <1>3, <1>4, <1>5, <1>6, <1>8 DEF N, Within

(* update() of bytes of which none is there: it adds them, no more.        *)
COROLLARY UpdateOfMissing ==
  ASSUME NEW size \in Nat, NEW m, IsRanges(m, size),
         NEW l \in Int, NEW r \in Int, CanUpdate(size, l, r),
         l \notin Covered(m)
  PROVE  Covered(Update(m, l, r)) = Covered(m) \cup Bytes(l, r)
<1> DEFINE C == Covered(m)
           N == Covered(Update(m, l, r))
<1>1. N \subseteq C \cup Bytes(l, r) /\ Bytes(l, r) \subseteq N
  BY UpdateAddsBytes
<1>2. C \subseteq Int /\ l < r
  BY CoveredBytes DEF CanUpdate
<1>3. ASSUME NEW b \in C, b \notin N
      PROVE  FALSE
  <2>1. l \in DOMAIN m /\ r <= b /\ b < m[l]
    BY <1>3, UpdateAddsBytes
  <2>2. l < m[l]
    BY <1>2, <2>1, RangesAreFinite
  <2> QED
    BY <2>1, <2>2, CoveredBytes DEF Within
<1> QED
  BY <1>1, <1>3

-----------------------------------------------------------------------------
(* Products of integers grow with their factors. *)
LEMMA TimesMonotone ==
  ASSUME NEW a \in Int, NEW b \in Int, NEW c \in Nat, a <= b
  PROVE  a * c <= b * c
  OBVIOUS

(* Division with a remainder. *)
LEMMA DivMod ==
  ASSUME NEW a \in Nat, NEW d \in Nat \ {0}
  PROVE  /\ a \div d \in Nat /\ a % d \in 0 .. (d - 1)
         /\ a = ((a \div d) * d) + (a % d)
         /\ (a \div d) * d <= a /\ a < (a \div d + 1) * d
  OBVIOUS

(* The pieces of a file cover it, and the last one begins within it. *)
LEMMA PieceNumCovers ==
  ASSUME NEW size \in Nat, NEW piece \in Nat \ {0}
  PROVE  /\ PieceNum(size, piece) \in Nat
         /\ size <= PieceNum(size, piece) * piece
         /\ \A i \in 0 .. (PieceNum(size, piece) - 1) : i * piece < size /\ i * piece \in Nat
<1> DEFINE q == size \div piece
           e == size % piece
           P == PieceNum(size, piece)
<1>1. q \in Nat /\ e \in 0 .. (piece - 1) /\ size = (q * piece) + e
  BY DivMod
<1>2. P = q + (IF e = 0 THEN 0 ELSE 1)
  BY DEF PieceNum
<1> HIDE DEF q, e, P
<1>3. P \in Nat
  BY <1>1, <1>2
<1>4. (q + 1) * piece = (q * piece) + piece /\ (q - 1) * piece = (q * piece) - piece
  BY <1>1
<1>5. size <= P * piece
  BY <1>1, <1>2, <1>4
<1>6. (P - 1) * piece < size
  BY <1>1, <1>2, <1>4
<1>7. ASSUME NEW i \in 0 .. (P - 1)
      PROVE  i * piece < size /\ i * piece \in Nat
  <2>1. i * piece <= (P - 1) * piece
    BY <1>3, TimesMonotone
  <2>2. i * piece \in Nat /\ (P - 1) * piece \in Int
    BY <1>3
  <2> QED
    BY <1>6, <2>1, <2>2
<1> QED
  BY <1>3, <1>5, <1>7 DEF P

(* A piece border that fits in an int is not changed by its width. *)
LEMMA WrapOfSmall ==
  ASSUME NEW x \in Int, NEW limit \in Nat, -limit <= x, x < limit
  PROVE  Wrap(x, limit) = x
  BY DEF Wrap

(* The last piece of the run of 1 bits that begins at piece i, plus one. *)
RunEnd(bf, i) == Min({j \in i .. bf.len : j \notin bf.ones})

(* A run of 1 bits ends at a 0 bit or behind the last bit. *)
LEMMA RunEndIs ==
  ASSUME NEW n \in Nat, NEW ones \in SUBSET (0 .. (n - 1)),
         NEW bf, bf = [len |-> n, ones |-> ones], NEW i \in ones
  PROVE  /\ RunEnd(bf, i) \in (i + 1) .. n
         /\ RunEnd(bf, i) \notin ones
         /\ \A j \in Int : i <= j /\ j < RunEnd(bf, i) => j \in ones
<1> DEFINE Z == {j \in i .. n : j \notin ones}
           e == RunEnd(bf, i)
<1>1. n \in Z
  OBVIOUS
<1>2. IsFiniteSet(Z) /\ Z \subseteq Int
  <2>1. IsFiniteSet(i .. n) /\ Z \subseteq i .. n
    BY FS_Interval
  <2> QED
    BY <2>1, FS_Subset
<1>3. e = Min(Z)
  BY DEF RunEnd
<1>4. e \in Z /\ \A j \in Z : e <= j
  BY <1>1, <1>2, <1>3, MinIsSmallest
<1>5. e \in i .. n /\ e \notin ones /\ e # i
  BY <1>4
<1>6. ASSUME NEW j \in Int, i <= j, j < e, j \notin ones
      PROVE  FALSE
  <2>1. j \in Z
    BY <1>5, <1>6
  <2> QED
    BY <1>4, <1>5, <1>6, <2>1
<1> QED
  BY <1>5, <1>6 DEF e

(* Every 1 bit belongs to a run. *)
LEMMA RunAround ==
  ASSUME NEW n \in Nat, NEW ones \in SUBSET (0 .. (n - 1)),
         NEW bf, bf = [len |-> n, ones |-> ones], NEW j \in ones
  PROVE  \E i \in Runs(bf) : i <= j /\ j < RunEnd(bf, i)
<1> DEFINE Y == {i \in 0 .. j : \A k \in i .. j : k \in ones}
<1>1. j \in Y
  OBVIOUS
<1>2. IsFiniteSet(Y) /\ Y \subseteq Int
  <2>1. IsFiniteSet(0 .. j) /\ Y \subseteq 0 .. j
    BY FS_Interval
  <2> QED
    BY <2>1, FS_Subset
<1> DEFINE i == Min(Y)
<1>3. i \in Y /\ \A k \in Y : i <= k
  BY <1>1, <1>2, MinIsSmallest
<1> HIDE DEF i
<1>4. i \in 0 .. j /\ i \in ones /\ \A k \in i .. j : k \in ones
  BY <1>3
<1>5. i - 1 \notin ones
  <2> SUFFICES ASSUME i - 1 \in ones
               PROVE  FALSE
    OBVIOUS
  <2>1. i - 1 \in 0 .. j
    BY <1>4
  <2>2. \A k \in (i - 1) .. j : k \in ones
    BY <1>4
  <2>3. i - 1 \in Y
    BY <2>1, <2>2
  <2> QED
    BY <1>3, <1>4, <2>3
<1>6. i \in Runs(bf)
  BY <1>4, <1>5 DEF Runs
<1>7. RunEnd(bf, i) \in (i + 1) .. n /\ RunEnd(bf, i) \notin ones
  BY <1>4, RunEndIs
<1>8. j < RunEnd(bf, i)
  BY <1>4, <1>7
<1> QED
  BY <1>4, <1>6, <1>8

(* m has one entry for every run of 1 bits, cut at the end of the file. *)
HasRunsOf(m, bf, size, piece) ==
  /\ m = [l \in DOMAIN m |-> m[l]]
  /\ DOMAIN m = {i * piece : i \in Runs(bf)}
  /\ \A i \in Runs(bf) :
       m[i * piece] = IF size <= RunEnd(bf, i) * piece THEN size ELSE RunEnd(bf, i) * piece

(* bitfield_to_range(): the map has an entry for every run of 1 bits, from *)
(* the first byte of its first piece to the last byte of its last one, as  *)
(* long as the borders fit in an int.                                      *)
LEMMA BitfieldEntries ==
  ASSUME NEW size \in Nat, NEW piece \in Nat \ {0}, NEW limit \in Nat, size <= limit,
         NEW ones \in SUBSET (0 .. (PieceNum(size, piece) - 1)),
         NEW bf, bf = [len |-> PieceNum(size, piece), ones |-> ones],
         NEW m, m = BitfieldToRange(bf, size, piece, limit)
  PROVE  HasRunsOf(m, bf, size, piece)
<1> DEFINE starts == Runs(bf)
           P == PieceNum(size, piece)
           left(i) == Wrap(i * piece, limit)
           right(i) == Cut(left(i) + (RunEnd(bf, i) - i) * piece, size)
<1>1. P \in Nat /\ \A i \in 0 .. (P - 1) : i * piece < size /\ i * piece \in Nat
  BY PieceNumCovers
<1>2. \A i \in starts : i \in ones /\ i \in 0 .. (P - 1) /\ i \in Int
  BY <1>1 DEF Runs
<1> HIDE DEF P, starts
<1>3. ASSUME NEW i \in starts
      PROVE  left(i) = i * piece
  <2>1. i * piece \in Nat /\ i * piece < limit
    BY <1>1, <1>2
  <2> QED
    BY <2>1, WrapOfSmall
<1>4. m = [l \in {left(i) : i \in starts} |-> right(Max({i \in starts : left(i) = l}))]
  BY DEF BitfieldToRange, RunEnd, starts
<1>5. ASSUME NEW i \in starts
      PROVE  right(i) = IF size <= RunEnd(bf, i) * piece THEN size ELSE RunEnd(bf, i) * piece
  <2> DEFINE e == RunEnd(bf, i)
  <2>1. e \in Int /\ i \in Int
    <3>1. i \in ones /\ i \in Int
      BY <1>2
    <3>2. ones \in SUBSET (0 .. (P - 1)) /\ bf = [len |-> P, ones |-> ones]
      BY DEF P
    <3>3. RunEnd(bf, i) \in (i + 1) .. P
      BY <1>1, <3>1, <3>2, RunEndIs
    <3> QED
      BY <1>1, <3>1, <3>3
  <2> HIDE DEF e
  <2>2. i * piece + (e - i) * piece = e * piece /\ e * piece \in Int
    BY <2>1
  <2>3. left(i) + (e - i) * piece = e * piece
    BY <1>3, <2>2
  <2>4. right(i) = Min({size, e * piece})
    BY <2>3 DEF Cut, e
  <2> QED
    BY <2>2, <2>4, MinOfTwo DEF e
<1>6. ASSUME NEW i \in starts
      PROVE  {j \in starts : left(j) = left(i)} = {i}
  <2> SUFFICES ASSUME NEW j \in starts, left(j) = left(i)
               PROVE  j = i
    OBVIOUS
  <2>1. j * piece = i * piece /\ i \in Int /\ j \in Int
    BY <1>2, <1>3
  <2> QED
    BY <2>1
<1>7. ASSUME NEW i \in starts
      PROVE  Max({i}) = i
  <2>1. i \in Int
    BY <1>2
  <2>2. \A y \in {i} : i >= y
    BY <2>1
  <2> QED
    BY <2>2 DEF Max
<1> HIDE DEF left, right
<1>8. DOMAIN m = {left(i) : i \in starts} /\ m = [l \in DOMAIN m |-> m[l]]
  BY <1>4
<1>9. ASSUME NEW i \in starts
      PROVE  m[left(i)] = right(i)
  BY <1>4, <1>6, <1>7
<1>10. {left(i) : i \in starts} = {i * piece : i \in starts}
  BY <1>3
<1>11. ASSUME NEW i \in starts
       PROVE  m[i * piece] = IF size <= RunEnd(bf, i) * piece THEN size ELSE RunEnd(bf, i) * piece
  BY <1>3, <1>5, <1>9
<1> QED
  BY <1>8, <1>10, <1>11 DEF HasRunsOf, starts

(* Saving and restoring bitfields: a bitfield becomes a well-formed map    *)
(* that covers the bytes of its 1 pieces and no others.                    *)
THEOREM BitfieldCoversItsPieces ==
  ASSUME NEW size \in Nat, NEW piece \in Nat \ {0}, NEW limit \in Nat, size <= limit,
         NEW ones \in SUBSET (0 .. (PieceNum(size, piece) - 1)),
         NEW bf, bf = [len |-> PieceNum(size, piece), ones |-> ones],
         NEW m, m = BitfieldToRange(bf, size, piece, limit)
  PROVE  /\ IsRanges(m, size)
         /\ Covered(m) = UNION {PieceBytes(i, size, piece) : i \in ones}
<1> DEFINE starts == Runs(bf)
           P == PieceNum(size, piece)
           e(i) == RunEnd(bf, i)
<1>1. P \in Nat /\ \A i \in 0 .. (P - 1) : i * piece < size /\ i * piece \in Nat
  BY PieceNumCovers
<1>2. \A i \in starts : i \in ones /\ i \in 0 .. (P - 1)
  BY DEF Runs
<1>3. ones \in SUBSET (0 .. (P - 1)) /\ bf = [len |-> P, ones |-> ones]
  OBVIOUS
<1>4. /\ m = [l \in DOMAIN m |-> m[l]]
      /\ DOMAIN m = {i * piece : i \in starts}
      /\ \A i \in starts :
           m[i * piece] = IF size <= e(i) * piece THEN size ELSE e(i) * piece
  <2>1. HasRunsOf(m, bf, size, piece)
    BY BitfieldEntries
  <2> QED
    BY <2>1 DEF HasRunsOf
<1> HIDE DEF P, starts
<1>5. ASSUME NEW i \in starts
      PROVE  /\ i \in ones /\ i \in 0 .. (P - 1) /\ i * piece \in Nat /\ i * piece < size
             /\ e(i) \in (i + 1) .. P
             /\ \A j \in Int : i <= j /\ j < e(i) => j \in ones
             /\ i * piece < e(i) * piece /\ e(i) * piece \in Nat
  <2>1. i \in ones /\ i \in 0 .. (P - 1) /\ i * piece \in Nat /\ i * piece < size
    BY <1>1, <1>2
  <2>2. e(i) \in (i + 1) .. P /\ \A j \in Int : i <= j /\ j < e(i) => j \in ones
    BY <1>1, <1>3, <2>1, RunEndIs
  <2> HIDE DEF e
  <2>3. (i + 1) * piece <= e(i) * piece
    BY <1>1, <2>1, <2>2, TimesMonotone
  <2>4. (i + 1) * piece = i * piece + piece /\ e(i) * piece \in Nat
    BY <1>1, <2>1, <2>2
  <2> QED
    BY <2>1, <2>2, <2>3, <2>4
<1> HIDE DEF e
<1>6. ASSUME NEW i \in starts
      PROVE  m[i * piece] \in 0 .. size /\ i * piece < m[i * piece]
  BY <1>4, <1>5
<1>7. IsRanges(m, size)
  BY <1>4, <1>5, <1>6 DEF IsRanges
<1>8. ASSUME NEW b \in Covered(m)
      PROVE  \E j \in ones : b \in PieceBytes(j, size, piece)
  <2>1. PICK i \in starts : b \in Nat /\ b < size /\ i * piece <= b /\ b < m[i * piece]
    <3>1. b \in 0 .. (size - 1) /\ Within(b, m, DOMAIN m)
      BY <1>7, CoveredBytes
    <3> QED
      BY <1>4, <3>1 DEF Within
  <2> DEFINE j == b \div piece
  <2>2. j \in Nat /\ j * piece <= b /\ b < (j + 1) * piece
    BY <2>1, DivMod
  <2>3. b < e(i) * piece
    BY <1>4, <1>5, <2>1
  <2> HIDE DEF j
  <2>4. j < e(i)
    <3> SUFFICES ASSUME e(i) <= j
                 PROVE  FALSE
      BY <1>1, <1>5, <2>2
    <3>1. e(i) * piece <= j * piece
      BY <1>1, <1>5, <2>2, TimesMonotone
    <3> QED
      BY <1>5, <2>1, <2>2, <2>3, <3>1
  <2>5. i <= j
    <3> SUFFICES ASSUME j + 1 <= i
                 PROVE  FALSE
      BY <1>5, <2>2
    <3>1. (j + 1) * piece <= i * piece
      BY <1>5, <2>2, TimesMonotone
    <3> QED
      BY <1>5, <2>1, <2>2, <3>1
  <2>6. j \in ones
    BY <1>5, <2>2, <2>4, <2>5
  <2> QED
    BY <2>1, <2>2, <2>6 DEF PieceBytes
<1>9. ASSUME NEW j \in ones, NEW b \in PieceBytes(j, size, piece)
      PROVE  b \in Covered(m)
  <2>1. b \in 0 .. (size - 1) /\ j * piece <= b /\ b < (j + 1) * piece
    BY DEF PieceBytes
  <2>2. PICK i \in starts : i <= j /\ j < e(i)
    BY <1>1, <1>3, RunAround DEF e, starts
  <2>3. j \in Int /\ i \in Int /\ e(i) \in Int
    BY <1>1, <1>3, <1>5, <2>2
  <2>4. i * piece <= j * piece /\ (j + 1) * piece <= e(i) * piece
    BY <2>2, <2>3, TimesMonotone
  <2>5. j * piece \in Int /\ (j + 1) * piece \in Int
    BY <2>3
  <2>6. i * piece <= b /\ b < m[i * piece]
    BY <1>4, <1>5, <2>1, <2>4, <2>5
  <2>7. i * piece \in DOMAIN m
    BY <1>4
  <2> QED
    BY <1>7, <2>1, <2>6, <2>7, CoveredBytes DEF Within
<1> QED
  BY <1>7, <1>8, <1>9

-----------------------------------------------------------------------------

(* g is what the loop of range_size() has summed up for each set of        *)
(* entries.                                                                *)
IsSumOf(g, m) ==
  /\ g[{}] = 0
  /\ \A s \in SUBSET DOMAIN m :
       s # {} => g[s] = g[s \ {Max(s)}] + (m[Max(s)] - Max(s))

(* range_size() is a loop that visits the entries by increasing border. *)
LEMMA SizeIsFold ==
  ASSUME NEW size \in Nat, NEW m, IsRanges(m, size)
  PROVE  \E g : IsSumOf(g, m) /\ RangeSize(m) = g[DOMAIN m]
<1> DEFINE D == DOMAIN m
           F == [p \in D \X Int |-> p[2] + (m[p[1]] - p[1])]
           Solves(g) == g = [s \in SUBSET D |->
                               IF s = {} THEN 0
                               ELSE g[s \ {Max(s)}] + (m[Max(s)] - Max(s))]
<1>1. IsFiniteSet(D) /\ D \subseteq Int /\ \A l \in D : m[l] \in Int
  BY RangesAreFinite
<1>2. F \in [D \X Int -> Int]
  BY <1>1
<1>3. PICK g \in [SUBSET D -> Int] : IsFold(g, D, 0, F)
  <2>1. 0 \in Int
    OBVIOUS
  <2> HIDE DEF F, D
  <2> QED
    BY <1>1, <1>2, <2>1, FoldExists
<1>4. \A s \in SUBSET D : s # {} => Max(s) \in s
  BY <1>1, FS_Subset, MaxIsLargest
<1>5. \A s \in SUBSET D :
        g[s] = IF s = {} THEN 0 ELSE g[s \ {Max(s)}] + (m[Max(s)] - Max(s))
  BY <1>3, <1>4 DEF IsFold
<1>6. Solves(g)
  BY <1>5
<1> DEFINE h == CHOOSE f : Solves(f)
<1>7. Solves(h)
  <2> HIDE DEF Solves
  <2> QED
    BY <1>6
<1>8. RangeSize(m) = h[D]
  BY DEF RangeSize, FoldMap, MapThenFoldSet
<1>9. IsSumOf(h, m)
  <2> HIDE DEF h
  <2> QED
    BY <1>7 DEF IsSumOf
<1> QED
  BY <1>8, <1>9

(* What the entries s of m cover. *)
Part(m, s) == UNION {Bytes(l, m[l]) : l \in s}

(* The sum after the entries s: no less than the bytes they cover, and     *)
(* just as many when no two of them overlap.                               *)
SumInv(sum, m, s) ==
  /\ IsFiniteSet(Part(m, s))
  /\ sum \in Nat
  /\ Cardinality(Part(m, s)) <= sum
  /\ IsMerged(m) => Cardinality(Part(m, s)) = sum

(* One more entry: its bytes come on top of those that were counted. *)
LEMMA SumStepKeepsInv ==
  ASSUME NEW size \in Nat, NEW m, IsRanges(m, size),
         NEW s \in SUBSET DOMAIN m, NEW x \in s, \A y \in s \ {x} : y < x,
         NEW sum, SumInv(sum, m, s \ {x})
  PROVE  SumInv(sum + (m[x] - x), m, s)
<1> DEFINE old == Part(m, s \ {x})
           block == Bytes(x, m[x])
<1>1. x \in Int /\ m[x] \in Int /\ x <= m[x]
  BY DEF IsRanges
<1>2. IsFiniteSet(block) /\ Cardinality(block) = m[x] - x
  <2> DEFINE last == m[x] - 1
  <2>1. block = x .. last
    BY DEF Bytes
  <2>2. last \in Int
    BY <1>1
  <2>3. IsFiniteSet(x .. last) /\ Cardinality(x .. last) = IF x > last THEN 0 ELSE last - x + 1
    <3> HIDE DEF last
    <3> QED
      BY <1>1, <2>2, FS_Interval
  <2> QED
    BY <1>1, <2>1, <2>3
<1>3. Part(m, s) = old \cup block
  BY DEF Part
<1>4. IsFiniteSet(old) /\ sum \in Nat /\ Cardinality(old) <= sum
      /\ (IsMerged(m) => Cardinality(old) = sum)
  BY DEF SumInv
<1>5. IsMerged(m) => old \cap block = {}
  <2> SUFFICES ASSUME IsMerged(m), NEW b \in old, b \in block
               PROVE  FALSE
    OBVIOUS
  <2>1. PICK l \in s \ {x} : b \in Bytes(l, m[l])
    BY DEF Part
  <2>2. l < x /\ l \in Int /\ m[l] \in Int
    BY DEF IsRanges
  <2>3. m[l] < x
    BY <2>1, <2>2 DEF IsMerged, Bytes
  <2> QED
    BY <1>1, <2>1, <2>2, <2>3 DEF Bytes
<1> HIDE DEF old, block
<1>6. /\ IsFiniteSet(old \cup block)
      /\ Cardinality(old \cup block) = Cardinality(old) + Cardinality(block) - Cardinality(old \cap block)
  BY <1>2, <1>4, FS_Union
<1>7. IsFiniteSet(old \cap block)
  BY <1>4, FS_Intersection
<1>8. Cardinality(old) \in Nat /\ Cardinality(old \cap block) \in Nat
  BY <1>4, <1>7, FS_CardinalityType
<1>9. IsMerged(m) => Cardinality(old \cap block) = 0
  BY <1>5, FS_EmptySet
<1> QED
  BY <1>1, <1>2, <1>3, <1>4, <1>6, <1>8, <1>9 DEF SumInv

(* range_size() counts every byte that is recorded, and after merge()      *)
(* counts it once.                                                         *)
THEOREM RangeSizeCounts ==
  ASSUME NEW size \in Nat, NEW m, IsRanges(m, size)
  PROVE  /\ RangeSize(m) \in Nat
         /\ Cardinality(Covered(m)) <= RangeSize(m)
         /\ IsMerged(m) => Cardinality(Covered(m)) = RangeSize(m)
<1>1. PICK g : IsSumOf(g, m) /\ RangeSize(m) = g[DOMAIN m]
  BY SizeIsFold
<1> DEFINE D == DOMAIN m
           G == {s \in SUBSET D : SumInv(g[s], m, s)}
<1>2. IsFiniteSet(D) /\ D \subseteq Int
  BY RangesAreFinite
<1>3. {} \in G
  <2>1. Part(m, {}) = {}
    BY DEF Part
  <2>2. SumInv(0, m, {})
    BY <2>1, FS_EmptySet DEF SumInv
  <2> QED
    BY <1>1, <2>2 DEF IsSumOf
<1>4. ASSUME NEW s \in SUBSET D, s # {}, s \ {Max(s)} \in G
      PROVE  s \in G
  <2>1. IsFiniteSet(s) /\ s \subseteq Int
    BY <1>2, FS_Subset
  <2> DEFINE x == Max(s)
  <2>2. x \in s /\ \A y \in s \ {x} : y < x
    BY <1>4, <2>1, MaxIsLargest
  <2>3. g[s] = g[s \ {x}] + (m[x] - x)
    BY <1>1, <1>4 DEF IsSumOf
  <2>4. SumInv(g[s \ {x}], m, s \ {x})
    BY <1>4
  <2> HIDE DEF x
  <2>5. SumInv(g[s \ {x}] + (m[x] - x), m, s)
    BY <2>2, <2>4, SumStepKeepsInv
  <2> QED
    BY <2>3, <2>5
<1> HIDE DEF G
<1>5. D \in G
  <2> HIDE DEF D
  <2> QED
    BY <1>2, <1>3, <1>4, SubsetInduction
<1>6. SumInv(g[D], m, D)
  BY <1>5 DEF G
<1>7. Part(m, D) = Covered(m)
  BY DEF Part, Covered
<1> QED
  BY <1>1, <1>6, <1>7 DEF SumInv

-----------------------------------------------------------------------------
(* One pass of the loop of range_to_bitfield(): the entry the iterator is  *)
(* on is passed if it ends in the piece [l, r), and the piece is marked if *)
(* it then lies inside the entry the iterator is on.                       *)
Inside(m, l, r, rest) ==
  /\ rest # {}
  /\ l >= Min(rest)
  /\ r <= m[Min(rest)]
Passes(m, l, r, rest) ==
  /\ rest # {}
  /\ ~Inside(m, l, r, rest)
  /\ r >= m[Min(rest)]
RestOf(m, l, r, rest) == IF Passes(m, l, r, rest) THEN rest \ {Min(rest)} ELSE rest
ScanStep(i, acc, m, l, r) ==
  [rest |-> RestOf(m, l, r, acc.rest),
   ones |-> IF Inside(m, l, r, RestOf(m, l, r, acc.rest)) THEN acc.ones \cup {i} ELSE acc.ones]

NoScan(m) == [rest |-> DOMAIN m, ones |-> {}]
Scans(m)  == [rest : SUBSET DOMAIN m, ones : SUBSET Int]

PieceRight(wide, size) == IF wide > size THEN size ELSE wide

(* g is what the loop has found out for each set of pieces. *)
IsScanOf(g, m, pieces, size, piece, limit) ==
  /\ g[{}] = NoScan(m)
  /\ \A s \in SUBSET pieces :
       s # {} => g[s] = ScanStep(Max(s), g[s \ {Max(s)}], m, Wrap(Max(s) * piece, limit),
                                 PieceRight(Wrap((Max(s) + 1) * piece, limit), size))

(* The pieces of a file are finitely many. *)
LEMMA PiecesAreFinite ==
  ASSUME NEW size \in Nat, NEW piece \in Nat \ {0}
  PROVE  /\ IsFiniteSet(0 .. (PieceNum(size, piece) - 1))
         /\ 0 .. (PieceNum(size, piece) - 1) \subseteq Int
<1> DEFINE last == PieceNum(size, piece) - 1
<1>1. last \in Int
  BY PieceNumCovers
<1> HIDE DEF last
<1>2. IsFiniteSet(0 .. last) /\ 0 .. last \subseteq Int
  BY <1>1, FS_Interval
<1> QED
  BY <1>2 DEF last

(* range_to_bitfield() is a loop over the pieces, from the first on. *)
LEMMA ScanIsFold ==
  ASSUME NEW size \in Nat, NEW piece \in Nat \ {0}, NEW limit, NEW m
  PROVE  \E g : /\ IsScanOf(g, m, 0 .. (PieceNum(size, piece) - 1), size, piece, limit)
                /\ RangeToBitfield(m, size, piece, limit)
                     = [len |-> PieceNum(size, piece),
                        ones |-> g[0 .. (PieceNum(size, piece) - 1)].ones]
<1> DEFINE D == 0 .. (PieceNum(size, piece) - 1)
           A == Scans(m)
           St(i, acc) == ScanStep(i, acc, m, Wrap(i * piece, limit),
                                  PieceRight(Wrap((i + 1) * piece, limit), size))
           F == [p \in D \X A |-> St(p[1], p[2])]
           Solves(g) == g = [s \in SUBSET D |->
                               IF s = {} THEN NoScan(m) ELSE St(Max(s), g[s \ {Max(s)}])]
<1>1. IsFiniteSet(D) /\ D \subseteq Int
  BY PiecesAreFinite
<1>2. NoScan(m) \in A
  BY DEF NoScan, Scans
<1>3. F \in [D \X A -> A]
  <2> SUFFICES ASSUME NEW i \in D, NEW acc \in A
               PROVE  St(i, acc) \in A
    OBVIOUS
  <2>1. i \in Int
    BY <1>1
  <2> QED
    BY <2>1 DEF ScanStep, Scans, RestOf
<1>4. PICK g \in [SUBSET D -> A] : IsFold(g, D, NoScan(m), F)
  <2> HIDE DEF F, D, A
  <2> QED
    BY <1>1, <1>2, <1>3, FoldExists
<1>5. \A s \in SUBSET D : s # {} => Max(s) \in s
  BY <1>1, FS_Subset, MaxIsLargest
<1>6. \A s \in SUBSET D :
        g[s] = IF s = {} THEN NoScan(m) ELSE St(Max(s), g[s \ {Max(s)}])
  <2> HIDE DEF St
  <2> QED
    BY <1>4, <1>5 DEF IsFold
<1>7. Solves(g)
  <2> HIDE DEF St
  <2> QED
    BY <1>6
<1> DEFINE h == CHOOSE f : Solves(f)
<1>8. Solves(h)
  <2> HIDE DEF Solves
  <2> QED
    BY <1>7
<1>9. RangeToBitfield(m, size, piece, limit) = [len |-> PieceNum(size, piece), ones |-> h[D].ones]
  BY DEF RangeToBitfield, MapThenFoldSet, NoScan, ScanStep, RestOf, Passes, Inside, PieceRight
<1>10. IsScanOf(h, m, D, size, piece, limit)
  <2> HIDE DEF h
  <2> QED
    BY <1>8 DEF IsScanOf
<1> QED
  BY <1>9, <1>10

(* The next piece border after x * piece. *)
LEMMA NextBorder ==
  ASSUME NEW piece \in Nat \ {0}, NEW x \in Int, NEW a \in Int, x * piece < a * piece
  PROVE  (x + 1) * piece <= a * piece
<1>1. a * piece \in Int /\ x * piece \in Int
  OBVIOUS
<1>2. ~(a <= x)
  BY <1>1, TimesMonotone
<1>3. x + 1 <= a /\ x + 1 \in Int
  BY <1>2
<1> QED
  BY <1>3, TimesMonotone

(* The borders of the i-th piece, which no product of ints distorts.       *)
LEMMA PieceBorders ==
  ASSUME NEW size \in Nat, NEW piece \in Nat \ {0}, NEW limit \in Nat, size + piece <= limit,
         NEW i \in 0 .. (PieceNum(size, piece) - 1),
         NEW l, l = Wrap(i * piece, limit),
         NEW r, r = PieceRight(Wrap((i + 1) * piece, limit), size)
  PROVE  /\ l = i * piece
         /\ l \in Nat /\ r \in Nat /\ l < r /\ r <= size
         /\ r <= (i + 1) * piece
         /\ i + 1 < PieceNum(size, piece) => r = (i + 1) * piece
         /\ PieceBytes(i, size, piece) = Bytes(l, r)
<1>1. /\ PieceNum(size, piece) \in Nat /\ i \in Nat
      /\ i * piece < size /\ i * piece \in Nat
  BY PieceNumCovers
<1>2. (i + 1) * piece = i * piece + piece
  BY <1>1
<1> DEFINE lo == i * piece
           hi == (i + 1) * piece
<1>3. lo \in Nat /\ hi \in Nat /\ hi = lo + piece /\ lo < size
  BY <1>1, <1>2
<1>4. i + 1 < PieceNum(size, piece) => hi < size
  BY <1>1, PieceNumCovers, i + 1 \in Int
<1>5. PieceBytes(i, size, piece) = {b \in 0 .. (size - 1) : lo <= b /\ b < hi}
  BY DEF PieceBytes
<1> HIDE DEF lo, hi
<1>6. Wrap(lo, limit) = lo /\ Wrap(hi, limit) = hi
  <2>1. lo \in Int /\ -limit <= lo /\ lo < limit
    BY <1>3
  <2>2. hi \in Int /\ -limit <= hi /\ hi < limit
    BY <1>3
  <2> QED
    BY <2>1, <2>2, WrapOfSmall
<1>7. l = lo /\ r = IF hi > size THEN size ELSE hi
  BY <1>6 DEF PieceRight, lo, hi
<1>8. PieceBytes(i, size, piece) = Bytes(l, r)
  BY <1>3, <1>5, <1>7 DEF Bytes
<1> QED
  BY <1>3, <1>4, <1>7, <1>8 DEF lo, hi

(* Every byte of a piece that is marked is there. *)
MarksInv(acc, m, s, size, piece) ==
  /\ acc \in Scans(m)
  /\ acc.ones \subseteq s
  /\ \A i \in acc.ones : PieceBytes(i, size, piece) \subseteq Covered(m)

(* One pass marks a piece only inside the entry the iterator is on. *)
LEMMA ScanKeepsMarks ==
  ASSUME NEW size \in Nat, NEW m, IsRanges(m, size),
         NEW piece, NEW s \in SUBSET Int, NEW x \in s, NEW l \in Nat, NEW r \in Nat,
         PieceBytes(x, size, piece) = Bytes(l, r),
         NEW acc, MarksInv(acc, m, s \ {x}, size, piece)
  PROVE  MarksInv(ScanStep(x, acc, m, l, r), m, s, size, piece)
<1> DEFINE rest == RestOf(m, l, r, acc.rest)
           ones == IF Inside(m, l, r, rest) THEN acc.ones \cup {x} ELSE acc.ones
<1>1. /\ acc.rest \in SUBSET DOMAIN m /\ acc.ones \in SUBSET Int
      /\ acc.ones \subseteq s
      /\ \A i \in acc.ones : PieceBytes(i, size, piece) \subseteq Covered(m)
  BY DEF MarksInv, Scans
<1>2. rest \in SUBSET DOMAIN m
  BY <1>1 DEF RestOf
<1>3. ASSUME Inside(m, l, r, rest)
      PROVE  PieceBytes(x, size, piece) \subseteq Covered(m)
  <2> DEFINE k == Min(rest)
  <2>1. rest # {} /\ l >= k /\ r <= m[k]
    BY <1>3 DEF Inside
  <2>2. IsFiniteSet(rest) /\ rest \subseteq Int
    BY <1>2, RangesAreFinite, FS_Subset
  <2>3. k \in rest
    <3> HIDE DEF rest
    <3> QED
      BY <2>1, <2>2, MinIsSmallest
  <2> HIDE DEF k, rest
  <2>4. k \in DOMAIN m /\ k \in Int /\ m[k] \in Int
    BY <1>2, <2>3 DEF IsRanges
  <2>5. Bytes(l, r) \subseteq Bytes(k, m[k])
    BY <2>1, <2>4 DEF Bytes
  <2> QED
    BY <2>4, <2>5 DEF Covered
<1>4. ScanStep(x, acc, m, l, r) = [rest |-> rest, ones |-> ones]
  BY DEF ScanStep
<1> HIDE DEF rest
<1>5. ones \subseteq s /\ \A i \in ones : PieceBytes(i, size, piece) \subseteq Covered(m)
  BY <1>1, <1>3
<1>6. ones \in SUBSET Int
  BY <1>1
<1> HIDE DEF ones
<1>7. MarksInv([rest |-> rest, ones |-> ones], m, s, size, piece)
  BY <1>2, <1>5, <1>6 DEF MarksInv, Scans
<1> QED
  BY <1>4, <1>7

(* range_to_bitfield() marks only pieces of which every byte is there.     *)
THEOREM BitfieldMarksWholePieces ==
  ASSUME NEW size \in Nat, NEW piece \in Nat \ {0}, NEW limit \in Nat, size + piece <= limit,
         NEW m, IsRanges(m, size), NEW bf, bf = RangeToBitfield(m, size, piece, limit)
  PROVE  /\ bf = [len |-> PieceNum(size, piece), ones |-> bf.ones]
         /\ bf.ones \subseteq 0 .. (PieceNum(size, piece) - 1)
         /\ \A i \in bf.ones : PieceBytes(i, size, piece) \subseteq Covered(m)
<1> DEFINE D == 0 .. (PieceNum(size, piece) - 1)
<1>1. PICK g : /\ IsScanOf(g, m, D, size, piece, limit)
               /\ bf = [len |-> PieceNum(size, piece), ones |-> g[D].ones]
  BY ScanIsFold
<1>2. IsFiniteSet(D) /\ D \subseteq Int
  BY PiecesAreFinite
<1> DEFINE G == {s \in SUBSET D : MarksInv(g[s], m, s, size, piece)}
<1>3. {} \in G
  <2>1. MarksInv(NoScan(m), m, {}, size, piece)
    BY DEF MarksInv, NoScan, Scans
  <2> QED
    BY <1>1, <2>1 DEF IsScanOf
<1>4. ASSUME NEW s \in SUBSET D, s # {}, s \ {Max(s)} \in G
      PROVE  s \in G
  <2> DEFINE x == Max(s)
             l == Wrap(x * piece, limit)
             r == PieceRight(Wrap((x + 1) * piece, limit), size)
  <2>1. x \in s
    BY <1>2, <1>4, FS_Subset, MaxIsLargest
  <2>2. x \in D /\ s \in SUBSET Int
    BY <1>2, <2>1
  <2>3. MarksInv(g[s \ {x}], m, s \ {x}, size, piece)
    BY <1>4
  <2>4. g[s] = ScanStep(x, g[s \ {x}], m, l, r)
    BY <1>1, <1>4 DEF IsScanOf
  <2> HIDE DEF x
  <2>5. l \in Nat /\ r \in Nat /\ PieceBytes(x, size, piece) = Bytes(l, r)
    BY <2>2, PieceBorders
  <2> HIDE DEF l, r
  <2>6. MarksInv(ScanStep(x, g[s \ {x}], m, l, r), m, s, size, piece)
    BY <2>1, <2>2, <2>3, <2>5, ScanKeepsMarks
  <2> QED
    BY <2>4, <2>6
<1> HIDE DEF G
<1>5. D \in G
  <2> HIDE DEF D
  <2> QED
    BY <1>2, <1>3, <1>4, SubsetInduction
<1>6. MarksInv(g[D], m, D, size, piece)
  BY <1>5 DEF G
<1> HIDE DEF D
<1>7. bf.ones = g[D].ones /\ bf = [len |-> PieceNum(size, piece), ones |-> bf.ones]
  BY <1>1
<1> QED
  BY <1>6, <1>7 DEF MarksInv, D

-----------------------------------------------------------------------------
(* The entries that do not end before l: where the iterator should be.     *)
Ahead(m, l) == {k \in DOMAIN m : l <= m[k]}

(* When no entry begins inside the piece [l, r), one step of the iterator  *)
(* is enough to bring it to the first entry that may hold the next piece,  *)
(* and a piece that is all there is found inside an entry.                 *)
LEMMA ScanStepIsComplete ==
  ASSUME NEW size \in Nat, NEW m, IsRanges(m, size), IsMerged(m),
         NEW l \in Nat, NEW r \in Nat, l < r,
         \A k \in DOMAIN m : l < k => r <= k
  PROVE  /\ RestOf(m, l, r, Ahead(m, l)) = Ahead(m, r)
         /\ Bytes(l, r) \subseteq Covered(m) => Inside(m, l, r, Ahead(m, r))
<1> DEFINE rest == Ahead(m, l)
           k == Min(rest)
<1>1. /\ IsFiniteSet(rest) /\ rest \subseteq Int /\ rest \subseteq DOMAIN m
      /\ \A j \in DOMAIN m : j \in Nat /\ m[j] \in Nat /\ j <= m[j] /\ (j = m[j] => j = 0)
  BY RangesAreFinite, FS_Subset DEF Ahead, IsRanges
<1>2. \A i, j \in DOMAIN m : i < j => m[i] < j
  BY DEF IsMerged
<1>3. Ahead(m, r) \subseteq rest
  BY <1>1 DEF Ahead
<1>4. ASSUME NEW b \in Int, l <= b, b \in Covered(m)
      PROVE  \E j \in rest : j <= b /\ b < m[j]
  <2>1. PICK j \in DOMAIN m : b \in Bytes(j, m[j])
    BY <1>4 DEF Covered
  <2>2. j <= b /\ b < m[j] /\ j \in DOMAIN m
    BY <1>1, <2>1 DEF Bytes
  <2>3. l <= m[j]
    BY <1>1, <1>4, <2>2
  <2> QED
    BY <2>2, <2>3 DEF Ahead
<1>5. l \in Bytes(l, r)
  BY DEF Bytes
<1>6. rest # {} => k \in rest /\ k \in Nat /\ m[k] \in Nat /\ l <= m[k] /\ \A j \in rest : k <= j
  <2> HIDE DEF rest
  <2>1. rest # {} => k \in rest /\ \A j \in rest : k <= j
    BY <1>1, MinIsSmallest
  <2> QED
    BY <1>1, <2>1 DEF rest, Ahead
<1>7. CASE rest = {}
  <2>1. RestOf(m, l, r, rest) = Ahead(m, r)
    BY <1>3, <1>7 DEF RestOf
  <2>2. l \notin Covered(m)
    BY <1>4, <1>7
  <2> QED
    BY <1>5, <2>1, <2>2
<1> HIDE DEF k
<1>8. ASSUME rest # {}
      PROVE  Inside(m, l, r, rest) <=> l >= k /\ r <= m[k]
  BY <1>8 DEF Inside, k
<1>9. CASE rest # {} /\ Inside(m, l, r, rest)
  <2>1. l >= k /\ r <= m[k]
    BY <1>8, <1>9
  <2>2. RestOf(m, l, r, rest) = rest
    BY <1>9 DEF RestOf, Passes
  <2>3. \A j \in rest : r <= m[j]
    <3> SUFFICES ASSUME NEW j \in rest
                 PROVE  r <= m[j]
      OBVIOUS
    <3>1. k <= j /\ j \in Nat /\ m[j] \in Nat /\ j <= m[j]
      BY <1>1, <1>6
    <3>2. k = j \/ m[k] < j
      BY <1>1, <1>2, <1>6, <1>9, <3>1
    <3> QED
      BY <1>1, <1>6, <1>9, <2>1, <3>1, <3>2
  <2>4. rest = Ahead(m, r)
    BY <1>1, <1>3, <2>3 DEF Ahead
  <2> QED
    BY <1>9, <2>2, <2>4
<1>10. CASE rest # {} /\ ~Inside(m, l, r, rest) /\ r < m[k]
  <2>1. l < k /\ r <= k
    BY <1>1, <1>6, <1>8, <1>10
  <2>2. ~Passes(m, l, r, rest)
    BY <1>6, <1>10 DEF Passes, k
  <2>3. \A j \in rest : r <= m[j]
    BY <1>1, <1>6, <1>10, <2>1
  <2>4. RestOf(m, l, r, rest) = rest /\ rest = Ahead(m, r)
    BY <1>1, <1>3, <2>2, <2>3 DEF RestOf, Ahead
  <2>5. l \notin Covered(m)
    BY <1>1, <1>4, <1>6, <1>10, <2>1
  <2> QED
    BY <1>5, <2>4, <2>5
<1>11. CASE rest # {} /\ ~Inside(m, l, r, rest) /\ ~(r < m[k])
  <2>1. Passes(m, l, r, rest) /\ RestOf(m, l, r, rest) = rest \ {k}
    BY <1>6, <1>11 DEF Passes, RestOf, k
  <2>3. m[k] < r
    <3> SUFFICES ASSUME m[k] = r
                 PROVE  FALSE
      BY <1>6, <1>11
    <3>1. l < k
      BY <1>6, <1>8, <1>11
    <3> QED
      BY <1>1, <1>6, <1>11, <3>1
  <2>4. ASSUME NEW j \in rest, j # k
        PROVE  r <= j /\ m[k] < j /\ r <= m[j]
    <3>1. k < j /\ j \in Nat /\ m[j] \in Nat /\ j <= m[j]
      BY <1>1, <1>6, <1>11, <2>4
    <3>2. m[k] < j
      BY <1>1, <1>2, <1>6, <1>11, <3>1
    <3>3. l < j
      BY <1>6, <1>11, <3>1, <3>2
    <3> QED
      BY <1>1, <3>1, <3>2, <3>3
  <2>5. rest \ {k} = Ahead(m, r)
    BY <1>1, <1>3, <1>6, <1>11, <2>3, <2>4 DEF Ahead
  <2>6. ~(Bytes(l, r) \subseteq Covered(m))
    <3> SUFFICES ASSUME Bytes(l, r) \subseteq Covered(m)
                 PROVE  FALSE
      OBVIOUS
    <3>1. m[k] \in Bytes(l, r)
      BY <1>6, <1>11, <2>3 DEF Bytes
    <3>2. PICK j \in rest : j <= m[k] /\ m[k] < m[j]
      BY <1>4, <1>6, <1>11, <3>1
    <3> QED
      BY <1>1, <1>6, <1>11, <2>4, <3>2
  <2> QED
    BY <2>1, <2>5, <2>6
<1> QED
  BY <1>7, <1>9, <1>10, <1>11

(* The pieces before the j-th are dealt with: the iterator is ahead of     *)
(* them, and those that are all there are marked.                          *)
PiecesDone(acc, m, j, size, piece) ==
  /\ j < PieceNum(size, piece) => acc.rest = Ahead(m, j * piece)
  /\ \A i \in 0 .. (j - 1) : PieceBytes(i, size, piece) \subseteq Covered(m) => i \in acc.ones

(* One more piece is dealt with. *)
LEMMA ScanDoesPiece ==
  ASSUME NEW size \in Nat, NEW piece \in Nat \ {0}, NEW limit \in Nat, size + piece <= limit,
         NEW m, IsRanges(m, size), IsMerged(m),
         \A k \in DOMAIN m : \E a \in Nat : k = a * piece,
         NEW j \in 0 .. (PieceNum(size, piece) - 1),
         NEW l, l = Wrap(j * piece, limit),
         NEW r, r = PieceRight(Wrap((j + 1) * piece, limit), size),
         NEW acc, PiecesDone(acc, m, j, size, piece)
  PROVE  PiecesDone(ScanStep(j, acc, m, l, r), m, j + 1, size, piece)
<1>1. /\ l = j * piece /\ l \in Nat /\ r \in Nat /\ l < r /\ r <= (j + 1) * piece
      /\ j + 1 < PieceNum(size, piece) => r = (j + 1) * piece
      /\ PieceBytes(j, size, piece) = Bytes(l, r)
  BY PieceBorders
<1>2. j \in Nat /\ j < PieceNum(size, piece) /\ PieceNum(size, piece) \in Nat
  BY PieceNumCovers
<1>3. acc.rest = Ahead(m, l)
  BY <1>1, <1>2 DEF PiecesDone
<1>4. ASSUME NEW k \in DOMAIN m, l < k
      PROVE  r <= k
  <2>1. PICK a \in Nat : k = a * piece
    OBVIOUS
  <2>2. (j + 1) * piece <= a * piece
    BY <1>1, <1>2, <1>4, <2>1, NextBorder
  <2>3. (j + 1) * piece \in Int /\ a * piece \in Int
    BY <1>2
  <2> QED
    BY <1>1, <2>1, <2>2, <2>3
<1>5. /\ RestOf(m, l, r, acc.rest) = Ahead(m, r)
      /\ Bytes(l, r) \subseteq Covered(m) => Inside(m, l, r, Ahead(m, r))
  BY <1>1, <1>3, <1>4, ScanStepIsComplete
<1> DEFINE ones == IF Inside(m, l, r, Ahead(m, r)) THEN acc.ones \cup {j} ELSE acc.ones
<1>6. ScanStep(j, acc, m, l, r) = [rest |-> Ahead(m, r), ones |-> ones]
  BY <1>5 DEF ScanStep
<1>7. \A i \in 0 .. ((j + 1) - 1) : PieceBytes(i, size, piece) \subseteq Covered(m) => i \in ones
  <2> SUFFICES ASSUME NEW i \in 0 .. ((j + 1) - 1), PieceBytes(i, size, piece) \subseteq Covered(m)
               PROVE  i \in ones
    OBVIOUS
  <2>1. CASE i = j
    BY <1>1, <1>5, <2>1
  <2>2. CASE i \in 0 .. (j - 1)
    BY <2>2 DEF PiecesDone
  <2>3. i = j \/ i \in 0 .. (j - 1)
    BY <1>2
  <2> HIDE DEF ones
  <2> QED
    BY <2>1, <2>2, <2>3
<1> HIDE DEF ones
<1>8. j + 1 < PieceNum(size, piece) => Ahead(m, r) = Ahead(m, (j + 1) * piece)
  BY <1>1
<1>9. PiecesDone([rest |-> Ahead(m, r), ones |-> ones], m, j + 1, size, piece)
  BY <1>7, <1>8 DEF PiecesDone
<1> QED
  BY <1>6, <1>9

(* When every interval begins at a piece border, range_to_bitfield()       *)
(* forgets no piece: a bit is 1 exactly if every byte of its piece is      *)
(* there.                                                                  *)
THEOREM BitfieldOfAlignedRanges ==
  ASSUME NEW size \in Nat, NEW piece \in Nat \ {0}, NEW limit \in Nat, size + piece <= limit,
         NEW m, IsRanges(m, size), IsMerged(m),
         \A k \in DOMAIN m : \E a \in Nat : k = a * piece,
         NEW bf, bf = RangeToBitfield(m, size, piece, limit)
  PROVE  bf = [len |-> PieceNum(size, piece),
               ones |-> {i \in 0 .. (PieceNum(size, piece) - 1) :
                           PieceBytes(i, size, piece) \subseteq Covered(m)}]
<1> DEFINE n == PieceNum(size, piece)
           D == 0 .. (n - 1)
<1>1. PICK g : /\ IsScanOf(g, m, D, size, piece, limit)
               /\ bf = [len |-> n, ones |-> g[D].ones]
  BY ScanIsFold
<1>2. IsFiniteSet(D) /\ D \subseteq Int
  BY PiecesAreFinite
<1>3. n \in Nat
  BY PieceNumCovers
<1> HIDE DEF n
<1> DEFINE Done(j) == PiecesDone(g[0 .. (j - 1)], m, j, size, piece)
           G == {s \in SUBSET D : \A j \in Nat : s = 0 .. (j - 1) => Done(j)}
<1>4. {} \in G
  <2> SUFFICES ASSUME NEW j \in Nat, {} = 0 .. (j - 1)
               PROVE  Done(j)
    OBVIOUS
  <2>1. j = 0
    <3>1. j # 0 => 0 \in 0 .. (j - 1)
      OBVIOUS
    <3> QED
      BY <3>1
  <2>2. g[{}] = NoScan(m)
    BY <1>1 DEF IsScanOf
  <2>3. 0 * piece = 0 /\ Ahead(m, 0) = DOMAIN m
    BY DEF Ahead, IsRanges
  <2>4. PiecesDone(NoScan(m), m, 0, size, piece)
    BY <2>3 DEF PiecesDone, NoScan
  <2>5. 0 .. (j - 1) = {}
    OBVIOUS
  <2> QED
    BY <2>1, <2>2, <2>4, <2>5
<1>5. ASSUME NEW s \in SUBSET D, s # {}, s \ {Max(s)} \in G
      PROVE  s \in G
  <2> SUFFICES ASSUME NEW j \in Nat, s = 0 .. (j - 1)
               PROVE  Done(j)
    OBVIOUS
  <2> DEFINE x == Max(s)
             l == Wrap(x * piece, limit)
             r == PieceRight(Wrap((x + 1) * piece, limit), size)
  <2>1. g[s] = ScanStep(x, g[s \ {x}], m, l, r)
    BY <1>1, <1>5 DEF IsScanOf
  <2>2. x \in s /\ \A y \in s : x >= y
    BY <1>2, <1>5, FS_Subset, MaxIsLargest
  <2> HIDE DEF x
  <2>3. x = j - 1 /\ x \in D /\ x \in Nat
    <3>1. j - 1 \in s
      BY <2>2
    <3> QED
      BY <2>2, <3>1
  <2>4. s \ {x} = 0 .. (x - 1)
    BY <2>3
  <2>5. PiecesDone(g[s \ {x}], m, x, size, piece)
    BY <1>5, <2>3, <2>4 DEF x
  <2>6. PiecesDone(ScanStep(x, g[s \ {x}], m, l, r), m, x + 1, size, piece)
    BY <2>3, <2>5, ScanDoesPiece DEF n
  <2>7. x + 1 = j
    BY <2>3
  <2> HIDE DEF l, r
  <2> QED
    BY <2>1, <2>6, <2>7
<1> HIDE DEF G
<1>6. D \in G
  <2> HIDE DEF D
  <2> QED
    BY <1>2, <1>4, <1>5, SubsetInduction
<1>7. PiecesDone(g[D], m, n, size, piece)
  BY <1>3, <1>6 DEF G
<1>8. \A i \in D : PieceBytes(i, size, piece) \subseteq Covered(m) => i \in g[D].ones
  BY <1>7 DEF PiecesDone
<1>9. bf.ones = g[D].ones
  BY <1>1
<1>10. /\ bf.ones \subseteq D
       /\ \A i \in bf.ones : PieceBytes(i, size, piece) \subseteq Covered(m)
  BY BitfieldMarksWholePieces DEF n
<1>11. bf.ones = {i \in D : PieceBytes(i, size, piece) \subseteq Covered(m)}
  BY <1>8, <1>9, <1>10
<1> QED
  BY <1>1, <1>9, <1>11 DEF n

(* A bitfield that is restored, merged and saved again is the same: a      *)
(* download that is resumed and interrupted at once forgets nothing.       *)
THEOREM BitfieldSurvives ==
  ASSUME NEW size \in Nat, NEW piece \in Nat \ {0}, NEW limit \in Nat, size + piece <= limit,
         NEW ones \in SUBSET (0 .. (PieceNum(size, piece) - 1)),
         NEW bf, bf = [len |-> PieceNum(size, piece), ones |-> ones],
         NEW m, IsRanges(m, size), IsMerged(m),
         Covered(m) = UNION {PieceBytes(i, size, piece) : i \in ones}
  PROVE  RangeToBitfield(m, size, piece, limit) = bf
<1> DEFINE n == PieceNum(size, piece)
<1>1. /\ n \in Nat
      /\ \A i \in 0 .. (n - 1) : i * piece < size /\ i * piece \in Nat
  BY PieceNumCovers
<1>2. \A b \in Int : b \in Covered(m) <=> \E i \in ones : b \in PieceBytes(i, size, piece)
  OBVIOUS
<1>3. ASSUME NEW i \in 0 .. (n - 1), NEW j \in 0 .. (n - 1), NEW b \in Int,
             b \in PieceBytes(i, size, piece), b \in PieceBytes(j, size, piece)
      PROVE  i = j
  <2>1. i * piece <= b /\ b < (i + 1) * piece /\ j * piece <= b /\ b < (j + 1) * piece
    BY <1>3 DEF PieceBytes
  <2>2. i \in Int /\ j \in Int /\ i * piece \in Int /\ j * piece \in Int
        /\ (i + 1) * piece \in Int /\ (j + 1) * piece \in Int
    BY <1>1
  <2>3. ~(i + 1 <= j)
    <3> SUFFICES ASSUME i + 1 <= j PROVE FALSE
      OBVIOUS
    <3>1. (i + 1) * piece <= j * piece
      BY <2>2, TimesMonotone, i + 1 \in Int
    <3> QED
      BY <2>1, <2>2, <3>1
  <2>4. ~(j + 1 <= i)
    <3> SUFFICES ASSUME j + 1 <= i PROVE FALSE
      OBVIOUS
    <3>1. (j + 1) * piece <= i * piece
      BY <2>2, TimesMonotone, j + 1 \in Int
    <3> QED
      BY <2>1, <2>2, <3>1
  <2> QED
    BY <2>2, <2>3, <2>4
<1>4. \A i \in 0 .. (n - 1) : i * piece \in PieceBytes(i, size, piece)
  <2> SUFFICES ASSUME NEW i \in 0 .. (n - 1)
               PROVE  i * piece \in PieceBytes(i, size, piece)
    OBVIOUS
  <2>1. i * piece \in Nat /\ i * piece < size /\ (i + 1) * piece = i * piece + piece
    BY <1>1
  <2> QED
    BY <2>1 DEF PieceBytes
<1>5. \A i \in 0 .. (n - 1) : PieceBytes(i, size, piece) \subseteq Covered(m) <=> i \in ones
  <2> SUFFICES ASSUME NEW i \in 0 .. (n - 1), PieceBytes(i, size, piece) \subseteq Covered(m)
               PROVE  i \in ones
    BY <1>2 DEF PieceBytes
  <2>1. i * piece \in Covered(m) /\ i * piece \in Int
    BY <1>1, <1>4
  <2>2. PICK j \in ones : i * piece \in PieceBytes(j, size, piece)
    BY <1>2, <2>1
  <2> QED
    BY <1>3, <1>4, <2>1, <2>2
<1>6. ASSUME NEW k \in DOMAIN m
      PROVE  \E a \in Nat : k = a * piece
  <2>1. CASE k = 0
    BY <2>1, 0 * piece = 0, 0 \in Nat
  <2>2. CASE k # 0
    <3>1. k \in Int /\ m[k] \in Int /\ k < m[k] /\ 0 < k
      BY <2>2 DEF IsRanges
    <3>2. k \in Covered(m)
      BY <3>1 DEF Covered, Bytes
    <3>3. k - 1 \notin Covered(m)
      <4> SUFFICES ASSUME NEW j \in DOMAIN m, k - 1 \in Bytes(j, m[j])
                   PROVE  FALSE
        BY DEF Covered
      <4>1. j \in Int /\ m[j] \in Int /\ j <= k - 1 /\ k - 1 < m[j]
        BY DEF Bytes, IsRanges
      <4>2. j < k /\ k <= m[j]
        BY <3>1, <4>1
      <4> QED
        BY <3>1, <4>1, <4>2 DEF IsMerged
    <3>4. PICK a \in ones : k \in PieceBytes(a, size, piece)
      BY <1>2, <3>1, <3>2
    <3>5. a \in Nat /\ a * piece \in Nat /\ a * piece <= k
      BY <1>1, <3>4 DEF PieceBytes
    <3>6. k - 1 \notin PieceBytes(a, size, piece)
      BY <1>2, <3>1, <3>3
    <3>7. ~(a * piece < k)
      BY <3>1, <3>4, <3>5, <3>6 DEF PieceBytes
    <3> QED
      BY <3>1, <3>5, <3>7
  <2> QED
    BY <2>1, <2>2
<1>7. RangeToBitfield(m, size, piece, limit)
        = [len |-> n, ones |-> {i \in 0 .. (n - 1) : PieceBytes(i, size, piece) \subseteq Covered(m)}]
  BY <1>6, BitfieldOfAlignedRanges
<1> HIDE DEF n
<1>8. {i \in 0 .. (n - 1) : PieceBytes(i, size, piece) \subseteq Covered(m)} = ones
  BY <1>5 DEF n
<1> QED
  BY <1>7, <1>8 DEF n

-----------------------------------------------------------------------------
(* Two entries of a merged map share no byte, and no byte at their ends.   *)
LEMMA OneEntryAround ==
  ASSUME NEW size \in Nat, NEW m, IsRanges(m, size), IsMerged(m),
         NEW k \in DOMAIN m, k < m[k], NEW j \in DOMAIN m, j # k
  PROVE  m[j] < k \/ m[k] < j
<1>1. k \in Int /\ j \in Int /\ m[k] \in Int /\ m[j] \in Int
  BY DEF IsRanges
<1>2. \A i \in DOMAIN m : i < m[i]
  <2>1. m # [l \in {0} |-> 0]
    OBVIOUS
  <2> QED
    BY <2>1 DEF IsMerged
<1> QED
  BY <1>1, <1>2 DEF IsMerged

(* Every entry of a merged map is a maximal run of bytes. *)
LEMMA EntryIsMaximal ==
  ASSUME NEW size \in Nat, NEW m, IsRanges(m, size), IsMerged(m),
         NEW k \in DOMAIN m, k < m[k]
  PROVE  /\ Bytes(k, m[k]) \subseteq Covered(m)
         /\ k - 1 \notin Covered(m)
         /\ m[k] \notin Covered(m)
<1>1. k \in Int /\ m[k] \in Int /\ 0 <= k
  BY DEF IsRanges
<1>2. ASSUME NEW b \in {k - 1, m[k]}, NEW j \in DOMAIN m, b \in Bytes(j, m[j])
      PROVE  FALSE
  <2>1. j \in Int /\ m[j] \in Int /\ b \in Int /\ j <= b /\ b < m[j]
    BY <1>1, <1>2 DEF IsRanges, Bytes
  <2>2. j # k
    BY <1>1, <2>1
  <2>3. m[j] < k \/ m[k] < j
    BY <2>2, OneEntryAround
  <2> QED
    BY <1>1, <2>1, <2>3
<1> QED
  BY <1>2 DEF Covered

(* merge() begins no entry where none began. *)
LEMMA MergedEntriesBegin ==
  ASSUME NEW size \in Nat, NEW m, IsRanges(m, size), NEW k \in DOMAIN Merge(m), k < Merge(m)[k]
  PROVE  k \in DOMAIN m /\ k < m[k]
<1> DEFINE n == Merge(m)
<1>1. IsRanges(n, size) /\ IsMerged(n) /\ Covered(n) = Covered(m)
  BY MergeKeepsBytes
<1> HIDE DEF n
<1>2. k \in Int /\ k < n[k] /\ n[k] \in Int /\ k \in DOMAIN n
  BY <1>1 DEF n, IsRanges
<1>3. k - 1 \notin Covered(m) /\ Bytes(k, n[k]) \subseteq Covered(m)
  BY <1>1, <1>2, EntryIsMaximal
<1>4. k \in Covered(m)
  BY <1>2, <1>3 DEF Bytes
<1>5. PICK j \in DOMAIN m : k \in Bytes(j, m[j])
  BY <1>4 DEF Covered
<1>6. j \in Int /\ m[j] \in Int /\ j <= k /\ k < m[j]
  BY <1>5 DEF IsRanges, Bytes
<1>7. ~(j < k)
  <2> SUFFICES ASSUME j < k
               PROVE  FALSE
    OBVIOUS
  <2>1. k - 1 \in Bytes(j, m[j])
    BY <1>2, <1>6 DEF Bytes
  <2> QED
    BY <1>3, <2>1 DEF Covered
<1> QED
  BY <1>2, <1>6, <1>7

(* check_range() answers yes exactly if every byte of the range is there.  *)
THEOREM CheckRangeIsExact ==
  ASSUME NEW size \in Nat, NEW m, IsRanges(m, size), IsMerged(m),
         NEW l \in Int, NEW r \in Int, l < r
  PROVE  CheckRange(m, l, r) <=> Bytes(l, r) \subseteq Covered(m)
<1>1. ASSUME CheckRange(m, l, r)
      PROVE  Bytes(l, r) \subseteq Covered(m)
  <2>1. PICK k \in DOMAIN m : l >= k /\ r <= m[k]
    BY <1>1 DEF CheckRange
  <2>2. k \in Int /\ m[k] \in Int
    BY DEF IsRanges
  <2>3. Bytes(l, r) \subseteq Bytes(k, m[k])
    BY <2>1, <2>2 DEF Bytes
  <2> QED
    BY <2>3 DEF Covered
<1>2. ASSUME Bytes(l, r) \subseteq Covered(m)
      PROVE  CheckRange(m, l, r)
  <2>1. PICK k \in DOMAIN m : l \in Bytes(k, m[k])
    BY <1>2 DEF Covered, Bytes
  <2>2. k \in Int /\ m[k] \in Int /\ k <= l /\ l < m[k]
    BY <2>1 DEF IsRanges, Bytes
  <2>3. m[k] \notin Covered(m)
    BY <2>2, EntryIsMaximal
  <2>4. ~(m[k] < r)
    BY <1>2, <2>2, <2>3 DEF Bytes
  <2> QED
    BY <2>2, <2>4 DEF CheckRange
<1> QED
  BY <1>1, <1>2

(* is_full() answers yes exactly if every byte of the file is there.       *)
THEOREM IsFullIsExact ==
  ASSUME NEW size \in Nat \ {0}, NEW m, IsRanges(m, size), IsMerged(m)
  PROVE  IsFull(m, size) <=> Covered(m) = 0 .. (size - 1)
<1>1. Covered(m) \subseteq 0 .. (size - 1)
  BY CoveredBytes
<1>2. ASSUME IsFull(m, size)
      PROVE  Covered(m) = 0 .. (size - 1)
  <2>1. Bytes(0, size) \subseteq Covered(m)
    BY <1>2 DEF IsFull, Covered
  <2> QED
    BY <1>1, <2>1 DEF Bytes
<1>3. ASSUME Covered(m) = 0 .. (size - 1)
      PROVE  IsFull(m, size)
  <2>1. Bytes(0, size) \subseteq Covered(m)
    BY <1>3 DEF Bytes
  <2>2. CheckRange(m, 0, size)
    BY <2>1, CheckRangeIsExact
  <2>3. PICK k \in DOMAIN m : 0 >= k /\ size <= m[k]
    BY <2>2 DEF CheckRange
  <2>4. k = 0 /\ m[0] = size /\ 0 \in DOMAIN m
    BY <2>3 DEF IsRanges
  <2>5. ASSUME NEW j \in DOMAIN m, j # 0
        PROVE  FALSE
    <3>1. j \in 0 .. size /\ m[j] \in 0 .. size
      BY DEF IsRanges
    <3>2. m[j] < 0 \/ size < j
      BY <2>4, <2>5, OneEntryAround
    <3> QED
      BY <3>1, <3>2
  <2> QED
    BY <2>4, <2>5 DEF IsFull
<1> QED
  BY <1>2, <1>3

(* get_range() finds the bytes from l on, up to r or the first that is     *)
(* missing.                                                                *)
THEOREM GetRangeCutsAtGap ==
  ASSUME NEW size \in Nat, NEW m, IsRanges(m, size), IsMerged(m),
         NEW l \in Int, NEW r \in Int, l < r, NEW got, got = GetRange(m, l, r)
  PROVE  /\ got.found <=> l \in Covered(m)
         /\ got.found =>
              /\ Bytes(l, got.right) \subseteq Covered(m)
              /\ got.right = r \/ got.right \notin Covered(m)
<1> DEFINE hits == {k \in DOMAIN m : /\ l >= k
                                     /\ \/ r <= m[k]
                                        \/ r > k /\ m[k] > l}
           k == Min(hits)
<1>1. \A j \in DOMAIN m : j \in Int /\ m[j] \in Int
  BY DEF IsRanges
<1>2. \A j : j \in hits <=> j \in DOMAIN m /\ l \in Bytes(j, m[j])
  BY <1>1 DEF Bytes
<1>3. hits = {} <=> l \notin Covered(m)
  BY <1>2 DEF Covered
<1>4. got = IF hits = {} THEN [found |-> FALSE, right |-> r]
            ELSE [found |-> TRUE, right |-> IF r <= m[k] THEN r ELSE m[k]]
  BY DEF GetRange
<1>5. IsFiniteSet(hits) /\ hits \subseteq Int
  BY RangesAreFinite, FS_Subset
<1> HIDE DEF hits
<1>6. CASE hits = {}
  BY <1>3, <1>4, <1>6
<1>7. CASE hits # {}
  <2>1. k \in hits
    BY <1>5, <1>7, MinIsSmallest
  <2> HIDE DEF k
  <2>2. k \in DOMAIN m /\ k \in Int /\ m[k] \in Int /\ k <= l /\ l < m[k]
    BY <1>1, <1>2, <2>1 DEF Bytes
  <2>3. m[k] \notin Covered(m) /\ Bytes(k, m[k]) \subseteq Covered(m)
    BY <2>2, EntryIsMaximal
  <2>4. got.found = TRUE /\ got.right = IF r <= m[k] THEN r ELSE m[k]
    BY <1>4, <1>7
  <2>5. got.right \in Int /\ got.right <= m[k] /\ (got.right = r \/ got.right = m[k])
    BY <2>2, <2>4
  <2>6. Bytes(l, got.right) \subseteq Bytes(k, m[k])
    BY <2>2, <2>5 DEF Bytes
  <2> QED
    BY <1>3, <1>7, <2>3, <2>4, <2>5, <2>6
<1> QED
  BY <1>6, <1>7

-----------------------------------------------------------------------------
(* Cutting a gap to a request leaves a part of it, of at most MaxRequest   *)
(* bytes and of at least one.                                              *)
LEMMA ClipOfGap ==
  ASSUME NEW gap, NEW maxRequest \in Nat \ {0},
         gap.left \in Nat, gap.right \in Nat, gap.left < gap.right
  PROVE  /\ Clip(gap, maxRequest).left = gap.left
         /\ Clip(gap, maxRequest).right \in Nat
         /\ gap.left < Clip(gap, maxRequest).right
         /\ Clip(gap, maxRequest).right <= gap.right
         /\ Clip(gap, maxRequest).right - gap.left <= maxRequest
  BY DEF Clip

(* a is an answer of allocate_range() for the map m: bytes of the file of   *)
(* which none is claimed, at most as many as a request may have, and they  *)
(* are recorded; or there are none, and none is recorded.                  *)
Takes(a, m, size, maxRequest) ==
  /\ IsRanges(a.ranges, size)
  /\ \/ /\ a.ok = TRUE
        /\ a.request = [left |-> a.request.left, right |-> a.request.right]
        /\ a.request.left \in 0 .. (size - 1) /\ a.request.right \in 0 .. (size - 1)
        /\ a.request.left <= a.request.right
        /\ a.request.right - a.request.left < maxRequest
        /\ RequestBytes(a.request) \cap Covered(m) = {}
        /\ Covered(a.ranges) = Covered(m) \cup RequestBytes(a.request)
     \/ /\ a.ok = FALSE
        /\ Covered(a.ranges) = Covered(m)
        /\ Missing(m, size) = {}

(* allocate_range() hands out bytes of the file of which none is claimed,  *)
(* at most as many as a request may have, and records exactly them; it     *)
(* fails only when every byte is claimed, and claims none then.            *)
THEOREM AllocateTakesFreeBytes ==
  ASSUME NEW size \in Nat \ {0}, NEW m, IsRanges(m, size),
         NEW point \in Nat, NEW maxRequest \in Nat \ {0},
         NEW a, a = AllocateRange(m, size, point, maxRequest)
  PROVE  Takes(a, m, size, maxRequest)
<1> DEFINE tidy == Merge(m)
           gap == OutSpace(tidy, size, point)
           temp == Clip(gap, maxRequest)
<1>1. IsRanges(tidy, size) /\ IsMerged(tidy) /\ Covered(tidy) = Covered(m)
  BY MergeKeepsBytes
<1> HIDE DEF tidy
<1>2. /\ gap.found <=> Missing(tidy, size) # {}
      /\ gap.found =>
           /\ gap.left \in 0 .. (size - 1) /\ gap.right \in 0 .. size
           /\ gap.left < gap.right
           /\ Bytes(gap.left, gap.right) \subseteq Missing(tidy, size)
  BY <1>1, OutSpaceFindsGap
<1>3. a = IF ~gap.found \/ ~CanUpdate(size, temp.left, temp.right)
          THEN [ok |-> FALSE, ranges |-> tidy, request |-> [left |-> 0, right |-> 0]]
          ELSE [ok |-> TRUE, ranges |-> Update(tidy, temp.left, temp.right),
                request |-> Inclusive(temp)]
  BY DEF AllocateRange, tidy
<1> HIDE DEF gap
<1>4. Missing(m, size) = Missing(tidy, size)
  BY <1>1 DEF Missing
<1>5. CASE ~gap.found
  <2>1. a = [ok |-> FALSE, ranges |-> tidy, request |-> [left |-> 0, right |-> 0]]
    BY <1>3, <1>5
  <2> QED
    BY <1>1, <1>2, <1>4, <1>5, <2>1 DEF Takes
<1>6. CASE gap.found
  <2>1. /\ temp.left = gap.left /\ temp.right \in Nat
        /\ gap.left < temp.right /\ temp.right <= gap.right
        /\ temp.right - gap.left <= maxRequest
    BY <1>2, <1>6, ClipOfGap
  <2> HIDE DEF temp
  <2>2. CanUpdate(size, temp.left, temp.right)
    BY <1>2, <1>6, <2>1 DEF CanUpdate
  <2>3. /\ a.ok = TRUE /\ a.ranges = Update(tidy, temp.left, temp.right)
        /\ a.request = [left |-> temp.left, right |-> temp.right - 1]
    BY <1>3, <1>6, <2>2 DEF Inclusive
  <2>4. RequestBytes(a.request) = Bytes(temp.left, temp.right)
    BY <2>3 DEF RequestBytes, Bytes
  <2>5. Bytes(temp.left, temp.right) \subseteq Bytes(gap.left, gap.right)
    BY <1>2, <1>6, <2>1 DEF Bytes
  <2>6. Bytes(temp.left, temp.right) \cap Covered(tidy) = {}
    BY <1>2, <1>6, <2>5 DEF Missing
  <2>7. temp.left \in Bytes(temp.left, temp.right) /\ temp.left \in Int /\ temp.right \in Int
    BY <1>2, <1>6, <2>1 DEF Bytes
  <2>8. /\ IsRanges(a.ranges, size)
        /\ Covered(a.ranges) = Covered(tidy) \cup Bytes(temp.left, temp.right)
    BY <1>1, <2>2, <2>3, <2>6, <2>7, UpdateAddsBytes, UpdateOfMissing
  <2>9. /\ a.request.left \in 0 .. (size - 1) /\ a.request.right \in 0 .. (size - 1)
        /\ a.request.left <= a.request.right
        /\ a.request.right - a.request.left < maxRequest
    BY <1>2, <1>6, <2>1, <2>3
  <2>10. a.request = [left |-> a.request.left, right |-> a.request.right]
    BY <2>3
  <2> QED
    BY <1>1, <2>3, <2>4, <2>6, <2>8, <2>9, <2>10 DEF Takes
<1> QED
  BY <1>5, <1>6
=============================================================================
