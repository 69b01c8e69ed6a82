--------------------------- MODULE BodyReaderProofs ---------------------------
(***************************************************************************)
(* What read_some and async_read_some do with every exchange, whatever its *)
(* responses, chunks, segments and buffers are.                            *)
(*                                                                         *)
(* The tokens of a response are a constant sequence, and everything the    *)
(* reads keep is a segment of it, from one place to another: what is left  *)
(* in m_response and in the socket, the input of the inflater, the bytes   *)
(* the caller has.  The invariant relates these places.                    *)
(***************************************************************************)
EXTENDS BodyReader, FiniteSetTheorems, SequenceTheorems, WellFoundedInduction, TLAPS

-----------------------------------------------------------------------------
(* Induction up to n: G are the numbers that have the property. *)

(* What holds of 0 and is passed on from i to i + 1 holds up to n. *)
LEMMA UpTo ==
  ASSUME NEW n \in Nat, NEW G, 0 \in G, \A i \in 0 .. n - 1 : i \in G => i + 1 \in G
  PROVE  \A i \in 0 .. n : i \in G
<1> DEFINE Bad == {i \in 0 .. n : i \notin G}
<1> SUFFICES ASSUME Bad # {}
             PROVE  FALSE
  OBVIOUS
<1>1. PICK x \in Bad : \A y \in Bad : ~(<<y, x>> \in OpToRel(<, Nat))
  <2>1. Bad \subseteq Nat
    OBVIOUS
  <2> HIDE DEF Bad
  <2> QED
    BY <2>1, NatLessThanWellFounded, WFMin
<1>2. ASSUME NEW y \in Bad, y < x
      PROVE  FALSE
  <2>1. <<y, x>> \in OpToRel(<, Nat)
    BY <1>2 DEF OpToRel
  <2> QED
    BY <1>1, <2>1
<1>3. x # 0 /\ x - 1 \in 0 .. n - 1
  OBVIOUS
<1>4. x - 1 \notin Bad
  BY <1>2, <1>3
<1> QED
  BY <1>3, <1>4

-----------------------------------------------------------------------------
(* Segments of a sequence, from behind its element a to its element b. *)
Seg(s, a, b) == SubSeq(s, a + 1, b)

(* The elements of a segment. *)
LEMMA SegProperties ==
  ASSUME NEW X, NEW s \in Seq(X), NEW a \in Nat, NEW b \in Nat, a <= b, b <= Len(s)
  PROVE  /\ Seg(s, a, b) \in Seq(X) /\ Len(Seg(s, a, b)) = b - a
         /\ \A i \in 1 .. b - a : Seg(s, a, b)[i] = s[a + i]
  BY DEF Seg

(* A segment is a sequence of the same elements. *)
LEMMA SegTyped ==
  ASSUME NEW X, NEW s \in Seq(X), NEW a \in Nat, NEW b \in Nat, a <= b, b <= Len(s)
  PROVE  Seg(s, a, b) \in Seq(X) /\ Len(Seg(s, a, b)) = b - a
  BY SegProperties

(* A segment has no element when it ends where it starts. *)
LEMMA SegEmpty ==
  ASSUME NEW X, NEW s \in Seq(X), NEW a \in Nat, NEW b \in Nat, a <= b, b <= Len(s)
  PROVE  Seg(s, a, b) = << >> <=> a = b
  BY DEF Seg

(* Two segments one behind the other are one. *)
LEMMA SegJoin ==
  ASSUME NEW X, NEW s \in Seq(X), NEW a \in Nat, NEW b \in Nat, NEW c \in Nat,
         a <= b, b <= c, c <= Len(s)
  PROVE  Seg(s, a, b) \o Seg(s, b, c) = Seg(s, a, c)
  BY DEF Seg

(* The first n elements of a segment, and what Drop leaves. *)
LEMMA SegSplit ==
  ASSUME NEW X, NEW s \in Seq(X), NEW a \in Nat, NEW b \in Nat, a <= b, b <= Len(s),
         NEW n \in Nat
  PROVE  /\ n <= b - a => SubSeq(Seg(s, a, b), 1, n) = Seg(s, a, a + n)
         /\ n <= b - a => Drop(Seg(s, a, b), n) = Seg(s, a + n, b)
         /\ n >= b - a => Drop(Seg(s, a, b), n) = << >>
  BY DEF Seg, Drop

(* The first n elements of a segment are a segment. *)
LEMMA SegTake ==
  ASSUME NEW X, NEW s \in Seq(X), NEW a \in Nat, NEW b \in Nat, a <= b, b <= Len(s),
         NEW n \in Nat, n <= b - a
  PROVE  SubSeq(Seg(s, a, b), 1, n) = Seg(s, a, a + n)
  BY DEF Seg

(* What Drop leaves of a segment is a segment. *)
LEMMA SegDrop ==
  ASSUME NEW X, NEW s \in Seq(X), NEW a \in Nat, NEW b \in Nat, a <= b, b <= Len(s),
         NEW n \in Nat, n <= b - a
  PROVE  Drop(Seg(s, a, b), n) = Seg(s, a + n, b)
  BY DEF Seg, Drop

(* Drop leaves nothing of a segment that is not longer. *)
LEMMA SegDropAll ==
  ASSUME NEW X, NEW s \in Seq(X), NEW a \in Nat, NEW b \in Nat, a <= b, b <= Len(s),
         NEW n \in Nat, n >= b - a
  PROVE  Drop(Seg(s, a, b), n) = << >>
  BY SegSplit

(* The n elements behind s[a] and t[b] are the same. *)
SameFrom(s, a, t, b, n) == \A i \in 1 .. n : s[a + i] = t[b + i]

(* Segments with the same elements are the same. *)
LEMMA SegSame ==
  ASSUME NEW X, NEW s \in Seq(X), NEW t \in Seq(X), NEW a \in Nat, NEW b \in Nat,
         NEW n \in Nat, a + n <= Len(s), b + n <= Len(t),
         SameFrom(s, a, t, b, n)
  PROVE  Seg(s, a, a + n) = Seg(t, b, b + n)
<1>0. \A i \in 1 .. n : s[a + i] = t[b + i]
  BY DEF SameFrom
<1>1. /\ Seg(s, a, a + n) \in Seq(X) /\ Len(Seg(s, a, a + n)) = n
      /\ \A i \in 1 .. n : Seg(s, a, a + n)[i] = s[a + i]
  BY DEF Seg
<1>2. /\ Seg(t, b, b + n) \in Seq(X) /\ Len(Seg(t, b, b + n)) = n
      /\ \A i \in 1 .. n : Seg(t, b, b + n)[i] = t[b + i]
  BY DEF Seg
<1> QED
  BY <1>0, <1>1, <1>2, SeqEqual

(* A sequence is a segment of itself. *)
LEMMA SegAll ==
  ASSUME NEW X, NEW s \in Seq(X)
  PROVE  Seg(s, 0, Len(s)) = s
  BY DEF Seg

-----------------------------------------------------------------------------
(* Sums. *)

(* The function that Sums defines exists. *)
LEMMA SumsStep ==
  ASSUME NEW s \in Seq(Nat)
  PROVE  /\ Sums(s) \in [0 .. Len(s) -> Nat] /\ Sums(s)[0] = 0
         /\ \A i \in 1 .. Len(s) : Sums(s)[i] = Sums(s)[i - 1] + s[i]
<1> DEFINE Solves(f, n) == \A i \in 0 .. n : f[i] = IF i = 0 THEN 0 ELSE f[i - 1] + s[i]
           G == {n \in 0 .. Len(s) : \E f \in [0 .. n -> Nat] : Solves(f, n)}
<1>1. 0 \in G
  <2> DEFINE f == [i \in 0 .. 0 |-> 0]
  <2>1. f \in [0 .. 0 -> Nat] /\ Solves(f, 0)
    OBVIOUS
  <2> HIDE DEF f
  <2> QED
    BY <2>1
<1>2. ASSUME NEW n \in 0 .. Len(s) - 1, n \in G
      PROVE  n + 1 \in G
  <2>1. PICK f \in [0 .. n -> Nat] : Solves(f, n)
    BY <1>2
  <2> DEFINE g == [i \in 0 .. n + 1 |-> IF i = n + 1 THEN f[n] + s[n + 1] ELSE f[i]]
  <2>2. g \in [0 .. n + 1 -> Nat]
    OBVIOUS
  <2>3. \A i \in 0 .. n : f[i] = IF i = 0 THEN 0 ELSE f[i - 1] + s[i]
    BY <2>1
  <2>4. ASSUME NEW i \in 0 .. n + 1
        PROVE  g[i] = IF i = 0 THEN 0 ELSE g[i - 1] + s[i]
    <3>1. CASE i = n + 1
      BY <3>1
    <3>2. CASE i # n + 1
      <4>1. g[i] = f[i] /\ (i # 0 => g[i - 1] = f[i - 1])
        BY <3>2
      <4> QED
        BY <2>3, <3>2, <4>1
    <3> QED
      BY <3>1, <3>2
  <2>5. Solves(g, n + 1)
    BY <2>4
  <2>6. n + 1 \in 0 .. Len(s)
    OBVIOUS
  <2> HIDE DEF g, Solves
  <2> QED
    BY <2>2, <2>5, <2>6
<1>3. \A n \in 0 .. Len(s) : n \in G
  <2> HIDE DEF G
  <2> QED
    BY <1>1, <1>2, UpTo, Len(s) \in Nat
<1>4. PICK f \in [0 .. Len(s) -> Nat] : Solves(f, Len(s))
  <2> HIDE DEF G, Solves
  <2>1. Len(s) \in G
    BY <1>3, Len(s) \in 0 .. Len(s)
  <2> QED
    BY <2>1 DEF G
<1>5. Sums(s) = [i \in 0 .. Len(s) |-> IF i = 0 THEN 0 ELSE Sums(s)[i - 1] + s[i]]
  <2>1. f = [i \in 0 .. Len(s) |-> IF i = 0 THEN 0 ELSE f[i - 1] + s[i]]
    BY <1>4
  <2> QED
    BY <2>1 DEF Sums
<1>6. ASSUME NEW n \in 0 .. Len(s)
      PROVE  Sums(s)[n] = IF n = 0 THEN 0 ELSE Sums(s)[n - 1] + s[n]
  BY <1>5
<1> DEFINE H == {n \in 0 .. Len(s) : Sums(s)[n] \in Nat}
<1>7. 0 \in H /\ \A n \in 0 .. Len(s) - 1 : n \in H => n + 1 \in H
  <2>1. Sums(s)[0] = 0
    BY <1>6
  <2>2. ASSUME NEW n \in 0 .. Len(s) - 1, n \in H
        PROVE  n + 1 \in H
    <3>1. Sums(s)[n + 1] = Sums(s)[n] + s[n + 1] /\ s[n + 1] \in Nat
      BY <1>6
    <3> QED
      BY <2>2, <3>1
  <2> QED
    BY <2>1, <2>2
<1>8. \A n \in 0 .. Len(s) : Sums(s)[n] \in Nat
  <2> HIDE DEF H
  <2>1. \A n \in 0 .. Len(s) : n \in H
    BY <1>7, UpTo, Len(s) \in Nat
  <2> QED
    BY <2>1 DEF H
<1>9. Sums(s) \in [0 .. Len(s) -> Nat]
  BY <1>5, <1>8
<1> QED
  BY <1>6, <1>9

(* Sums of natural numbers grow. *)
LEMMA SumsGrow ==
  ASSUME NEW s \in Seq(Nat), NEW a \in 0 .. Len(s)
  PROVE  \A b \in a .. Len(s) : Sums(s)[a] <= Sums(s)[b]
<1> DEFINE G == {n \in 0 .. Len(s) - a : Sums(s)[a] <= Sums(s)[a + n]}
<1>0. \A n \in 0 .. Len(s) : Sums(s)[n] \in Nat
  BY SumsStep
<1>1. 0 \in G
  BY <1>0, a + 0 = a
<1>2. ASSUME NEW n \in 0 .. Len(s) - a - 1, n \in G
      PROVE  n + 1 \in G
  <2>1. Sums(s)[a + n + 1] = Sums(s)[a + n] + s[a + n + 1] /\ s[a + n + 1] \in Nat
    BY SumsStep
  <2>2. Sums(s)[a] \in Nat /\ Sums(s)[a + n] \in Nat
    BY <1>0, a + n \in 0 .. Len(s)
  <2> QED
    BY <1>2, <2>1, <2>2
<1> HIDE DEF G
<1>3. \A n \in 0 .. Len(s) - a : n \in G
  BY <1>1, <1>2, UpTo, Len(s) - a \in Nat
<1>4. ASSUME NEW b \in a .. Len(s)
      PROVE  Sums(s)[a] <= Sums(s)[b]
  <2>1. b - a \in G /\ a + (b - a) = b
    BY <1>3
  <2> QED
    BY <2>1 DEF G
<1> QED
  BY <1>4

(* The sums of units of one byte each count the units. *)
LEMMA SumsOfOnes ==
  ASSUME NEW s \in Seq(Nat), \A i \in DOMAIN s : s[i] = 1
  PROVE  \A n \in 0 .. Len(s) : Sums(s)[n] = n
<1> DEFINE G == {n \in 0 .. Len(s) : Sums(s)[n] = n}
<1>1. 0 \in G
  BY SumsStep
<1>2. ASSUME NEW n \in 0 .. Len(s) - 1, n \in G
      PROVE  n + 1 \in G
  <2>1. Sums(s)[n + 1] = Sums(s)[n] + s[n + 1] /\ s[n + 1] = 1
    BY SumsStep
  <2> QED
    BY <1>2, <2>1
<1> HIDE DEF G
<1>3. \A n \in 0 .. Len(s) : n \in G
  BY <1>1, <1>2, UpTo, Len(s) \in Nat
<1> QED
  BY <1>3 DEF G

-----------------------------------------------------------------------------
(* Sequences of sequences. *)

Joined(s, t) == s \o t

(* g[i] is what the first i sequences of ss make one behind the other. *)
IsJoin(g, ss, n) == g[0] = << >> /\ \A i \in 1 .. n : g[i] = Joined(g[i - 1], ss[i])

(* There is but one such g for the same sequences. *)
LEMMA JoinUnique ==
  ASSUME NEW n \in Nat, NEW g, NEW h, NEW ss, NEW tt,
         IsJoin(g, ss, n), IsJoin(h, tt, n), \A i \in 1 .. n : ss[i] = tt[i]
  PROVE  g[n] = h[n]
<1> DEFINE G == {i \in 0 .. n : g[i] = h[i]}
<1>1. 0 \in G
  BY DEF IsJoin
<1>2. ASSUME NEW i \in 0 .. n - 1, i \in G
      PROVE  i + 1 \in G
  <2>1. i + 1 \in 1 .. n /\ (i + 1) - 1 = i
    OBVIOUS
  <2>2. g[i + 1] = Joined(g[i], ss[i + 1]) /\ h[i + 1] = Joined(h[i], tt[i + 1])
    BY <2>1 DEF IsJoin
  <2>3. ss[i + 1] = tt[i + 1] /\ g[i] = h[i]
    BY <1>2, <2>1
  <2> QED
    BY <2>1, <2>2, <2>3
<1> HIDE DEF G
<1>3. \A i \in 0 .. n : i \in G
  BY <1>1, <1>2, UpTo
<1>4. n \in G
  BY <1>3, n \in 0 .. n
<1> QED
  BY <1>4 DEF G

(* The g of ss exists, and FlattenSeq is its last value. *)
LEMMA JoinExists ==
  ASSUME NEW X, NEW ss \in Seq(Seq(X))
  PROVE  \E g \in [0 .. Len(ss) -> Seq(X)] :
           IsJoin(g, ss, Len(ss)) /\ FlattenSeq(ss) = g[Len(ss)]
<1> DEFINE G == {n \in 0 .. Len(ss) : \E g \in [0 .. n -> Seq(X)] : IsJoin(g, ss, n)}
<1>1. 0 \in G
  <2> DEFINE g == [i \in 0 .. 0 |-> << >>]
  <2>1. g \in [0 .. 0 -> Seq(X)] /\ IsJoin(g, ss, 0)
    BY DEF IsJoin
  <2> HIDE DEF g
  <2> QED
    BY <2>1
<1>2. ASSUME NEW n \in 0 .. Len(ss) - 1, n \in G
      PROVE  n + 1 \in G
  <2>1. PICK f \in [0 .. n -> Seq(X)] : IsJoin(f, ss, n)
    BY <1>2
  <2> DEFINE g == [i \in 0 .. n + 1 |-> IF i = n + 1 THEN Joined(f[n], ss[n + 1]) ELSE f[i]]
  <2>2. g \in [0 .. n + 1 -> Seq(X)]
    <3>1. Joined(f[n], ss[n + 1]) \in Seq(X)
      BY DEF Joined
    <3>2. \A i \in 0 .. n + 1 : i # n + 1 => f[i] \in Seq(X)
      OBVIOUS
    <3> QED
      BY <3>1, <3>2
  <2>3. ASSUME NEW i \in 1 .. n + 1
        PROVE  g[i] = Joined(g[i - 1], ss[i])
    <3>1. CASE i = n + 1
      <4>1. g[i] = Joined(f[n], ss[n + 1]) /\ g[i - 1] = f[n]
        BY <3>1
      <4> QED
        BY <3>1, <4>1
    <3>2. CASE i # n + 1
      <4>1. g[i] = f[i] /\ g[i - 1] = f[i - 1]
        BY <3>2
      <4>2. f[i] = Joined(f[i - 1], ss[i])
        BY <2>1, <3>2 DEF IsJoin
      <4> QED
        BY <4>1, <4>2
    <3> QED
      BY <3>1, <3>2
  <2>4. g[0] = << >>
    BY <2>1 DEF IsJoin
  <2>5. n + 1 \in 0 .. Len(ss)
    OBVIOUS
  <2> HIDE DEF g
  <2>6. IsJoin(g, ss, n + 1)
    BY <2>3, <2>4 DEF IsJoin
  <2> QED
    BY <2>2, <2>5, <2>6
<1> HIDE DEF G
<1>3. \A n \in 0 .. Len(ss) : n \in G
  BY <1>1, <1>2, UpTo, Len(ss) \in Nat
<1>4. PICK g \in [0 .. Len(ss) -> Seq(X)] : IsJoin(g, ss, Len(ss))
  BY <1>3, Len(ss) \in 0 .. Len(ss) DEF G
<1> DEFINE Solves(f) == f = [i \in 1 .. Len(ss) |->
                             IF i = 1 THEN ss[i] ELSE Joined(f[i - 1], ss[i])]
           F == CHOOSE f : Solves(f)
           h == [i \in 1 .. Len(ss) |-> g[i]]
<1>5. \A i \in 1 .. Len(ss) : Joined(<< >>, ss[i]) = ss[i]
  BY DEF Joined
<1>6. Solves(h)
  <2>1. ASSUME NEW i \in 1 .. Len(ss)
        PROVE  g[i] = IF i = 1 THEN ss[i] ELSE Joined(h[i - 1], ss[i])
    <3>1. g[i] = Joined(g[i - 1], ss[i]) /\ g[0] = << >>
      BY <1>4 DEF IsJoin
    <3>2. i # 1 => h[i - 1] = g[i - 1]
      OBVIOUS
    <3> HIDE DEF h
    <3> QED
      BY <1>5, <3>1, <3>2
  <2> QED
    BY <2>1
<1>7. Solves(F)
  <2> HIDE DEF h, Solves
  <2> QED
    BY <1>6
<1>8. CASE Len(ss) = 0
  BY <1>4, <1>8 DEF IsJoin, FlattenSeq
<1>9. CASE Len(ss) # 0
  <2>1. FlattenSeq(ss) = F[Len(ss)]
    BY <1>9 DEF FlattenSeq, Joined
  <2>2. ASSUME NEW i \in 1 .. Len(ss)
        PROVE  F[i] = IF i = 1 THEN ss[i] ELSE Joined(F[i - 1], ss[i])
    BY <1>7
  <2> DEFINE k == [i \in 0 .. Len(ss) |-> IF i = 0 THEN << >> ELSE F[i]]
  <2> HIDE DEF F
  <2>3. k[0] = << >> /\ k[Len(ss)] = F[Len(ss)]
    BY <1>9
  <2>4. ASSUME NEW i \in 1 .. Len(ss)
        PROVE  k[i] = Joined(k[i - 1], ss[i])
    <3>1. k[i] = F[i] /\ (i # 1 => k[i - 1] = F[i - 1])
      OBVIOUS
    <3> HIDE DEF k
    <3> QED
      BY <1>5, <2>2, <2>3, <3>1
  <2> HIDE DEF k
  <2>5. IsJoin(k, ss, Len(ss))
    BY <2>3, <2>4 DEF IsJoin
  <2>6. k[Len(ss)] = g[Len(ss)]
    BY <1>4, <2>5, JoinUnique, Len(ss) \in Nat
  <2> QED
    BY <1>4, <2>1, <2>3, <2>6
<1> QED
  BY <1>8, <1>9

(* FlattenSeq with one more sequence at the end. *)
LEMMA FlattenAppend ==
  ASSUME NEW X, NEW ss \in Seq(Seq(X)), NEW x \in Seq(X)
  PROVE  /\ FlattenSeq(ss) \in Seq(X)
         /\ FlattenSeq(Append(ss, x)) = FlattenSeq(ss) \o x
<1> DEFINE tt == Append(ss, x)
           n == Len(ss)
<1>1. tt \in Seq(Seq(X)) /\ Len(tt) = n + 1 /\ tt[n + 1] = x
      /\ \A i \in 1 .. n : ss[i] = tt[i]
  OBVIOUS
<1>2. PICK g \in [0 .. n -> Seq(X)] : IsJoin(g, ss, n) /\ FlattenSeq(ss) = g[n]
  BY JoinExists
<1> HIDE DEF tt
<1>3. PICK h \in [0 .. n + 1 -> Seq(X)] : IsJoin(h, tt, n + 1) /\ FlattenSeq(tt) = h[n + 1]
  BY <1>1, JoinExists
<1>4. IsJoin(h, tt, n) /\ h[n + 1] = Joined(h[n], x)
  <2>1. (n + 1) - 1 = n /\ n \in Nat
    OBVIOUS
  <2> HIDE DEF n
  <2> QED
    BY <1>1, <1>3, <2>1 DEF IsJoin
<1>5. g[n] = h[n]
  BY <1>1, <1>2, <1>4, JoinUnique, n \in Nat
<1> QED
  BY <1>2, <1>3, <1>4, <1>5 DEF tt, Joined

(* FlattenSeq of no sequence. *)
LEMMA FlattenEmpty == FlattenSeq(<< >>) = << >>
  BY DEF FlattenSeq

(* FlattenSeq one sequence after the other. *)
LEMMA FlattenPrefix ==
  ASSUME NEW X, NEW ss \in Seq(Seq(X))
  PROVE  /\ \A i \in 0 .. Len(ss) : FlattenSeq(Seg(ss, 0, i)) \in Seq(X)
         /\ FlattenSeq(Seg(ss, 0, 0)) = << >>
         /\ \A i \in 0 .. Len(ss) - 1 :
              FlattenSeq(Seg(ss, 0, i + 1)) = FlattenSeq(Seg(ss, 0, i)) \o ss[i + 1]
         /\ FlattenSeq(Seg(ss, 0, Len(ss))) = FlattenSeq(ss)
<1>1. \A i \in 0 .. Len(ss) : Seg(ss, 0, i) \in Seq(Seq(X))
  BY DEF Seg
<1>2. Seg(ss, 0, 0) = << >> /\ Seg(ss, 0, Len(ss)) = ss
  BY DEF Seg
<1>3. ASSUME NEW i \in 0 .. Len(ss) - 1
      PROVE  FlattenSeq(Seg(ss, 0, i + 1)) = FlattenSeq(Seg(ss, 0, i)) \o ss[i + 1]
  <2>1. Seg(ss, 0, i + 1) = Append(Seg(ss, 0, i), ss[i + 1])
    BY DEF Seg
  <2>2. Seg(ss, 0, i) \in Seq(Seq(X)) /\ ss[i + 1] \in Seq(X)
    BY <1>1, i \in 0 .. Len(ss)
  <2> QED
    BY <2>1, <2>2, FlattenAppend
<1>4. \A i \in 0 .. Len(ss) : FlattenSeq(Seg(ss, 0, i)) \in Seq(X)
  BY <1>1, FlattenAppend, << >> \in Seq(X)
<1> QED
  BY <1>2, <1>3, <1>4, FlattenEmpty

(* Its length is the sum of the lengths. *)
LEMMA FlattenLength ==
  ASSUME NEW X, NEW ss \in Seq(Seq(X))
  PROVE  /\ Lengths(ss) \in Seq(Nat) /\ Len(Lengths(ss)) = Len(ss)
         /\ \A i \in 1 .. Len(ss) : Lengths(ss)[i] = Len(ss[i])
         /\ \A i \in 0 .. Len(ss) : Len(FlattenSeq(Seg(ss, 0, i))) = Sums(Lengths(ss))[i]
         /\ FlattenSeq(ss) \in Seq(X) /\ Len(FlattenSeq(ss)) = Sums(Lengths(ss))[Len(ss)]
<1> DEFINE P(i) == FlattenSeq(Seg(ss, 0, i))
           L == Lengths(ss)
           G == {i \in 0 .. Len(ss) : Len(P(i)) = Sums(L)[i]}
<1>1. /\ L \in Seq(Nat) /\ Len(L) = Len(ss) /\ \A i \in 1 .. Len(ss) : L[i] = Len(ss[i])
  <2>1. \A i \in 1 .. Len(ss) : Len(ss[i]) \in Nat
    OBVIOUS
  <2>2. L = [i \in 1 .. Len(ss) |-> Len(ss[i])]
    BY DEF Lengths
  <2> QED
    BY <2>1, <2>2
<1> HIDE DEF L
<1>2. /\ \A i \in 0 .. Len(ss) : P(i) \in Seq(X)
      /\ P(0) = << >> /\ P(Len(ss)) = FlattenSeq(ss)
      /\ \A i \in 0 .. Len(ss) - 1 : P(i + 1) = P(i) \o ss[i + 1]
  BY FlattenPrefix
<1> HIDE DEF P
<1>3. 0 \in G
  BY <1>1, <1>2, SumsStep
<1>4. ASSUME NEW i \in 0 .. Len(ss) - 1, i \in G
      PROVE  i + 1 \in G
  <2>0. (i + 1) - 1 = i /\ i + 1 \in 1 .. Len(ss) /\ i \in 0 .. Len(ss)
    OBVIOUS
  <2>1. ss[i + 1] \in Seq(X)
    BY <2>0
  <2>4. P(i + 1) = P(i) \o ss[i + 1] /\ P(i) \in Seq(X)
    BY <1>2, <2>0
  <2>2. Len(P(i + 1)) = Len(P(i)) + Len(ss[i + 1])
    BY <2>1, <2>4
  <2>3. Sums(L)[i + 1] = Sums(L)[i] + L[i + 1] /\ L[i + 1] = Len(ss[i + 1])
    BY <1>1, SumsStep, (i + 1) - 1 = i, i + 1 \in 1 .. Len(ss)
  <2> QED
    BY <1>4, <2>0, <2>2, <2>3
<1> HIDE DEF G
<1>5. \A i \in 0 .. Len(ss) : i \in G
  BY <1>3, <1>4, UpTo, Len(ss) \in Nat
<1>6. \A i \in 0 .. Len(ss) : Len(P(i)) = Sums(L)[i]
  BY <1>5 DEF G
<1>7. FlattenSeq(ss) \in Seq(X) /\ Len(FlattenSeq(ss)) = Sums(L)[Len(ss)]
  BY <1>2, <1>6, Len(ss) \in 0 .. Len(ss)
<1> QED
  BY <1>1, <1>6, <1>7 DEF P, L

-----------------------------------------------------------------------------
(* Plain bytes. *)
PlainBytes == {Byte(r, n) : r \in Nat, n \in Nat}

(* The bytes of a response from one place to another. *)
LEMMA BytesProperties ==
  ASSUME NEW r \in Nat, NEW a \in Nat, NEW b \in Nat, a <= b
  PROVE  /\ Bytes(r, a, b) \in Seq(PlainBytes) /\ Len(Bytes(r, a, b)) = b - a
         /\ \A i \in 1 .. b - a : Bytes(r, a, b)[i] = Byte(r, a + i)
<1>1. b - a \in Nat /\ \A i \in 1 .. b - a : Byte(r, a + i) \in PlainBytes
  BY DEF PlainBytes
<1>2. Bytes(r, a, b) = [i \in 1 .. b - a |-> Byte(r, a + i)]
  BY DEF Bytes
<1>3. Bytes(r, a, b) \in Seq(PlainBytes) /\ Len(Bytes(r, a, b)) = b - a
  BY <1>1, <1>2
<1>4. \A i \in 1 .. b - a : Bytes(r, a, b)[i] = Byte(r, a + i)
  BY <1>2
<1> QED
  BY <1>3, <1>4

(* There are no bytes from a place to itself. *)
LEMMA NoBytes ==
  ASSUME NEW r \in Nat, NEW a \in Nat, NEW b \in Nat, a <= b
  PROVE  Bytes(r, a, b) = << >> <=> a = b
<1>1. Bytes(r, a, b) \in Seq(PlainBytes) /\ Len(Bytes(r, a, b)) = b - a
  BY BytesProperties
<1> QED
  BY <1>1

(* Bytes one behind the other are bytes of the response. *)
LEMMA BytesJoin ==
  ASSUME NEW r \in Nat, NEW a \in Nat, NEW b \in Nat, NEW c \in Nat, a <= b, b <= c
  PROVE  Joined(Bytes(r, a, b), Bytes(r, b, c)) = Bytes(r, a, c)
<1> DEFINE s == Bytes(r, a, b)
           t == Bytes(r, b, c)
<1>1. /\ s \in Seq(PlainBytes) /\ Len(s) = b - a
      /\ \A i \in 1 .. b - a : s[i] = Byte(r, a + i)
  BY BytesProperties
<1>2. /\ t \in Seq(PlainBytes) /\ Len(t) = c - b
      /\ \A i \in 1 .. c - b : t[i] = Byte(r, b + i)
  BY BytesProperties
<1>3. /\ Bytes(r, a, c) \in Seq(PlainBytes) /\ Len(Bytes(r, a, c)) = c - a
      /\ \A i \in 1 .. c - a : Bytes(r, a, c)[i] = Byte(r, a + i)
  BY BytesProperties, a <= c
<1> HIDE DEF s, t
<1>4. s \o t \in Seq(PlainBytes) /\ Len(s \o t) = c - a
  <2>1. s \o t \in Seq(PlainBytes) /\ Len(s \o t) = Len(s) + Len(t)
    BY <1>1, <1>2, ConcatProperties
  <2> QED
    BY <1>1, <1>2, <2>1
<1>5. ASSUME NEW i \in 1 .. c - a
      PROVE  (s \o t)[i] = Byte(r, a + i)
  <2>1. CASE i <= b - a
    BY <1>1, <1>2, <2>1
  <2>2. CASE ~(i <= b - a)
    <3>1. i - (b - a) \in 1 .. c - b /\ b + (i - (b - a)) = a + i
      BY <2>2
    <3>2. (s \o t)[i] = t[i - (b - a)]
      BY <1>1, <1>2, <2>2
    <3>3. t[i - (b - a)] = Byte(r, b + (i - (b - a)))
      BY <1>2, <3>1
    <3> QED
      BY <3>1, <3>2, <3>3
  <2> QED
    BY <2>1, <2>2
<1>6. s \o t = Bytes(r, a, c)
  BY <1>3, <1>4, <1>5, SeqEqual DEF s, t
<1> QED
  BY <1>6 DEF s, t, Joined

(* The first n of them, and what Drop leaves. *)
LEMMA BytesSplit ==
  ASSUME NEW r \in Nat, NEW a \in Nat, NEW b \in Nat, a <= b, NEW n \in Nat
  PROVE  /\ n <= b - a => SubSeq(Bytes(r, a, b), 1, n) = Bytes(r, a, a + n)
         /\ n <= b - a => Drop(Bytes(r, a, b), n) = Bytes(r, a + n, b)
         /\ n >= b - a => Drop(Bytes(r, a, b), n) = << >>
<1> DEFINE s == Bytes(r, a, b)
<1>1. /\ s \in Seq(PlainBytes) /\ Len(s) = b - a
      /\ \A i \in 1 .. b - a : s[i] = Byte(r, a + i)
  BY BytesProperties
<1> HIDE DEF s
<1>2. CASE n >= b - a /\ n # b - a
  BY <1>1, <1>2 DEF s, Drop
<1>3. CASE n <= b - a
  <2>1. /\ Bytes(r, a, a + n) \in Seq(PlainBytes) /\ Len(Bytes(r, a, a + n)) = n
        /\ \A i \in 1 .. n : Bytes(r, a, a + n)[i] = Byte(r, a + i)
    <3> DEFINE c == a + n
    <3>1. c \in Nat /\ a <= c /\ c - a = n
      OBVIOUS
    <3> HIDE DEF c
    <3>2. /\ Bytes(r, a, c) \in Seq(PlainBytes) /\ Len(Bytes(r, a, c)) = n
          /\ \A i \in 1 .. n : Bytes(r, a, c)[i] = Byte(r, a + i)
      BY <3>1, BytesProperties
    <3> QED
      BY <3>2 DEF c
  <2>2. /\ Bytes(r, a + n, b) \in Seq(PlainBytes) /\ Len(Bytes(r, a + n, b)) = b - a - n
        /\ \A i \in 1 .. b - a - n : Bytes(r, a + n, b)[i] = Byte(r, a + n + i)
    <3> DEFINE c == a + n
    <3>1. c \in Nat /\ c <= b /\ b - c = b - a - n
      BY <1>3
    <3> HIDE DEF c
    <3>2. /\ Bytes(r, c, b) \in Seq(PlainBytes) /\ Len(Bytes(r, c, b)) = b - c
          /\ \A i \in 1 .. b - c : Bytes(r, c, b)[i] = Byte(r, c + i)
      BY <3>1, BytesProperties
    <3> QED
      BY <3>1, <3>2 DEF c
  <2>3. /\ SubSeq(s, 1, n) \in Seq(PlainBytes) /\ Len(SubSeq(s, 1, n)) = n
        /\ \A i \in 1 .. n : SubSeq(s, 1, n)[i] = Byte(r, a + i)
    BY <1>1, <1>3
  <2>4. /\ Drop(s, n) \in Seq(PlainBytes) /\ Len(Drop(s, n)) = b - a - n
        /\ \A i \in 1 .. b - a - n : Drop(s, n)[i] = Byte(r, a + n + i)
    BY <1>1, <1>3 DEF Drop
  <2>5. SubSeq(s, 1, n) = Bytes(r, a, a + n)
    BY <2>1, <2>3, SeqEqual
  <2>6. Drop(s, n) = Bytes(r, a + n, b)
    BY <2>2, <2>4, SeqEqual
  <2>7. n = b - a => Drop(s, n) = << >>
    BY <1>1 DEF Drop
  <2> QED
    BY <1>3, <2>5, <2>6, <2>7 DEF s
<1> QED
  BY <1>2, <1>3 DEF s

-----------------------------------------------------------------------------
(* The body of a response: its units, the plain bytes up to each, and the  *)
(* units up to each chunk.                                                 *)
Units(p) == FlattenSeq(p.chunks)
Ends(p) == Sums(Units(p))
Plains(p) == Ends(p)[LengthOf(p)]
Before(p) == Sums(Lengths(p.chunks))

(* The types of the parts of a response, and the number of its units. *)
LEMMA UnitsOfResponse ==
  ASSUME NEW p \in Response
  PROVE  /\ Units(p) \in Seq(Nat) /\ LengthOf(p) = Len(Units(p)) /\ LengthOf(p) \in Nat
         /\ p.chunks \in Seq(Seq(Nat)) /\ Len(p.chunks) \in Nat
         /\ p.gzip \in BOOLEAN /\ p.keep \in BOOLEAN
<1>1. p \in Responses /\ p.chunks \in Seq(Seq(Nat)) /\ p.gzip \in BOOLEAN /\ p.keep \in BOOLEAN
  BY DEF Response, Responses
<1>2. Units(p) \in Seq(Nat)
  BY <1>1, FlattenLength DEF Units
<1> QED
  BY <1>1, <1>2 DEF LengthOf, Units

(* The plain bytes up to each unit. *)
LEMMA EndsOfResponse ==
  ASSUME NEW p \in Response
  PROVE  /\ Ends(p) \in [0 .. LengthOf(p) -> Nat] /\ Ends(p)[0] = 0
         /\ \A a \in 0 .. LengthOf(p) : \A b \in a .. LengthOf(p) : Ends(p)[a] <= Ends(p)[b]
         /\ Plains(p) \in Nat /\ \A a \in 0 .. LengthOf(p) : Ends(p)[a] <= Plains(p)
         /\ ~p.gzip => \A a \in 0 .. LengthOf(p) : Ends(p)[a] = a
         /\ p.gzip => LengthOf(p) >= 1 /\ Ends(p)[LengthOf(p) - 1] = Plains(p)
<1> DEFINE N == LengthOf(p)
           u == Units(p)
<1>1. u \in Seq(Nat) /\ N = Len(u) /\ N \in Nat
  BY UnitsOfResponse
<1>2. WellFormed(p)
  BY DEF Response
<1> HIDE DEF N, u
<1>3. Sums(u) \in [0 .. N -> Nat] /\ Sums(u)[0] = 0
      /\ \A i \in 1 .. N : Sums(u)[i] = Sums(u)[i - 1] + u[i]
  BY <1>1, SumsStep
<1>4. \A a \in 0 .. N : \A b \in a .. N : Sums(u)[a] <= Sums(u)[b]
  BY <1>1, SumsGrow
<1>5. Sums(u)[N] \in Nat /\ \A a \in 0 .. N : Sums(u)[a] <= Sums(u)[N]
  <2>1. N \in 0 .. N /\ \A a \in 0 .. N : N \in a .. N
    BY <1>1
  <2> QED
    BY <1>3, <1>4, <2>1
<1>6. ASSUME ~p.gzip
      PROVE  \A a \in 0 .. N : Sums(u)[a] = a
  <2>1. \A i \in DOMAIN u : u[i] = 1
    BY <1>2, <1>6 DEF WellFormed, u, Units
  <2> QED
    BY <1>1, <2>1, SumsOfOnes
<1>7. ASSUME p.gzip
      PROVE  N >= 1 /\ Sums(u)[N - 1] = Sums(u)[N]
  <2>1. u # << >> /\ u[Len(u)] = 0
    BY <1>2, <1>7 DEF WellFormed, u, Units
  <2>2. N >= 1 /\ N \in 1 .. N
    BY <1>1, <2>1
  <2>3. Sums(u)[N] = Sums(u)[N - 1] + 0
    BY <1>1, <1>3, <2>1, <2>2
  <2>4. Sums(u)[N - 1] \in Nat
    BY <1>1, <1>3, <2>2, N - 1 \in 0 .. N
  <2> QED
    BY <2>2, <2>3, <2>4
<1> QED
  BY <1>3, <1>4, <1>5, <1>6, <1>7 DEF Ends, Plains, u, N

(* The units up to each chunk. *)
LEMMA BeforeOfResponse ==
  ASSUME NEW p \in Response
  PROVE  /\ Before(p) \in [0 .. Len(p.chunks) -> Nat] /\ Before(p)[0] = 0
         /\ Before(p)[Len(p.chunks)] = LengthOf(p)
         /\ \A j \in 1 .. Len(p.chunks) :
              Len(p.chunks[j]) \in Nat /\ Before(p)[j] = Before(p)[j - 1] + Len(p.chunks[j])
         /\ \A j \in 0 .. Len(p.chunks) : Before(p)[j] <= LengthOf(p)
         /\ p.framing = "chunked" => \A j \in 1 .. Len(p.chunks) : Len(p.chunks[j]) >= 1
<1> DEFINE L == Lengths(p.chunks)
           J == Len(p.chunks)
<1>1. p.chunks \in Seq(Seq(Nat)) /\ J \in Nat
  BY UnitsOfResponse
<1>2. /\ L \in Seq(Nat) /\ Len(L) = J /\ \A i \in 1 .. J : L[i] = Len(p.chunks[i])
      /\ LengthOf(p) = Sums(L)[J]
  BY <1>1, FlattenLength DEF LengthOf
<1> HIDE DEF L, J
<1>3. Sums(L) \in [0 .. J -> Nat] /\ Sums(L)[0] = 0
      /\ \A i \in 1 .. J : Sums(L)[i] = Sums(L)[i - 1] + L[i] /\ L[i] \in Nat
  <2>1. Sums(L) \in [0 .. J -> Nat] /\ Sums(L)[0] = 0
        /\ \A i \in 1 .. J : Sums(L)[i] = Sums(L)[i - 1] + L[i]
    BY <1>2, SumsStep
  <2>2. \A i \in 1 .. J : L[i] \in Nat
    BY <1>2
  <2> QED
    BY <2>1, <2>2
<1>4. \A j \in 0 .. J : Sums(L)[j] <= Sums(L)[J]
  <2>1. \A a \in 0 .. J : J \in a .. J
    BY <1>1
  <2> QED
    BY <1>2, <2>1, SumsGrow
<1>5. ASSUME p.framing = "chunked", NEW j \in 1 .. J
      PROVE  Len(p.chunks[j]) >= 1
  <2>1. p.chunks[j] # << >> /\ p.chunks[j] \in Seq(Nat)
    BY <1>1, <1>5 DEF Response, WellFormed, J
  <2> QED
    BY <2>1
<1>6. \A j \in 1 .. J : Len(p.chunks[j]) \in Nat /\ Sums(L)[j] = Sums(L)[j - 1] + Len(p.chunks[j])
  <2> SUFFICES ASSUME NEW j \in 1 .. J
               PROVE  Len(p.chunks[j]) \in Nat /\ Sums(L)[j] = Sums(L)[j - 1] + Len(p.chunks[j])
    OBVIOUS
  <2>1. L[j] = Len(p.chunks[j]) /\ L[j] \in Nat /\ Sums(L)[j] = Sums(L)[j - 1] + L[j]
    BY <1>2, <1>3
  <2> QED
    BY <2>1
<1> QED
  BY <1>2, <1>3, <1>4, <1>5, <1>6 DEF Before, L, J

-----------------------------------------------------------------------------
(* The tokens of a response's body, and what they stand for. *)
Tokens(r, p) == Coded(r, Units(p), p.gzip)
Token ==
  {CR, LF} \cup {Size(n) : n \in Nat}
    \cup {Unit(b, g, l) : b \in Seq(PlainBytes), g \in BOOLEAN, l \in BOOLEAN}

(* The kinds of tokens. *)
LEMMA TokenKinds ==
  /\ CR \in Token /\ LF \in Token /\ \A n \in Nat : Size(n) \in Token
  /\ \A b \in Seq(PlainBytes), g \in BOOLEAN, l \in BOOLEAN : Unit(b, g, l) \in Token
  BY DEF Token

(* The tokens of a body are one for each unit. *)
LEMMA TokensOfResponse ==
  ASSUME NEW r \in Nat, NEW p \in Response
  PROVE  /\ Tokens(r, p) \in Seq(Token) /\ Len(Tokens(r, p)) = LengthOf(p)
         /\ \A i \in 1 .. LengthOf(p) :
              Tokens(r, p)[i] = Unit(Bytes(r, Ends(p)[i - 1], Ends(p)[i]), p.gzip,
                                     p.gzip /\ i = LengthOf(p))
<1> DEFINE N == LengthOf(p)
           T(i) == Unit(Bytes(r, Ends(p)[i - 1], Ends(p)[i]), p.gzip, p.gzip /\ i = N)
<1>1. Units(p) \in Seq(Nat) /\ N = Len(Units(p)) /\ N \in Nat /\ p.gzip \in BOOLEAN
  BY UnitsOfResponse
<1>2. \A i \in 1 .. N : Bytes(r, Ends(p)[i - 1], Ends(p)[i]) \in Seq(PlainBytes)
  <2> SUFFICES ASSUME NEW i \in 1 .. N
               PROVE  Bytes(r, Ends(p)[i - 1], Ends(p)[i]) \in Seq(PlainBytes)
    OBVIOUS
  <2>1. i - 1 \in 0 .. N /\ i \in (i - 1) .. N /\ i \in 0 .. N
    BY <1>1
  <2>2. Ends(p)[i - 1] \in Nat /\ Ends(p)[i] \in Nat /\ Ends(p)[i - 1] <= Ends(p)[i]
    BY <2>1, EndsOfResponse
  <2> QED
    BY <2>2, BytesProperties
<1>3. \A i \in 1 .. N : T(i) \in Token
  <2> SUFFICES ASSUME NEW i \in 1 .. N
               PROVE  T(i) \in Token
    OBVIOUS
  <2>1. (p.gzip /\ i = N) \in BOOLEAN
    OBVIOUS
  <2> QED
    BY <1>1, <1>2, <2>1, TokenKinds
<1>4. Tokens(r, p) = [i \in 1 .. N |-> T(i)]
  BY <1>1 DEF Tokens, Coded, UnitToken, Ends
<1> HIDE DEF T
<1>5. Tokens(r, p) \in Seq(Token) /\ Len(Tokens(r, p)) = N
  BY <1>1, <1>3, <1>4
<1>6. \A i \in 1 .. N : Tokens(r, p)[i] = T(i)
  BY <1>4
<1> QED
  BY <1>5, <1>6 DEF T

(* Units behind one another stand for the bytes from where the first one   *)
(* starts to where the last one ends.                                      *)
LEMMA PlainOfTokens ==
  ASSUME NEW r \in Nat, NEW p \in Response,
         NEW a \in 0 .. LengthOf(p), NEW b \in a .. LengthOf(p)
  PROVE  Plain(Seg(Tokens(r, p), a, b)) = Bytes(r, Ends(p)[a], Ends(p)[b])
<1> DEFINE C == Tokens(r, p)
           E == Ends(p)
           N == LengthOf(p)
           U(i) == Bytes(r, E[a + i - 1], E[a + i])
           PB(n) == [i \in 1 .. n |-> U(i)]
           G == {n \in 0 .. N - a : FlattenSeq(PB(n)) = Bytes(r, E[a], E[a + n])}
<1>0. N \in Nat /\ a \in Nat /\ b \in Nat /\ b <= N /\ a <= b
  BY UnitsOfResponse
<1>1. /\ E \in [0 .. N -> Nat]
      /\ \A i \in 0 .. N : \A j \in i .. N : E[i] <= E[j]
  BY EndsOfResponse
<1>2. C \in Seq(Token) /\ Len(C) = N
  BY TokensOfResponse
<1>3. ASSUME NEW n \in 0 .. N - a
      PROVE  Plain(Seg(C, a, a + n)) = FlattenSeq(PB(n))
  <2> DEFINE t == Seg(C, a, a + n)
  <2>0. n \in Nat /\ a + n \in Nat /\ a <= a + n /\ a + n <= N
    BY <1>0
  <2>1. t \in Seq(Token) /\ Len(t) = n /\ \A i \in 1 .. n : t[i] = C[a + i]
    <3> DEFINE c == a + n
    <3>1. c \in Nat /\ a <= c /\ c <= N /\ c - a = n
      BY <1>0
    <3> HIDE DEF c, C
    <3>2. /\ Seg(C, a, c) \in Seq(Token) /\ Len(Seg(C, a, c)) = c - a
          /\ \A i \in 1 .. c - a : Seg(C, a, c)[i] = C[a + i]
      BY <1>0, <1>2, <3>1, SegProperties
    <3> QED
      BY <3>1, <3>2 DEF c
  <2>2. ASSUME NEW i \in 1 .. n
        PROVE  t[i].kind = "unit" /\ t[i].bytes = U(i)
    <3>1. a + i \in 1 .. N
      BY <1>0
    <3>2. C[a + i] = Unit(U(i), p.gzip, p.gzip /\ a + i = N)
      BY <3>1, TokensOfResponse
    <3>3. t[i] = C[a + i]
      BY <2>1
    <3> HIDE DEF t, U, C
    <3> QED
      BY <3>2, <3>3 DEF Unit
  <2> HIDE DEF t, U
  <2>3. [i \in DOMAIN t |-> IF t[i].kind = "unit" THEN t[i].bytes ELSE <<<<0, 0>>>>] = PB(n)
    <3>1. DOMAIN t = 1 .. n
      BY <2>1
    <3> QED
      BY <2>2, <3>1
  <2> HIDE DEF PB
  <2> QED
    BY <2>3 DEF Plain, t
<1>4. \A i \in 1 .. N - a : U(i) \in Seq(PlainBytes)
  <2> SUFFICES ASSUME NEW i \in 1 .. N - a
               PROVE  U(i) \in Seq(PlainBytes)
    OBVIOUS
  <2>1. a + i - 1 \in 0 .. N /\ a + i \in 0 .. N /\ a + i \in (a + i - 1) .. N
    BY <1>0
  <2>2. E[a + i - 1] \in Nat /\ E[a + i] \in Nat /\ E[a + i - 1] <= E[a + i]
    BY <1>1, <2>1
  <2> QED
    BY <2>2, BytesProperties
<1>5. 0 \in G
  <2>1. PB(0) = << >>
    OBVIOUS
  <2>2. E[a] \in Nat /\ a + 0 = a
    BY <1>0, <1>1
  <2>3. Bytes(r, E[a], E[a]) = << >>
    BY <2>2, NoBytes
  <2> QED
    BY <1>0, <2>1, <2>2, <2>3, FlattenEmpty
<1>6. ASSUME NEW n \in 0 .. N - a - 1, n \in G
      PROVE  n + 1 \in G
  <2>1. /\ E[a] \in Nat /\ E[a + n] \in Nat /\ E[a + n + 1] \in Nat
        /\ E[a] <= E[a + n] /\ E[a + n] <= E[a + n + 1]
    <3>1. a \in 0 .. N /\ a + n \in a .. N /\ a + n \in 0 .. N /\ a + n + 1 \in (a + n) .. N
          /\ a + n + 1 \in 0 .. N
      BY <1>0
    <3> QED
      BY <1>1, <3>1
  <2>2. U(n + 1) = Bytes(r, E[a + n], E[a + n + 1])
    <3>1. a + (n + 1) - 1 = a + n /\ a + (n + 1) = a + n + 1
      BY <1>0
    <3> QED
      BY <3>1
  <2>3. n + 1 \in 1 .. N - a /\ \A i \in 1 .. n : i \in 1 .. N - a
    BY <1>0
  <2> HIDE DEF U
  <2>4. /\ PB(n) \in Seq(Seq(PlainBytes)) /\ U(n + 1) \in Seq(PlainBytes)
        /\ PB(n + 1) = Append(PB(n), U(n + 1))
    BY <1>4, <2>3
  <2> HIDE DEF PB
  <2>5. FlattenSeq(PB(n + 1)) = FlattenSeq(PB(n)) \o U(n + 1)
    BY <2>4, FlattenAppend
  <2>6. FlattenSeq(PB(n + 1)) = Bytes(r, E[a], E[a + n]) \o Bytes(r, E[a + n], E[a + n + 1])
    BY <1>6, <2>2, <2>5
  <2>7. FlattenSeq(PB(n + 1)) = Bytes(r, E[a], E[a + n + 1])
    <3>1. Joined(Bytes(r, E[a], E[a + n]), Bytes(r, E[a + n], E[a + n + 1]))
            = Bytes(r, E[a], E[a + n + 1])
      BY <2>1, BytesJoin
    <3> QED
      BY <2>6, <3>1 DEF Joined
  <2> QED
    BY <1>0, <2>7
<1> HIDE DEF G
<1>7. \A n \in 0 .. N - a : n \in G
  BY <1>0, <1>5, <1>6, UpTo, N - a \in Nat
<1>8. b - a \in 0 .. N - a /\ a + (b - a) = b
  BY <1>0
<1>9. FlattenSeq(PB(b - a)) = Bytes(r, E[a], E[a + (b - a)])
  BY <1>7, <1>8 DEF G
<1>10. Plain(Seg(C, a, a + (b - a))) = FlattenSeq(PB(b - a))
  BY <1>3, <1>8
<1> HIDE DEF PB, C, E
<1> QED
  BY <1>8, <1>9, <1>10 DEF C, E

-----------------------------------------------------------------------------
(* The wire of a response that is not chunked is its units.  That of a     *)
(* chunked one has chunk j from Off(j - 1) to Off(j): the size line, the   *)
(* units, CR and LF; and a size line of 0 with an empty one at the end.    *)
Off(p, j) == Before(p)[j] + 5 * j
SizeAt(p, j) == IF j = Len(p.chunks) + 1 THEN 0 ELSE Len(p.chunks[j])

(* Element k of the j-th of the sequences that FlattenSeq joins. *)
LEMMA FlattenAt ==
  ASSUME NEW X, NEW ss \in Seq(Seq(X)), NEW j \in 1 .. Len(ss), NEW k \in 1 .. Len(ss[j])
  PROVE  /\ Sums(Lengths(ss))[j - 1] + k \in 1 .. Len(FlattenSeq(ss))
         /\ FlattenSeq(ss)[Sums(Lengths(ss))[j - 1] + k] = ss[j][k]
<1> DEFINE S == Sums(Lengths(ss))
           P(i) == FlattenSeq(Seg(ss, 0, i))
           x == S[j - 1] + k
           G == {n \in 0 .. Len(ss) - j : x \in 1 .. Len(P(j + n)) /\ P(j + n)[x] = ss[j][k]}
<1>0. ss[j] \in Seq(X) /\ k \in Nat /\ k >= 1 /\ k <= Len(ss[j])
  OBVIOUS
<1>1. /\ Lengths(ss) \in Seq(Nat) /\ Len(Lengths(ss)) = Len(ss)
      /\ \A i \in 0 .. Len(ss) : Len(P(i)) = S[i]
  BY FlattenLength
<1>2. S[j - 1] \in Nat
  BY <1>1, SumsStep
<1>3. /\ \A i \in 0 .. Len(ss) : P(i) \in Seq(X)
      /\ P(Len(ss)) = FlattenSeq(ss)
      /\ \A i \in 0 .. Len(ss) - 1 : P(i + 1) = P(i) \o ss[i + 1]
  BY FlattenPrefix
<1> HIDE DEF S, P
<1>4. 0 \in G
  <2>1. j - 1 \in 0 .. Len(ss) - 1 /\ j - 1 \in 0 .. Len(ss) /\ (j - 1) + 1 = j /\ j + 0 = j
    OBVIOUS
  <2>2. P((j - 1) + 1) = P(j - 1) \o ss[(j - 1) + 1]
    BY <1>3, <2>1
  <2>3. P(j) = P(j - 1) \o ss[j] /\ P(j - 1) \in Seq(X) /\ Len(P(j - 1)) = S[j - 1]
    BY <1>1, <1>3, <2>1, <2>2
  <2>4. /\ Len(P(j)) = S[j - 1] + Len(ss[j])
        /\ x \in 1 .. Len(P(j))
        /\ P(j)[x] = ss[j][k]
    <3> DEFINE s == P(j - 1)
               t == ss[j]
    <3>1. s \in Seq(X) /\ t \in Seq(X) /\ Len(s) = S[j - 1] /\ P(j) = s \o t
      BY <1>0, <2>3
    <3> HIDE DEF s, t
    <3>2. Len(s \o t) = Len(s) + Len(t)
          /\ \A i \in 1 .. Len(s) + Len(t) : (s \o t)[i] = IF i <= Len(s) THEN s[i] ELSE t[i - Len(s)]
      BY <3>1, ConcatProperties
    <3>3. x \in 1 .. Len(s) + Len(t) /\ ~(x <= Len(s)) /\ x - Len(s) = k
      BY <1>0, <1>2, <3>1 DEF t
    <3>4. (s \o t)[x] = t[k]
      BY <3>2, <3>3
    <3> QED
      BY <3>1, <3>2, <3>3, <3>4 DEF t
  <2> HIDE DEF x
  <2> QED
    BY <2>1, <2>4
<1>5. ASSUME NEW n \in 0 .. Len(ss) - j - 1, n \in G
      PROVE  n + 1 \in G
  <2>1. j + n \in 0 .. Len(ss) - 1 /\ j + n \in 0 .. Len(ss) /\ (j + n) + 1 = j + (n + 1)
        /\ n + 1 \in 0 .. Len(ss) - j
    OBVIOUS
  <2> HIDE DEF x
  <2>2. P((j + n) + 1) = P(j + n) \o ss[(j + n) + 1] /\ P(j + n) \in Seq(X)
    BY <1>3, <2>1
  <2>3. x \in 1 .. Len(P(j + n)) /\ P(j + n)[x] = ss[j][k]
    BY <1>5
  <2>4. ss[(j + n) + 1] \in Seq(X)
    BY <2>1
  <2> DEFINE s == P(j + n)
             t == ss[(j + n) + 1]
  <2>5. s \in Seq(X) /\ t \in Seq(X) /\ x \in 1 .. Len(s)
    BY <2>2, <2>3, <2>4
  <2>6. x \in 1 .. Len(s \o t) /\ (s \o t)[x] = s[x]
    <3> HIDE DEF s, t
    <3> QED
      BY <2>5
  <2>7. P((j + n) + 1) = s \o t
    BY <2>2
  <2>8. x \in 1 .. Len(P((j + n) + 1)) /\ P((j + n) + 1)[x] = ss[j][k]
    BY <2>3, <2>6, <2>7
  <2> HIDE DEF s, t
  <2> QED
    BY <2>1, <2>8
<1>6. \A n \in 0 .. Len(ss) - j : n \in G
  <2> HIDE DEF G
  <2> QED
    BY <1>4, <1>5, UpTo, Len(ss) - j \in Nat
<1>7. Len(ss) - j \in 0 .. Len(ss) - j /\ j + (Len(ss) - j) = Len(ss)
  OBVIOUS
<1> HIDE DEF x
<1>8. x \in 1 .. Len(P(Len(ss))) /\ P(Len(ss))[x] = ss[j][k]
  <2>1. Len(ss) - j \in G
    BY <1>6, <1>7
  <2> QED
    BY <1>7, <2>1
<1>9. x \in 1 .. Len(FlattenSeq(ss)) /\ FlattenSeq(ss)[x] = ss[j][k]
  BY <1>3, <1>8
<1> QED
  BY <1>9 DEF x, S

(* One chunk on the wire. *)
OnWire(c1, c2, c3, t) == <<c1, c2, c3>> \o t \o <<c2, c3>>

(* The same, element by element. *)
IsChunk(w, c1, c2, c3, s, a, n) ==
  /\ w[1] = c1 /\ w[2] = c2 /\ w[3] = c3
  /\ \A i \in 1 .. n : w[3 + i] = s[a + i]
  /\ w[n + 4] = c2 /\ w[n + 5] = c3

(* OnWire makes such a chunk. *)
LEMMA ChunkOnWire ==
  ASSUME NEW X, NEW s \in Seq(X), NEW a \in Nat, NEW b \in Nat, NEW n \in Nat, b = a + n, b <= Len(s),
         NEW c1 \in X, NEW c2 \in X, NEW c3 \in X, NEW w, w = OnWire(c1, c2, c3, Seg(s, a, b))
  PROVE  w \in Seq(X) /\ Len(w) = n + 5 /\ IsChunk(w, c1, c2, c3, s, a, n)
<1>0. /\ Seg(s, a, b) \in Seq(X) /\ Len(Seg(s, a, b)) = n
      /\ \A i \in 1 .. n : Seg(s, a, b)[i] = s[a + i]
  <2> DEFINE u == Seg(s, a, b)
  <2>1. a <= b /\ b - a = n /\ s \in Seq(X) /\ b <= Len(s)
    OBVIOUS
  <2> HIDE DEF u
  <2>2. u \in Seq(X) /\ Len(u) = b - a /\ \A i \in 1 .. b - a : u[i] = s[a + i]
    BY ONLY <2>1, a \in Nat, b \in Nat, SegProperties DEF u
  <2> QED
    BY <2>1, <2>2 DEF u
<1> DEFINE h == <<c1, c2, c3>>
           t == Seg(s, a, b)
           e == <<c2, c3>>
<1>1. h \in Seq(X) /\ Len(h) = 3 /\ h[1] = c1 /\ h[2] = c2 /\ h[3] = c3
  OBVIOUS
<1>2. e \in Seq(X) /\ Len(e) = 2 /\ e[1] = c2 /\ e[2] = c3
  OBVIOUS
<1>3. t \in Seq(X) /\ Len(t) = n /\ \A i \in 1 .. n : t[i] = s[a + i]
  BY <1>0
<1>4. w = (h \o t) \o e
  BY DEF OnWire
<1> HIDE DEF h, t, e
<1> DEFINE g == h \o t
<1>5. /\ g \in Seq(X) /\ Len(g) = n + 3
      /\ g[1] = c1 /\ g[2] = c2 /\ g[3] = c3
      /\ \A i \in 1 .. n : g[3 + i] = t[i]
  <2>1. /\ g \in Seq(X) /\ Len(g) = Len(h) + Len(t)
        /\ \A i \in 1 .. Len(h) + Len(t) : g[i] = IF i <= Len(h) THEN h[i] ELSE t[i - Len(h)]
    BY <1>1, <1>3, ConcatProperties
  <2> HIDE DEF g
  <2> QED
    BY ONLY <1>1, <1>3, <2>1, n \in Nat
<1>6. w = g \o e
  BY <1>4
<1> HIDE DEF g
<1>7. /\ w \in Seq(X) /\ Len(w) = Len(g) + Len(e)
      /\ \A i \in 1 .. Len(g) + Len(e) : w[i] = IF i <= Len(g) THEN g[i] ELSE e[i - Len(g)]
  <2> DEFINE f == g \o e
  <2>1. /\ f \in Seq(X) /\ Len(f) = Len(g) + Len(e)
        /\ \A i \in 1 .. Len(g) + Len(e) : f[i] = IF i <= Len(g) THEN g[i] ELSE e[i - Len(g)]
    BY <1>2, <1>5, ConcatProperties
  <2> QED
    BY <1>6, <2>1
<1>8. Len(w) = n + 5 /\ w[1] = c1 /\ w[2] = c2 /\ w[3] = c3
      /\ w[n + 4] = c2 /\ w[n + 5] = c3
  BY <1>2, <1>5, <1>7
<1>9. ASSUME NEW i \in 1 .. n
      PROVE  w[3 + i] = s[a + i]
  <2>1. 3 + i \in 1 .. Len(g) + Len(e) /\ 3 + i <= Len(g)
    BY <1>2, <1>5
  <2>2. w[3 + i] = g[3 + i]
    BY <1>7, <2>1
  <2> QED
    BY <1>3, <1>5, <2>2
<1> QED
  BY <1>7, <1>8, <1>9 DEF IsChunk


(* On the wire the chunks come one behind the other, each behind its size  *)
(* line, and the last size is 0.                                           *)
LEMMA ChunksOnWire ==
  ASSUME NEW r \in Nat, NEW p \in Response
  PROVE  LET cs == [j \in DOMAIN p.chunks |-> Chunk(Tokens(r, p), p.chunks, j)] IN
         /\ cs \in Seq(Seq(Token)) /\ Len(cs) = Len(p.chunks)
         /\ \A j \in 1 .. Len(p.chunks) :
              /\ cs[j] = OnWire(Size(Len(p.chunks[j])), CR, LF,
                                Seg(Tokens(r, p), Before(p)[j - 1], Before(p)[j]))
              /\ Len(cs[j]) = Len(p.chunks[j]) + 5
         /\ \A j \in 0 .. Len(p.chunks) : Sums(Lengths(cs))[j] = Off(p, j)
<1> DEFINE C == Tokens(r, p)
           S == Before(p)
           J == Len(p.chunks)
           cs == [j \in DOMAIN p.chunks |-> Chunk(C, p.chunks, j)]
           c(j) == OnWire(Size(Len(p.chunks[j])), CR, LF, Seg(C, S[j - 1], S[j]))
           L(j) == Len(p.chunks[j])
<1>1. /\ S \in [0 .. J -> Nat] /\ S[0] = 0
      /\ \A j \in 1 .. J : L(j) \in Nat /\ S[j] = S[j - 1] + L(j)
      /\ \A j \in 0 .. J : S[j] <= LengthOf(p)
  BY BeforeOfResponse
<1>2. C \in Seq(Token) /\ Len(C) = LengthOf(p) /\ LengthOf(p) \in Nat
  BY TokensOfResponse, UnitsOfResponse
<1>3. DOMAIN p.chunks = 1 .. J /\ J \in Nat
  BY UnitsOfResponse
<1>4. ASSUME NEW j \in 1 .. J
      PROVE  /\ cs[j] = c(j) /\ c(j) \in Seq(Token) /\ Len(c(j)) = L(j) + 5
  <2>0. j \in DOMAIN p.chunks /\ j - 1 \in 0 .. J /\ j \in 0 .. J
    BY <1>3
  <2>1. S[j - 1] \in Nat /\ S[j] \in Nat /\ S[j] = S[j - 1] + L(j) /\ L(j) \in Nat
        /\ S[j] <= Len(C)
    BY <1>1, <1>2, <2>0
  <2>2. cs[j] = Chunk(C, p.chunks, j)
    BY <2>0
  <2>3. Chunk(C, p.chunks, j) = c(j)
    BY <2>1 DEF Chunk, OnWire, Before, Seg
  <2>4. CR \in Token /\ LF \in Token /\ Size(L(j)) \in Token
    BY <2>1, TokenKinds
  <2> DEFINE a == S[j - 1]
             b == S[j]
             z == Size(L(j))
             n == L(j)
             w == OnWire(z, CR, LF, Seg(C, a, b))
  <2>5. a \in Nat /\ b \in Nat /\ n \in Nat /\ b = a + n /\ b <= Len(C) /\ z \in Token
    BY <2>1, <2>4
  <2> HIDE DEF S, C, cs, a, b, n, z, w
  <2>6. w \in Seq(Token) /\ Len(w) = n + 5
    <3>1. w = OnWire(z, CR, LF, Seg(C, a, b))
      BY DEF w
    <3>2. z \in Token /\ CR \in Token /\ LF \in Token /\ C \in Seq(Token)
      BY <1>2, <2>4, <2>5
    <3> HIDE DEF w
    <3> QED
      BY <3>1, <3>2, <2>5, ChunkOnWire
  <2>7. c(j) \in Seq(Token) /\ Len(c(j)) = L(j) + 5
    BY <2>6 DEF a, b, n, z, w
  <2> QED
    BY <2>1, <2>2, <2>3, <2>7
<1>5. cs \in Seq(Seq(Token)) /\ Len(cs) = J
  <2>1. DOMAIN cs = 1 .. J
    BY <1>3
  <2>2. \A j \in 1 .. J : cs[j] \in Seq(Token)
    BY <1>4
  <2>3. cs = [j \in 1 .. J |-> cs[j]]
    BY <1>3
  <2> DEFINE X == Seq(Token)
  <2> HIDE DEF cs, X
  <2>4. cs \in [1 .. J -> X]
    BY <2>2, <2>3 DEF X
  <2>5. cs \in Seq(X) /\ Len(cs) = J
    BY <1>3, <2>4
  <2> QED
    BY <2>5 DEF X
<1>6. \A j \in 1 .. J : Len(cs[j]) = L(j) + 5
  BY <1>4
<1> DEFINE T == Sums(Lengths(cs))
           G == {j \in 0 .. J : T[j] = Off(p, j)}
<1> HIDE DEF cs
<1>7. /\ Lengths(cs) \in Seq(Nat) /\ Len(Lengths(cs)) = J
      /\ \A j \in 1 .. J : Lengths(cs)[j] = Len(cs[j])
  BY <1>5, FlattenLength
<1>8. /\ T \in [0 .. J -> Nat] /\ T[0] = 0
      /\ \A j \in 1 .. J : T[j] = T[j - 1] + Len(cs[j])
  BY <1>7, SumsStep
<1> HIDE DEF T
<1>9. 0 \in G
  BY <1>1, <1>3, <1>8 DEF Off
<1>10. ASSUME NEW j \in 0 .. J - 1, j \in G
       PROVE  j + 1 \in G
  <2>1. j + 1 \in 1 .. J /\ (j + 1) - 1 = j /\ j + 1 \in 0 .. J /\ j \in Nat
    BY <1>3
  <2>2. T[j + 1] = T[j] + (L(j + 1) + 5)
    <3>1. T[j + 1] = T[(j + 1) - 1] + Len(cs[j + 1])
      BY <1>8, <2>1
    <3>2. Len(cs[j + 1]) = L(j + 1) + 5
      BY <1>6, <2>1
    <3> HIDE DEF L
    <3> QED
      BY <2>1, <3>1, <3>2
  <2>4. T[j] = S[j] + 5 * j
    BY <1>10 DEF Off
  <2> HIDE DEF L, S
  <2>3. S[j + 1] = S[j] + L(j + 1) /\ L(j + 1) \in Nat /\ S[j] \in Nat
    BY ONLY <1>1, <2>1
  <2>5. T[j + 1] = S[j + 1] + 5 * (j + 1)
    <3> DEFINE t1 == T[j + 1]
               t0 == T[j]
               s1 == S[j + 1]
               s0 == S[j]
               l == L(j + 1)
    <3>1. t1 = t0 + (l + 5) /\ s1 = s0 + l /\ t0 = s0 + 5 * j
          /\ l \in Nat /\ s0 \in Nat /\ j \in Nat
      BY <2>1, <2>2, <2>3, <2>4
    <3> HIDE DEF t1, t0, s1, s0, l
    <3>2. t1 = s1 + 5 * (j + 1)
      BY ONLY <3>1
    <3> QED
      BY <3>2 DEF t1, s1
  <2> QED
    BY <2>1, <2>5 DEF Off, S
<1> HIDE DEF G
<1>11. \A j \in 0 .. J : j \in G
  BY <1>3, <1>9, <1>10, UpTo
<1>12. \A j \in 0 .. J : T[j] = Off(p, j)
  BY <1>11 DEF G
<1> QED
  BY <1>4, <1>5, <1>6, <1>12 DEF cs, T

(* What a chunked response has at each place on the wire. *)
LEMMA WireOfChunked ==
  ASSUME NEW r \in Nat, NEW p \in Response, p.framing = "chunked"
  PROVE  LET W == Wire(r, p)
             J == Len(p.chunks) IN
         /\ W \in Seq(Token) /\ Len(W) = Off(p, J) + 5
         /\ \A j \in 0 .. J :
              /\ Off(p, j) \in Nat /\ Off(p, j) <= Off(p, J)
              /\ W[Off(p, j) + 1] = Size(SizeAt(p, j + 1))
              /\ W[Off(p, j) + 2] = CR /\ W[Off(p, j) + 3] = LF
         /\ \A j \in 1 .. J :
              /\ W[Off(p, j) - 1] = CR /\ W[Off(p, j)] = LF
              /\ Off(p, j) = Off(p, j - 1) + Len(p.chunks[j]) + 5
              /\ \A k \in 1 .. Len(p.chunks[j]) :
                   W[Off(p, j - 1) + 3 + k] = Tokens(r, p)[Before(p)[j - 1] + k]
<1> DEFINE W == Wire(r, p)
           C == Tokens(r, p)
           S == Before(p)
           J == Len(p.chunks)
           cs == [j \in DOMAIN p.chunks |-> Chunk(C, p.chunks, j)]
           F == FlattenSeq(cs)
           T == <<Size(0), CR, LF, CR, LF>>
           L(j) == Len(p.chunks[j])
           c(j) == OnWire(Size(L(j)), CR, LF, Seg(C, S[j - 1], S[j]))
           O(j) == Off(p, j)
<1>1. /\ S \in [0 .. J -> Nat] /\ S[0] = 0
      /\ \A j \in 1 .. J : L(j) \in Nat /\ S[j] = S[j - 1] + L(j)
      /\ \A j \in 0 .. J : S[j] <= LengthOf(p)
  BY BeforeOfResponse
<1>2. C \in Seq(Token) /\ Len(C) = LengthOf(p) /\ LengthOf(p) \in Nat /\ J \in Nat
  BY TokensOfResponse, UnitsOfResponse
<1>3. /\ cs \in Seq(Seq(Token)) /\ Len(cs) = J
      /\ \A j \in 1 .. J : cs[j] = c(j) /\ Len(cs[j]) = L(j) + 5
      /\ \A j \in 0 .. J : Sums(Lengths(cs))[j] = O(j)
  BY ChunksOnWire
<1>4. W = F \o T
  BY DEF Wire, Tokens, Units
<1>5. T \in Seq(Token) /\ Len(T) = 5 /\ T[1] = Size(0) /\ T[2] = CR /\ T[3] = LF
  <2>1. Size(0) \in Token /\ CR \in Token /\ LF \in Token
    BY TokenKinds
  <2> QED
    BY <2>1
<1> HIDE DEF cs
<1>6. F \in Seq(Token) /\ Len(F) = O(J)
  <2>1. FlattenSeq(cs) \in Seq(Token) /\ Len(FlattenSeq(cs)) = Sums(Lengths(cs))[Len(cs)]
    BY <1>3, FlattenLength
  <2>2. J \in 0 .. J
    BY <1>2
  <2> QED
    BY <1>3, <2>1, <2>2
<1>7. ASSUME NEW j \in 1 .. J, NEW k \in 1 .. L(j) + 5
      PROVE  O(j - 1) + k \in 1 .. Len(F) /\ F[O(j - 1) + k] = c(j)[k]
  <2>0. j \in 1 .. Len(cs) /\ k \in 1 .. Len(cs[j]) /\ j - 1 \in 0 .. J
    BY <1>3
  <2>1. /\ Sums(Lengths(cs))[j - 1] + k \in 1 .. Len(FlattenSeq(cs))
        /\ FlattenSeq(cs)[Sums(Lengths(cs))[j - 1] + k] = cs[j][k]
    BY <1>3, <2>0, FlattenAt
  <2>2. Sums(Lengths(cs))[j - 1] = O(j - 1) /\ cs[j] = c(j)
    BY <1>3, <2>0
  <2> QED
    BY <2>1, <2>2
<1> HIDE DEF F, T, W
<1>8. /\ W \in Seq(Token) /\ Len(W) = Len(F) + Len(T)
      /\ \A i \in 1 .. Len(F) + Len(T) : W[i] = IF i <= Len(F) THEN F[i] ELSE T[i - Len(F)]
  BY <1>4, <1>5, <1>6, ConcatProperties
<1>9. Len(F) \in Nat
  BY <1>6
<1>10. \A i \in 1 .. Len(F) : W[i] = F[i]
  BY <1>5, <1>8, <1>9
<1>11. W[O(J) + 1] = Size(0) /\ W[O(J) + 2] = CR /\ W[O(J) + 3] = LF
  <2> DEFINE n == Len(F)
  <2>2. n \in Nat /\ n = O(J)
    BY <1>6, <1>9
  <2>3. \A i \in 1 .. n + 5 : W[i] = IF i <= n THEN F[i] ELSE T[i - n]
    BY <1>5, <1>8
  <2> HIDE DEF O, n
  <2>4. W[n + 1] = T[1] /\ W[n + 2] = T[2] /\ W[n + 3] = T[3]
    BY <2>2, <2>3
  <2>1. W[O(J) + 1] = T[1] /\ W[O(J) + 2] = T[2] /\ W[O(J) + 3] = T[3]
    BY <2>2, <2>4
  <2> QED
    BY <1>5, <2>1
<1>12. \A j \in 1 .. J : \A k \in 1 .. L(j) + 5 : W[O(j - 1) + k] = c(j)[k]
  BY <1>7, <1>10
<1>13. ASSUME NEW j \in 0 .. J
       PROVE  O(j) \in Nat
  <2>1. S[j] \in Nat /\ j \in Nat
    BY <1>1, <1>2
  <2> QED
    BY <2>1 DEF Off
<1>14. \A j \in 1 .. J : O(j) = O(j - 1) + L(j) + 5
  <2> TAKE j \in 1 .. J
  <2>1. j - 1 \in 0 .. J /\ j \in Nat
    BY <1>2
  <2>2. S[j] = S[j - 1] + L(j) /\ S[j - 1] \in Nat /\ L(j) \in Nat
    BY <1>1, <2>1
  <2> HIDE DEF S, L
  <2>3. O(j) = S[j] + 5 * j /\ O(j - 1) = S[j - 1] + 5 * (j - 1)
    BY DEF Off, S
  <2> QED
    BY <2>1, <2>2, <2>3
<1>15. ASSUME NEW j \in 0 .. J
       PROVE  O(j) <= O(J)
  <2>1. CASE j = J
    BY <2>1, <1>13
  <2>2. CASE j # J
    <3>1. j + 1 \in 1 .. J /\ (j + 1) - 1 = j
      BY <1>2, <2>2
    <3>2. L(j + 1) \in Nat
      BY <1>1, <3>1
    <3>3. 1 \in 1 .. L(j + 1) + 5
      BY <3>2
    <3>4. O((j + 1) - 1) + 1 \in 1 .. Len(F)
      BY <1>7, <3>1, <3>3
    <3> QED
      BY <1>6, <1>13, <3>1, <3>4
  <2> QED
    BY <2>1, <2>2
<1>16. ASSUME NEW j \in 1 .. J
       PROVE  /\ c(j)[1] = Size(L(j)) /\ c(j)[2] = CR /\ c(j)[3] = LF
              /\ \A k \in 1 .. L(j) : c(j)[3 + k] = C[S[j - 1] + k]
              /\ c(j)[L(j) + 4] = CR /\ c(j)[L(j) + 5] = LF
  <2>1. S[j - 1] \in Nat /\ S[j] \in Nat /\ S[j] = S[j - 1] + L(j) /\ L(j) \in Nat
        /\ S[j] <= Len(C)
    <3>1. j - 1 \in 0 .. J /\ j \in 0 .. J
      BY <1>2
    <3> QED
      BY <1>1, <1>2, <3>1
  <2>2. CR \in Token /\ LF \in Token /\ Size(L(j)) \in Token
    BY <2>1, TokenKinds
  <2>3. S[j] - S[j - 1] = L(j) /\ S[j - 1] <= S[j]
    BY <2>1
  <2> DEFINE a == S[j - 1]
             b == S[j]
             z == Size(L(j))
             n == L(j)
             w == OnWire(z, CR, LF, Seg(C, a, b))
  <2>5. a \in Nat /\ b \in Nat /\ n \in Nat /\ b = a + n /\ b <= Len(C) /\ z \in Token
    BY <2>1, <2>2, <2>3
  <2> HIDE DEF S, C, a, b, n, z, w
  <2>6. /\ w[1] = z /\ w[2] = CR /\ w[3] = LF
        /\ \A i \in 1 .. n : w[3 + i] = C[a + i]
        /\ w[n + 4] = CR /\ w[n + 5] = LF
    <3>1. w = OnWire(z, CR, LF, Seg(C, a, b))
      BY DEF w
    <3>2. z \in Token /\ CR \in Token /\ LF \in Token /\ C \in Seq(Token)
      BY <1>2, <2>2, <2>5
    <3> HIDE DEF w
    <3>3. IsChunk(w, z, CR, LF, C, a, n)
      BY <3>1, <3>2, <2>5, ChunkOnWire
    <3> QED
      BY <3>3 DEF IsChunk
  <2>4. /\ c(j)[1] = Size(L(j)) /\ c(j)[2] = CR /\ c(j)[3] = LF
        /\ \A i \in 1 .. L(j) : c(j)[3 + i] = C[S[j - 1] + i]
        /\ c(j)[L(j) + 4] = CR /\ c(j)[L(j) + 5] = LF
    BY <2>6 DEF a, b, n, z, w
  <2> QED
    BY <2>3, <2>4
<1>17. ASSUME NEW j \in 1 .. J
       PROVE  /\ W[O(j - 1) + 1] = Size(L(j)) /\ W[O(j - 1) + 2] = CR /\ W[O(j - 1) + 3] = LF
              /\ \A k \in 1 .. L(j) : W[O(j - 1) + 3 + k] = C[S[j - 1] + k]
              /\ W[O(j) - 1] = CR /\ W[O(j)] = LF
  <2>1. L(j) \in Nat /\ j - 1 \in 0 .. J
    BY <1>1, <1>2
  <2>2. O(j - 1) \in Nat /\ O(j) = O(j - 1) + L(j) + 5
    BY <1>13, <1>14, <2>1
  <2>3. 1 \in 1 .. L(j) + 5 /\ 2 \in 1 .. L(j) + 5 /\ 3 \in 1 .. L(j) + 5
        /\ L(j) + 4 \in 1 .. L(j) + 5 /\ L(j) + 5 \in 1 .. L(j) + 5
        /\ \A k \in 1 .. L(j) : 3 + k \in 1 .. L(j) + 5
    BY <2>1
  <2>4. \A k \in 1 .. L(j) + 5 : W[O(j - 1) + k] = c(j)[k]
    BY <1>12
  <2> HIDE DEF O, c, L, W
  <2>5. W[O(j - 1) + 1] = Size(L(j)) /\ W[O(j - 1) + 2] = CR /\ W[O(j - 1) + 3] = LF
    BY <1>16, <2>3, <2>4
  <2>6. W[O(j) - 1] = CR /\ W[O(j)] = LF
    <3>1. O(j - 1) + (L(j) + 4) = O(j) - 1 /\ O(j - 1) + (L(j) + 5) = O(j)
      BY <2>1, <2>2
    <3> QED
      BY <1>16, <2>3, <2>4, <3>1
  <2>7. ASSUME NEW k \in 1 .. L(j)
        PROVE  W[O(j - 1) + 3 + k] = C[S[j - 1] + k]
    <3>1. O(j - 1) + 3 + k = O(j - 1) + (3 + k)
      BY <2>1, <2>2
    <3> QED
      BY <1>16, <2>3, <2>4, <3>1
  <2> QED
    BY <2>5, <2>6, <2>7
<1>18. ASSUME NEW j \in 0 .. J
       PROVE  /\ W[O(j) + 1] = Size(SizeAt(p, j + 1))
              /\ W[O(j) + 2] = CR /\ W[O(j) + 3] = LF
  <2>1. CASE j = J
    BY <1>11, <2>1 DEF SizeAt
  <2>2. CASE j # J
    <3>1. j + 1 \in 1 .. J /\ (j + 1) - 1 = j /\ j + 1 # J + 1
      BY <1>2, <2>2
    <3>2. SizeAt(p, j + 1) = L(j + 1)
      BY <3>1 DEF SizeAt
    <3>3. /\ W[O((j + 1) - 1) + 1] = Size(L(j + 1))
          /\ W[O((j + 1) - 1) + 2] = CR /\ W[O((j + 1) - 1) + 3] = LF
      BY <1>17, <3>1
    <3> QED
      BY <3>1, <3>2, <3>3
  <2> QED
    BY <2>1, <2>2
<1>19. Len(W) = O(J) + 5
  BY <1>5, <1>6, <1>8
<1> QED
  BY <1>8, <1>13, <1>14, <1>15, <1>17, <1>18, <1>19 DEF W, J

(* The places where chunks end. *)
LEMMA ChunkEnds ==
  ASSUME NEW r \in Nat, NEW p \in Response, p.framing = "chunked"
  PROVE  /\ Wire(r, p) \in Seq(Token) /\ Len(Wire(r, p)) = Off(p, Len(p.chunks)) + 5
         /\ \A j \in 0 .. Len(p.chunks) :
              Off(p, j) \in Nat /\ Off(p, j) <= Off(p, Len(p.chunks))
         /\ \A j \in 1 .. Len(p.chunks) :
              Off(p, j) = Off(p, j - 1) + Len(p.chunks[j]) + 5
  BY WireOfChunked

(* The tokens of a chunk on the wire are those of the body. *)
LEMMA SegInChunk ==
  ASSUME NEW r \in Nat, NEW p \in Response, p.framing = "chunked",
         NEW j \in 1 .. Len(p.chunks), NEW c \in 0 .. Len(p.chunks[j]), NEW n \in 0 .. c
  PROVE  /\ Off(p, j) - 2 - c \in Nat /\ Before(p)[j] - c \in Nat
         /\ Seg(Wire(r, p), Off(p, j) - 2 - c, Off(p, j) - 2 - c + n)
              = Seg(Tokens(r, p), Before(p)[j] - c, Before(p)[j] - c + n)
<1> DEFINE W == Wire(r, p)
           C == Tokens(r, p)
           S == Before(p)
           J == Len(p.chunks)
           L == Len(p.chunks[j])
           O(i) == Off(p, i)
           a == O(j) - 2 - c
           b == S[j] - c
<1>0. j \in 0 .. J /\ j - 1 \in 0 .. J /\ J \in 0 .. J /\ J \in Nat
  BY UnitsOfResponse
<1>1. /\ W \in Seq(Token) /\ Len(W) = O(J) + 5
      /\ O(J) \in Nat /\ O(j) \in Nat /\ O(j - 1) \in Nat /\ O(j) <= O(J)
      /\ O(j) = O(j - 1) + L + 5
      /\ \A k \in 1 .. L : W[O(j - 1) + 3 + k] = C[S[j - 1] + k]
  BY <1>0, WireOfChunked
<1>2. /\ S[j] \in Nat /\ S[j - 1] \in Nat /\ L \in Nat /\ S[j] = S[j - 1] + L
      /\ S[j] <= LengthOf(p)
  <2>1. /\ S \in [0 .. J -> Nat] /\ \A i \in 1 .. J : S[i] = S[i - 1] + Len(p.chunks[i])
        /\ \A i \in 1 .. J : Len(p.chunks[i]) \in Nat
        /\ \A i \in 0 .. J : S[i] <= LengthOf(p)
    BY BeforeOfResponse
  <2> QED
    BY <1>0, <2>1
<1>3. C \in Seq(Token) /\ Len(C) = LengthOf(p) /\ LengthOf(p) \in Nat
  BY TokensOfResponse, UnitsOfResponse
<1>6. c \in Nat /\ n \in Nat /\ n <= c /\ c <= L
  BY <1>2
<1> DEFINE o == O(j)
           o1 == O(j - 1)
           t == S[j]
           t1 == S[j - 1]
           oJ == O(J)
<1>4. /\ o \in Nat /\ o1 \in Nat /\ oJ \in Nat /\ t \in Nat /\ t1 \in Nat /\ L \in Nat
      /\ o = o1 + L + 5 /\ t = t1 + L /\ o <= oJ /\ Len(W) = oJ + 5 /\ t <= Len(C)
      /\ \A k \in 1 .. L : W[o1 + 3 + k] = C[t1 + k]
  BY <1>1, <1>2, <1>3
<1> HIDE DEF W, C, S, J, L, O, o, o1, t, t1, oJ
<1>7. a \in Nat /\ b \in Nat /\ a + n <= Len(W) /\ b + n <= Len(C)
  BY <1>4, <1>6 DEF o, t
<1>8. ASSUME NEW i \in 1 .. n
      PROVE  W[a + i] = C[b + i]
  <2> DEFINE k == L - c + i
  <2>1. k \in 1 .. L
    BY <1>4, <1>6
  <2>2. o1 + 3 + k = a + i /\ t1 + k = b + i
    BY <1>4, <1>6 DEF o, t
  <2> HIDE DEF k, a, b
  <2>3. W[o1 + 3 + k] = C[t1 + k]
    BY <1>4, <2>1
  <2> QED
    BY <2>2, <2>3
<1> HIDE DEF a, b
<1>9. Seg(W, a, a + n) = Seg(C, b, b + n)
  <2>1. W \in Seq(Token) /\ C \in Seq(Token) /\ n \in Nat /\ a \in Nat /\ b \in Nat
        /\ a + n <= Len(W) /\ b + n <= Len(C)
    BY <1>1, <1>3, <1>6, <1>7
  <2>2. SameFrom(W, a, C, b, n)
    BY <1>8 DEF SameFrom
  <2> QED
    BY <2>1, <2>2, SegSame
<1> QED
  BY <1>7, <1>9 DEF a, b, W, C, S, O

(* A size line: its tokens differ, so it ends with its third. *)
LEMMA LineAt ==
  ASSUME NEW W \in Seq(Token), NEW o \in Nat, NEW b \in Nat, o <= b, b <= Len(W),
         NEW k \in Nat, W[o + 1] = Size(k), W[o + 2] = CR, W[o + 3] = LF
  PROVE  /\ HasLine(Seg(W, o, b)) <=> b >= o + 3
         /\ b >= o + 1 => SizeOf(Seg(W, o, b)) = k
<1> DEFINE s == Seg(W, o, b)
           n == b - o
<1>1. s \in Seq(Token) /\ Len(s) = n /\ \A i \in 1 .. n : s[i] = W[o + i]
  BY SegProperties
<1>2. n \in Nat
  OBVIOUS
<1>3. Size(k) # CR /\ CR # LF /\ Size(k).kind = "size" /\ Size(k).n = k
  <2>1. Size(k).kind = "size" /\ CR.kind = "cr" /\ LF.kind = "lf" /\ Size(k).n = k
    BY DEF Size, CR, LF
  <2>2. Size(k) # CR
    BY <2>1
  <2>3. CR # LF
    BY <2>1
  <2> QED
    BY <2>1, <2>2, <2>3
<1> HIDE DEF s
<1>4. /\ n >= 1 => s[1] = Size(k)
      /\ n >= 2 => s[2] = CR
      /\ n >= 3 => s[3] = LF
  BY <1>1, <1>2
<1> HIDE DEF n
<1>5. CASE n >= 3
  <2>1. 2 \in 1 .. Len(s) - 1 /\ s[2] = CR /\ s[2 + 1] = LF
    BY <1>1, <1>2, <1>4, <1>5
  <2>2. HasLine(s)
    BY <2>1 DEF HasLine
  <2> QED
    BY <1>3, <1>4, <1>5, <2>2 DEF SizeOf, n, s
<1>6. CASE n < 3
  <2>1. ~HasLine(s)
    <3>1. SUFFICES ASSUME NEW i \in 1 .. Len(s) - 1, s[i] = CR /\ s[i + 1] = LF
                   PROVE  FALSE
      BY DEF HasLine
    <3>2. i = 1 /\ n = 2
      BY <1>1, <1>2, <1>6
    <3> QED
      BY <1>3, <1>4, <3>1, <3>2
  <2> QED
    BY <1>3, <1>4, <1>6, <2>1 DEF SizeOf, n, s
<1> QED
  BY <1>2, <1>5, <1>6

(* LineEnd of a segment that starts with a size line is behind that line. *)
LEMMA LineEndAt ==
  ASSUME NEW W \in Seq(Token), NEW o \in Nat, NEW b \in Nat, o + 3 <= b, b <= Len(W),
         NEW k \in Nat, W[o + 1] = Size(k), W[o + 2] = CR, W[o + 3] = LF
  PROVE  LineEnd(Seg(W, o, b)) = 3
<1> DEFINE s == Seg(W, o, b)
           n == b - o
<1>0. o <= b
  OBVIOUS
<1>1. s \in Seq(Token) /\ Len(s) = n
  BY <1>0, SegTyped
<1>2. n \in Nat /\ n >= 3
  OBVIOUS
<1>3. ASSUME NEW i \in 0 .. n
      PROVE  HasLine(SubSeq(s, 1, i)) <=> i >= 3
  <2> DEFINE c == o + i
  <2>1. c \in Nat /\ o <= c /\ c <= b /\ c <= Len(W) /\ i \in Nat /\ i <= n /\ o <= b
    BY <1>2
  <2>2. SubSeq(s, 1, i) = Seg(W, o, c)
    BY <1>0, <2>1, SegTake
  <2>3. c >= o + 3 <=> i >= 3
    BY <2>1
  <2> HIDE DEF c, s
  <2>4. HasLine(Seg(W, o, c)) <=> c >= o + 3
    BY <2>1, LineAt
  <2> QED
    BY <2>2, <2>3, <2>4
<1> HIDE DEF s, n
<1> DEFINE P(i) == HasLine(SubSeq(s, 1, i)) /\ ~HasLine(SubSeq(s, 1, i - 1))
<1>4. 3 \in 2 .. n /\ P(3)
  <2>1. 3 \in 0 .. n /\ 3 - 1 \in 0 .. n /\ 3 >= 3 /\ ~(3 - 1 >= 3) /\ 3 \in 2 .. n
    BY <1>2
  <2> QED
    BY <1>3, <2>1
<1>5. ASSUME NEW i \in 2 .. n, P(i)
      PROVE  i = 3
  <2>1. i \in 0 .. n /\ i - 1 \in 0 .. n
    BY <1>2
  <2>2. i >= 3 /\ ~(i - 1 >= 3)
    BY <1>3, <1>5, <2>1
  <2> QED
    BY <2>1, <2>2
<1>6. LineEnd(s) = CHOOSE i \in 2 .. n : P(i)
  BY <1>1 DEF LineEnd
<1> HIDE DEF P
<1>7. (CHOOSE i \in 2 .. n : P(i)) = 3
  BY <1>4, <1>5
<1> QED
  BY <1>6, <1>7 DEF s

-----------------------------------------------------------------------------
(* Types. *)

(* What the variables hold; of a CRLF at most one token is kept. *)
Pcs == {"idle", "read_some", "crlf", "size", "chunk", "async_read_some",
        "async_crlf", "async_size", "async_chunk"}
Ecs == {"none", "eof", "invalid_chunked_encoding", "operation_not_supported",
        "malformed_status_line"}
Members ==
  [is_chunked : BOOLEAN, chunked_size : Nat, skip_crlf : BOOLEAN,
   is_chunked_end : BOOLEAN, keep_alive : BOOLEAN, body_size : Nat,
   content_length : Nat \cup {-1}, is_gzip : BOOLEAN]
Inflaters ==
  [zalloc : BOOLEAN, done : BOOLEAN, in : Seq(Token), out : Seq(PlainBytes)]
Sockets == [rest : Seq(Token), closes : BOOLEAN]
Calls ==
  {c \in [pc : Pcs, room : Nat, got : Seq(Token)] :
     c.pc \in {"crlf", "async_crlf"} => Len(c.got) <= 1}
Users ==
  [r : Nat, delivered : Seq(PlainBytes), reported : Nat, ended : BOOLEAN, ec : Ecs]

TypesInv ==
  /\ exchange \in Cases /\ user.r \in DOMAIN exchange.responses
  /\ m_response \in Seq(Token) /\ m \in Members /\ m_stream \in Inflaters
  /\ socket \in Sockets /\ call \in Calls /\ user \in Users

(* What the peer sends is a sequence of tokens. *)
LEMMA WireTyped ==
  ASSUME NEW r \in Nat, NEW p \in Response
  PROVE  /\ Wire(r, p) \in Seq(Token)
         /\ p.framing # "chunked" => Wire(r, p) = Tokens(r, p)
<1>1. CASE p.framing = "chunked"
  BY <1>1, WireOfChunked
<1>2. CASE p.framing # "chunked"
  <2>1. Wire(r, p) = Tokens(r, p)
    BY <1>2 DEF Wire, Tokens, Units
  <2> QED
    BY <1>2, <2>1, TokensOfResponse
<1> QED
  BY <1>1, <1>2

(* The responses of an exchange. *)
LEMMA ResponsesTyped ==
  ASSUME exchange \in Cases
  PROVE  /\ Len(exchange.responses) \in Nat /\ Len(exchange.responses) >= 1
         /\ DOMAIN exchange.responses = 1 .. Len(exchange.responses)
         /\ exchange.unsent \in Nat /\ exchange.mode \in {"sync", "async"}
         /\ \A r \in DOMAIN exchange.responses :
              r \in Nat /\ exchange.responses[r] \in Response
<1>1. exchange \in Case
  BY CasesAssumption
<1>2. exchange.responses \in Seq(Response) \ {<< >>} /\ exchange.unsent \in Nat
      /\ exchange.mode \in {"sync", "async"}
  BY <1>1 DEF Case
<1> DEFINE s == exchange.responses
<1>3. s \in Seq(Response) /\ s # << >>
  BY <1>2
<1> HIDE DEF s
<1>4. Len(s) \in Nat /\ Len(s) >= 1 /\ DOMAIN s = 1 .. Len(s)
      /\ \A r \in DOMAIN s : r \in Nat /\ s[r] \in Response
  BY <1>3
<1> QED
  BY <1>2, <1>4 DEF s

(* What the peer sends of a response is the first part of it, and all of   *)
(* it unless the connection is lost.                                       *)
LEMMA SentTyped ==
  ASSUME exchange \in Cases, NEW r \in DOMAIN exchange.responses
  PROVE  /\ Sent(r) \in Seq(Token) /\ Len(Sent(r)) \in Nat
         /\ Len(Sent(r)) <= Len(Wire(r, exchange.responses[r]))
         /\ Sent(r) = Seg(Wire(r, exchange.responses[r]), 0, Len(Sent(r)))
         /\ ~(Final(r) /\ exchange.unsent > 0) =>
              Len(Sent(r)) = Len(Wire(r, exchange.responses[r]))
<1> DEFINE W == Wire(r, exchange.responses[r])
           n == Len(W) - exchange.unsent
<1>1. W \in Seq(Token) /\ exchange.unsent \in Nat
  BY ResponsesTyped, WireTyped
<1>2. Sent(r) = IF Final(r) THEN SubSeq(W, 1, n) ELSE W
  BY DEF Sent
<1> HIDE DEF W
<1>3. Len(W) \in Nat /\ W = Seg(W, 0, Len(W))
  BY <1>1, SegAll
<1>4. CASE ~Final(r)
  BY <1>1, <1>2, <1>3, <1>4 DEF W
<1>5. CASE Final(r) /\ n >= 0
  <2>0. n \in Nat /\ n <= Len(W) /\ (exchange.unsent = 0 => n = Len(W))
        /\ (~(exchange.unsent > 0) => exchange.unsent = 0)
    BY <1>1, <1>3, <1>5
  <2>3. Sent(r) = SubSeq(W, 1, n)
    BY <1>2, <1>5
  <2> HIDE DEF n
  <2>1. Sent(r) = Seg(W, 0, n)
    BY <2>3, 0 + 1 = 1 DEF Seg
  <2>2. Seg(W, 0, n) \in Seq(Token) /\ Len(Seg(W, 0, n)) = n - 0
    BY <1>1, <2>0, SegTyped
  <2> QED
    BY <2>0, <2>1, <2>2, <1>5 DEF W
<1>6. CASE Final(r) /\ ~(n >= 0)
  <2>1. Sent(r) = << >> /\ exchange.unsent > 0
    BY <1>1, <1>2, <1>3, <1>6
  <2>2. Seg(W, 0, 0) = << >>
    BY <1>1 DEF Seg
  <2> QED
    BY <1>3, <1>6, <2>1, <2>2 DEF W
<1> QED
  BY <1>4, <1>5, <1>6

(* What a read of the connection gets. *)
LEMMA GotTyped ==
  ASSUME m_response \in Seq(Token), socket \in Sockets, NEW max \in Nat,
         NEW rd \in ReadSomeImpl(max) \cup SocketRead(max)
  PROVE  /\ rd.tokens \in Seq(Token) /\ rd.response \in Seq(Token) /\ rd.rest \in Seq(Token)
         /\ rd.ec \in {"none", "eof"} /\ Len(rd.tokens) \in 0 .. max
<1> DEFINE q == m_response
           t == socket.rest
<1>1. q \in Seq(Token) /\ t \in Seq(Token)
  BY DEF Sockets
<1>2. CASE max = 0 /\ rd = Got(<< >>, q, t, "none")
  BY <1>1, <1>2 DEF Got
<1>3. CASE rd = Got(<< >>, q, << >>, "eof")
  BY <1>1, <1>3 DEF Got
<1>4. ASSUME NEW n \in 1 .. Smaller(max, Len(t)), rd = Got(SubSeq(t, 1, n), q, Drop(t, n), "none")
      PROVE  /\ rd.tokens \in Seq(Token) /\ rd.response \in Seq(Token) /\ rd.rest \in Seq(Token)
             /\ rd.ec \in {"none", "eof"} /\ Len(rd.tokens) \in 0 .. max
  <2>1. n \in Nat /\ n <= max /\ n <= Len(t)
    BY <1>1 DEF Smaller
  <2> HIDE DEF t
  <2>2. SubSeq(t, 1, n) \in Seq(Token) /\ Len(SubSeq(t, 1, n)) = n /\ Drop(t, n) \in Seq(Token)
    BY <1>1, <2>1 DEF Drop
  <2> QED
    BY <1>1, <1>4, <2>1, <2>2 DEF Got
<1>5. CASE q # << >> /\ rd = Got(SubSeq(q, 1, Smaller(max, Len(q))), Drop(q, max), t, "none")
  <2> DEFINE n == Smaller(max, Len(q))
  <2>1. n \in Nat /\ n <= max /\ n <= Len(q)
    BY <1>1 DEF Smaller
  <2> HIDE DEF n, q
  <2>2. SubSeq(q, 1, n) \in Seq(Token) /\ Len(SubSeq(q, 1, n)) = n /\ Drop(q, max) \in Seq(Token)
    BY <1>1, <2>1 DEF Drop
  <2> QED
    BY <1>1, <1>5, <2>1, <2>2 DEF Got, n
<1> HIDE DEF q, t
<1>6. CASE rd \in SocketRead(max)
  BY <1>2, <1>3, <1>4, <1>6 DEF SocketRead, q, t
<1>7. CASE rd \in ReadSomeImpl(max)
  BY <1>5, <1>6, <1>7 DEF ReadSomeImpl, q, t
<1> QED
  BY <1>6, <1>7

(* The plain bytes of tokens. *)
LEMMA PlainTyped ==
  ASSUME NEW tokens \in Seq(Token)
  PROVE  Plain(tokens) \in Seq(PlainBytes)
<1> DEFINE f == [i \in DOMAIN tokens |->
                   IF tokens[i].kind = "unit" THEN tokens[i].bytes ELSE <<<<0, 0>>>>]
           B == Seq(PlainBytes)
<1>1. <<<<0, 0>>>> \in B
  <2>1. Byte(0, 0) \in PlainBytes /\ <<0, 0>> = Byte(0, 0)
    BY DEF PlainBytes, Byte
  <2> QED
    BY <2>1
<1>2. ASSUME NEW t \in Token, t.kind = "unit"
      PROVE  t.bytes \in B
  <2>1. PICK b \in Seq(PlainBytes), g \in BOOLEAN, l \in BOOLEAN : t = Unit(b, g, l)
    BY <1>2 DEF Token, CR, LF, Size
  <2> QED
    BY <2>1 DEF Unit
<1>3. DOMAIN tokens = 1 .. Len(tokens) /\ Len(tokens) \in Nat
      /\ \A i \in 1 .. Len(tokens) : tokens[i] \in Token
  OBVIOUS
<1> HIDE DEF B
<1>4. \A i \in 1 .. Len(tokens) :
        (IF tokens[i].kind = "unit" THEN tokens[i].bytes ELSE <<<<0, 0>>>>) \in B
  BY <1>1, <1>2, <1>3
<1>5. f \in [1 .. Len(tokens) -> B]
  BY <1>3, <1>4
<1>6. f \in Seq(B)
  <2> HIDE DEF f
  <2> QED
    BY <1>3, <1>5
<1>7. Plain(tokens) = FlattenSeq(f)
  BY DEF Plain
<1> HIDE DEF f
<1> QED
  BY <1>6, <1>7, FlattenLength DEF B

(* The units an inflater uses are some of its input. *)
LEMMA UsedTyped ==
  ASSUME NEW zz \in Inflaters, NEW room \in Nat
  PROVE  UsedUnits(zz, room) \in 0 .. Len(zz.in)
<1> DEFINE n == Len(zz.in)
           U == {k \in DOMAIN zz.in :
                  /\ Len(zz.out) + Len(Plain(SubSeq(zz.in, 1, k - 1))) <= room
                  /\ \A i \in 1 .. k - 1 : ~Trailer(zz.in[i])}
<1>1. DOMAIN zz.in = 1 .. n /\ n \in Nat
  <2>1. zz.in \in Seq(Token)
    BY DEF Inflaters
  <2> QED
    BY <2>1
<1>2. UsedUnits(zz, room) = IF zz.done THEN 0 ELSE Cardinality(U)
  BY DEF UsedUnits
<1>3. U \subseteq 1 .. n
  BY <1>1
<1> HIDE DEF U, n
<1>4. IsFiniteSet(1 .. n) /\ Cardinality(1 .. n) = n
  BY <1>1, FS_Interval
<1>5. IsFiniteSet(U) /\ Cardinality(U) <= n
  BY <1>3, <1>4, FS_Subset
<1>6. Cardinality(U) \in Nat
  BY <1>5, FS_CardinalityType
<1> QED
  BY <1>1, <1>2, <1>5, <1>6 DEF n

(* What inflate leaves and gives. *)
LEMMA InflateTyped ==
  ASSUME NEW zz \in Inflaters, NEW room \in Nat
  PROVE  /\ Inflate(zz, room).z \in Inflaters
         /\ Inflate(zz, room).bytes \in Seq(PlainBytes)
         /\ Inflate(zz, room).z.zalloc = zz.zalloc
<1> DEFINE n == UsedUnits(zz, room)
           used == SubSeq(zz.in, 1, n)
           out == zz.out \o Plain(used)
           z == [zz EXCEPT !.in = Drop(@, Len(used)), !.out = Drop(out, room),
                    !.done = @ \/ \E i \in DOMAIN used : Trailer(used[i])]
<1>1. n \in 0 .. Len(zz.in)
  BY UsedTyped
<1>2. zz.in \in Seq(Token) /\ zz.out \in Seq(PlainBytes)
  BY DEF Inflaters
<1>3. used \in Seq(Token) /\ Len(used) \in Nat
  <2> HIDE DEF n
  <2>1. n \in Nat /\ n <= Len(zz.in)
    BY <1>1, <1>2
  <2> QED
    BY <1>2, <2>1
<1> HIDE DEF used
<1>4. Plain(used) \in Seq(PlainBytes)
  BY <1>3, PlainTyped
<1>5. out \in Seq(PlainBytes)
  BY <1>2, <1>4
<1> HIDE DEF out
<1>6. Drop(zz.in, Len(used)) \in Seq(Token) /\ Drop(out, room) \in Seq(PlainBytes)
  BY <1>2, <1>3, <1>5 DEF Drop
<1>7. SubSeq(out, 1, Smaller(room, Len(out))) \in Seq(PlainBytes)
  <2>1. Smaller(room, Len(out)) \in Nat /\ Smaller(room, Len(out)) <= Len(out)
    BY <1>5 DEF Smaller
  <2> QED
    BY <1>5, <2>1
<1>8. z \in Inflaters /\ z.zalloc = zz.zalloc
  BY <1>6 DEF Inflaters
<1>9. /\ Inflate(zz, room).z = z
      /\ Inflate(zz, room).bytes = SubSeq(out, 1, Smaller(room, Len(out)))
  BY DEF Inflate, InflateWith, Inflation, used, out
<1> HIDE DEF z
<1> QED
  BY <1>7, <1>8, <1>9

(* How a call ends keeps the types. *)
LEMMA ReturnTyped ==
  ASSUME TypesInv, NEW bytes \in Seq(PlainBytes), NEW n \in Nat, NEW ec \in Ecs,
         Return(bytes, n, ec)
  PROVE  call' \in Calls /\ user' \in Users /\ user'.r = user.r
<1>1. user \in Users
  BY DEF TypesInv
<1>2. user.delivered \o bytes \in Seq(PlainBytes) /\ user.reported + n \in Nat
  BY <1>1 DEF Users
<1>3. (ec # "none" \/ n = 0) \in BOOLEAN
  OBVIOUS
<1>4. user' = [user EXCEPT
       !.delivered = @ \o bytes,
       !.reported = IF ec \in {"none", "eof"} THEN @ + n ELSE @,
       !.ended = ec # "none" \/ n = 0,
       !.ec = ec]
  BY DEF Return
<1> DEFINE b == user.delivered \o bytes
<1> HIDE DEF b
<1>5. user' \in Users /\ user'.r = user.r
  BY <1>1, <1>2, <1>3, <1>4 DEF Users, b
<1>6. call' = Idle /\ Idle \in Calls
  <2>1. << >> \in Seq(Token)
    OBVIOUS
  <2> QED
    BY <2>1 DEF Return, Idle, Calls, Pcs
<1> QED
  BY <1>5, <1>6

(* A step to another place keeps the types. *)
LEMMA GotoTyped ==
  ASSUME TypesInv, NEW pc \in Pcs, NEW got \in Seq(Token), Goto(pc, got),
         pc \in {"crlf", "async_crlf"} => Len(got) <= 1
  PROVE  call' \in Calls /\ user' \in Users /\ user'.r = user.r
  BY DEF TypesInv, Goto, Calls

(* So does a read through the inflater. *)
LEMMA InflateIntoTyped ==
  ASSUME TypesInv, NEW zz \in Inflaters, NEW ec \in {"none", "eof"},
         NEW again \in {"read_some", "async_read_some"}, InflateInto(zz, ec, again)
  PROVE  m_stream' \in Inflaters /\ call' \in Calls /\ user' \in Users /\ user'.r = user.r
<1> DEFINE f == Inflate(zz, call.room)
<1>1. call.room \in Nat
  BY DEF TypesInv, Calls
<1>2. f.z \in Inflaters /\ f.bytes \in Seq(PlainBytes)
  BY <1>1, InflateTyped
<1>3. InflatedTo(f, ec, again)
  BY DEF InflateInto
<1> HIDE DEF f
<1>4. m_stream' = f.z
  BY <1>3 DEF InflatedTo
<1>5. << >> \in Seq(PlainBytes) /\ << >> \in Seq(Token) /\ Len(f.bytes) \in Nat
  BY <1>2
<1>6. CASE Return(<< >>, 0, "operation_not_supported")
  <2>1. 0 \in Nat /\ "operation_not_supported" \in Ecs
    BY DEF Ecs
  <2> QED
    BY <1>2, <1>4, <1>5, <1>6, <2>1, ReturnTyped
<1>7. CASE Goto(again, << >>)
  <2>1. again \in Pcs /\ again \notin {"crlf", "async_crlf"}
    BY DEF Pcs
  <2> QED
    BY <1>2, <1>4, <1>5, <1>7, <2>1, GotoTyped
<1>8. ASSUME NEW c \in {"none", "eof"}, Return(f.bytes, Len(f.bytes), c)
      PROVE  call' \in Calls /\ user' \in Users /\ user'.r = user.r
  <2>1. c \in Ecs
    BY DEF Ecs
  <2> QED
    BY <1>2, <1>5, <1>8, <2>1, ReturnTyped
<1>9. \/ Return(<< >>, 0, "operation_not_supported") \/ Goto(again, << >>)
      \/ \E c \in {"none", "eof"} : Return(f.bytes, Len(f.bytes), c)
  BY <1>3 DEF InflatedTo
<1> QED
  BY <1>2, <1>4, <1>6, <1>7, <1>8, <1>9

(* So does a size that was read. *)
LEMMA SizeReadTyped ==
  ASSUME TypesInv, NEW n \in Nat, NEW chunk \in {"chunk", "async_chunk"}, SizeRead(n, chunk)
  PROVE  /\ m' \in Members /\ m_stream' \in Inflaters
         /\ call' \in Calls /\ user' \in Users /\ user'.r = user.r
<1>1. m \in Members /\ m_stream \in Inflaters
  BY DEF TypesInv
<1>2. m' \in Members
  BY <1>1 DEF SizeRead, Members
<1>3. m_stream' \in Inflaters
  BY <1>1 DEF SizeRead, Inflaters
<1>4. << >> \in Seq(PlainBytes) /\ << >> \in Seq(Token) /\ 0 \in Nat
  OBVIOUS
<1>5. EndOfBody \in Ecs /\ chunk \in Pcs /\ chunk \notin {"crlf", "async_crlf"}
  BY DEF EndOfBody, Ecs, Pcs
<1>6. Return(<< >>, 0, EndOfBody) \/ Goto(chunk, << >>)
  BY DEF SizeRead
<1>7. CASE Return(<< >>, 0, EndOfBody)
  BY <1>2, <1>3, <1>4, <1>5, <1>7, ReturnTyped
<1>8. CASE Goto(chunk, << >>)
  BY <1>2, <1>3, <1>4, <1>5, <1>8, GotoTyped
<1> QED
  BY <1>6, <1>7, <1>8

(* The size on a size line is a number. *)
LEMMA SizeOfTyped ==
  ASSUME NEW line \in Seq(Token), HasLine(line)
  PROVE  SizeOf(line) \in Nat
<1>1. Len(line) >= 1 /\ line[1] \in Token
  BY DEF HasLine
<1> DEFINE t == line[1]
<1> HIDE DEF t
<1>2. t \in Token /\ t.kind = "size" => t.n \in Nat
  BY <1>1 DEF Token, CR, LF, Size, Unit, t
<1> QED
  BY <1>1, <1>2 DEF SizeOf, t

(* What async_read_until gets, and that it ends well only with a line. *)
LEMMA LineTyped ==
  ASSUME m_response \in Seq(Token), socket \in Sockets, NEW rd \in ReadUntilLine
  PROVE  /\ rd.response \in Seq(Token) /\ rd.rest \in Seq(Token)
         /\ rd.ec \in {"none", "eof"} /\ (rd.ec = "none" => HasLine(rd.response))
<1> DEFINE q == m_response
           t == socket.rest
<1>1. q \in Seq(Token) /\ t \in Seq(Token)
  BY DEF Sockets
<1>2. CASE HasLine(q) /\ rd = Got(<< >>, q, t, "none")
  BY <1>1, <1>2 DEF Got
<1>3. CASE rd = Got(<< >>, q \o t, << >>, "eof")
  <2>1. q \o t \in Seq(Token) /\ << >> \in Seq(Token)
    BY <1>1
  <2> DEFINE x == q \o t
  <2> HIDE DEF x
  <2> QED
    BY <1>3, <2>1 DEF Got, x
<1>4. ASSUME NEW n \in {k \in 1 .. Len(t) : HasLine(q \o SubSeq(t, 1, k))},
             rd = Got(<< >>, q \o SubSeq(t, 1, n), Drop(t, n), "none")
      PROVE  /\ rd.response \in Seq(Token) /\ rd.rest \in Seq(Token)
             /\ rd.ec \in {"none", "eof"} /\ (rd.ec = "none" => HasLine(rd.response))
  <2>1. n \in Nat /\ n <= Len(t) /\ HasLine(q \o SubSeq(t, 1, n))
    BY <1>1
  <2> HIDE DEF t
  <2>2. SubSeq(t, 1, n) \in Seq(Token) /\ Drop(t, n) \in Seq(Token)
    BY <1>1, <2>1 DEF Drop
  <2> DEFINE x == q \o SubSeq(t, 1, n)
  <2>3. x \in Seq(Token) /\ HasLine(x)
    BY <1>1, <2>1, <2>2
  <2> HIDE DEF x
  <2> QED
    BY <1>4, <2>2, <2>3 DEF Got, x
<1> HIDE DEF q, t
<1> QED
  BY <1>2, <1>3, <1>4 DEF ReadUntilLine, q, t

(* Types are kept when each variable has its type and the response is the  *)
(* same.                                                                   *)
LEMMA TypesKept ==
  ASSUME TypesInv, exchange' = exchange, m_response' \in Seq(Token), m' \in Members,
         m_stream' \in Inflaters, socket' \in Sockets, call' \in Calls, user' \in Users,
         user'.r = user.r
  PROVE  TypesInv'
  BY DEF TypesInv

(* What a read leaves has the types of the connection. *)
LEMMA TakeTyped ==
  ASSUME TypesInv, NEW rd, rd.response \in Seq(Token), rd.rest \in Seq(Token), Take(rd)
  PROVE  m_response' \in Seq(Token) /\ socket' \in Sockets
  BY DEF TypesInv, Take, Sockets

(* The steps of read_some that parse the framing, and the calls. *)
LEMMA ParseTypes ==
  ASSUME TypesInv, StartChunk \/ SkipCrlf \/ ReadSize \/ AsyncReadHeld \/ CallRead
  PROVE  TypesInv'
<1>0. /\ m_response \in Seq(Token) /\ m \in Members /\ m_stream \in Inflaters
      /\ socket \in Sockets /\ call \in Calls
      /\ << >> \in Seq(Token) /\ << >> \in Seq(PlainBytes) /\ 0 \in Nat /\ 2 \in Nat
  BY DEF TypesInv
<1>1. call.got \in Seq(Token)
  BY <1>0 DEF Calls
<1>2. CASE StartChunk
  <2>1. PICK pc \in {"size", "crlf"} : Goto(pc, << >>)
    BY <1>2 DEF StartChunk
  <2>2. pc \in Pcs /\ Len(<< >>) <= 1
    BY DEF Pcs
  <2>3. call' \in Calls /\ user' \in Users /\ user'.r = user.r
    BY <1>0, <2>1, <2>2, GotoTyped
  <2> QED
    BY <1>0, <1>2, <2>3, TypesKept DEF StartChunk
<1>3. CASE SkipCrlf
  <2>0. call.pc = "crlf"
    BY <1>3 DEF SkipCrlf, At
  <2>1. PICK rd \in ReadSomeImpl(2 - Len(call.got)) :
         /\ Take(rd)
         /\ IF rd.ec # "none" THEN Return(<< >>, 0, rd.ec)
            ELSE IF Len(call.got \o rd.tokens) < 2 THEN Goto("crlf", call.got \o rd.tokens)
            ELSE CrlfRead(call.got \o rd.tokens, "size")
    BY <1>3 DEF SkipCrlf
  <2>2. 2 - Len(call.got) \in Nat
    BY <1>0, <1>1, <2>0 DEF Calls
  <2>3. /\ rd.tokens \in Seq(Token) /\ rd.response \in Seq(Token) /\ rd.rest \in Seq(Token)
        /\ rd.ec \in {"none", "eof"}
    BY <1>0, <2>2, GotTyped
  <2>4. m_response' \in Seq(Token) /\ socket' \in Sockets
    BY <2>1, <2>3, TakeTyped
  <2> DEFINE g == call.got \o rd.tokens
  <2>5. g \in Seq(Token)
    BY <1>1, <2>3
  <2> HIDE DEF g
  <2>6. \/ \E ec \in Ecs, n \in {0, 2} : Return(<< >>, n, ec)
        \/ \E pc \in {"crlf", "size"} : Goto(pc, g) /\ Len(g) < 2
        \/ Goto("size", << >>)
    <3>1. rd.ec \in Ecs /\ EndOfBody \in Ecs /\ "invalid_chunked_encoding" \in Ecs
      BY <2>3 DEF Ecs, EndOfBody
    <3> QED
      BY <2>1, <3>1 DEF CrlfRead, g
  <2>7. call' \in Calls /\ user' \in Users /\ user'.r = user.r
    <3>1. CASE \E ec \in Ecs, n \in {0, 2} : Return(<< >>, n, ec)
      BY <1>0, <3>1, ReturnTyped
    <3>2. CASE \E pc \in {"crlf", "size"} : Goto(pc, g) /\ Len(g) < 2
      <4>1. Len(g) < 2 => Len(g) <= 1
        BY <2>5
      <4> QED
        BY <2>5, <3>2, <4>1, GotoTyped DEF Pcs
    <3>3. CASE Goto("size", << >>)
      BY <1>0, <3>3, GotoTyped DEF Pcs
    <3> QED
      BY <2>6, <3>1, <3>2, <3>3
  <2> QED
    BY <1>0, <1>3, <2>4, <2>7, TypesKept DEF SkipCrlf
<1>4. CASE ReadSize
  <2>1. PICK rd \in ReadSomeImpl(1) :
         /\ Take(rd)
         /\ IF rd.ec # "none" THEN Return(<< >>, 0, rd.ec) /\ UNCHANGED <<m, m_stream>>
            ELSE IF ~HasLine(call.got \o rd.tokens)
            THEN Goto("size", call.got \o rd.tokens) /\ UNCHANGED <<m, m_stream>>
            ELSE SizeRead(SizeOf(call.got \o rd.tokens), "chunk")
    BY <1>4 DEF ReadSize
  <2>3. /\ rd.tokens \in Seq(Token) /\ rd.response \in Seq(Token) /\ rd.rest \in Seq(Token)
        /\ rd.ec \in {"none", "eof"}
    BY <1>0, 1 \in Nat, GotTyped
  <2>4. m_response' \in Seq(Token) /\ socket' \in Sockets
    BY <2>1, <2>3, TakeTyped
  <2> DEFINE g == call.got \o rd.tokens
  <2>5. g \in Seq(Token)
    BY <1>1, <2>3
  <2> HIDE DEF g
  <2>6. CASE rd.ec # "none"
    <3>1. rd.ec \in Ecs
      BY <2>3 DEF Ecs
    <3>2. Return(<< >>, 0, rd.ec) /\ m' = m /\ m_stream' = m_stream
      BY <2>1, <2>6
    <3>3. call' \in Calls /\ user' \in Users /\ user'.r = user.r
      BY <1>0, <3>1, <3>2, ReturnTyped
    <3> QED
      BY <1>0, <1>4, <2>4, <3>2, <3>3, TypesKept DEF ReadSize
  <2>7. CASE rd.ec = "none" /\ ~HasLine(g)
    <3>2. Goto("size", g) /\ m' = m /\ m_stream' = m_stream
      BY <2>1, <2>7 DEF g
    <3>3. call' \in Calls /\ user' \in Users /\ user'.r = user.r
      BY <2>5, <3>2, GotoTyped DEF Pcs
    <3> QED
      BY <1>0, <1>4, <2>4, <3>2, <3>3, TypesKept DEF ReadSize
  <2>8. CASE rd.ec = "none" /\ HasLine(g)
    <3>1. SizeRead(SizeOf(g), "chunk")
      BY <2>1, <2>8 DEF g
    <3>2. SizeOf(g) \in Nat
      BY <2>5, <2>8, SizeOfTyped
    <3> QED
      BY <1>4, <2>4, <3>1, <3>2, SizeReadTyped, TypesKept DEF ReadSize
  <2> QED
    BY <2>6, <2>7, <2>8
<1>5. CASE AsyncReadHeld
  <2>1. Goto("read_some", << >>)
    BY <1>5 DEF AsyncReadHeld
  <2>2. call' \in Calls /\ user' \in Users /\ user'.r = user.r
    BY <1>0, <2>1, GotoTyped DEF Pcs
  <2> QED
    BY <1>0, <1>5, <2>2, TypesKept DEF AsyncReadHeld
<1>6. CASE CallRead
  <2>1. PICK pc \in {"read_some", "async_read_some"}, room \in BufferSizes :
          call' = [pc |-> pc, room |-> room, got |-> << >>]
    BY <1>6 DEF CallRead
  <2>2. call' \in Calls
    <3>1. room \in Nat /\ pc \in Pcs
      BY BufferSizesAssumption DEF Pcs
    <3> QED
      BY <1>0, <2>1, <3>1 DEF Calls
  <2> QED
    BY <1>0, <1>6, <2>2, TypesKept DEF CallRead, TypesInv
<1> QED
  BY <1>2, <1>3, <1>4, <1>5, <1>6

(* The smaller of two numbers. *)
LEMMA SmallerTyped ==
  ASSUME NEW a \in Nat, NEW b \in Nat
  PROVE  Smaller(a, b) \in Nat /\ Smaller(a, b) <= a /\ Smaller(a, b) <= b
  BY DEF Smaller

(* A read of the body hands over what it read, or inflates it. *)
LEMMA HandOverTyped ==
  ASSUME TypesInv, NEW tokens \in Seq(Token), NEW ec \in {"none", "eof"},
         NEW zz \in Inflaters, NEW again \in {"read_some", "async_read_some"},
         \/ InflateInto(zz, ec, again)
         \/ Return(Plain(tokens), Len(tokens), ec) /\ UNCHANGED m_stream
  PROVE  m_stream' \in Inflaters /\ call' \in Calls /\ user' \in Users /\ user'.r = user.r
<1>1. CASE InflateInto(zz, ec, again)
  BY <1>1, InflateIntoTyped
<1>2. CASE Return(Plain(tokens), Len(tokens), ec) /\ UNCHANGED m_stream
  <2>1. Plain(tokens) \in Seq(PlainBytes) /\ Len(tokens) \in Nat /\ ec \in Ecs
    BY PlainTyped DEF Ecs
  <2>2. m_stream' \in Inflaters
    BY <1>2 DEF TypesInv
  <2> QED
    BY <1>2, <2>1, <2>2, ReturnTyped
<1> QED
  BY <1>1, <1>2

(* An inflater with new or with more input. *)
LEMMA RefillTyped ==
  ASSUME NEW zz \in Inflaters, NEW tokens \in Seq(Token)
  PROVE  [zz EXCEPT !.in = tokens] \in Inflaters /\ [zz EXCEPT !.in = @ \o tokens] \in Inflaters
<1>1. zz.in \o tokens \in Seq(Token)
  BY DEF Inflaters
<1> DEFINE x == zz.in \o tokens
<1>2. x \in Seq(Token)
  BY <1>1
<1> HIDE DEF x
<1>3. [zz EXCEPT !.in = x] \in Inflaters /\ [zz EXCEPT !.in = tokens] \in Inflaters
  BY <1>2 DEF Inflaters
<1>4. [zz EXCEPT !.in = @ \o tokens] = [zz EXCEPT !.in = x]
  BY DEF x
<1> QED
  BY <1>3, <1>4

(* ReadChunk and ReadPlain keep the types. *)
LEMMA ReadTypes ==
  ASSUME TypesInv, ReadChunk \/ ReadPlain
  PROVE  TypesInv'
<1>0. /\ m_response \in Seq(Token) /\ m \in Members /\ m_stream \in Inflaters
      /\ socket \in Sockets /\ call \in Calls
      /\ << >> \in Seq(Token) /\ << >> \in Seq(PlainBytes) /\ 0 \in Nat
  BY DEF TypesInv
<1>1. call.room \in Nat /\ m.chunked_size \in Nat /\ ZlibBuffer \in Nat /\ m.body_size \in Nat
  BY <1>0 DEF Calls, Members, ZlibBuffer
<1> DEFINE max == IF m.is_gzip THEN Smaller(m.chunked_size, ZlibBuffer)
                  ELSE Smaller(m.chunked_size, call.room)
           max2 == IF m.is_gzip THEN ZlibBuffer ELSE call.room
<1>2. max \in Nat /\ max <= m.chunked_size /\ max2 \in Nat
  BY <1>1, SmallerTyped
<1> HIDE DEF max, max2
<1>3. CASE InflateInto(m_stream, "none", "read_some") /\ UNCHANGED <<m, m_response, socket, exchange>>
  <2>1. m_stream' \in Inflaters /\ call' \in Calls /\ user' \in Users /\ user'.r = user.r
    BY <1>0, <1>3, InflateIntoTyped
  <2> QED
    BY <1>0, <1>3, <2>1, TypesKept
<1>4. CASE Return(<< >>, 0, "none") /\ UNCHANGED <<m, m_stream, m_response, socket, exchange>>
  <2>1. call' \in Calls /\ user' \in Users /\ user'.r = user.r
    BY <1>0, <1>4, ReturnTyped DEF Ecs
  <2> QED
    BY <1>0, <1>4, <2>1, TypesKept
<1>5. ASSUME NEW b \in {max, max2}, NEW rd \in ReadSomeImpl(b), Take(rd), exchange' = exchange,
             m' \in Members,
             IF m.is_gzip
             THEN InflateInto([m_stream EXCEPT !.in = rd.tokens], rd.ec, "read_some")
             ELSE Return(Plain(rd.tokens), Len(rd.tokens), rd.ec) /\ UNCHANGED m_stream
      PROVE  TypesInv'
  <2>1. /\ rd.tokens \in Seq(Token) /\ rd.response \in Seq(Token) /\ rd.rest \in Seq(Token)
        /\ rd.ec \in {"none", "eof"}
    BY <1>0, <1>2, <1>5, GotTyped
  <2>2. m_response' \in Seq(Token) /\ socket' \in Sockets
    BY <1>5, <2>1, TakeTyped
  <2> DEFINE zz == [m_stream EXCEPT !.in = rd.tokens]
  <2>3. zz \in Inflaters
    BY <1>0, <2>1, RefillTyped
  <2>4. \/ InflateInto(zz, rd.ec, "read_some")
        \/ Return(Plain(rd.tokens), Len(rd.tokens), rd.ec) /\ UNCHANGED m_stream
    BY <1>5
  <2> HIDE DEF zz
  <2>5. m_stream' \in Inflaters /\ call' \in Calls /\ user' \in Users /\ user'.r = user.r
    BY <2>1, <2>3, <2>4, HandOverTyped
  <2> QED
    BY <1>5, <2>2, <2>5, TypesKept
<1>6. CASE ReadChunk
  <2>1. CASE m_stream.in # << >>
    BY <1>3, <1>6, <2>1 DEF ReadChunk
  <2>2. CASE m_stream.in = << >>
    <3>1. PICK rd \in ReadSomeImpl(max) :
            /\ Take(rd)
            /\ m' = [m EXCEPT !.chunked_size = @ - Len(rd.tokens)]
            /\ IF m.is_gzip
               THEN InflateInto([m_stream EXCEPT !.in = rd.tokens], rd.ec, "read_some")
               ELSE Return(Plain(rd.tokens), Len(rd.tokens), rd.ec) /\ UNCHANGED m_stream
      BY <1>6, <2>2 DEF ReadChunk, max
    <3>2. Len(rd.tokens) \in 0 .. max
      BY <1>0, <1>2, GotTyped
    <3>3. m.chunked_size - Len(rd.tokens) \in Nat
      BY <1>1, <1>2, <3>2
    <3>4. m' \in Members
      BY <1>0, <3>1, <3>3 DEF Members
    <3> QED
      BY <1>5, <1>6, <3>1, <3>4 DEF ReadChunk
  <2> QED
    BY <2>1, <2>2
<1>7. CASE ReadPlain
  <2>1. CASE m.is_gzip /\ m_stream.in # << >>
    BY <1>3, <1>7, <2>1 DEF ReadPlain
  <2>2. CASE ~(m.is_gzip /\ m_stream.in # << >>) /\ BodyIsRead
    BY <1>4, <1>7, <2>2 DEF ReadPlain
  <2>3. CASE ~(m.is_gzip /\ m_stream.in # << >>) /\ ~BodyIsRead
    <3>1. PICK rd \in ReadSomeImpl(max2) :
            /\ Take(rd)
            /\ m' = [m EXCEPT !.body_size = @ + Len(rd.tokens)]
            /\ IF m.is_gzip
               THEN InflateInto([m_stream EXCEPT !.in = rd.tokens], rd.ec, "read_some")
               ELSE Return(Plain(rd.tokens), Len(rd.tokens), rd.ec) /\ UNCHANGED m_stream
      BY <1>7, <2>3 DEF ReadPlain, max2
    <3>2. Len(rd.tokens) \in 0 .. max2
      BY <1>0, <1>2, GotTyped
    <3>3. m.body_size + Len(rd.tokens) \in Nat
      BY <1>1, <1>2, <3>2
    <3>4. m' \in Members
      BY <1>0, <3>1, <3>3 DEF Members
    <3> QED
      BY <1>5, <1>7, <3>1, <3>4 DEF ReadPlain
  <2> QED
    BY <2>1, <2>2, <2>3
<1> QED
  BY <1>6, <1>7

(* What is left of a sequence. *)
LEMMA DropTyped ==
  ASSUME NEW X, NEW s \in Seq(X), NEW n \in Nat
  PROVE  Drop(s, n) \in Seq(X)
  BY DEF Drop

(* Where there is a line there is an end of it. *)
LEMMA LineEndTyped ==
  ASSUME NEW s \in Seq(Token), HasLine(s)
  PROVE  LineEnd(s) \in Nat
<1> DEFINE n == Len(s)
           H(i) == HasLine(SubSeq(s, 1, i))
           P(i) == H(i) /\ ~H(i - 1)
           G == {i \in 0 .. n : ~H(i)}
<1>1. n \in Nat
  OBVIOUS
<1>2. H(n)
  <2>1. SubSeq(s, 1, n) = s
    OBVIOUS
  <2> QED
    BY <2>1
<1>3. ~H(0)
  <2>1. Len(SubSeq(s, 1, 0)) = 0
    OBVIOUS
  <2> QED
    BY <2>1 DEF HasLine
<1>4. n >= 1 => ~H(1)
  <2>1. n >= 1 => Len(SubSeq(s, 1, 1)) = 1
    OBVIOUS
  <2> QED
    BY <2>1 DEF HasLine
<1> HIDE DEF n, H
<1>5. \E i \in 2 .. n : P(i)
  <2>1. SUFFICES ASSUME \A i \in 2 .. n : ~P(i)
                 PROVE  FALSE
    OBVIOUS
  <2>2. 0 \in G
    BY <1>1, <1>3
  <2>3. ASSUME NEW i \in 0 .. n - 1, i \in G
        PROVE  i + 1 \in G
    <3>1. i + 1 \in 0 .. n /\ (i + 1) - 1 = i /\ ~H(i)
      BY <1>1, <2>3
    <3>2. CASE i = 0
      <4>1. n >= 1 /\ i + 1 = 1
        BY <1>1, <3>2
      <4> QED
        BY <1>4, <3>1, <4>1
    <3>3. CASE i # 0
      <4>1. i + 1 \in 2 .. n
        BY <1>1, <3>3
      <4>2. ~P(i + 1)
        BY <2>1, <4>1
      <4> QED
        BY <3>1, <4>2
    <3> QED
      BY <3>2, <3>3
  <2> HIDE DEF G
  <2>4. \A i \in 0 .. n : i \in G
    BY <1>1, <2>2, <2>3, UpTo
  <2>5. n \in 0 .. n
    BY <1>1
  <2> QED
    BY <1>2, <2>4, <2>5 DEF G
<1>6. LineEnd(s) = CHOOSE i \in 2 .. n : P(i)
  BY DEF LineEnd, n, H
<1> HIDE DEF P
<1>7. (CHOOSE i \in 2 .. n : P(i)) \in 2 .. n
  BY <1>5
<1> QED
  BY <1>1, <1>6, <1>7

(* async_read_some and its handlers, as far as they parse the framing. *)
LEMMA AsyncParseTypes ==
  ASSUME TypesInv, AsyncStartChunk \/ HandleSkipCrlf \/ HandleChunkedSize
  PROVE  TypesInv'
<1>0. /\ m_response \in Seq(Token) /\ m \in Members /\ m_stream \in Inflaters
      /\ socket \in Sockets /\ call \in Calls
      /\ << >> \in Seq(Token) /\ << >> \in Seq(PlainBytes) /\ 0 \in Nat /\ 2 \in Nat
  BY DEF TypesInv
<1>1. call.got \in Seq(Token) /\ socket.rest \in Seq(Token)
  BY <1>0 DEF Calls, Sockets
<1>2. EndOfBody \in Ecs /\ "invalid_chunked_encoding" \in Ecs
  BY DEF Ecs, EndOfBody
<1>3. CASE AsyncStartChunk
  <2>1. m_response' = m_response \/ m_response' = Drop(m_response, 2)
    BY <1>3 DEF AsyncStartChunk
  <2>2. m_response' \in Seq(Token)
    BY <1>0, <2>1, DropTyped
  <2>3. \/ Goto("async_size", << >>)
        \/ Len(m_response) < 2 /\ Goto("async_crlf", m_response)
        \/ \E ec \in Ecs, n \in {0, 2} : Return(<< >>, n, ec)
    BY <1>2, <1>3 DEF AsyncStartChunk, CrlfRead
  <2>4. call' \in Calls /\ user' \in Users /\ user'.r = user.r
    <3>1. CASE Goto("async_size", << >>)
      BY <1>0, <3>1, GotoTyped DEF Pcs
    <3>2. CASE Len(m_response) < 2 /\ Goto("async_crlf", m_response)
      <4>1. Len(m_response) <= 1
        BY <1>0, <3>2
      <4> QED
        BY <1>0, <3>2, <4>1, GotoTyped DEF Pcs
    <3>3. CASE \E ec \in Ecs, n \in {0, 2} : Return(<< >>, n, ec)
      BY <1>0, <3>3, ReturnTyped
    <3> QED
      BY <2>3, <3>1, <3>2, <3>3
  <2> QED
    BY <1>0, <1>3, <2>2, <2>4, TypesKept DEF AsyncStartChunk
<1>4. CASE HandleSkipCrlf
  <2>0. call.pc = "async_crlf"
    BY <1>4 DEF HandleSkipCrlf, At
  <2>1. PICK rd \in SocketRead(2 - Len(call.got)) :
       /\ Take(rd)
       /\ IF rd.ec # "none" THEN Return(<< >>, 0, rd.ec)
          ELSE IF m.is_chunked_end THEN Return(<< >>, Len(rd.tokens), EndOfBody)
          ELSE IF call.got \o rd.tokens # <<CR, LF>>
          THEN Return(<< >>, Len(rd.tokens), "invalid_chunked_encoding")
          ELSE Goto("async_size", << >>)
    BY <1>4 DEF HandleSkipCrlf
  <2>2. 2 - Len(call.got) \in Nat
    BY <1>0, <1>1, <2>0 DEF Calls
  <2>3. /\ rd.tokens \in Seq(Token) /\ rd.response \in Seq(Token) /\ rd.rest \in Seq(Token)
        /\ rd.ec \in {"none", "eof"}
    BY <1>0, <2>2, GotTyped
  <2>4. m_response' \in Seq(Token) /\ socket' \in Sockets
    BY <2>1, <2>3, TakeTyped
  <2>5. Len(rd.tokens) \in Nat /\ rd.ec \in Ecs
    BY <2>3 DEF Ecs
  <2>6. \/ \E ec \in Ecs, n \in {0, Len(rd.tokens)} : Return(<< >>, n, ec)
        \/ Goto("async_size", << >>)
    BY <1>2, <2>1, <2>5
  <2>7. call' \in Calls /\ user' \in Users /\ user'.r = user.r
    <3>1. CASE \E ec \in Ecs, n \in {0, Len(rd.tokens)} : Return(<< >>, n, ec)
      BY <1>0, <2>5, <3>1, ReturnTyped
    <3>2. CASE Goto("async_size", << >>)
      BY <1>0, <3>2, GotoTyped DEF Pcs
    <3> QED
      BY <2>6, <3>1, <3>2
  <2> QED
    BY <1>0, <1>4, <2>4, <2>7, TypesKept DEF HandleSkipCrlf
<1>5. CASE HandleChunkedSize
  <2>1. PICK rd \in ReadUntilLine :
       /\ socket' = [socket EXCEPT !.rest = rd.rest]
       /\ IF rd.ec # "none"
          THEN /\ m_response' = rd.response
               /\ Return(<< >>, 0, rd.ec) /\ UNCHANGED <<m, m_stream>>
          ELSE /\ m_response' = Drop(rd.response, LineEnd(rd.response))
               /\ SizeRead(SizeOf(rd.response), "async_chunk")
    BY <1>5 DEF HandleChunkedSize
  <2>2. /\ rd.response \in Seq(Token) /\ rd.rest \in Seq(Token)
        /\ rd.ec \in {"none", "eof"} /\ (rd.ec = "none" => HasLine(rd.response))
    BY <1>0, LineTyped
  <2>3. socket' \in Sockets
    BY <1>0, <2>1, <2>2 DEF Sockets
  <2>4. CASE rd.ec # "none"
    <3>1. call' \in Calls /\ user' \in Users /\ user'.r = user.r
      BY <1>0, <2>1, <2>2, <2>4, ReturnTyped DEF Ecs
    <3>2. m_response' \in Seq(Token) /\ m' \in Members /\ m_stream' \in Inflaters
      BY <1>0, <2>1, <2>2, <2>4
    <3> QED
      BY <1>5, <2>3, <3>1, <3>2, TypesKept DEF HandleChunkedSize
  <2>5. CASE rd.ec = "none"
    <3>1. SizeOf(rd.response) \in Nat
      BY <2>2, <2>5, SizeOfTyped
    <3>2. SizeRead(SizeOf(rd.response), "async_chunk")
          /\ m_response' = Drop(rd.response, LineEnd(rd.response))
      BY <2>1, <2>5
    <3>3. LineEnd(rd.response) \in Nat
      BY <2>2, <2>5, LineEndTyped
    <3>4. m_response' \in Seq(Token)
      BY <2>2, <3>2, <3>3, DropTyped
    <3> QED
      BY <1>5, <2>3, <3>1, <3>2, <3>4, SizeReadTyped, TypesKept DEF HandleChunkedSize
  <2> QED
    BY <2>4, <2>5
<1> QED
  BY <1>3, <1>4, <1>5

(* handle_async_read and handle_read. *)
LEMMA AsyncReadTypes ==
  ASSUME TypesInv, HandleAsyncRead \/ HandleRead
  PROVE  TypesInv'
<1>0. /\ m_response \in Seq(Token) /\ m \in Members /\ m_stream \in Inflaters
      /\ socket \in Sockets /\ call \in Calls
      /\ << >> \in Seq(Token) /\ << >> \in Seq(PlainBytes) /\ 0 \in Nat
  BY DEF TypesInv
<1>1. call.room \in Nat /\ m.chunked_size \in Nat /\ ZlibBuffer \in Nat /\ m.body_size \in Nat
      /\ m.content_length \in Nat \cup {-1}
  BY <1>0 DEF Calls, Members, ZlibBuffer
<1>2. AsyncChunkRoom \in Nat /\ AsyncPlainRoom \in Nat
  <2>1. AsyncChunkRoom \in Nat
    BY <1>1, SmallerTyped DEF AsyncChunkRoom
  <2> DEFINE b == IF m.content_length = -1 THEN ZlibBuffer ELSE m.content_length
  <2>2. b \in Nat
    BY <1>1
  <2>3. AsyncPlainRoom = Smaller(call.room, b)
    BY DEF AsyncPlainRoom
  <2> HIDE DEF b
  <2> QED
    BY <1>1, <2>1, <2>2, <2>3, SmallerTyped
<1>3. CASE HandleAsyncRead
  <2> DEFINE n == IF ~m.is_gzip THEN Smaller(m.chunked_size, call.room)
                  ELSE IF m_stream.in = << >> THEN Smaller(m.chunked_size, ZlibBuffer) ELSE 0
  <2> DEFINE x == Smaller(m.chunked_size, call.room)
             y == Smaller(m.chunked_size, ZlibBuffer)
  <2>9. x \in Nat /\ x <= m.chunked_size /\ y \in Nat /\ y <= m.chunked_size
    BY <1>1, SmallerTyped
  <2>10. n = x \/ n = y \/ n = 0
    OBVIOUS
  <2>0. n \in Nat /\ n <= m.chunked_size
    <3> HIDE DEF x, y, n
    <3> QED
      BY <1>1, <2>9, <2>10
  <2>1. PICK rd \in SocketRead(AsyncChunkRoom) :
       /\ socket' = [socket EXCEPT !.rest = rd.rest]
       /\ IF rd.ec # "none"
          THEN Return(<< >>, 0, rd.ec) /\ UNCHANGED <<m, m_stream, m_response>>
          ELSE TakeChunk(m_response \o rd.tokens, n)
    BY <1>3 DEF HandleAsyncRead
  <2> HIDE DEF n
  <2>2. rd.tokens \in Seq(Token) /\ rd.rest \in Seq(Token) /\ rd.ec \in {"none", "eof"}
    BY <1>0, <1>2, GotTyped
  <2>3. socket' \in Sockets
    BY <1>0, <2>1, <2>2 DEF Sockets
  <2>4. CASE rd.ec # "none"
    <3>1. call' \in Calls /\ user' \in Users /\ user'.r = user.r
      BY <1>0, <2>1, <2>2, <2>4, ReturnTyped DEF Ecs
    <3> QED
      BY <1>0, <1>3, <2>1, <2>3, <2>4, <3>1, TypesKept DEF HandleAsyncRead
  <2>5. CASE rd.ec = "none"
    <3> DEFINE rp == m_response \o rd.tokens
               k == Smaller(n, Len(rp))
               t == SubSeq(rp, 1, k)
    <3>1. rp \in Seq(Token)
      BY <1>0, <2>2
    <3>2. TakeChunk(rp, n)
      BY <2>1, <2>5
    <3> HIDE DEF rp
    <3>12. Len(rp) \in Nat
      BY <3>1
    <3>3. k \in Nat /\ k <= n /\ k <= Len(rp)
      BY <2>0, <3>12, SmallerTyped
    <3>4. /\ m_response' = Drop(rp, n)
          /\ m' = [m EXCEPT !.chunked_size = @ - k]
          /\ IF m.is_gzip
             THEN InflateInto([m_stream EXCEPT !.in = @ \o t], "none", "async_read_some")
             ELSE Return(Plain(t), k, "none") /\ UNCHANGED m_stream
      BY <3>2 DEF TakeChunk
    <3> HIDE DEF k
    <3>5. t \in Seq(Token) /\ Len(t) = k
      BY <3>1, <3>3
    <3> DEFINE zz == [m_stream EXCEPT !.in = @ \o t]
    <3>6. zz \in Inflaters
      BY <1>0, <3>5, RefillTyped
    <3>7. m.chunked_size - k \in Nat
      BY <1>1, <2>0, <3>3
    <3>8. m' \in Members
      BY <1>0, <3>4, <3>7 DEF Members
    <3>9. \/ InflateInto(zz, "none", "async_read_some")
          \/ Return(Plain(t), Len(t), "none") /\ UNCHANGED m_stream
      BY <3>4, <3>5
    <3> HIDE DEF zz, t
    <3>10. m_stream' \in Inflaters /\ call' \in Calls /\ user' \in Users /\ user'.r = user.r
      BY <3>5, <3>6, <3>9, HandOverTyped
    <3>11. m_response' \in Seq(Token)
      BY <2>0, <3>1, <3>4, DropTyped
    <3> QED
      BY <1>3, <2>3, <3>8, <3>10, <3>11, TypesKept DEF HandleAsyncRead
  <2> QED
    BY <2>4, <2>5, <2>2
<1>4. CASE HandleRead
  <2>1. CASE ~m.is_gzip /\ BodyIsRead
    <3>1. Return(<< >>, 0, "none") /\ UNCHANGED <<m, m_stream, m_response, socket, exchange>>
      BY <1>4, <2>1 DEF HandleRead
    <3>2. call' \in Calls /\ user' \in Users /\ user'.r = user.r
      BY <1>0, <3>1, ReturnTyped DEF Ecs
    <3> QED
      BY <1>0, <3>1, <3>2, TypesKept
  <2>2. CASE ~(~m.is_gzip /\ BodyIsRead)
    <3>1. PICK rd \in SocketRead(AsyncPlainRoom) :
       /\ socket' = [socket EXCEPT !.rest = rd.rest]
       /\ IF rd.tokens = << >> /\ m_stream.in = << >>
          THEN Return(<< >>, 0, rd.ec) /\ UNCHANGED <<m, m_stream, m_response>>
          ELSE IF ~m.is_gzip
          THEN /\ m' = [m EXCEPT !.body_size = @ + Len(rd.tokens)]
               /\ Return(Plain(rd.tokens), Len(rd.tokens), rd.ec)
               /\ UNCHANGED <<m_stream, m_response>>
          ELSE IF m_stream.in = << >>
          THEN /\ m' = [m EXCEPT !.body_size = @ + Len(rd.tokens)]
               /\ InflateInto([m_stream EXCEPT !.in = rd.tokens], rd.ec, "async_read_some")
               /\ UNCHANGED m_response
          ELSE /\ m_response' = rd.tokens
               /\ InflateInto(m_stream, rd.ec, "async_read_some")
               /\ UNCHANGED m
      BY <1>4, <2>2 DEF HandleRead
    <3>2. rd.tokens \in Seq(Token) /\ rd.rest \in Seq(Token) /\ rd.ec \in {"none", "eof"}
      BY <1>0, <1>2, GotTyped
    <3>3. socket' \in Sockets
      BY <1>0, <3>1, <3>2 DEF Sockets
    <3>4. m' \in Members
      <4>1. m.body_size + Len(rd.tokens) \in Nat
        BY <1>1, <3>2
      <4>2. m' = m \/ m' = [m EXCEPT !.body_size = @ + Len(rd.tokens)]
        BY <3>1
      <4> QED
        BY <1>0, <4>1, <4>2 DEF Members
    <3>5. m_response' \in Seq(Token)
      BY <1>0, <3>1, <3>2
    <3>6. CASE Return(<< >>, 0, rd.ec) /\ UNCHANGED m_stream
      <4>1. call' \in Calls /\ user' \in Users /\ user'.r = user.r
        BY <1>0, <3>2, <3>6, ReturnTyped DEF Ecs
      <4> QED
        BY <1>0, <1>4, <3>3, <3>4, <3>5, <3>6, <4>1, TypesKept DEF HandleRead
    <3> DEFINE zz == [m_stream EXCEPT !.in = rd.tokens]
    <3>7. zz \in Inflaters
      BY <1>0, <3>2, RefillTyped
    <3>8. \/ Return(<< >>, 0, rd.ec) /\ UNCHANGED m_stream
          \/ Return(Plain(rd.tokens), Len(rd.tokens), rd.ec) /\ UNCHANGED m_stream
          \/ InflateInto(zz, rd.ec, "async_read_some")
          \/ InflateInto(m_stream, rd.ec, "async_read_some")
      BY <3>1
    <3> HIDE DEF zz
    <3>9. CASE ~(Return(<< >>, 0, rd.ec) /\ UNCHANGED m_stream)
      <4>1. m_stream' \in Inflaters /\ call' \in Calls /\ user' \in Users /\ user'.r = user.r
        BY <1>0, <3>2, <3>7, <3>8, <3>9, HandOverTyped
      <4> QED
        BY <1>4, <3>3, <3>4, <3>5, <4>1, TypesKept DEF HandleRead
    <3> QED
      BY <3>6, <3>9
  <2> QED
    BY <2>1, <2>2
<1> QED
  BY <1>3, <1>4

(* What the head of a response sets. *)
LEMMA HeaderTyped ==
  ASSUME NEW p \in Response, NEW mm \in Members, NEW zz \in Inflaters
  PROVE  HeaderOf(Reset(mm), p) \in Members /\ InflateInit(zz, p) \in Inflaters
<1>1. p \in Responses
  BY DEF Response
<1>2. Reset(mm) \in Members
  BY DEF Reset, Members
<1> DEFINE nn == Reset(mm)
<1> HIDE DEF nn
<1>3. Len(FlattenSeq(p.chunks)) \in Nat
  BY UnitsOfResponse DEF LengthOf
<1> DEFINE l == Len(FlattenSeq(p.chunks))
<1> HIDE DEF l
<1>4. Larger(nn.content_length, l) \in Nat \cup {-1}
  BY <1>2, <1>3 DEF Larger, Members, nn, l
<1>5. (p.framing = "chunked") \in BOOLEAN /\ p.keep \in BOOLEAN /\ (nn.is_gzip \/ p.gzip) \in BOOLEAN
  BY UnitsOfResponse
<1>6. HeaderOf(nn, p) \in Members
  <2> DEFINE k == IF p.framing = "length" THEN Larger(nn.content_length, l) ELSE nn.content_length
  <2>1. k \in Nat \cup {-1}
    BY <1>2, <1>4 DEF Members, nn
  <2> HIDE DEF k
  <2>2. nn \in Members
    BY <1>2 DEF nn
  <2>3. [nn EXCEPT !.is_chunked = p.framing = "chunked", !.keep_alive = p.keep,
                   !.content_length = k, !.is_gzip = nn.is_gzip \/ p.gzip] \in Members
    BY ONLY <1>5, <2>1, <2>2 DEF Members
  <2> QED
    BY <2>3 DEF HeaderOf, k, l
<1>7. << >> \in Seq(Token) /\ << >> \in Seq(PlainBytes)
  OBVIOUS
<1>8. InflateInit(zz, p) \in Inflaters
  BY <1>7 DEF InflateInit, Inflaters
<1> QED
  BY <1>6, <1>8 DEF nn

(* The head of a response and what came with it. *)
LEMMA ReceiveTyped ==
  ASSUME exchange \in Cases, NEW r \in DOMAIN exchange.responses, NEW mm \in Members,
         m_stream \in Inflaters, ReceiveHeader(r, mm)
  PROVE  m_response' \in Seq(Token) /\ m' \in Members /\ m_stream' \in Inflaters
         /\ socket' \in Sockets
<1>1. exchange.responses[r] \in Response /\ r \in Nat
  BY ResponsesTyped
<1>2. m' \in Members /\ m_stream' \in Inflaters
  BY <1>1, HeaderTyped DEF ReceiveHeader
<1>3. PICK k \in 0 .. Len(Sent(r)) :
        /\ m_response' = SubSeq(Sent(r), 1, k)
        /\ socket' = [rest |-> SubSeq(Sent(r), k + 1, Len(Sent(r))), closes |-> Closes(r)]
  BY DEF ReceiveHeader
<1> DEFINE s == Sent(r)
<1>4. s \in Seq(Token) /\ Len(s) \in Nat
  BY SentTyped
<1> HIDE DEF s
<1>5. SubSeq(s, 1, k) \in Seq(Token) /\ SubSeq(s, k + 1, Len(s)) \in Seq(Token)
  <2>1. k \in Nat /\ k <= Len(s)
    BY <1>4 DEF s
  <2> QED
    BY <1>4, <2>1
<1>6. Closes(r) \in BOOLEAN
  BY DEF Closes
<1> QED
  BY <1>2, <1>3, <1>5, <1>6 DEF Sockets, s

(* The steps from one response to the next. *)
LEMMA NextTypes ==
  ASSUME TypesInv, NextRequest \/ Reopen
  PROVE  TypesInv'
<1>0. /\ exchange \in Cases /\ m \in Members /\ m_stream \in Inflaters
      /\ socket \in Sockets /\ call \in Calls /\ user \in Users
      /\ user.r \in DOMAIN exchange.responses
      /\ << >> \in Seq(Token) /\ << >> \in Seq(PlainBytes) /\ 0 \in Nat
  BY DEF TypesInv
<1> DEFINE r == user.r + 1
<1>1. More /\ exchange' = exchange /\ call' = call
  BY DEF NextRequest, Reopen
<1>2. r \in DOMAIN exchange.responses /\ r \in Nat
  BY <1>0, <1>1, ResponsesTyped DEF More, Final
<1>3. ASSUME Turn(r)
      PROVE  user' \in Users /\ user'.r = r
  BY <1>0, <1>2, <1>3 DEF Turn, Users, Ecs
<1>4. Reset(m) \in Members /\ [m EXCEPT !.content_length = -1] \in Members
  BY <1>0 DEF Reset, Members
<1>5. CASE ReceiveHeader(r, m) /\ Turn(r)
  <2>1. m_response' \in Seq(Token) /\ m' \in Members /\ m_stream' \in Inflaters
         /\ socket' \in Sockets
    BY <1>0, <1>2, <1>5, ReceiveTyped
  <2>2. user' \in Users /\ user'.r = r
    BY <1>3, <1>5
  <2> QED
    BY <1>0, <1>1, <1>2, <2>1, <2>2 DEF TypesInv
<1>6. CASE ReceiveHeader(r, [m EXCEPT !.content_length = -1]) /\ Turn(r)
  <2>1. m_response' \in Seq(Token) /\ m' \in Members /\ m_stream' \in Inflaters
         /\ socket' \in Sockets
    BY <1>0, <1>2, <1>4, <1>6, ReceiveTyped
  <2>2. user' \in Users /\ user'.r = r
    BY <1>3, <1>6
  <2> QED
    BY <1>0, <1>1, <1>2, <2>1, <2>2 DEF TypesInv
<1>7. CASE /\ user' = [user EXCEPT !.r = @ + 1, !.delivered = << >>, !.reported = 0,
                                  !.ec = "malformed_status_line"]
           /\ m_response' = << >> /\ m' = Reset(m)
           /\ UNCHANGED <<m_stream, socket>>
  <2>1. user' \in Users /\ user'.r = r
    BY <1>0, <1>2, <1>7 DEF Users, Ecs
  <2> QED
    BY <1>0, <1>1, <1>2, <1>4, <1>7, <2>1 DEF TypesInv
<1> QED
  BY <1>5, <1>6, <1>7 DEF NextRequest, Reopen

(* The initial states. *)
LEMMA InitTypes ==
  ASSUME Init
  PROVE  TypesInv
<1>1. exchange \in Cases
  BY DEF Init
<1>2. 1 \in DOMAIN exchange.responses
  BY <1>1, ResponsesTyped
<1>3. exchange.responses[1] \in Response
  BY <1>1, <1>2, ResponsesTyped
<1>4. NewStream \in Members /\ NoInflater \in Inflaters
  <2>1. << >> \in Seq(Token) /\ << >> \in Seq(PlainBytes)
    OBVIOUS
  <2> QED
    BY <2>1 DEF NewStream, NoInflater, Members, Inflaters
<1>5. m \in Members /\ m_stream \in Inflaters
  BY <1>3, <1>4, HeaderTyped DEF Init
<1>6. PICK k \in 0 .. Len(Sent(1)) :
       /\ m_response = SubSeq(Sent(1), 1, k)
       /\ socket = [rest |-> SubSeq(Sent(1), k + 1, Len(Sent(1))), closes |-> Closes(1)]
  BY DEF Init
<1> DEFINE s == Sent(1)
<1>7. s \in Seq(Token) /\ Len(s) \in Nat
  BY <1>1, <1>2, SentTyped
<1> HIDE DEF s
<1>8. SubSeq(s, 1, k) \in Seq(Token) /\ SubSeq(s, k + 1, Len(s)) \in Seq(Token)
  <2>1. k \in Nat /\ k <= Len(s)
    BY <1>7 DEF s
  <2> QED
    BY <1>7, <2>1
<1>9. Closes(1) \in BOOLEAN
  BY DEF Closes
<1>10. m_response \in Seq(Token) /\ socket \in Sockets
  BY <1>6, <1>8, <1>9 DEF Sockets, s
<1>11. call \in Calls /\ user \in Users /\ user.r = 1
  <2>1. << >> \in Seq(Token) /\ << >> \in Seq(PlainBytes)
    OBVIOUS
  <2> QED
    BY <2>1 DEF Init, Idle, Calls, Users, Pcs, Ecs
<1> QED
  BY <1>1, <1>2, <1>5, <1>10, <1>11 DEF TypesInv

(* Every step keeps the types. *)
LEMMA TypesStep ==
  ASSUME TypesInv, [Next]_vars
  PROVE  TypesInv'
<1>1. CASE CallRead
  BY <1>1, ParseTypes
<1>2. CASE Advance
  BY <1>2, ParseTypes, ReadTypes, AsyncParseTypes, AsyncReadTypes DEF Advance
<1>3. CASE NextRequest \/ Reopen
  BY <1>3, NextTypes
<1>4. CASE UNCHANGED vars
  BY <1>4 DEF vars, TypesInv
<1> QED
  BY <1>1, <1>2, <1>3, <1>4 DEF Next

(* Every variable keeps its type, for every exchange, readable or not. *)
THEOREM BodyTypesKept == Spec => []TypesInv
<1>1. Init => TypesInv
  BY InitTypes
<1>2. TypesInv /\ [Next]_vars => TypesInv'
  BY TypesStep
<1> QED
  BY <1>1, <1>2, PTL DEF Spec

(* The types of TypeOK, for every exchange, readable or not. *)
THEOREM BodyTypeCorrect == Spec => []TypeOK
<1>1. TypesInv => TypeOK
  <2> SUFFICES ASSUME TypesInv PROVE TypeOK
    OBVIOUS
  <2>1. /\ exchange \in Cases /\ user.r \in DOMAIN exchange.responses
        /\ m \in Members /\ call \in Calls /\ user \in Users
    BY DEF TypesInv
  <2> QED
    BY <2>1 DEF TypeOK, Members, Calls, Users, Pcs, Ecs
<1> QED
  BY <1>1, BodyTypesKept, PTL

-----------------------------------------------------------------------------
(* Reads of the connection, as places on the wire: what m_response holds   *)
(* is what lies from pos to q, what the socket holds from q to e.          *)
Buffers(W, resp, rest, pos, q, e) ==
  /\ pos <= q /\ q <= e /\ e <= Len(W)
  /\ resp = Seg(W, pos, q) /\ rest = Seg(W, q, e)

(* A read got n tokens, and an end of file only at the end. *)
GotOf(W, rd, a, n, e, max) ==
  /\ a + n <= e /\ rd.tokens = Seg(W, a, a + n) /\ rd.ec \in {"none", "eof"}
  /\ rd.ec = "none" /\ max >= 1 => n >= 1
  /\ rd.ec = "eof" => n = 0 /\ a = e

(* A read of the socket gets the tokens behind those in m_response. *)
LEMMA SocketSegs ==
  ASSUME NEW W \in Seq(Token), NEW pos \in Nat, NEW q \in Nat, NEW e \in Nat,
         Buffers(W, m_response, socket.rest, pos, q, e),
         NEW max \in Nat, NEW rd \in SocketRead(max)
  PROVE  \E n \in 0 .. max :
           /\ GotOf(W, rd, q, n, e, max)
           /\ rd.response = m_response /\ rd.rest = Seg(W, q + n, e)
<1> DEFINE t == socket.rest
<1>1. pos <= q /\ q <= e /\ e <= Len(W) /\ t = Seg(W, q, e)
  BY DEF Buffers
<1>2. t \in Seq(Token) /\ Len(t) = e - q
  BY <1>1, SegTyped
<1>3. t = << >> <=> q = e
  BY <1>1, SegEmpty
<1>4. Seg(W, q, q) = << >>
  BY <1>1, SegEmpty
<1>5. CASE max = 0
  <2>1. rd = Got(<< >>, m_response, t, "none")
    BY <1>5 DEF SocketRead
  <2>2. /\ rd.tokens = << >> /\ rd.response = m_response /\ rd.rest = t /\ rd.ec = "none"
    BY <2>1 DEF Got
  <2> HIDE DEF t
  <2>3. 0 \in 0 .. max /\ q + 0 = q
    BY <1>5
  <2>4. GotOf(W, rd, q, 0, e, max)
    BY <1>1, <1>4, <1>5, <2>2, <2>3 DEF GotOf
  <2>5. rd.rest = Seg(W, q + 0, e)
    BY <1>1, <2>2, <2>3
  <2> QED
    BY <2>2, <2>3, <2>4, <2>5
<1>6. CASE max # 0 /\ t = << >>
  <2>1. rd = Got(<< >>, m_response, << >>, "eof")
    BY <1>6 DEF SocketRead
  <2>2. /\ rd.tokens = << >> /\ rd.response = m_response /\ rd.rest = t /\ rd.ec = "eof"
    BY <1>6, <2>1 DEF Got
  <2> HIDE DEF t
  <2>3. 0 \in 0 .. max /\ q + 0 = q
    BY <1>5
  <2>4. GotOf(W, rd, q, 0, e, max)
    BY <1>1, <1>3, <1>4, <1>6, <2>2, <2>3 DEF GotOf
  <2>5. rd.rest = Seg(W, q + 0, e)
    BY <1>1, <2>2, <2>3
  <2> QED
    BY <2>2, <2>3, <2>4, <2>5
<1>7. CASE max # 0 /\ t # << >>
  <2>1. PICK n \in 1 .. Smaller(max, Len(t)) :
          rd = Got(SubSeq(t, 1, n), m_response, Drop(t, n), "none")
    BY <1>7 DEF SocketRead
  <2>2. /\ rd.tokens = SubSeq(t, 1, n) /\ rd.response = m_response
        /\ rd.rest = Drop(t, n) /\ rd.ec = "none"
    BY <2>1 DEF Got
  <2>3. Len(t) \in Nat
    BY <1>2
  <2>4. Smaller(max, Len(t)) \in Nat /\ Smaller(max, Len(t)) <= max /\ Smaller(max, Len(t)) <= Len(t)
    BY <2>3, SmallerTyped
  <2> HIDE DEF t
  <2>5. n \in Nat /\ n >= 1 /\ n <= max /\ n <= e - q
    BY <1>2, <2>4
  <2>6. SubSeq(t, 1, n) = Seg(W, q, q + n) /\ Drop(t, n) = Seg(W, q + n, e)
    BY <1>1, <2>5, SegTake, SegDrop
  <2>7. q + n <= e /\ n \in 0 .. max
    BY <2>5
  <2>8. GotOf(W, rd, q, n, e, max)
    BY <2>2, <2>5, <2>6, <2>7 DEF GotOf
  <2> QED
    BY <2>2, <2>6, <2>7, <2>8
<1> QED
  BY <1>5, <1>6, <1>7

(* A read through read_some_impl gets the next tokens, wherever they are. *)
LEMMA ReadSegs ==
  ASSUME NEW W \in Seq(Token), NEW pos \in Nat, NEW q \in Nat, NEW e \in Nat,
         Buffers(W, m_response, socket.rest, pos, q, e),
         NEW max \in Nat, NEW rd \in ReadSomeImpl(max)
  PROVE  \E n \in 0 .. max, q2 \in Nat :
           /\ GotOf(W, rd, pos, n, e, max)
           /\ Buffers(W, rd.response, rd.rest, pos + n, q2, e)
<1> DEFINE t == m_response
<1>1. pos <= q /\ q <= e /\ e <= Len(W) /\ t = Seg(W, pos, q) /\ socket.rest = Seg(W, q, e)
      /\ q <= Len(W)
  BY DEF Buffers
<1>2. t \in Seq(Token) /\ Len(t) = q - pos
  BY <1>1, SegTyped
<1>3. t = << >> <=> pos = q
  BY <1>1, SegEmpty
<1>4. CASE t = << >>
  <2>1. rd \in SocketRead(max)
    BY <1>4 DEF ReadSomeImpl
  <2>2. PICK n \in 0 .. max :
          /\ GotOf(W, rd, q, n, e, max)
          /\ rd.response = m_response /\ rd.rest = Seg(W, q + n, e)
    BY <2>1, SocketSegs
  <2>3. pos = q /\ n \in Nat /\ q + n <= e /\ q + n \in Nat /\ q + n <= Len(W)
    BY <1>1, <1>3, <1>4, <2>2 DEF GotOf
  <2>4. rd.response = Seg(W, pos + n, pos + n)
    <3>1. Seg(W, q + n, q + n) = << >>
      BY <2>3, SegEmpty
    <3> QED
      BY <1>4, <2>2, <2>3, <3>1
  <2>5. Buffers(W, rd.response, rd.rest, pos + n, pos + n, e)
    BY <1>1, <2>2, <2>3, <2>4 DEF Buffers
  <2>6. GotOf(W, rd, pos, n, e, max)
    BY <2>2, <2>3
  <2> QED
    BY <2>3, <2>5, <2>6
<1>5. CASE t # << >>
  <2> DEFINE k == Smaller(max, Len(t))
  <2>1. rd = Got(SubSeq(t, 1, k), Drop(t, max), socket.rest, "none")
    BY <1>5 DEF ReadSomeImpl
  <2>2. /\ rd.tokens = SubSeq(t, 1, k) /\ rd.response = Drop(t, max)
        /\ rd.rest = socket.rest /\ rd.ec = "none"
    BY <2>1 DEF Got
  <2>3. k \in Nat /\ k <= max /\ k <= q - pos /\ (k = max \/ k = q - pos) /\ q - pos >= 1
    BY <1>1, <1>2, <1>3, <1>5 DEF Smaller
  <2> HIDE DEF k, t
  <2>4. rd.tokens = Seg(W, pos, pos + k)
    BY <1>1, <2>2, <2>3, SegTake
  <2>5. rd.response = Seg(W, pos + k, q)
    <3>1. CASE k = max
      BY <1>1, <2>2, <2>3, <3>1, SegDrop
    <3>2. CASE k # max
      <4>1. k = q - pos /\ max >= q - pos /\ pos + k = q
        BY <2>3, <3>2
      <4>2. Drop(t, max) = << >>
        BY <1>1, <4>1, SegDropAll
      <4>3. Seg(W, q, q) = << >>
        BY <1>1, SegEmpty
      <4> QED
        BY <2>2, <4>1, <4>2, <4>3
    <3> QED
      BY <3>1, <3>2
  <2>6. pos + k <= q /\ pos + k <= e /\ k \in 0 .. max /\ (max >= 1 => k >= 1)
    BY <1>1, <2>3
  <2>7. Buffers(W, rd.response, rd.rest, pos + k, q, e)
    BY <1>1, <2>2, <2>5, <2>6 DEF Buffers
  <2>8. GotOf(W, rd, pos, k, e, max)
    BY <2>2, <2>4, <2>6 DEF GotOf
  <2> QED
    BY <2>6, <2>7, <2>8
<1> QED
  BY <1>4, <1>5

(* A size line is read when all of it is there. *)
IsLine(W, o, k) == W[o + 1] = Size(k) /\ W[o + 2] = CR /\ W[o + 3] = LF

(* async_read_until gets a size line, or what there was before the end. *)
LEMMA LineSegs ==
  ASSUME NEW W \in Seq(Token), NEW o \in Nat, NEW q \in Nat, NEW e \in Nat,
         Buffers(W, m_response, socket.rest, o, q, e),
         NEW k \in Nat, IsLine(W, o, k), NEW rd \in ReadUntilLine
  PROVE  \E q2 \in Nat :
           /\ Buffers(W, rd.response, rd.rest, o, q2, e) /\ rd.ec \in {"none", "eof"}
           /\ rd.ec = "none" => q2 >= o + 3 /\ SizeOf(rd.response) = k
                                /\ LineEnd(rd.response) = 3
           /\ rd.ec = "eof" => e < o + 3
<1> DEFINE t == m_response
           s == socket.rest
<1>1. o <= q /\ q <= e /\ e <= Len(W) /\ t = Seg(W, o, q) /\ s = Seg(W, q, e)
      /\ q <= Len(W) /\ o <= e
  BY DEF Buffers
<1>2. t \in Seq(Token) /\ s \in Seq(Token) /\ Len(s) = e - q
  <2>1. t \in Seq(Token)
    BY <1>1, SegTyped
  <2>2. s \in Seq(Token) /\ Len(s) = e - q
    BY <1>1, SegTyped
  <2> QED
    BY <2>1, <2>2
<1>3. ASSUME NEW b \in Nat, o <= b, b <= Len(W)
      PROVE  /\ HasLine(Seg(W, o, b)) <=> b >= o + 3
             /\ b >= o + 3 => SizeOf(Seg(W, o, b)) = k /\ LineEnd(Seg(W, o, b)) = 3
  <2>1. /\ HasLine(Seg(W, o, b)) <=> b >= o + 3
        /\ b >= o + 1 => SizeOf(Seg(W, o, b)) = k
    BY <1>3, LineAt DEF IsLine
  <2>2. b >= o + 3 => b >= o + 1 /\ o + 3 <= b
    OBVIOUS
  <2>3. b >= o + 3 => LineEnd(Seg(W, o, b)) = 3
    BY <1>3, <2>2, LineEndAt DEF IsLine
  <2> QED
    BY <2>1, <2>2, <2>3
<1>4. CASE HasLine(t)
  <2>1. rd = Got(<< >>, t, s, "none")
    BY <1>4 DEF ReadUntilLine
  <2>2. rd.response = t /\ rd.rest = s /\ rd.ec = "none"
    BY <2>1 DEF Got
  <2> HIDE DEF t, s
  <2>3. q >= o + 3 /\ SizeOf(t) = k /\ LineEnd(t) = 3
    BY <1>1, <1>3, <1>4
  <2>4. Buffers(W, rd.response, rd.rest, o, q, e)
    BY <1>1, <2>2 DEF Buffers
  <2> QED
    BY <2>2, <2>3, <2>4
<1>5. CASE ~HasLine(t) /\ HasLine(t \o s)
  <2>1. PICK n \in {i \in 1 .. Len(s) : HasLine(t \o SubSeq(s, 1, i))} :
          rd = Got(<< >>, t \o SubSeq(s, 1, n), Drop(s, n), "none")
    BY <1>5 DEF ReadUntilLine
  <2>2. rd.response = t \o SubSeq(s, 1, n) /\ rd.rest = Drop(s, n) /\ rd.ec = "none"
    BY <2>1 DEF Got
  <2>3. HasLine(t \o SubSeq(s, 1, n)) /\ n \in 1 .. Len(s)
    BY <2>1
  <2> HIDE DEF t, s
  <2> DEFINE c == q + n
  <2>4. n \in Nat /\ n <= e - q /\ c \in Nat /\ q <= c /\ c <= e /\ o <= c /\ c <= Len(W)
    BY <1>1, <1>2, <2>3
  <2>5. SubSeq(s, 1, n) = Seg(W, q, c) /\ Drop(s, n) = Seg(W, c, e)
    BY <1>1, <2>4, SegTake, SegDrop
  <2> HIDE DEF c
  <2>6. t \o SubSeq(s, 1, n) = Seg(W, o, c)
    <3>1. o <= q /\ q <= c /\ c <= Len(W)
      BY <1>1, <2>4
    <3>2. Seg(W, o, q) \o Seg(W, q, c) = Seg(W, o, c)
      BY <2>4, <3>1, SegJoin
    <3> QED
      BY <1>1, <2>5, <3>2
  <2>7. HasLine(Seg(W, o, c))
    BY <2>3, <2>6
  <2>8. c >= o + 3 /\ SizeOf(Seg(W, o, c)) = k /\ LineEnd(Seg(W, o, c)) = 3
    BY <1>3, <2>4, <2>7
  <2>9. Buffers(W, rd.response, rd.rest, o, c, e)
    BY <1>1, <2>2, <2>4, <2>5, <2>6 DEF Buffers
  <2> QED
    BY <2>2, <2>4, <2>6, <2>8, <2>9
<1>6. CASE ~HasLine(t) /\ ~HasLine(t \o s)
  <2>1. rd = Got(<< >>, t \o s, << >>, "eof")
    BY <1>6 DEF ReadUntilLine
  <2>2. rd.response = t \o s /\ rd.rest = << >> /\ rd.ec = "eof"
    BY <2>1 DEF Got
  <2> HIDE DEF t, s
  <2>3. t \o s = Seg(W, o, e)
    BY <1>1, SegJoin
  <2>4. ~(e >= o + 3)
    BY <1>1, <1>3, <1>6, <2>3
  <2>5. Seg(W, e, e) = << >>
    BY <1>1, SegEmpty
  <2>6. Buffers(W, rd.response, rd.rest, o, e, e)
    BY <1>1, <2>2, <2>3, <2>5 DEF Buffers
  <2>7. e < o + 3
    BY <2>4
  <2> QED
    BY <2>2, <2>6, <2>7
<1> QED
  BY <1>4, <1>5, <1>6

-----------------------------------------------------------------------------
(* The inflater.  The units up to u were used and those up to v are its    *)
(* input; the caller has d bytes, and what the used units stand for beyond *)
(* these waits for room.                                                   *)
Inflates(r, p, zz, d, u, v) ==
  /\ u <= v /\ v <= LengthOf(p) /\ d <= Ends(p)[u]
  /\ zz.in = Seg(Tokens(r, p), u, v) /\ zz.out = Bytes(r, d, Ends(p)[u])
  /\ zz.done <=> (p.gzip /\ u = LengthOf(p))
  /\ zz.done => d = Ends(p)[u]
  /\ ~p.gzip => u = v /\ d = u

(* A set of numbers that has with each the smaller ones is an interval. *)
LEMMA Interval ==
  ASSUME NEW L \in Nat, NEW U \in SUBSET (1 .. L), \A k \in U : \A i \in 1 .. k : i \in U
  PROVE  U = 1 .. Cardinality(U) /\ Cardinality(U) \in 0 .. L
<1> DEFINE G == {n \in 0 .. L : \E M \in 0 .. n : U \cap (1 .. n) = 1 .. M}
<1>1. 0 \in G
  <2>1. U \cap (1 .. 0) = 1 .. 0 /\ 0 \in 0 .. 0 /\ 0 \in 0 .. L
    OBVIOUS
  <2> QED
    BY <2>1
<1>2. ASSUME NEW n \in 0 .. L - 1, n \in G
      PROVE  n + 1 \in G
  <2>1. PICK M \in 0 .. n : U \cap (1 .. n) = 1 .. M
    BY <1>2
  <2>2. n + 1 \in 0 .. L /\ n + 1 \in 0 .. n + 1 /\ M \in 0 .. n + 1
    OBVIOUS
  <2>3. CASE n + 1 \in U
    <3>1. U \cap (1 .. n + 1) = 1 .. n + 1
      BY <2>3
    <3> QED
      BY <2>2, <3>1
  <2>4. CASE n + 1 \notin U
    <3>1. U \cap (1 .. n + 1) = U \cap (1 .. n)
      <4>1. 1 .. n + 1 = (1 .. n) \cup {n + 1}
        OBVIOUS
      <4> QED
        BY <2>4, <4>1
    <3> QED
      BY <2>1, <2>2, <3>1
  <2> QED
    BY <2>3, <2>4
<1> HIDE DEF G
<1>3. \A n \in 0 .. L : n \in G
  BY <1>1, <1>2, UpTo
<1>4. PICK M \in 0 .. L : U \cap (1 .. L) = 1 .. M
  <2>1. L \in 0 .. L
    OBVIOUS
  <2> QED
    BY <1>3, <2>1 DEF G
<1>5. U = 1 .. M
  BY <1>4
<1>6. Cardinality(1 .. M) = M
  BY FS_Interval
<1> QED
  BY <1>5, <1>6

(* What kind of token a unit of the body is. *)
LEMMA TokenOfBody ==
  ASSUME NEW r \in Nat, NEW p \in Response, NEW i \in 1 .. LengthOf(p)
  PROVE  /\ Compressed(Tokens(r, p)[i]) <=> p.gzip
         /\ Trailer(Tokens(r, p)[i]) <=> p.gzip /\ i = LengthOf(p)
<1> DEFINE b == Bytes(r, Ends(p)[i - 1], Ends(p)[i])
           l == (p.gzip /\ i = LengthOf(p))
<1>1. Tokens(r, p)[i] = Unit(b, p.gzip, l)
  BY TokensOfResponse
<1>2. p.gzip \in BOOLEAN /\ l \in BOOLEAN
  BY UnitsOfResponse
<1> HIDE DEF b, l
<1>3. (Compressed(Tokens(r, p)[i]) <=> p.gzip) /\ (Trailer(Tokens(r, p)[i]) <=> l)
  BY <1>1, <1>2 DEF Compressed, Trailer, Unit
<1> QED
  BY <1>3 DEF l

(* The bytes from one place to another. *)
LEMMA BytesLength ==
  ASSUME NEW r \in Nat, NEW a \in Nat, NEW b \in Nat, a <= b
  PROVE  Len(Bytes(r, a, b)) = b - a
  BY BytesProperties

(* Input and output of an inflater of response r. *)
InflaterIs(r, p, zz, d, u, v) ==
  /\ zz.in \in Seq(Token) /\ Len(zz.in) = v - u
  /\ \A i \in 1 .. v - u :
       Compressed(zz.in[i]) /\ (Trailer(zz.in[i]) <=> u + i = LengthOf(p))
  /\ \A n \in 0 .. v - u :
       /\ SubSeq(zz.in, 1, n) = Seg(Tokens(r, p), u, u + n)
       /\ Drop(zz.in, n) = Seg(Tokens(r, p), u + n, v)
  /\ Len(zz.out) = Ends(p)[u] - d

(* They are segments of its units and of its bytes. *)
LEMMA InflaterUnits ==
  ASSUME NEW r \in Nat, NEW p \in Response, p.gzip, NEW zz, NEW d \in Nat, NEW u \in Nat,
         NEW v \in Nat, Inflates(r, p, zz, d, u, v)
  PROVE  InflaterIs(r, p, zz, d, u, v)
<1> DEFINE C == Tokens(r, p)
           N == LengthOf(p)
           E == Ends(p)
           t == Seg(C, u, v)
<1>1. u <= v /\ v <= N /\ zz.in = t /\ N \in Nat
      /\ zz.out = Bytes(r, d, E[u]) /\ d <= E[u] /\ u \in 0 .. N
  BY UnitsOfResponse DEF Inflates
<1>2. C \in Seq(Token) /\ Len(C) = N /\ v <= Len(C)
  BY <1>1, TokensOfResponse
<1>3. /\ t \in Seq(Token) /\ Len(t) = v - u
      /\ \A i \in 1 .. v - u : t[i] = C[u + i]
  <2> HIDE DEF C
  <2> QED
    BY <1>1, <1>2, SegProperties
<1>4. ASSUME NEW i \in 1 .. v - u
      PROVE  Compressed(t[i]) /\ (Trailer(t[i]) <=> u + i = N)
  <2> DEFINE c == u + i
  <2>1. c \in 1 .. N
    BY <1>1
  <2> HIDE DEF c
  <2>2. Compressed(C[c]) /\ (Trailer(C[c]) <=> c = N)
    BY <2>1, TokenOfBody
  <2>3. t[i] = C[c]
    BY <1>3 DEF c
  <2> QED
    BY <2>2, <2>3 DEF c
<1>5. ASSUME NEW n \in 0 .. v - u
      PROVE  /\ SubSeq(t, 1, n) = Seg(C, u, u + n)
             /\ Drop(t, n) = Seg(C, u + n, v)
  <2>1. n \in Nat /\ n <= v - u /\ u <= v /\ v <= Len(C) /\ C \in Seq(Token)
    BY <1>1, <1>2
  <2> HIDE DEF C
  <2>2. SubSeq(Seg(C, u, v), 1, n) = Seg(C, u, u + n)
    BY ONLY <2>1, u \in Nat, v \in Nat, SegTake
  <2>3. Drop(Seg(C, u, v), n) = Seg(C, u + n, v)
    BY ONLY <2>1, u \in Nat, v \in Nat, SegDrop
  <2> QED
    BY <2>2, <2>3
<1>6. Len(Bytes(r, d, E[u])) = E[u] - d
  <2> DEFINE e == E[u]
  <2>1. e \in Nat /\ d <= e
    BY <1>1, EndsOfResponse
  <2> HIDE DEF e
  <2>2. Len(Bytes(r, d, e)) = e - d
    BY <2>1, BytesLength
  <2> QED
    BY <2>2 DEF e
<1> HIDE DEF t
<1> QED
  BY <1>1, <1>3, <1>4, <1>5, <1>6 DEF InflaterIs

(* How far the inflater gets with its input: up to a unit that the output  *)
(* of those before leaves no room for.                                     *)
LEMMA UnitsUsed ==
  ASSUME NEW r \in Nat, NEW p \in Response, p.gzip, NEW zz \in Inflaters,
         NEW d \in Nat, NEW u \in Nat, NEW v \in Nat,
         Inflates(r, p, zz, d, u, v), ~zz.done, NEW room \in Nat
  PROVE  /\ UsedUnits(zz, room) \in 0 .. v - u
         /\ \A k \in 1 .. UsedUnits(zz, room) : Ends(p)[u + k - 1] <= d + room
         /\ UsedUnits(zz, room) < v - u => Ends(p)[u + UsedUnits(zz, room)] > d + room
<1> DEFINE C == Tokens(r, p)
           N == LengthOf(p)
           E == Ends(p)
           L == v - u
           T(k) == E[u + k - 1] <= d + room
           U == {k \in 1 .. L : T(k)}
           R(k) == /\ Len(zz.out) + Len(Plain(SubSeq(zz.in, 1, k - 1))) <= room
                   /\ \A i \in 1 .. k - 1 : ~Trailer(zz.in[i])
<1>1. u <= v /\ v <= N /\ d <= E[u] /\ N \in Nat /\ u \in 0 .. N
  BY UnitsOfResponse DEF Inflates
<1>3. /\ E \in [0 .. N -> Nat]
      /\ \A i \in 0 .. N : \A j \in i .. N : E[i] <= E[j]
  BY EndsOfResponse
<1>4. /\ zz.in \in Seq(Token) /\ Len(zz.in) = L
      /\ \A i \in 1 .. L : (Trailer(zz.in[i]) <=> u + i = N)
      /\ \A n \in 0 .. L : SubSeq(zz.in, 1, n) = Seg(C, u, u + n)
      /\ Len(zz.out) = E[u] - d
  <2>1. InflaterIs(r, p, zz, d, u, v)
    BY InflaterUnits
  <2> QED
    BY <2>1 DEF InflaterIs
<1>5. DOMAIN zz.in = 1 .. L
  BY <1>4
<1>6. ASSUME NEW k \in 1 .. L
      PROVE  R(k) <=> T(k)
  <2> DEFINE n == k - 1
             c == u + n
             e1 == E[u]
             e2 == E[c]
  <2>1. n \in 0 .. L /\ c \in u .. N /\ c \in 0 .. N /\ u + k - 1 = c /\ k - 1 = n
    BY <1>1
  <2>2. SubSeq(zz.in, 1, n) = Seg(C, u, c)
    <3> HIDE DEF n
    <3> QED
      BY <1>4, <2>1
  <2> HIDE DEF n, c
  <2>3. Plain(Seg(C, u, c)) = Bytes(r, e1, e2)
    BY <1>1, <2>1, PlainOfTokens
  <2>4. e1 \in Nat /\ e2 \in Nat /\ e1 <= e2 /\ d <= e1
    BY <1>1, <1>3, <2>1
  <2>5. \A i \in 1 .. n : ~Trailer(zz.in[i])
    <3> TAKE i \in 1 .. n
    <3>1. i \in 1 .. L /\ u + i # N
      BY <1>1 DEF n
    <3> QED
      BY <1>4, <3>1
  <2> HIDE DEF e1, e2
  <2>6. Len(Bytes(r, e1, e2)) = e2 - e1
    BY <2>4, BytesLength
  <2>7. Len(zz.out) = e1 - d
    BY <1>4 DEF e1
  <2>8. Len(zz.out) + Len(Plain(SubSeq(zz.in, 1, n))) = e2 - d
    <3>1. Len(Plain(SubSeq(zz.in, 1, n))) = e2 - e1
      BY <2>2, <2>3, <2>6
    <3> QED
      BY <2>4, <2>7, <3>1
  <2>9. e2 - d <= room <=> e2 <= d + room
    BY <2>4
  <2>10. R(k) <=> e2 - d <= room
    BY <2>1, <2>5, <2>8
  <2>11. T(k) <=> e2 <= d + room
    BY <2>1 DEF e2
  <2> QED
    BY <2>9, <2>10, <2>11
<1>7. UsedUnits(zz, room) = Cardinality(U)
  <2>1. {k \in DOMAIN zz.in : R(k)} = U
    <3> HIDE DEF R, T
    <3> QED
      BY <1>5, <1>6
  <2> QED
    BY <2>1 DEF UsedUnits
<1>8. L \in Nat /\ U \in SUBSET (1 .. L)
  BY <1>1
<1>9. ASSUME NEW k \in U, NEW i \in 1 .. k
      PROVE  i \in U
  <2>1. k \in 1 .. L /\ E[u + k - 1] <= d + room
    OBVIOUS
  <2> DEFINE a == u + i - 1
             b == u + k - 1
  <2>2. a \in 0 .. N /\ b \in a .. N /\ i \in 1 .. L
    BY <1>1, <2>1
  <2>3. E[a] <= E[b] /\ E[a] \in Nat /\ E[b] \in Nat
    <3> HIDE DEF a, b
    <3>1. b \in 0 .. N
      BY <2>2
    <3> QED
      BY <1>3, <2>2, <3>1
  <2>4. E[b] <= d + room
    BY <2>1
  <2> HIDE DEF a, b
  <2>5. E[a] <= d + room
    BY <2>3, <2>4
  <2> QED
    BY <2>2, <2>5 DEF a
<1> DEFINE n == UsedUnits(zz, room)
<1> HIDE DEF U
<1>10. U = 1 .. n /\ n \in 0 .. L
  BY <1>7, <1>8, <1>9, Interval
<1>11. \A k \in 1 .. n : E[u + k - 1] <= d + room
  BY <1>10 DEF U
<1>12. n < L => E[u + n] > d + room
  <2> SUFFICES ASSUME n < L PROVE E[u + n] > d + room
    OBVIOUS
  <2>1. n + 1 \in 1 .. L /\ n + 1 \notin 1 .. n /\ u + (n + 1) - 1 = u + n
        /\ n + 1 - 1 = n /\ u + n \in 0 .. N
    BY <1>1, <1>8, <1>10
  <2>2. n + 1 \notin U
    BY <1>10, <2>1
  <2>3. ~(E[u + (n + 1) - 1] <= d + room)
    BY <2>1, <2>2 DEF U
  <2>4. E[u + n] \in Nat
    BY <1>3, <2>1
  <2> QED
    BY <2>1, <2>3, <2>4
<1> QED
  BY <1>10, <1>11, <1>12

(* One call of inflate: the bytes it gives come next, and it fails only    *)
(* without input.                                                          *)
InflatedBy(r, p, zz, f, d, u, v, d2, u2) ==
  /\ Inflates(r, p, f.z, d2, u2, v) /\ u <= u2
  /\ d <= d2 /\ d2 <= Plains(p) /\ f.bytes = Bytes(r, d, d2)
  /\ f.failed => zz.in = << >> /\ ~zz.done
  /\ f.z.zalloc = zz.zalloc

(* inflate, as Inflates has its arguments. *)
LEMMA InflateStep ==
  ASSUME NEW r \in Nat, NEW p \in Response, p.gzip, NEW zz \in Inflaters,
         NEW d \in Nat, NEW u \in Nat, NEW v \in Nat,
         Inflates(r, p, zz, d, u, v), NEW room \in Nat \ {0}
  PROVE  \E d2 \in Nat, u2 \in Nat : InflatedBy(r, p, zz, Inflate(zz, room), d, u, v, d2, u2)
<1> DEFINE C == Tokens(r, p)
           N == LengthOf(p)
           E == Ends(p)
           L == v - u
           n == UsedUnits(zz, room)
           u2 == u + n
           used == SubSeq(zz.in, 1, n)
           out == zz.out \o Plain(used)
           s == Smaller(room, Len(out))
           d2 == d + s
           f == Inflate(zz, room)
<1>1. /\ u <= v /\ v <= N /\ d <= E[u] /\ N \in Nat /\ u \in 0 .. N
      /\ zz.out = Bytes(r, d, E[u]) /\ zz.in = Seg(C, u, v)
      /\ (zz.done <=> u = N) /\ (zz.done => d = E[u])
  BY UnitsOfResponse DEF Inflates
<1>2. C \in Seq(Token) /\ Len(C) = N
  BY TokensOfResponse
<1>3. /\ E \in [0 .. N -> Nat] /\ Plains(p) = E[N]
      /\ \A i \in 0 .. N : \A j \in i .. N : E[i] <= E[j]
      /\ N >= 1 /\ E[N - 1] = E[N]
  BY EndsOfResponse DEF Plains
<1>4. /\ zz.in \in Seq(Token) /\ Len(zz.in) = L
      /\ \A i \in 1 .. L : Compressed(zz.in[i]) /\ (Trailer(zz.in[i]) <=> u + i = N)
      /\ \A k \in 0 .. L : SubSeq(zz.in, 1, k) = Seg(C, u, u + k) /\ Drop(zz.in, k) = Seg(C, u + k, v)
      /\ Len(zz.out) = E[u] - d
  <2>1. InflaterIs(r, p, zz, d, u, v)
    BY InflaterUnits
  <2> QED
    BY <2>1 DEF InflaterIs
<1>5. /\ n \in 0 .. L
      /\ ~zz.done => \A k \in 1 .. n : E[u + k - 1] <= d + room
      /\ n < L => E[u + n] > d + room
      /\ zz.done => n = 0 /\ L = 0
  <2>1. CASE zz.done
    <3>1. n = 0 /\ L = 0
      BY <1>1, <2>1 DEF UsedUnits
    <3> QED
      BY <2>1, <3>1
  <2>2. CASE ~zz.done
    <3>1. room \in Nat
      OBVIOUS
    <3>2. /\ n \in 0 .. v - u
          /\ \A k \in 1 .. n : Ends(p)[u + k - 1] <= d + room
          /\ n < v - u => Ends(p)[u + n] > d + room
      BY ONLY UnitsUsed, <2>2, <3>1, r \in Nat, p \in Response, p.gzip, zz \in Inflaters,
              d \in Nat, u \in Nat, v \in Nat, Inflates(r, p, zz, d, u, v)
    <3> QED
      BY <2>2, <3>2
  <2> QED
    BY <2>1, <2>2
<1>6. u2 \in Nat /\ u2 \in u .. N /\ u2 <= v /\ u2 \in 0 .. N /\ u <= u2
  BY <1>1, <1>5
<1>7. /\ used = Seg(C, u, u2) /\ used \in Seq(Token) /\ Len(used) = n
      /\ \A i \in 1 .. n : used[i] = zz.in[i]
  <2> HIDE DEF n
  <2>1. used = Seg(C, u, u2)
    BY <1>4, <1>5
  <2>2. used \in Seq(Token) /\ Len(used) = n /\ \A i \in 1 .. n : used[i] = zz.in[i]
    BY <1>4, <1>5
  <2> QED
    BY <2>1, <2>2
<1>8. Drop(zz.in, Len(used)) = Seg(C, u2, v)
  <2> HIDE DEF n
  <2> QED
    BY <1>4, <1>5, <1>7
<1> DEFINE e1 == E[u]
           e2 == E[u2]
<1>9. e1 \in Nat /\ e2 \in Nat /\ e1 <= e2 /\ d <= e1 /\ d <= e2 /\ e2 <= Plains(p)
  <2>1. e1 \in Nat /\ e2 \in Nat /\ e1 <= e2 /\ e2 <= Plains(p) /\ d <= e1
    <3> HIDE DEF u2
    <3>1. N \in u2 .. N
      BY <1>1, <1>6
    <3> QED
      BY <1>1, <1>3, <1>6, <3>1
  <2> HIDE DEF e1, e2
  <2> QED
    BY <2>1
<1>10. out = Bytes(r, d, e2)
  <2> HIDE DEF u2, used
  <2>1. Plain(Seg(C, u, u2)) = Bytes(r, e1, e2)
    BY <1>1, <1>6, PlainOfTokens
  <2>2. zz.out = Bytes(r, d, e1) /\ used = Seg(C, u, u2)
    BY <1>1, <1>7
  <2> HIDE DEF e1, e2
  <2>3. Joined(Bytes(r, d, e1), Bytes(r, e1, e2)) = Bytes(r, d, e2)
    BY ONLY <1>9, r \in Nat, d \in Nat, BytesJoin
  <2> QED
    BY <2>1, <2>2, <2>3 DEF Joined
<1>11. Len(out) = e2 - d
  <2> HIDE DEF e2, out
  <2> QED
    BY <1>9, <1>10, BytesLength
<1>12. s \in Nat /\ d2 \in Nat /\ d <= d2 /\ d2 <= e2
       /\ (e2 - d <= room => s = e2 - d /\ d2 = e2) /\ (room <= e2 - d => s = room)
  <2> HIDE DEF e2, out
  <2> QED
    BY <1>9, <1>11 DEF Smaller
<1>13. SubSeq(out, 1, s) = Bytes(r, d, d2)
  <2> HIDE DEF e2, out, s
  <2>1. s <= e2 - d
    BY <1>12, <1>9
  <2>2. SubSeq(Bytes(r, d, e2), 1, s) = Bytes(r, d, d + s)
    <3>1. s \in Nat /\ e2 \in Nat /\ d <= e2
      BY <1>9, <1>12
    <3> HIDE DEF d2
    <3> QED
      BY ONLY <2>1, <3>1, BytesSplit, r \in Nat, d \in Nat
  <2> QED
    BY <1>10, <2>2
<1>14. Drop(out, room) = Bytes(r, d2, e2)
  <2> HIDE DEF e2, out, s
  <2>1. CASE room <= e2 - d
    <3>1. Drop(Bytes(r, d, e2), room) = Bytes(r, d + room, e2)
      BY <1>9, <2>1, BytesSplit
    <3> QED
      BY <1>10, <1>12, <2>1, <3>1
  <2>2. CASE room >= e2 - d
    <3>1. Drop(Bytes(r, d, e2), room) = << >>
      BY <1>9, <2>2, BytesSplit
    <3>2. Bytes(r, e2, e2) = << >>
      BY <1>9, NoBytes
    <3> QED
      BY <1>10, <1>12, <2>2, <3>1, <3>2
  <2> QED
    BY <1>9, <2>1, <2>2
<1> DEFINE w == (\E i \in DOMAIN used : Trailer(used[i]))
           z2 == [zz EXCEPT !.in = Drop(@, Len(used)), !.out = Drop(out, room),
                            !.done = @ \/ \E i \in DOMAIN used : Trailer(used[i])]
<1>15. /\ f.z = z2 /\ f.bytes = SubSeq(out, 1, s)
       /\ f.failed = (~zz.done /\ ((used = << >> /\ out = << >>)
                                   \/ \E i \in DOMAIN used : ~Compressed(used[i])))
  BY DEF Inflate, InflateWith, Inflation
<1>16. /\ z2.in = Drop(zz.in, Len(used)) /\ z2.out = Drop(out, room)
       /\ z2.done = (zz.done \/ w) /\ z2.zalloc = zz.zalloc
  <2> HIDE DEF used, out
  <2> QED
    BY DEF Inflaters
<1> HIDE DEF z2, f
<1>17. w <=> (n >= 1 /\ u2 = N)
  <2>1. DOMAIN used = 1 .. n
    <3> HIDE DEF used, n
    <3> QED
      BY <1>7
  <2>2. \A i \in 1 .. n : Trailer(used[i]) <=> u + i = N
    <3> HIDE DEF used, n
    <3> QED
      BY <1>4, <1>5, <1>7
  <2> HIDE DEF used
  <2>3. w <=> \E i \in 1 .. n : u + i = N
    BY <2>1, <2>2
  <2> HIDE DEF w, n
  <2>4. (\E i \in 1 .. n : u + i = N) <=> (n >= 1 /\ u2 = N)
    <3>1. ASSUME NEW i \in 1 .. n, u + i = N
          PROVE  n >= 1 /\ u2 = N
      BY <1>1, <1>5, <1>6, <3>1
    <3>2. ASSUME n >= 1, u2 = N
          PROVE  n \in 1 .. n /\ u + n = N
      BY <1>5, <3>2
    <3> QED
      BY <3>1, <3>2
  <2> QED
    BY <2>3, <2>4
<1>18. f.z.done <=> u2 = N
  <2> HIDE DEF w, n
  <2>1. zz.done => u2 = N
    BY <1>1, <1>5
  <2>2. u2 = N /\ ~zz.done => n >= 1
    BY <1>1, <1>5
  <2> HIDE DEF u2
  <2>3. f.z.done = (zz.done \/ w)
    BY <1>15, <1>16
  <2> QED
    BY <1>17, <2>1, <2>2, <2>3
<1>19. u2 = N => d2 = e2
  <2> SUFFICES ASSUME u2 = N PROVE d2 = e2
    OBVIOUS
  <2>1. CASE zz.done
    <3>1. u2 = u /\ e1 = d
      BY <1>1, <1>5, <2>1
    <3>2. e2 = d
      <4> HIDE DEF u2
      <4> QED
        BY <3>1
    <3> HIDE DEF e2, s
    <3> QED
      BY <1>12, <1>9, <3>2
  <2>2. CASE ~zz.done
    <3>1. n \in 1 .. n /\ u + n - 1 = N - 1
      <4> HIDE DEF n
      <4> QED
        BY <1>1, <1>5, <2>2
    <3>2. E[N - 1] <= d + room
      <4> HIDE DEF n
      <4>1. E[u + n - 1] <= d + room
        BY <1>5, <2>2, <3>1
      <4> QED
        BY <3>1, <4>1
    <3>3. e2 <= d + room
      <4> HIDE DEF u2
      <4> QED
        BY <1>3, <3>2
    <3> HIDE DEF e2, s
    <3> QED
      BY <1>9, <1>12, <3>3
  <2> QED
    BY <2>1, <2>2
<1>20. f.failed => zz.in = << >> /\ ~zz.done
  <2> SUFFICES ASSUME f.failed PROVE zz.in = << >> /\ ~zz.done
    OBVIOUS
  <2>1. ~zz.done /\ ((used = << >> /\ out = << >>) \/ \E i \in DOMAIN used : ~Compressed(used[i]))
    BY <1>15
  <2>2. \A i \in DOMAIN used : Compressed(used[i])
    <3> HIDE DEF used, n
    <3> QED
      BY <1>4, <1>5, <1>7
  <2>3. used = << >> /\ out = << >>
    <3> HIDE DEF used, out
    <3> QED
      BY <2>1, <2>2
  <2>4. n = 0
    <3> HIDE DEF used, n
    <3> QED
      BY <1>7, <2>3
  <2>5. e2 = d
    <3> HIDE DEF e2, out
    <3> QED
      BY <1>9, <1>11, <2>3
  <2>6. E[u + 0] = d
    BY <2>4, <2>5
  <2>7. L = 0
    <3>1. 0 < L => E[u + 0] > d + room
      BY <1>5, <2>4
    <3>2. E[u + 0] = d => ~(E[u + 0] > d + room)
      OBVIOUS
    <3> QED
      BY <1>1, <2>6, <3>1, <3>2
  <2>8. zz.in = << >>
    BY <1>4, <2>7
  <2> QED
    BY <2>1, <2>8
<1>21. InflatedBy(r, p, zz, f, d, u, v, d2, u2)
  <2>1. /\ f.z.in = Seg(C, u2, v) /\ f.z.out = Bytes(r, d2, e2)
        /\ f.bytes = Bytes(r, d, d2) /\ f.z.zalloc = zz.zalloc
    <3> HIDE DEF used, out, u2, s, e2
    <3> QED
      BY <1>8, <1>13, <1>14, <1>15, <1>16
  <2>2. d2 <= Plains(p)
    <3> HIDE DEF e2, s
    <3>1. Plains(p) \in Nat
      BY EndsOfResponse
    <3> QED
      BY <1>9, <1>12, <3>1
  <2>3. Inflates(r, p, f.z, d2, u2, v)
    <3> HIDE DEF u2, d2
    <3> QED
      BY <1>1, <1>6, <1>12, <1>18, <1>19, <2>1 DEF Inflates
  <2> HIDE DEF u2, d2
  <2> QED
    BY <1>6, <1>12, <1>20, <2>1, <2>2, <2>3 DEF InflatedBy
<1> HIDE DEF u2, d2
<1> QED
  BY <1>6, <1>12, <1>21 DEF f

(* An inflater that is done used all units and gave all bytes. *)
LEMMA AllInflated ==
  ASSUME NEW r \in Nat, NEW p \in Response, NEW zz, NEW d \in Nat, NEW u \in Nat,
         NEW v \in Nat, Inflates(r, p, zz, d, u, v)
  PROVE  /\ zz.in = << >> <=> u = v
         /\ u <= v /\ v <= LengthOf(p) /\ d <= Plains(p)
         /\ v = LengthOf(p) /\ zz.in = << >> => d = Plains(p) /\ (p.gzip => zz.done)
         /\ ~p.gzip => u = v /\ d = v
<1> DEFINE C == Tokens(r, p)
           N == LengthOf(p)
           E == Ends(p)
<1>1. /\ u <= v /\ v <= N /\ d <= E[u] /\ N \in Nat /\ u \in 0 .. N
      /\ zz.in = Seg(C, u, v) /\ (zz.done <=> (p.gzip /\ u = N)) /\ (zz.done => d = E[u])
      /\ (~p.gzip => u = v /\ d = u)
  BY UnitsOfResponse DEF Inflates
<1>2. /\ E \in [0 .. N -> Nat] /\ Plains(p) = E[N] /\ E[N] \in Nat /\ E[u] <= E[N]
      /\ (~p.gzip => E[N] = N)
  <2>1. N \in u .. N /\ N \in 0 .. N
    BY <1>1
  <2> QED
    BY <1>1, <2>1, EndsOfResponse DEF Plains
<1>3. zz.in = << >> <=> u = v
  <2>1. C \in Seq(Token) /\ v <= Len(C)
    BY <1>1, TokensOfResponse
  <2> HIDE DEF C
  <2>2. Seg(C, u, v) = << >> <=> u = v
    BY <1>1, <2>1, SegEmpty
  <2> QED
    BY <1>1, <2>2
<1>4. E[u] \in Nat
  BY <1>1, <1>2
<1>5. d <= Plains(p)
  <2> DEFINE x == E[u]
             y == E[N]
  <2>1. x \in Nat /\ y \in Nat /\ d <= x /\ x <= y
    BY <1>1, <1>2, <1>4
  <2> HIDE DEF x, y
  <2>2. d <= y
    BY <2>1
  <2> QED
    BY <1>2, <2>2 DEF y
<1>6. ASSUME v = N, zz.in = << >>
      PROVE  d = Plains(p) /\ (p.gzip => zz.done)
  <2>1. u = N
    BY <1>3, <1>6
  <2>2. p.gzip => zz.done /\ d = E[N]
    BY <1>1, <2>1
  <2>3. ~p.gzip => d = N
    BY <1>1, <2>1
  <2> QED
    BY <1>2, <2>2, <2>3
<1> QED
  BY <1>1, <1>3, <1>5, <1>6

(* More input for the inflater. *)
LEMMA Refilled ==
  ASSUME NEW r \in Nat, NEW p \in Response, p.gzip, NEW zz \in Inflaters, NEW d \in Nat,
         NEW u \in Nat, NEW v \in Nat, Inflates(r, p, zz, d, u, v),
         NEW w \in Nat, v <= w, w <= LengthOf(p), NEW t, t = Seg(Tokens(r, p), v, w)
  PROVE  /\ Inflates(r, p, [zz EXCEPT !.in = @ \o t], d, u, w)
         /\ zz.in = << >> => Inflates(r, p, [zz EXCEPT !.in = t], d, u, w)
<1> DEFINE C == Tokens(r, p)
           N == LengthOf(p)
<1>1. C \in Seq(Token) /\ w <= Len(C) /\ u <= v /\ zz.in = Seg(C, u, v)
  BY TokensOfResponse DEF Inflates
<1>2. zz.in \o t = Seg(C, u, w)
  <2> HIDE DEF C
  <2>1. Seg(C, u, v) \o Seg(C, v, w) = Seg(C, u, w)
    BY <1>1, SegJoin
  <2> QED
    BY <1>1, <2>1 DEF C
<1>3. zz.in = << >> => t = Seg(C, u, w)
  <2>1. zz.in = << >> => u = v
    BY AllInflated
  <2> QED
    BY <2>1
<1>4. ASSUME NEW s, s = Seg(C, u, w)
      PROVE  Inflates(r, p, [zz EXCEPT !.in = s], d, u, w)
  <2> DEFINE y == [zz EXCEPT !.in = s]
  <2>1. y.in = s /\ y.out = zz.out /\ y.done = zz.done
    BY DEF Inflaters
  <2> HIDE DEF y
  <2>2. u <= w
    BY <1>1
  <2>3. Inflates(r, p, y, d, u, w)
    BY <1>4, <2>1, <2>2 DEF Inflates
  <2> QED
    BY <2>3 DEF y
<1>5. Inflates(r, p, [zz EXCEPT !.in = zz.in \o t], d, u, w)
  BY <1>2, <1>4
<1>6. [zz EXCEPT !.in = @ \o t] = [zz EXCEPT !.in = zz.in \o t]
  OBVIOUS
<1> QED
  BY <1>3, <1>4, <1>5, <1>6

(* Tokens v to w of a body without compression are passed on as the bytes  *)
(* they are.                                                               *)
IsPassedOn(r, p, zz, t, d, v, w) ==
  /\ Plain(t) = Bytes(r, d, w) /\ Len(t) = w - d /\ v = d /\ w <= Plains(p)
  /\ Inflates(r, p, zz, w, w, w)
  /\ w = LengthOf(p) => w = Plains(p)

(* Without compression what is read is what the caller gets. *)
LEMMA PassedOn ==
  ASSUME NEW r \in Nat, NEW p \in Response, ~p.gzip, NEW zz, NEW d \in Nat,
         NEW u \in Nat, NEW v \in Nat, Inflates(r, p, zz, d, u, v),
         NEW w \in Nat, v <= w, w <= LengthOf(p), NEW t, t = Seg(Tokens(r, p), v, w),
         zz.out = << >>
  PROVE  IsPassedOn(r, p, zz, t, d, v, w)
<1> DEFINE C == Tokens(r, p)
           N == LengthOf(p)
           E == Ends(p)
<1>1. /\ u = v /\ d = v /\ N \in Nat /\ zz.in = << >> /\ v \in 0 .. N /\ w \in v .. N /\ w \in 0 .. N
      /\ (zz.done <=> (p.gzip /\ u = N))
  <2>1. u = v /\ d = u /\ u <= v /\ v <= N /\ N \in Nat /\ (zz.done <=> (p.gzip /\ u = N))
    BY UnitsOfResponse DEF Inflates
  <2>2. u = v => zz.in = << >>
    BY ONLY AllInflated, r \in Nat, p \in Response, d \in Nat, u \in Nat, v \in Nat,
            Inflates(r, p, zz, d, u, v)
  <2> QED
    BY <2>1, <2>2
<1>2. E[v] = v /\ E[w] = w /\ Plains(p) = N
  <2>1. N \in 0 .. N
    BY <1>1
  <2> QED
    BY <1>1, <2>1, EndsOfResponse DEF Plains
<1>3. Plain(t) = Bytes(r, d, w)
  <2>1. Plain(Seg(C, v, w)) = Bytes(r, E[v], E[w])
    BY <1>1, PlainOfTokens
  <2> QED
    BY <1>1, <1>2, <2>1
<1>4. C \in Seq(Token) /\ w <= Len(C)
  BY TokensOfResponse
<1>5. Len(t) = w - d
  <2> HIDE DEF C
  <2>1. Len(Seg(C, v, w)) = w - v
    BY <1>1, <1>4, SegTyped
  <2> QED
    BY <1>1, <2>1 DEF C
<1>6. Seg(C, w, w) = << >>
  <2> HIDE DEF C
  <2> QED
    BY <1>4, SegEmpty
<1>7. Bytes(r, w, w) = << >>
  BY NoBytes
<1>8. Inflates(r, p, zz, w, w, w)
  <2>1. zz.in = Seg(C, w, w) /\ zz.out = Bytes(r, w, E[w])
    BY <1>1, <1>2, <1>6, <1>7
  <2>2. ~zz.done
    BY <1>1
  <2> QED
    BY <1>1, <1>2, <2>1, <2>2 DEF Inflates
<1>9. v = d /\ w <= Plains(p) /\ (w = LengthOf(p) => w = Plains(p))
  BY <1>1, <1>2
<1> QED
  BY <1>3, <1>5, <1>8, <1>9 DEF IsPassedOn

-----------------------------------------------------------------------------
(* Places in a chunked response: c units of a chunk are left at pos, the   *)
(* units up to v being read; a chunk and its CRLF end at o; the size k is  *)
(* on the line that starts at o.                                           *)
InChunk(p, c, pos, v) ==
  \E j \in 1 .. Len(p.chunks) :
    c \in 0 .. Len(p.chunks[j]) /\ pos = Off(p, j) - 2 - c /\ v = Before(p)[j] - c
AfterChunk(p, o, v) ==
  \E j \in 1 .. Len(p.chunks) : o = Off(p, j) /\ v = Before(p)[j]
AtLine(p, o, v, k) ==
  \E j \in 0 .. Len(p.chunks) : o = Off(p, j) /\ v = Before(p)[j] /\ k = SizeAt(p, j + 1)

(* Numbers of a chunk. *)
LEMMA ChunkNumbers ==
  ASSUME NEW r \in Nat, NEW p \in Response, p.framing = "chunked",
         NEW j \in 1 .. Len(p.chunks)
  PROVE  /\ Len(p.chunks[j]) \in Nat \ {0} /\ Before(p)[j] \in Nat /\ Before(p)[j - 1] \in Nat
         /\ Before(p)[j] = Before(p)[j - 1] + Len(p.chunks[j]) /\ Before(p)[j] <= LengthOf(p)
         /\ Off(p, j) \in Nat /\ Off(p, j - 1) \in Nat
         /\ Off(p, j) = Off(p, j - 1) + Len(p.chunks[j]) + 5
         /\ Wire(r, p) \in Seq(Token) /\ Off(p, j) + 5 <= Len(Wire(r, p))
         /\ Len(Wire(r, p)) \in Nat
<1> DEFINE J == Len(p.chunks)
           W == Wire(r, p)
           S == Before(p)
           O(i) == Off(p, i)
<1>1. j \in 0 .. J /\ j - 1 \in 0 .. J /\ J \in 0 .. J
  BY UnitsOfResponse
<1>2. /\ S \in [0 .. J -> Nat]
      /\ Len(p.chunks[j]) \in Nat /\ S[j] = S[j - 1] + Len(p.chunks[j])
      /\ S[j] <= LengthOf(p)
      /\ Len(p.chunks[j]) >= 1
  BY <1>1, BeforeOfResponse
<1>3. /\ W \in Seq(Token) /\ Len(W) = O(J) + 5
      /\ O(j) \in Nat /\ O(j - 1) \in Nat /\ O(j) <= O(J) /\ O(J) \in Nat
      /\ O(j) = O(j - 1) + Len(p.chunks[j]) + 5
  <2>1. /\ W \in Seq(Token) /\ Len(W) = O(J) + 5
        /\ \A i \in 0 .. J : O(i) \in Nat /\ O(i) <= O(J)
        /\ O(j) = O(j - 1) + Len(p.chunks[j]) + 5
    BY ChunkEnds
  <2> QED
    BY <1>1, <2>1
<1> HIDE DEF O, W, S
<1>4. Len(p.chunks[j]) \in Nat \ {0} /\ S[j] \in Nat /\ S[j - 1] \in Nat
  BY <1>1, <1>2
<1>5. O(j) + 5 <= Len(W) /\ Len(W) \in Nat
  BY <1>3
<1> QED
  BY <1>2, <1>3, <1>4, <1>5 DEF O, W, S

(* n units of a chunk are read. *)
LEMMA ChunkRead ==
  ASSUME NEW r \in Nat, NEW p \in Response, p.framing = "chunked", NEW c \in Nat,
         NEW pos \in Nat, NEW v \in Nat, InChunk(p, c, pos, v), NEW n \in Nat, n <= c
  PROVE  /\ InChunk(p, c - n, pos + n, v + n)
         /\ Seg(Wire(r, p), pos, pos + n) = Seg(Tokens(r, p), v, v + n)
         /\ pos + 2 <= Len(Wire(r, p)) /\ v + n <= LengthOf(p)
         /\ Len(Wire(r, p)) \in Nat
<1>1. PICK j \in 1 .. Len(p.chunks) :
        c \in 0 .. Len(p.chunks[j]) /\ pos = Off(p, j) - 2 - c /\ v = Before(p)[j] - c
  BY DEF InChunk
<1> DEFINE o == Off(p, j)
           b == Before(p)[j]
           l == Len(p.chunks[j])
<1>2. /\ l \in Nat \ {0} /\ b \in Nat /\ b <= LengthOf(p) /\ o \in Nat
      /\ o + 5 <= Len(Wire(r, p)) /\ Len(Wire(r, p)) \in Nat
  BY ChunkNumbers
<1>3. Seg(Wire(r, p), o - 2 - c, o - 2 - c + n) = Seg(Tokens(r, p), b - c, b - c + n)
  BY ONLY <1>1, r \in Nat, p \in Response, p.framing = "chunked", n \in 0 .. c, SegInChunk
<1>4. c \in 0 .. l /\ pos = o - 2 - c /\ v = b - c
  BY <1>1
<1>5. ASSUME c - n \in 0 .. l, pos + n = o - 2 - (c - n), v + n = b - (c - n)
      PROVE  InChunk(p, c - n, pos + n, v + n)
  BY <1>5 DEF InChunk
<1> HIDE DEF o, b, l
<1>6. c - n \in 0 .. l /\ pos + n = o - 2 - (c - n) /\ v + n = b - (c - n)
  BY <1>2, <1>4
<1>7. LengthOf(p) \in Nat
  BY UnitsOfResponse
<1>8. pos + 2 <= Len(Wire(r, p)) /\ v + n <= LengthOf(p)
  BY <1>2, <1>4, <1>7
<1> QED
  BY <1>2, <1>3, <1>4, <1>5, <1>6, <1>8

(* Behind the last unit of a chunk comes its CRLF. *)
LEMMA ChunkOver ==
  ASSUME NEW p, NEW pos \in Nat, NEW v \in Nat, InChunk(p, 0, pos, v),
         p \in Response, p.framing = "chunked"
  PROVE  AfterChunk(p, pos + 2, v)
<1>1. PICK j \in 1 .. Len(p.chunks) : pos = Off(p, j) - 2 - 0 /\ v = Before(p)[j] - 0
  BY DEF InChunk
<1>2. Off(p, j) \in Nat /\ Before(p)[j] \in Nat
  BY 0 \in Nat, ChunkNumbers
<1>3. pos + 2 = Off(p, j) /\ v = Before(p)[j]
  BY <1>1, <1>2
<1> QED
  BY <1>3 DEF AfterChunk

(* The CRLF behind a chunk, and the size line behind it. *)
LEMMA ChunkCrlf ==
  ASSUME NEW r \in Nat, NEW p \in Response, p.framing = "chunked",
         NEW o \in Nat, NEW v \in Nat, AfterChunk(p, o, v)
  PROVE  /\ o >= 2 /\ o + 5 <= Len(Wire(r, p)) /\ Seg(Wire(r, p), o - 2, o) = <<CR, LF>>
         /\ \E k \in Nat : AtLine(p, o, v, k)
<1>1. PICK j \in 1 .. Len(p.chunks) : o = Off(p, j) /\ v = Before(p)[j]
  BY DEF AfterChunk
<1> DEFINE W == Wire(r, p)
           l == Len(p.chunks[j])
           o1 == Off(p, j - 1)
<1>2. /\ l \in Nat \ {0} /\ o = o1 + l + 5 /\ o1 \in Nat
      /\ W \in Seq(Token) /\ o + 5 <= Len(W) /\ Len(W) \in Nat
  BY <1>1, ChunkNumbers
<1>3. W[o - 1] = CR /\ W[o] = LF
  BY <1>1, WireOfChunked
<1> HIDE DEF W, l, o1
<1>4. o >= 2 /\ o <= Len(W)
  BY <1>2
<1>5. Seg(W, o - 2, o) = <<CR, LF>>
  <2>1. /\ Seg(W, o - 2, o) \in Seq(Token) /\ Len(Seg(W, o - 2, o)) = 2
        /\ Seg(W, o - 2, o)[1] = W[o - 1] /\ Seg(W, o - 2, o)[2] = W[o]
    BY <1>2, <1>4 DEF Seg
  <2> DEFINE s == Seg(W, o - 2, o)
  <2> HIDE DEF s
  <2>2. s \in Seq(Token) /\ Len(s) = 2 /\ s[1] = CR /\ s[2] = LF
    BY <1>3, <2>1 DEF s
  <2>3. s = <<CR, LF>>
    BY <2>2
  <2> QED
    BY <2>3 DEF s
<1>6. SizeAt(p, j + 1) \in Nat
  <2>1. CASE j = Len(p.chunks)
    BY <2>1 DEF SizeAt
  <2>2. CASE j # Len(p.chunks)
    <3>1. j + 1 \in 1 .. Len(p.chunks) /\ j + 1 # Len(p.chunks) + 1
      BY <2>2, UnitsOfResponse
    <3>2. Len(p.chunks[j + 1]) \in Nat
      BY <3>1, BeforeOfResponse
    <3> QED
      BY <3>1, <3>2 DEF SizeAt
  <2> QED
    BY <2>1, <2>2
<1>7. AtLine(p, o, v, SizeAt(p, j + 1))
  <2>1. j \in 0 .. Len(p.chunks)
    OBVIOUS
  <2> QED
    BY <1>1, <2>1 DEF AtLine
<1> QED
  BY <1>2, <1>4, <1>5, <1>6, <1>7 DEF W

(* The first size line. *)
LEMMA FirstLine ==
  ASSUME NEW p \in Response, p.framing = "chunked"
  PROVE  \E k \in Nat : AtLine(p, 0, 0, k)
<1>1. Len(p.chunks) \in Nat /\ Before(p)[0] = 0
  BY UnitsOfResponse, BeforeOfResponse
<1>2. Off(p, 0) = 0 /\ 0 \in 0 .. Len(p.chunks)
  BY <1>1 DEF Off
<1>3. SizeAt(p, 0 + 1) \in Nat
  <2>1. CASE Len(p.chunks) = 0
    BY <2>1 DEF SizeAt
  <2>2. CASE Len(p.chunks) # 0
    <3>1. 1 \in 1 .. Len(p.chunks) /\ 1 # Len(p.chunks) + 1
      BY <1>1, <2>2
    <3>2. Len(p.chunks[1]) \in Nat
      BY <3>1, BeforeOfResponse
    <3> QED
      BY <3>1, <3>2 DEF SizeAt
  <2> QED
    BY <2>1, <2>2
<1>4. AtLine(p, 0, 0, SizeAt(p, 0 + 1))
  BY <1>1, <1>2 DEF AtLine
<1> QED
  BY <1>3, <1>4

(* A size line: 0 ends the body, another size starts a chunk. *)
LEMMA LineOfSize ==
  ASSUME NEW r \in Nat, NEW p \in Response, p.framing = "chunked",
         NEW o \in Nat, NEW v \in Nat, NEW k \in Nat, AtLine(p, o, v, k)
  PROVE  /\ o + 5 <= Len(Wire(r, p)) /\ IsLine(Wire(r, p), o, k)
         /\ k = 0 => v = LengthOf(p)
         /\ k # 0 => InChunk(p, k, o + 3, v)
<1>1. PICK j \in 0 .. Len(p.chunks) :
        o = Off(p, j) /\ v = Before(p)[j] /\ k = SizeAt(p, j + 1)
  BY DEF AtLine
<1> DEFINE W == Wire(r, p)
           J == Len(p.chunks)
<1>2. J \in Nat /\ J \in 0 .. J
  BY UnitsOfResponse
<1>3. IsLine(W, o, k)
  <2>1. W[Off(p, j) + 1] = Size(SizeAt(p, j + 1)) /\ W[Off(p, j) + 2] = CR
        /\ W[Off(p, j) + 3] = LF
    BY WireOfChunked
  <2> QED
    BY <1>1, <2>1 DEF IsLine
<1>4. o + 5 <= Len(W)
  <2>1. Len(W) = Off(p, J) + 5 /\ Off(p, J) \in Nat /\ Off(p, j) <= Off(p, J)
    BY <1>2, WireOfChunked
  <2> DEFINE y == Off(p, J)
  <2>2. Len(W) = y + 5 /\ y \in Nat /\ o <= y
    BY <1>1, <2>1
  <2> HIDE DEF W, y
  <2> QED
    BY <2>2
<1>5. ASSUME k = 0
      PROVE  v = LengthOf(p)
  <2>1. j = J
    <3> SUFFICES ASSUME j # J PROVE FALSE
      OBVIOUS
    <3>1. j + 1 \in 1 .. J /\ j + 1 # J + 1
      BY <1>2
    <3>2. Len(p.chunks[j + 1]) \in Nat \ {0}
      BY <3>1, 0 \in Nat, ChunkNumbers
    <3> QED
      BY <1>1, <1>5, <3>1, <3>2 DEF SizeAt
  <2> QED
    BY <1>1, <2>1, BeforeOfResponse
<1>6. ASSUME k # 0
      PROVE  InChunk(p, k, o + 3, v)
  <2>1. j # J
    BY <1>1, <1>6 DEF SizeAt
  <2> DEFINE i == j + 1
             l == Len(p.chunks[i])
             o2 == Off(p, i)
             b2 == Before(p)[i]
  <2>2. i \in 1 .. J /\ i # J + 1 /\ i - 1 = j
    BY <1>2, <2>1
  <2>3. k = l
    BY <1>1, <2>2 DEF SizeAt
  <2> HIDE DEF i
  <2>4. /\ l \in Nat \ {0} /\ b2 \in Nat /\ b2 = Before(p)[i - 1] + l
        /\ o2 \in Nat /\ o2 = Off(p, i - 1) + l + 5
    BY <2>2, ChunkNumbers
  <2>5. b2 = v + l /\ o2 = o + l + 5
    BY <1>1, <2>2, <2>4
  <2>6. ASSUME k \in 0 .. l, o + 3 = o2 - 2 - k, v = b2 - k
        PROVE  InChunk(p, k, o + 3, v)
    BY <2>2, <2>6 DEF InChunk
  <2> HIDE DEF l, o2, b2
  <2>7. k \in 0 .. l /\ o + 3 = o2 - 2 - k /\ v = b2 - k
    BY <2>3, <2>4, <2>5
  <2> QED
    BY <2>6, <2>7
<1> QED
  BY <1>3, <1>4, <1>5, <1>6

-----------------------------------------------------------------------------
(* The inductive invariant.  Of the response being read pos tokens were    *)
(* taken from m_response, q from the socket, and e were sent; v units of   *)
(* the body were taken, u went through the inflater, and the caller has d  *)
(* bytes.  Parses says where in the framing a read is.                     *)
Now == exchange.responses[user.r]
WholeSent == ~(Final(user.r) /\ exchange.unsent > 0)
Between == {"idle", "read_some", "async_read_some"}
Async == {"async_read_some", "async_crlf", "async_size", "async_chunk"}

(* In a chunk, or in a body that is not chunked. *)
InBody(p, mm, pos, v) ==
  IF p.framing = "chunked" THEN ~mm.skip_crlf /\ InChunk(p, mm.chunked_size, pos, v)
  ELSE pos = v /\ mm.body_size = v /\ mm.chunked_size = 0

(* Before the first chunk. *)
AtStart(p, mm, pos, v) ==
  p.framing = "chunked" /\ mm.skip_crlf /\ pos = 0 /\ v = 0 /\ mm.chunked_size = 0

(* In the CRLF behind a chunk: async_crlf has all that m_response held. *)
InCrlf(W, p, mm, cl, zin, pos, q, v) ==
  /\ p.framing = "chunked" /\ cl.pc \in {"crlf", "async_crlf"}
  /\ mm.chunked_size = 0 /\ zin = << >>
  /\ \E o \in Nat : /\ AfterChunk(p, o, v) /\ (pos = o - 2 \/ pos = o - 1)
                    /\ cl.got = Seg(W, o - 2, pos)
  /\ cl.pc = "async_crlf" => pos = q

(* In a size line, which async_size reads from its start. *)
InSize(W, p, mm, cl, zin, pos, v) ==
  /\ p.framing = "chunked" /\ cl.pc \in {"size", "async_size"}
  /\ mm.chunked_size = 0 /\ zin = << >>
  /\ \E o \in Nat, k \in Nat :
       /\ AtLine(p, o, v, k) /\ o <= pos /\ pos <= o + 2 /\ cl.got = Seg(W, o, pos)
       /\ cl.pc = "async_size" => pos = o

(* A read is in the body, in a CRLF or in a size line. *)
Parses(W, p, mm, cl, zin, pos, q, v) ==
  /\ p.framing = "chunked" => ~mm.is_chunked_end
  /\ \/ cl.pc \in Between /\ (InBody(p, mm, pos, v) \/ AtStart(p, mm, pos, v))
     \/ /\ cl.pc \in {"chunk", "async_chunk"} /\ p.framing = "chunked"
        /\ InBody(p, mm, pos, v) /\ mm.chunked_size # 0 /\ zin = << >>
     \/ InCrlf(W, p, mm, cl, zin, pos, q, v)
     \/ InSize(W, p, mm, cl, zin, pos, v)

(* All that is known of a response that is being read. *)
ReadingAt(r, p, whole, resp, rest, mm, zz, cl, d, pos, q, e, u, v) ==
  /\ Buffers(Wire(r, p), resp, rest, pos, q, e)
  /\ whole => e = Len(Wire(r, p))
  /\ Inflates(r, p, zz, d, u, v)
  /\ Parses(Wire(r, p), p, mm, cl, zz.in, pos, q, v)

(* The members say what the head of the response says; without compression *)
(* there is no inflater.                                                   *)
HeadInv ==
  /\ m.is_chunked = (Now.framing = "chunked") /\ m.keep_alive = Now.keep
  /\ m.is_gzip = Now.gzip
  /\ ~Now.gzip => m_stream = NoInflater

(* m_content_length is the length of a response of this connection, none   *)
(* less than that of this one.                                             *)
LengthInv ==
  /\ Now.framing = "length" => m.content_length >= LengthOf(Now)
  /\ m.content_length # -1 =>
       \E i \in 1 .. user.r :
         /\ exchange.responses[i].framing = "length"
         /\ m.content_length = LengthOf(exchange.responses[i])
         /\ \A k \in i .. user.r - 1 : exchange.responses[k].keep

(* The caller has the first bytes, as many as were reported. *)
CountInv ==
  user.reported <= Plains(Now) /\ user.delivered = Bytes(user.r, 0, user.reported)

(* A call has room; the handlers run in asynchronous mode only. *)
ModeInv ==
  /\ call.pc # "idle" => call.room # 0
  /\ call.pc \in Async => exchange.mode = "async"

(* A response that is being read has places for all of this. *)
ReadingInv ==
  ~user.ended =>
    /\ user.ec = "none"
    /\ \E pos \in Nat, q \in Nat, e \in Nat, u \in Nat, v \in Nat :
         ReadingAt(user.r, Now, WholeSent, m_response, socket.rest, m, m_stream, call,
                   user.reported, pos, q, e, u, v)

(* How the reading of the response ended. *)
EndedWell ==
  WholeSent =>
    /\ user.reported = Plains(Now) /\ m.chunked_size = 0
    /\ user.ec = "none" /\ Now.keep /\ Now.framing # "chunked" => socket.rest = << >>

(* After an end no call is in progress, and errors have their reasons. *)
EndedInv ==
  user.ended =>
    /\ call.pc = "idle"
    /\ user.ec \in {"none", "eof", "invalid_chunked_encoding", "operation_not_supported"}
    /\ user.ec \in {"none", "eof"} => EndedWell
    /\ user.ec = "operation_not_supported" => ~WholeSent
    /\ user.ec = "invalid_chunked_encoding" => exchange.mode = "async"

(* The inductive invariant. *)
IInv ==
  /\ TypesInv /\ Readable(exchange) /\ HeadInv /\ LengthInv /\ CountInv
  /\ ModeInv /\ ReadingInv /\ EndedInv

-----------------------------------------------------------------------------
(* What the steps of a read have in common. *)

(* The head stays as it was read. *)
HeadKept ==
  /\ exchange' = exchange
  /\ m'.is_chunked = m.is_chunked /\ m'.keep_alive = m.keep_alive
  /\ m'.is_gzip = m.is_gzip /\ m'.content_length = m.content_length
  /\ ~m.is_gzip => m_stream' = NoInflater

(* Bytes are only added, and not by a call that fails. *)
Progress ==
  /\ user'.r = user.r /\ user.reported <= user'.reported
  /\ user'.reported # user.reported => user'.ec \in {"none", "eof"}

(* The response that is being read. *)
LEMMA NowTyped ==
  ASSUME TypesInv
  PROVE  /\ user.r \in Nat /\ Now \in Response /\ user.reported \in Nat
         /\ user.r \in DOMAIN exchange.responses /\ m \in Members /\ m_stream \in Inflaters
         /\ m_response \in Seq(Token) /\ socket \in Sockets /\ call \in Calls /\ user \in Users
         /\ exchange \in Cases
         /\ Wire(user.r, Now) \in Seq(Token) /\ Tokens(user.r, Now) \in Seq(Token)
         /\ LengthOf(Now) \in Nat
<1>1. /\ exchange \in Cases /\ user.r \in DOMAIN exchange.responses
      /\ m_response \in Seq(Token) /\ m \in Members /\ m_stream \in Inflaters
      /\ socket \in Sockets /\ call \in Calls /\ user \in Users
  BY DEF TypesInv
<1>2. user.r \in Nat /\ Now \in Response
  BY <1>1, ResponsesTyped DEF Now
<1>3. user.reported \in Nat
  BY <1>1 DEF Users
<1>4. /\ Wire(user.r, Now) \in Seq(Token) /\ Tokens(user.r, Now) \in Seq(Token)
      /\ LengthOf(Now) \in Nat
  BY <1>2, WireTyped, TokensOfResponse, UnitsOfResponse
<1> QED
  BY <1>1, <1>2, <1>3, <1>4

(* What the head says stays. *)
LEMMA HeadStays ==
  ASSUME IInv, HeadKept, user'.r = user.r
  PROVE  /\ Now' = Now /\ WholeSent' = WholeSent /\ exchange' = exchange
         /\ Readable(exchange)' /\ HeadInv' /\ LengthInv'
<1>1. exchange' = exchange /\ user'.r = user.r
  BY DEF HeadKept
<1>2. Now' = Now /\ WholeSent' = WholeSent
  BY <1>1 DEF Now, WholeSent, Final
<1>3. Readable(exchange)
  BY DEF IInv
<1>4. Readable(exchange)'
  BY <1>1, <1>3
<1>5. HeadInv'
  BY <1>2 DEF IInv, HeadInv, HeadKept
<1>6. LengthInv'
  <2>1. m'.content_length = m.content_length
    BY DEF HeadKept
  <2> QED
    BY <1>1, <1>2, <2>1 DEF IInv, LengthInv
<1> QED
  BY <1>1, <1>2, <1>4, <1>5, <1>6

(* The call goes on, or returned bytes and the caller reads on. *)
LEMMA ReadsOn ==
  ASSUME IInv, TypesInv', HeadKept, user'.r = user.r,
         ~user'.ended, user'.ec = "none",
         NEW d \in Nat, user.reported <= d, d <= Plains(Now),
         user'.reported = d, user'.delivered = Bytes(user.r, 0, d),
         call'.pc # "idle" => call'.room # 0,
         call'.pc \in Async => exchange.mode = "async",
         NEW pos \in Nat, NEW q \in Nat, NEW e \in Nat, NEW u \in Nat, NEW v \in Nat,
         ReadingAt(user.r, Now, WholeSent, m_response', socket'.rest, m', m_stream', call',
                   d, pos, q, e, u, v)
  PROVE  IInv' /\ Progress
<1>1. /\ Now' = Now /\ WholeSent' = WholeSent /\ exchange' = exchange
      /\ Readable(exchange)' /\ HeadInv' /\ LengthInv'
  BY HeadStays
<1>2. CountInv'
  BY <1>1 DEF CountInv
<1>3. ModeInv'
  BY <1>1 DEF ModeInv
<1>4. ReadingInv'
  <2>1. ReadingAt(user.r, Now, WholeSent, m_response, socket.rest, m, m_stream, call,
                  user.reported, pos, q, e, u, v)'
    BY <1>1
  <2> QED
    BY <2>1 DEF ReadingInv
<1>5. EndedInv'
  BY DEF EndedInv
<1>6. Progress
  BY DEF Progress
<1> QED
  BY <1>1, <1>2, <1>3, <1>4, <1>5, <1>6 DEF IInv

(* The call returned the end, or an error. *)
LEMMA ReadsNoMore ==
  ASSUME IInv, TypesInv', HeadKept, user'.r = user.r,
         user'.ended, call'.pc = "idle",
         NEW d \in Nat, user.reported <= d, d <= Plains(Now),
         user'.reported = d, user'.delivered = Bytes(user.r, 0, d),
         \/ /\ user'.ec \in {"none", "eof"}
            /\ WholeSent =>
                 /\ d = Plains(Now) /\ m'.chunked_size = 0
                 /\ user'.ec = "none" /\ Now.keep /\ Now.framing # "chunked" =>
                      socket'.rest = << >>
         \/ user'.ec = "operation_not_supported" /\ ~WholeSent /\ d = user.reported
         \/ user'.ec = "invalid_chunked_encoding" /\ exchange.mode = "async"
              /\ d = user.reported
  PROVE  IInv' /\ Progress
<1>1. /\ Now' = Now /\ WholeSent' = WholeSent /\ exchange' = exchange
      /\ Readable(exchange)' /\ HeadInv' /\ LengthInv'
  BY HeadStays
<1>2. CountInv'
  BY <1>1 DEF CountInv
<1>3. ModeInv'
  BY DEF ModeInv, Async
<1>4. ReadingInv'
  BY DEF ReadingInv
<1>5. EndedInv'
  <2>1. user'.ec \in {"none", "eof"} => EndedWell'
    BY <1>1 DEF EndedWell
  <2> QED
    BY <1>1, <2>1 DEF EndedInv
<1>6. Progress
  BY DEF Progress
<1> QED
  BY <1>1, <1>2, <1>3, <1>4, <1>5, <1>6 DEF IInv

(* A step to another place of the same call. *)
LEMMA GoesOn ==
  ASSUME IInv, TypesInv', HeadKept, ~user.ended, NEW pc, NEW got, Goto(pc, got),
         call.pc # "idle", pc \in Async => exchange.mode = "async",
         NEW pos \in Nat, NEW q \in Nat, NEW e \in Nat, NEW u \in Nat, NEW v \in Nat,
         Buffers(Wire(user.r, Now), m_response', socket'.rest, pos, q, e),
         WholeSent => e = Len(Wire(user.r, Now)),
         Inflates(user.r, Now, m_stream', user.reported, u, v),
         Parses(Wire(user.r, Now), Now, m', [pc |-> pc, got |-> got], m_stream'.in, pos, q, v)
  PROVE  IInv' /\ Progress
<1>1. user' = user /\ call' = [call EXCEPT !.pc = pc, !.got = got]
  BY DEF Goto
<1>2. /\ call \in Calls /\ user \in Users /\ user.reported \in Nat
  BY NowTyped DEF IInv
<1>3. call'.pc = pc /\ call'.got = got /\ call'.room = call.room
  BY <1>1, <1>2 DEF Calls
<1>4. user.ec = "none" /\ call.room # 0
  BY DEF IInv, ReadingInv, ModeInv
<1>5. user.reported <= Plains(Now) /\ user.delivered = Bytes(user.r, 0, user.reported)
  BY DEF IInv, CountInv
<1>6. Parses(Wire(user.r, Now), Now, m', call', m_stream'.in, pos, q, v)
  BY <1>3 DEF Parses, InCrlf, InSize
<1>7. ReadingAt(user.r, Now, WholeSent, m_response', socket'.rest, m', m_stream', call',
                user.reported, pos, q, e, u, v)
  BY <1>6 DEF ReadingAt
<1>8. /\ ~user'.ended /\ user'.ec = "none" /\ user'.reported = user.reported
      /\ user'.r = user.r
      /\ user'.delivered = Bytes(user.r, 0, user.reported) /\ user.reported <= user.reported
  BY <1>1, <1>2, <1>4, <1>5
<1> QED
  BY <1>2, <1>3, <1>4, <1>5, <1>7, <1>8, ReadsOn

(* What Return does. *)
LEMMA Returned ==
  ASSUME IInv, NEW bytes, NEW n, NEW ec, Return(bytes, n, ec)
  PROVE  /\ call'.pc = "idle" /\ call' = Idle /\ user'.r = user.r /\ user'.ec = ec
         /\ user'.ended = (ec # "none" \/ n = 0)
         /\ user'.reported = (IF ec \in {"none", "eof"} THEN user.reported + n ELSE user.reported)
         /\ user'.delivered = user.delivered \o bytes
<1>1. user \in Users
  BY NowTyped DEF IInv
<1> QED
  BY <1>1 DEF Return, Idle, Users

(* The bytes up to a, and those from there to d. *)
LEMMA BytesGrow ==
  ASSUME NEW r \in Nat, NEW a \in Nat, NEW d \in Nat, a <= d
  PROVE  Joined(Bytes(r, 0, a), Bytes(r, a, d)) = Bytes(r, 0, d)
<1>1. 0 \in Nat /\ 0 <= a
  OBVIOUS
<1> QED
  BY <1>1, BytesJoin

(* A call hands over n bytes, up to byte d, and leaves what is on the wire *)
(* from pos on, and in the inflater from u to v.                           *)
HandedOver(bytes, n, ec, d, pos, q, e, u, v) ==
  /\ user.reported <= d /\ d <= Plains(Now) /\ bytes = Bytes(user.r, user.reported, d)
  /\ n = d - user.reported /\ Return(bytes, n, ec)
  /\ Buffers(Wire(user.r, Now), m_response', socket'.rest, pos, q, e)
  /\ WholeSent => e = Len(Wire(user.r, Now))
  /\ Inflates(user.r, Now, m_stream', d, u, v)
  /\ ec = "none" /\ n # 0 => InBody(Now, m', pos, v)
  /\ Now.framing = "chunked" => ~m'.is_chunked_end \/ n = 0
  /\ WholeSent /\ (ec = "eof" \/ n = 0) =>
       /\ d = Plains(Now) /\ m'.chunked_size = 0
       /\ ec = "none" /\ Now.keep /\ Now.framing # "chunked" => socket'.rest = << >>

(* The caller reads on, or takes it as the end. *)
LEMMA Gives ==
  ASSUME IInv, TypesInv', HeadKept, ~user.ended, NEW bytes, NEW n, NEW ec \in {"none", "eof"},
         NEW d \in Nat, NEW pos \in Nat, NEW q \in Nat, NEW e \in Nat, NEW u \in Nat,
         NEW v \in Nat, HandedOver(bytes, n, ec, d, pos, q, e, u, v)
  PROVE  IInv' /\ Progress
<1>0. /\ user.reported <= d /\ d <= Plains(Now) /\ bytes = Bytes(user.r, user.reported, d)
      /\ n = d - user.reported /\ Return(bytes, n, ec)
      /\ Buffers(Wire(user.r, Now), m_response', socket'.rest, pos, q, e)
      /\ WholeSent => e = Len(Wire(user.r, Now))
      /\ Inflates(user.r, Now, m_stream', d, u, v)
      /\ ec = "none" /\ n # 0 => InBody(Now, m', pos, v)
      /\ Now.framing = "chunked" => ~m'.is_chunked_end \/ n = 0
      /\ WholeSent /\ (ec = "eof" \/ n = 0) =>
           /\ d = Plains(Now) /\ m'.chunked_size = 0
           /\ ec = "none" /\ Now.keep /\ Now.framing # "chunked" => socket'.rest = << >>
  BY DEF HandedOver
<1>1. user.reported \in Nat /\ user.r \in Nat
  BY NowTyped DEF IInv
<1>2. /\ call'.pc = "idle" /\ user'.r = user.r /\ user'.ec = ec
      /\ user'.ended = (ec # "none" \/ n = 0)
      /\ user'.reported = user.reported + n
      /\ user'.delivered = user.delivered \o bytes
  BY <1>0, Returned
<1>3. user'.reported = d
  BY <1>0, <1>1, <1>2
<1>4. user'.delivered = Bytes(user.r, 0, d)
  <2>1. user.delivered = Bytes(user.r, 0, user.reported)
    BY DEF IInv, CountInv
  <2>2. Joined(Bytes(user.r, 0, user.reported), Bytes(user.r, user.reported, d))
          = Bytes(user.r, 0, d)
    BY <1>0, <1>1, BytesGrow
  <2>3. user'.delivered = Joined(user.delivered, Bytes(user.r, user.reported, d))
    BY <1>0, <1>2 DEF Joined
  <2> QED
    BY <2>1, <2>2, <2>3
<1>5. CASE ec = "none" /\ n # 0
  <2>1. Parses(Wire(user.r, Now), Now, m', call', m_stream'.in, pos, q, v)
    BY <1>0, <1>2, <1>5 DEF Parses, Between
  <2>2. ReadingAt(user.r, Now, WholeSent, m_response', socket'.rest, m', m_stream', call',
                  d, pos, q, e, u, v)
    BY <1>0, <2>1 DEF ReadingAt
  <2>3. ~user'.ended /\ user'.ec = "none" /\ call'.pc \notin Async
    BY <1>2, <1>5 DEF Async
  <2> QED
    BY <1>0, <1>2, <1>3, <1>4, <2>2, <2>3, ReadsOn
<1>6. CASE ~(ec = "none" /\ n # 0)
  <2>1. user'.ended
    BY <1>2, <1>6
  <2>2. /\ user'.ec \in {"none", "eof"}
        /\ WholeSent =>
             /\ d = Plains(Now) /\ m'.chunked_size = 0
             /\ user'.ec = "none" /\ Now.keep /\ Now.framing # "chunked" =>
                  socket'.rest = << >>
    BY <1>0, <1>2, <1>6
  <2> QED
    BY <1>0, <1>2, <1>3, <1>4, <2>1, <2>2, ReadsNoMore
<1> QED
  BY <1>5, <1>6

(* The end of the body, or of the connection. *)
LEMMA BodyOver ==
  ASSUME IInv, TypesInv', HeadKept, ~user.ended,
         NEW ec \in {"none", "eof"}, Return(<< >>, 0, ec),
         WholeSent =>
           /\ user.reported = Plains(Now) /\ m'.chunked_size = 0
           /\ ec = "none" /\ Now.keep /\ Now.framing # "chunked" => socket'.rest = << >>
  PROVE  IInv' /\ Progress
<1>1. /\ call'.pc = "idle" /\ user'.r = user.r /\ user'.ec = ec
      /\ user'.ended = (ec # "none" \/ 0 = 0)
      /\ user'.reported = user.reported + 0
      /\ user'.delivered = user.delivered \o << >>
  BY Returned
<1>2. user.reported \in Nat /\ user \in Users
  BY NowTyped DEF IInv
<1>3. user.reported <= Plains(Now) /\ user.delivered = Bytes(user.r, 0, user.reported)
  BY DEF IInv, CountInv
<1>4. user'.reported = user.reported /\ user'.ended /\ user.reported <= user.reported
  <2>1. user'.reported = user.reported /\ user.reported <= user.reported
    BY <1>1, <1>2
  <2>2. user'.ended
    BY <1>1
  <2> QED
    BY <2>1, <2>2
<1>5. user'.delivered = Bytes(user.r, 0, user.reported)
  <2>1. user.delivered \in Seq(PlainBytes)
    BY <1>2 DEF Users
  <2> QED
    BY <1>1, <1>3, <2>1
<1>6. /\ user'.ec \in {"none", "eof"}
      /\ WholeSent =>
           /\ user.reported = Plains(Now) /\ m'.chunked_size = 0
           /\ user'.ec = "none" /\ Now.keep /\ Now.framing # "chunked" =>
                socket'.rest = << >>
  BY <1>1
<1> QED
  BY <1>1, <1>2, <1>3, <1>4, <1>5, <1>6, ReadsNoMore

(* A call fails: of the inflater when the connection was lost, of the CRLF *)
(* that came in two pieces in async_read_some.                             *)
LEMMA Fails ==
  ASSUME IInv, TypesInv', HeadKept, ~user.ended, NEW n, NEW ec, Return(<< >>, n, ec),
         \/ ec = "operation_not_supported" /\ ~WholeSent
         \/ ec = "invalid_chunked_encoding" /\ exchange.mode = "async"
  PROVE  IInv' /\ Progress
<1>1. /\ call'.pc = "idle" /\ user'.r = user.r /\ user'.ec = ec
      /\ user'.ended = (ec # "none" \/ n = 0)
      /\ user'.reported = (IF ec \in {"none", "eof"} THEN user.reported + n ELSE user.reported)
      /\ user'.delivered = user.delivered \o << >>
  BY Returned
<1>2. user.reported \in Nat /\ user \in Users
  BY NowTyped DEF IInv
<1>3. user.reported <= Plains(Now) /\ user.delivered = Bytes(user.r, 0, user.reported)
  BY DEF IInv, CountInv
<1>4. user'.reported = user.reported /\ user'.ended /\ user.reported <= user.reported
  <2>1. user'.reported = user.reported /\ user.reported <= user.reported
    BY <1>1, <1>2
  <2>2. user'.ended
    BY <1>1
  <2> QED
    BY <2>1, <2>2
<1>5. user'.delivered = Bytes(user.r, 0, user.reported)
  <2>1. user.delivered \in Seq(PlainBytes)
    BY <1>2 DEF Users
  <2> QED
    BY <1>1, <1>3, <2>1
<1>6. \/ user'.ec = "operation_not_supported" /\ ~WholeSent
      \/ user'.ec = "invalid_chunked_encoding" /\ exchange.mode = "async"
  BY <1>1
<1> QED
  BY <1>1, <1>2, <1>3, <1>4, <1>5, <1>6, ReadsNoMore

(* A read goes to the inflater zz, which has the tokens from u to v of the *)
(* body, and leaves what is on the wire from pos on.                       *)
InflatesAt(zz, ec, again, pos, q, e, u, v) ==
  /\ Now.gzip /\ InflateInto(zz, ec, again)
  /\ again = "async_read_some" => exchange.mode = "async"
  /\ Buffers(Wire(user.r, Now), m_response', socket'.rest, pos, q, e)
  /\ WholeSent => e = Len(Wire(user.r, Now))
  /\ Inflates(user.r, Now, zz, user.reported, u, v)
  /\ InBody(Now, m', pos, v)
  /\ Now.framing = "chunked" => ~m'.is_chunked_end
  /\ zz.in = << >> => zz.done \/ ~WholeSent
  /\ ec = "eof" /\ WholeSent =>
       /\ v = LengthOf(Now) /\ m'.chunked_size = 0
       /\ again = "async_read_some" \/ zz.in = << >>

(* A read through the inflater. *)
LEMMA Inflated ==
  ASSUME IInv, TypesInv', HeadKept, ~user.ended, call.pc # "idle",
         NEW zz \in Inflaters, NEW ec \in {"none", "eof"},
         NEW again \in {"read_some", "async_read_some"},
         NEW pos \in Nat, NEW q \in Nat, NEW e \in Nat, NEW u \in Nat, NEW v \in Nat,
         InflatesAt(zz, ec, again, pos, q, e, u, v)
  PROVE  IInv' /\ Progress
<1>0. /\ Now.gzip /\ InflateInto(zz, ec, again)
      /\ again = "async_read_some" => exchange.mode = "async"
      /\ Buffers(Wire(user.r, Now), m_response', socket'.rest, pos, q, e)
      /\ WholeSent => e = Len(Wire(user.r, Now))
      /\ Inflates(user.r, Now, zz, user.reported, u, v)
      /\ InBody(Now, m', pos, v)
      /\ Now.framing = "chunked" => ~m'.is_chunked_end
      /\ zz.in = << >> => zz.done \/ ~WholeSent
      /\ ec = "eof" /\ WholeSent =>
           /\ v = LengthOf(Now) /\ m'.chunked_size = 0
           /\ again = "async_read_some" \/ zz.in = << >>
  BY DEF InflatesAt
<1> USE <1>0
<1> DEFINE f == Inflate(zz, call.room)
           r == user.r
           p == Now
           d == user.reported
<1>1. /\ r \in Nat /\ p \in Response /\ d \in Nat /\ call.room \in Nat \ {0}
      /\ LengthOf(p) \in Nat
  <2>1. /\ call \in Calls /\ call.room # 0
    BY NowTyped DEF IInv, ModeInv
  <2>2. call.room \in Nat
    BY <2>1 DEF Calls
  <2> QED
    BY <2>1, <2>2, NowTyped DEF IInv
<1>2. /\ m_stream' = f.z
      /\ IF f.failed THEN Return(<< >>, 0, "operation_not_supported")
         ELSE IF f.bytes = << >> THEN Goto(again, << >>)
         ELSE Return(f.bytes, Len(f.bytes), IF again = "async_read_some" /\ f.z.in # << >>
                                            THEN "none" ELSE ec)
  BY DEF InflateInto, InflatedTo
<1> HIDE DEF f
<1>3. PICK d2 \in Nat, u2 \in Nat : InflatedBy(r, p, zz, f, d, u, v, d2, u2)
  <2> DEFINE room == call.room
  <2>1. room \in Nat \ {0}
    BY <1>1
  <2> HIDE DEF room, r, p, d
  <2>2. \E d2 \in Nat, u2 \in Nat : InflatedBy(r, p, zz, Inflate(zz, room), d, u, v, d2, u2)
    <3>1. p.gzip /\ Inflates(r, p, zz, d, u, v)
      BY DEF r, p, d
    <3> QED
      BY <1>1, <2>1, <3>1, InflateStep
  <2> QED
    BY <2>2 DEF f, room
<1>4. /\ Inflates(r, p, f.z, d2, u2, v) /\ d <= d2 /\ d2 <= Plains(p)
      /\ f.bytes = Bytes(r, d, d2) /\ (f.failed => zz.in = << >> /\ ~zz.done)
  BY <1>3 DEF InflatedBy
<1>5. Len(f.bytes) = d2 - d /\ (f.bytes = << >> <=> d2 = d)
  <2> HIDE DEF r, p, d
  <2>1. Len(Bytes(r, d, d2)) = d2 - d
    BY <1>1, <1>4, BytesLength
  <2>2. Bytes(r, d, d2) \in Seq(PlainBytes)
    BY <1>1, <1>4, BytesProperties
  <2>3. Bytes(r, d, d2) = << >> <=> d2 - d = 0
    BY <2>1, <2>2
  <2> QED
    BY <1>1, <1>4, <2>1, <2>3
<1>6. CASE f.failed
  <2>1. Return(<< >>, 0, "operation_not_supported") /\ ~WholeSent
    BY <1>2, <1>4, <1>6
  <2> QED
    BY <2>1, Fails
<1>7. CASE ~f.failed /\ f.bytes = << >>
  <2>1. Goto(again, << >>)
    BY <1>2, <1>7
  <2>2. Inflates(r, p, m_stream', d, u2, v)
    BY <1>2, <1>4, <1>5, <1>7
  <2>3. Parses(Wire(r, p), p, m', [pc |-> again, got |-> << >>], m_stream'.in, pos, q, v)
    BY DEF Parses, Between
  <2>4. again \in Async => exchange.mode = "async"
    BY DEF Async
  <2> QED
    BY <2>1, <2>2, <2>3, <2>4, GoesOn
<1>8. CASE ~f.failed /\ f.bytes # << >>
  <2> DEFINE ec2 == IF again = "async_read_some" /\ f.z.in # << >> THEN "none" ELSE ec
             n == Len(f.bytes)
  <2>1. Return(f.bytes, n, ec2) /\ ec2 \in {"none", "eof"}
    BY <1>2, <1>8
  <2>2. n = d2 - d /\ n # 0
    BY <1>1, <1>5, <1>8
  <2>3. Inflates(r, p, m_stream', d2, u2, v)
    BY <1>2, <1>4
  <2>4. ASSUME WholeSent, ec2 = "eof"
        PROVE  d2 = Plains(p) /\ m'.chunked_size = 0
    <3>1. ec = "eof" /\ ~(again = "async_read_some" /\ f.z.in # << >>)
      BY <2>4
    <3>2. v = LengthOf(p) /\ m'.chunked_size = 0 /\ (again = "async_read_some" \/ zz.in = << >>)
      BY <2>4, <3>1
    <3>3. CASE f.z.in = << >>
      <4>1. d2 = Plains(p)
        <5> DEFINE z2 == f.z
        <5>1. Inflates(r, p, z2, d2, u2, v) /\ v = LengthOf(p) /\ z2.in = << >>
              /\ r \in Nat /\ p \in Response
          BY <1>1, <1>4, <3>2, <3>3
        <5> HIDE DEF r, p, z2
        <5> QED
          BY ONLY <5>1, d2 \in Nat, u2 \in Nat, v \in Nat, AllInflated
      <4> QED
        BY <3>2, <4>1
    <3>4. CASE zz.in = << >>
      <4>1. d = Plains(p)
        <5>1. Inflates(r, p, zz, d, u, v) /\ v = LengthOf(p) /\ zz.in = << >>
              /\ r \in Nat /\ p \in Response /\ d \in Nat
          BY <1>1, <3>2, <3>4
        <5> HIDE DEF r, p, d
        <5> QED
          BY ONLY <5>1, u \in Nat, v \in Nat, AllInflated
      <4>2. d2 = d
        <5> HIDE DEF d, p
        <5> QED
          BY <1>1, <1>4, <4>1
      <4> QED
        BY <2>2, <4>2, <1>1
    <3> QED
      BY <3>1, <3>2, <3>3, <3>4
  <2>5. /\ ec2 = "none" /\ n # 0 => InBody(Now, m', pos, v)
        /\ Now.framing = "chunked" => ~m'.is_chunked_end \/ n = 0
        /\ WholeSent /\ (ec2 = "eof" \/ n = 0) =>
             /\ d2 = Plains(Now) /\ m'.chunked_size = 0
             /\ ec2 = "none" /\ Now.keep /\ Now.framing # "chunked" => socket'.rest = << >>
    <3> HIDE DEF ec2, n
    <3> QED
      BY <2>2, <2>4
  <2> HIDE DEF ec2, n
  <2>6. HandedOver(f.bytes, n, ec2, d2, pos, q, e, u2, v)
    BY <1>4, <2>1, <2>2, <2>3, <2>5 DEF HandedOver
  <2> QED
    BY <1>4, <2>1, <2>6, Gives
<1> QED
  BY <1>6, <1>7, <1>8

-----------------------------------------------------------------------------
(* The steps of a read, one after the other. *)

(* What is known while a read is in progress. *)
LEMMA InRead ==
  ASSUME IInv, ~user.ended
  PROVE  /\ TypesInv /\ (m.is_chunked <=> Now.framing = "chunked")
         /\ (m.is_gzip <=> Now.gzip) /\ (m.keep_alive <=> Now.keep)
         /\ (~Now.gzip => m_stream = NoInflater)
         /\ \E pos \in Nat, q \in Nat, e \in Nat, u \in Nat, v \in Nat :
              ReadingAt(user.r, Now, WholeSent, m_response, socket.rest, m, m_stream, call,
                        user.reported, pos, q, e, u, v)
  BY DEF IInv, HeadInv, ReadingInv

(* A call in progress is one that goes on. *)
LEMMA Calling ==
  ASSUME IInv, call.pc # "idle"
  PROVE  ~user.ended /\ call.room \in Nat \ {0}
<1>1. ~user.ended /\ call.room # 0
  BY DEF IInv, EndedInv, ModeInv
<1>2. call.room \in Nat
  <2>1. call \in Calls
    BY NowTyped DEF IInv
  <2> QED
    BY <2>1 DEF Calls
<1> QED
  BY <1>1, <1>2

(* The head stays when only the chunk or the sizes change. *)
LEMMA HeadUnchanged ==
  ASSUME IInv, exchange' = exchange,
         m'.is_chunked = m.is_chunked, m'.keep_alive = m.keep_alive,
         m'.is_gzip = m.is_gzip, m'.content_length = m.content_length,
         ~m.is_gzip => m_stream' = m_stream
  PROVE  HeadKept
<1>1. ~m.is_gzip => m_stream = NoInflater
  BY DEF IInv, HeadInv
<1> QED
  BY <1>1 DEF HeadKept

(* StartChunk: a read comes to a size line or to the CRLF before it. *)
LEMMA StartChunkInv ==
  ASSUME IInv, TypesInv', StartChunk
  PROVE  IInv' /\ Progress
<1> DEFINE r == user.r
           p == Now
           W == Wire(r, p)
<1>1. call.pc = "read_some" /\ NeedsSize /\ Goto(IF m.skip_crlf THEN "size" ELSE "crlf", << >>)
      /\ exchange' = exchange /\ m_response' = m_response /\ m' = m /\ m_stream' = m_stream
      /\ socket' = socket
  BY DEF StartChunk, At
<1>2. ~user.ended /\ call.pc # "idle"
  BY <1>1, Calling
<1>3. HeadKept
  BY <1>1, HeadUnchanged
<1>4. PICK pos \in Nat, q \in Nat, e \in Nat, u \in Nat, v \in Nat :
        ReadingAt(r, p, WholeSent, m_response, socket.rest, m, m_stream, call,
                  user.reported, pos, q, e, u, v)
  BY <1>2, InRead
<1>5. p.framing = "chunked" /\ m.chunked_size = 0 /\ m_stream.in = << >>
  BY <1>1, <1>2, InRead DEF NeedsSize
<1>6. /\ Buffers(W, m_response, socket.rest, pos, q, e) /\ (WholeSent => e = Len(W))
      /\ Inflates(r, p, m_stream, user.reported, u, v)
      /\ Parses(W, p, m, call, m_stream.in, pos, q, v)
  BY <1>4 DEF ReadingAt
<1>7. /\ ~m.is_chunked_end
      /\ \/ ~m.skip_crlf /\ InChunk(p, 0, pos, v)
         \/ m.skip_crlf /\ pos = 0 /\ v = 0
  BY <1>1, <1>5, <1>6 DEF Parses, InBody, AtStart, InCrlf, InSize
<1>8. /\ r \in Nat /\ p \in Response /\ W \in Seq(Token)
  BY NowTyped DEF IInv
<1>9. Buffers(W, m_response', socket'.rest, pos, q, e)
      /\ Inflates(r, p, m_stream', user.reported, u, v)
  BY <1>1, <1>6
<1>10. CASE m.skip_crlf
  <2>1. Goto("size", << >>) /\ pos = 0 /\ v = 0
    BY <1>1, <1>7, <1>10
  <2>2. PICK k \in Nat : AtLine(p, 0, 0, k)
    BY <1>5, <1>8, FirstLine
  <2>3. << >> = Seg(W, 0, 0)
    BY <1>8, SegEmpty, 0 \in Nat, 0 <= Len(W)
  <2>4. InSize(W, p, m', [pc |-> "size", got |-> << >>], m_stream'.in, pos, v)
    <3>1. AtLine(p, pos, v, k) /\ pos <= pos /\ pos <= pos + 2 /\ << >> = Seg(W, pos, pos)
      BY <2>1, <2>2, <2>3
    <3> QED
      BY <1>1, <1>5, <3>1 DEF InSize
  <2>5. Parses(W, p, m', [pc |-> "size", got |-> << >>], m_stream'.in, pos, q, v)
    BY <1>1, <1>7, <2>4 DEF Parses
  <2>6. "size" \notin Async
    BY DEF Async
  <2> QED
    BY <1>2, <1>3, <1>6, <1>9, <2>1, <2>5, <2>6, GoesOn
<1>11. CASE ~m.skip_crlf
  <2>1. Goto("crlf", << >>) /\ InChunk(p, 0, pos, v)
    BY <1>1, <1>7, <1>11
  <2> DEFINE o == pos + 2
  <2>2. AfterChunk(p, o, v) /\ o \in Nat /\ pos = o - 2
    BY <1>5, <1>8, <2>1, ChunkOver
  <2>3. << >> = Seg(W, pos, pos)
    <3>1. pos <= Len(W)
      BY <1>6, <1>8 DEF Buffers
    <3> QED
      BY <1>8, <3>1, SegEmpty
  <2> HIDE DEF o
  <2>4. InCrlf(W, p, m', [pc |-> "crlf", got |-> << >>], m_stream'.in, pos, q, v)
    <3>1. << >> = Seg(W, o - 2, pos)
      BY <2>2, <2>3
    <3> QED
      BY <1>1, <1>5, <2>2, <3>1 DEF InCrlf
  <2>5. Parses(W, p, m', [pc |-> "crlf", got |-> << >>], m_stream'.in, pos, q, v)
    BY <1>1, <1>7, <2>4 DEF Parses
  <2>6. "crlf" \notin Async
    BY DEF Async
  <2> QED
    BY <1>2, <1>3, <1>6, <1>9, <2>1, <2>5, <2>6, GoesOn
<1> QED
  BY <1>10, <1>11

(* CallRead: the caller goes on where the call before stopped. *)
LEMMA CallReadInv ==
  ASSUME IInv, TypesInv', CallRead
  PROVE  IInv' /\ Progress
<1> DEFINE W == Wire(user.r, Now)
<1>1. /\ call.pc = "idle" /\ ~user.ended
      /\ exchange' = exchange /\ m_response' = m_response /\ m' = m /\ m_stream' = m_stream
      /\ socket' = socket /\ user' = user
  BY DEF CallRead, At
<1>2. PICK room \in BufferSizes :
        call' = [pc |-> IF exchange.mode = "sync" THEN "read_some" ELSE "async_read_some",
                 room |-> room, got |-> << >>]
  BY DEF CallRead
<1>3. HeadKept
  BY <1>1, HeadUnchanged
<1>4. PICK pos \in Nat, q \in Nat, e \in Nat, u \in Nat, v \in Nat :
        ReadingAt(user.r, Now, WholeSent, m_response, socket.rest, m, m_stream, call,
                  user.reported, pos, q, e, u, v)
  BY <1>1, InRead
<1>5. Parses(W, Now, m', call', m_stream'.in, pos, q, v)
  <2>1. call'.pc \in Between
    BY <1>2 DEF Between
  <2>2. Parses(W, Now, m, call, m_stream.in, pos, q, v)
    BY <1>4 DEF ReadingAt
  <2>3. /\ Now.framing = "chunked" => ~m.is_chunked_end
        /\ InBody(Now, m, pos, v) \/ AtStart(Now, m, pos, v)
    BY <1>1, <2>2 DEF Parses, InCrlf, InSize
  <2> QED
    BY <1>1, <2>1, <2>3 DEF Parses
<1>6. ReadingAt(user.r, Now, WholeSent, m_response', socket'.rest, m', m_stream', call',
                user.reported, pos, q, e, u, v)
  BY <1>1, <1>4, <1>5 DEF ReadingAt
<1>7. /\ call'.pc # "idle" => call'.room # 0
      /\ call'.pc \in Async => exchange.mode = "async"
  <2>1. room # 0
    BY BufferSizesAssumption
  <2>2. exchange.mode \in {"sync", "async"}
    BY ResponsesTyped DEF IInv, TypesInv
  <2> QED
    BY <1>2, <2>1, <2>2 DEF Async
<1>8. /\ user'.r = user.r /\ ~user'.ended /\ user'.ec = "none" /\ user.reported \in Nat
      /\ user'.reported = user.reported /\ user.reported <= user.reported
      /\ user.reported <= Plains(Now) /\ user'.delivered = Bytes(user.r, 0, user.reported)
  <2>1. user.reported \in Nat
    BY NowTyped DEF IInv
  <2> QED
    BY <1>1, <2>1 DEF IInv, CountInv, ReadingInv
<1> QED
  BY <1>3, <1>6, <1>7, <1>8, ReadsOn

(* AsyncReadHeld: nothing moves. *)
LEMMA AsyncReadHeldInv ==
  ASSUME IInv, TypesInv', AsyncReadHeld
  PROVE  IInv' /\ Progress
<1> DEFINE W == Wire(user.r, Now)
<1>1. /\ call.pc = "async_read_some" /\ ~m.is_chunked /\ Goto("read_some", << >>)
      /\ exchange' = exchange /\ m_response' = m_response /\ m' = m /\ m_stream' = m_stream
      /\ socket' = socket
  BY DEF AsyncReadHeld, At
<1>2. ~user.ended /\ call.pc # "idle"
  BY <1>1, Calling
<1>3. HeadKept
  BY <1>1, HeadUnchanged
<1>4. PICK pos \in Nat, q \in Nat, e \in Nat, u \in Nat, v \in Nat :
        ReadingAt(user.r, Now, WholeSent, m_response, socket.rest, m, m_stream, call,
                  user.reported, pos, q, e, u, v)
  BY <1>2, InRead
<1>5. Now.framing # "chunked"
  BY <1>1, <1>2, InRead
<1>6. /\ Buffers(W, m_response', socket'.rest, pos, q, e) /\ (WholeSent => e = Len(W))
      /\ Inflates(user.r, Now, m_stream', user.reported, u, v)
      /\ Parses(W, Now, m, call, m_stream.in, pos, q, v)
  BY <1>1, <1>4 DEF ReadingAt
<1>7. Parses(W, Now, m', [pc |-> "read_some", got |-> << >>], m_stream'.in, pos, q, v)
  <2>1. InBody(Now, m, pos, v)
    BY <1>5, <1>6 DEF Parses, AtStart, InCrlf, InSize
  <2> QED
    BY <1>1, <1>5, <2>1 DEF Parses, Between
<1>8. "read_some" \notin Async
  BY DEF Async
<1> QED
  BY <1>1, <1>2, <1>3, <1>6, <1>7, <1>8, GoesOn

(* SkipCrlf: one or two tokens of a CRLF. *)
LEMMA SkipCrlfInv ==
  ASSUME IInv, TypesInv', SkipCrlf
  PROVE  IInv' /\ Progress
<1> DEFINE r == user.r
           p == Now
           W == Wire(r, p)
           max == 2 - Len(call.got)
<1>1. call.pc = "crlf" /\ exchange' = exchange /\ m' = m /\ m_stream' = m_stream
  BY DEF SkipCrlf, At
<1>2. PICK rd \in ReadSomeImpl(max) :
         /\ Take(rd)
         /\ IF rd.ec # "none" THEN Return(<< >>, 0, rd.ec)
            ELSE IF Len(call.got \o rd.tokens) < 2 THEN Goto("crlf", call.got \o rd.tokens)
            ELSE CrlfRead(call.got \o rd.tokens, "size")
  BY DEF SkipCrlf
<1>3. ~user.ended /\ call.pc # "idle"
  BY <1>1, Calling
<1>4. HeadKept
  BY <1>1, HeadUnchanged
<1>5. PICK pos \in Nat, q \in Nat, e \in Nat, u \in Nat, v \in Nat :
        ReadingAt(r, p, WholeSent, m_response, socket.rest, m, m_stream, call,
                  user.reported, pos, q, e, u, v)
  BY <1>3, InRead
<1>6. /\ Buffers(W, m_response, socket.rest, pos, q, e) /\ (WholeSent => e = Len(W))
      /\ Inflates(r, p, m_stream', user.reported, u, v)
      /\ Parses(W, p, m, call, m_stream.in, pos, q, v)
  BY <1>1, <1>5 DEF ReadingAt
<1>7. InCrlf(W, p, m, call, m_stream.in, pos, q, v) /\ ~m.is_chunked_end
  BY <1>1, <1>6 DEF Parses, Between, InCrlf, InSize
<1>8. PICK o \in Nat :
        /\ AfterChunk(p, o, v) /\ (pos = o - 2 \/ pos = o - 1)
        /\ call.got = Seg(W, o - 2, pos)
  BY <1>7 DEF InCrlf
<1>9. p.framing = "chunked" /\ m.chunked_size = 0 /\ m_stream.in = << >>
  BY <1>7 DEF InCrlf
<1>10. /\ r \in Nat /\ p \in Response /\ W \in Seq(Token) /\ Len(W) \in Nat
  BY NowTyped DEF IInv
<1>11. /\ o >= 2 /\ o + 5 <= Len(W) /\ Seg(W, o - 2, o) = <<CR, LF>>
       /\ \E k \in Nat : AtLine(p, o, v, k)
  BY <1>8, <1>9, <1>10, ChunkCrlf
<1> HIDE DEF W
<1> DEFINE o2 == o - 2
<1>12. o2 \in Nat /\ o2 <= pos /\ pos <= Len(W) /\ o = o2 + 2
  BY <1>8, <1>10, <1>11
<1>13. Len(call.got) = pos - o2 /\ max \in Nat /\ max = o - pos
  <2>1. call.got = Seg(W, o2, pos)
    BY <1>8
  <2> HIDE DEF o2
  <2>2. Len(Seg(W, o2, pos)) = pos - o2
    BY <1>10, <1>12, SegTyped
  <2> QED
    BY <1>8, <1>12, <2>1, <2>2
<1> HIDE DEF max
<1>14. PICK n \in 0 .. max, q2 \in Nat :
           /\ GotOf(W, rd, pos, n, e, max)
           /\ Buffers(W, rd.response, rd.rest, pos + n, q2, e)
  BY <1>6, <1>10, <1>13, ReadSegs
<1>15. m_response' = rd.response /\ socket'.rest = rd.rest
  <2>1. socket \in Sockets
    BY NowTyped DEF IInv
  <2> QED
    BY <1>2, <2>1 DEF Take, Sockets
<1>16. CASE rd.ec # "none"
  <2>1. rd.ec = "eof" /\ pos = e
    BY <1>14, <1>16 DEF GotOf
  <2>2. ~WholeSent
    BY <1>6, <1>8, <1>10, <1>11, <2>1
  <2>3. Return(<< >>, 0, "eof")
    BY <1>2, <1>16, <2>1
  <2> QED
    BY <1>3, <1>4, <2>2, <2>3, BodyOver
<1> DEFINE g == call.got \o rd.tokens
           x == pos + n
<1>17. x \in Nat /\ x <= o /\ pos <= x /\ x <= Len(W)
  BY <1>8, <1>10, <1>11, <1>13
<1>18. g = Seg(W, o2, x) /\ Len(g) = x - o2
  <2>1. call.got = Seg(W, o2, pos) /\ rd.tokens = Seg(W, pos, x)
    BY <1>8, <1>14 DEF GotOf
  <2> HIDE DEF o2, x
  <2>2. Seg(W, o2, pos) \o Seg(W, pos, x) = Seg(W, o2, x)
    BY <1>10, <1>12, <1>17, SegJoin
  <2>3. o2 <= x
    BY <1>12, <1>17
  <2>4. Len(Seg(W, o2, x)) = x - o2
    BY <1>10, <1>12, <1>17, <2>3, SegTyped
  <2> QED
    BY <2>1, <2>2, <2>4
<1> HIDE DEF g
<1>19. Buffers(W, m_response', socket'.rest, x, q2, e)
  BY <1>14, <1>15
<1>20. CASE rd.ec = "none" /\ Len(g) < 2
  <2>1. Goto("crlf", g)
    BY <1>2, <1>20 DEF g
  <2>2. x = o - 2 \/ x = o - 1
    BY <1>8, <1>12, <1>17, <1>18, <1>20
  <2> HIDE DEF x
  <2>3. InCrlf(W, p, m', [pc |-> "crlf", got |-> g], m_stream'.in, x, q2, v)
    BY <1>1, <1>8, <1>9, <1>18, <2>2 DEF InCrlf
  <2>4. Parses(W, p, m', [pc |-> "crlf", got |-> g], m_stream'.in, x, q2, v)
    BY <1>1, <1>7, <2>3 DEF Parses
  <2>5. "crlf" \notin Async
    BY DEF Async
  <2> QED
    BY <1>3, <1>4, <1>6, <1>17, <1>19, <2>1, <2>4, <2>5, GoesOn DEF W
<1>21. CASE rd.ec = "none" /\ ~(Len(g) < 2)
  <2>1. x = o
    BY <1>12, <1>17, <1>18, <1>21
  <2>2. g = <<CR, LF>>
    BY <1>11, <1>18, <2>1
  <2>3. Goto("size", << >>)
    BY <1>2, <1>7, <1>21, <2>2 DEF g, CrlfRead
  <2> HIDE DEF x
  <2>4. PICK k \in Nat : AtLine(p, o, v, k)
    BY <1>11
  <2>5. << >> = Seg(W, x, x)
    BY <1>10, <1>17, SegEmpty
  <2>6. InSize(W, p, m', [pc |-> "size", got |-> << >>], m_stream'.in, x, v)
    <3>1. AtLine(p, x, v, k) /\ x <= x /\ x <= x + 2
      BY <1>17, <2>1, <2>4
    <3> QED
      BY <1>1, <1>9, <1>17, <2>5, <3>1 DEF InSize
  <2>7. Parses(W, p, m', [pc |-> "size", got |-> << >>], m_stream'.in, x, q2, v)
    BY <1>1, <1>7, <2>6 DEF Parses
  <2>8. "size" \notin Async
    BY DEF Async
  <2> QED
    BY <1>3, <1>4, <1>6, <1>17, <1>19, <2>3, <2>7, <2>8, GoesOn DEF W
<1> QED
  BY <1>16, <1>20, <1>21

(* The size of a chunk is known. *)
LEMMA SizeReadInv ==
  ASSUME IInv, TypesInv', ~user.ended, call.pc # "idle", exchange' = exchange,
         Now.framing = "chunked", ~m.is_chunked_end, m_stream.in = << >>,
         NEW k \in Nat, NEW chunk \in {"chunk", "async_chunk"}, SizeRead(k, chunk),
         chunk = "async_chunk" => exchange.mode = "async",
         NEW o \in Nat, NEW q \in Nat, NEW e \in Nat, NEW u \in Nat, NEW v \in Nat,
         AtLine(Now, o, v, k),
         Buffers(Wire(user.r, Now), m_response', socket'.rest, o + 3, q, e),
         WholeSent => e = Len(Wire(user.r, Now)),
         Inflates(user.r, Now, m_stream, user.reported, u, v)
  PROVE  IInv' /\ Progress
<1> DEFINE r == user.r
           p == Now
           W == Wire(r, p)
<1>1. m \in Members /\ m_stream \in Inflaters /\ r \in Nat /\ p \in Response
  BY NowTyped DEF IInv
<1>2. /\ m'.is_chunked = m.is_chunked /\ m'.keep_alive = m.keep_alive
      /\ m'.is_gzip = m.is_gzip /\ m'.content_length = m.content_length
      /\ m'.chunked_size = k
      /\ k # 0 => ~m'.skip_crlf /\ ~m'.is_chunked_end
  BY <1>1 DEF SizeRead, Members
<1>3. /\ k # 0 => m_stream' = m_stream
      /\ ~m.is_gzip => m_stream' = NoInflater
  <2>1. ~m.is_gzip => m_stream = NoInflater
    BY DEF IInv, HeadInv
  <2>2. [NoInflater EXCEPT !.zalloc = FALSE] = NoInflater
    <3> DEFINE z == NoInflater
    <3>1. z \in [zalloc : BOOLEAN, done : BOOLEAN, in : {<< >>}, out : {<< >>}] /\ z.zalloc = FALSE
      BY DEF NoInflater
    <3> HIDE DEF z
    <3>2. [z EXCEPT !.zalloc = FALSE] = z
      BY <3>1
    <3> QED
      BY <3>2 DEF z
  <2>3. m_stream' = IF k = 0 /\ ~m.is_gzip THEN [m_stream EXCEPT !.zalloc = FALSE]
                    ELSE m_stream
    BY DEF SizeRead
  <2> QED
    BY <2>1, <2>2, <2>3
<1>4. HeadKept
  BY <1>2, <1>3 DEF HeadKept
<1>5. /\ k = 0 => v = LengthOf(p)
      /\ k # 0 => InChunk(p, k, o + 3, v)
  BY <1>1, LineOfSize
<1>6. CASE k = 0
  <2>1. Return(<< >>, 0, EndOfBody) /\ EndOfBody \in {"none", "eof"}
    BY <1>6 DEF SizeRead, EndOfBody
  <2>2. user.reported = Plains(p)
    <3>1. user.reported \in Nat
      BY NowTyped DEF IInv
    <3> QED
      BY <1>1, <1>5, <1>6, <3>1, AllInflated
  <2>3. m'.chunked_size = 0
    BY <1>2, <1>6
  <2> HIDE DEF EndOfBody
  <2> QED
    BY <1>4, <2>1, <2>2, <2>3, BodyOver
<1>7. CASE k # 0
  <2>1. Goto(chunk, << >>)
    BY <1>7 DEF SizeRead
  <2> DEFINE pos == o + 3
  <2>2. pos \in Nat
    OBVIOUS
  <2>3. InBody(p, m', pos, v)
    BY <1>2, <1>5, <1>7 DEF InBody
  <2>4. Parses(W, p, m', [pc |-> chunk, got |-> << >>], m_stream'.in, pos, q, v)
    BY <1>2, <1>3, <1>7, <2>3 DEF Parses
  <2>5. /\ Inflates(r, p, m_stream', user.reported, u, v)
        /\ Buffers(W, m_response', socket'.rest, pos, q, e)
        /\ WholeSent => e = Len(W)
        /\ chunk \in Async => exchange.mode = "async"
    BY <1>3, <1>7 DEF Async
  <2> HIDE DEF pos
  <2> QED
    BY <1>4, <2>1, <2>2, <2>4, <2>5, GoesOn
<1> QED
  BY <1>6, <1>7

(* ReadSize: one token of a size line. *)
LEMMA ReadSizeInv ==
  ASSUME IInv, TypesInv', ReadSize
  PROVE  IInv' /\ Progress
<1> DEFINE r == user.r
           p == Now
           W == Wire(r, p)
<1>1. call.pc = "size" /\ exchange' = exchange
  BY DEF ReadSize, At
<1>2. PICK rd \in ReadSomeImpl(1) :
         /\ Take(rd)
         /\ IF rd.ec # "none" THEN Return(<< >>, 0, rd.ec) /\ UNCHANGED <<m, m_stream>>
            ELSE IF ~HasLine(call.got \o rd.tokens)
            THEN Goto("size", call.got \o rd.tokens) /\ UNCHANGED <<m, m_stream>>
            ELSE SizeRead(SizeOf(call.got \o rd.tokens), "chunk")
  BY DEF ReadSize
<1>3. ~user.ended /\ call.pc # "idle"
  BY <1>1, Calling
<1>4. PICK pos \in Nat, q \in Nat, e \in Nat, u \in Nat, v \in Nat :
        ReadingAt(r, p, WholeSent, m_response, socket.rest, m, m_stream, call,
                  user.reported, pos, q, e, u, v)
  BY <1>3, InRead
<1>5. /\ Buffers(W, m_response, socket.rest, pos, q, e) /\ (WholeSent => e = Len(W))
      /\ Inflates(r, p, m_stream, user.reported, u, v)
      /\ Parses(W, p, m, call, m_stream.in, pos, q, v)
  BY <1>4 DEF ReadingAt
<1>6. InSize(W, p, m, call, m_stream.in, pos, v) /\ ~m.is_chunked_end
  BY <1>1, <1>5 DEF Parses, Between, InCrlf, InSize
<1>7. PICK o \in Nat, k \in Nat :
        AtLine(p, o, v, k) /\ o <= pos /\ pos <= o + 2 /\ call.got = Seg(W, o, pos)
  BY <1>6 DEF InSize
<1>8. p.framing = "chunked" /\ m.chunked_size = 0 /\ m_stream.in = << >>
  BY <1>6 DEF InSize
<1>9. /\ r \in Nat /\ p \in Response /\ W \in Seq(Token) /\ Len(W) \in Nat
  BY NowTyped DEF IInv
<1>10. o + 5 <= Len(W) /\ IsLine(W, o, k)
  BY <1>7, <1>8, <1>9, LineOfSize
<1> HIDE DEF W
<1>11. PICK n \in 0 .. 1, q2 \in Nat :
           /\ GotOf(W, rd, pos, n, e, 1)
           /\ Buffers(W, rd.response, rd.rest, pos + n, q2, e)
  <2> DEFINE one == 1
  <2>1. one \in Nat /\ rd \in ReadSomeImpl(one)
    BY <1>2
  <2> HIDE DEF one
  <2>2. \E n \in 0 .. one, q2 \in Nat :
           /\ GotOf(W, rd, pos, n, e, one)
           /\ Buffers(W, rd.response, rd.rest, pos + n, q2, e)
    BY <1>5, <1>9, <2>1, ReadSegs
  <2> QED
    BY <2>2 DEF one
<1>12. m_response' = rd.response /\ socket'.rest = rd.rest
  <2>1. socket \in Sockets
    BY NowTyped DEF IInv
  <2> QED
    BY <1>2, <2>1 DEF Take, Sockets
<1>13. CASE rd.ec # "none"
  <2>1. rd.ec = "eof" /\ pos = e
    BY <1>11, <1>13 DEF GotOf
  <2>2. ~WholeSent
    BY <1>5, <1>7, <1>9, <1>10, <2>1
  <2>3. Return(<< >>, 0, "eof") /\ m' = m /\ m_stream' = m_stream
    BY <1>2, <1>13, <2>1
  <2>4. HeadKept
    BY <1>1, <2>3, HeadUnchanged
  <2> QED
    BY <1>3, <2>2, <2>3, <2>4, BodyOver
<1> DEFINE g == call.got \o rd.tokens
           x == pos + n
<1>14. x \in Nat /\ x <= o + 3 /\ o <= x /\ pos <= x /\ x <= Len(W)
  BY <1>7, <1>9, <1>10
<1>15. g = Seg(W, o, x)
  <2>1. call.got = Seg(W, o, pos) /\ rd.tokens = Seg(W, pos, x)
    BY <1>7, <1>11 DEF GotOf
  <2> HIDE DEF x
  <2>2. Seg(W, o, pos) \o Seg(W, pos, x) = Seg(W, o, x)
    BY <1>7, <1>9, <1>14, SegJoin
  <2> QED
    BY <2>1, <2>2
<1>16. /\ HasLine(g) <=> x >= o + 3
       /\ x >= o + 3 => SizeOf(g) = k
  <2> HIDE DEF x, g
  <2>1. W[o + 1] = Size(k) /\ W[o + 2] = CR /\ W[o + 3] = LF
    BY <1>10 DEF IsLine
  <2>2. /\ HasLine(Seg(W, o, x)) <=> x >= o + 3
        /\ x >= o + 1 => SizeOf(Seg(W, o, x)) = k
    BY <1>9, <1>14, <2>1, LineAt
  <2>3. x >= o + 3 => x >= o + 1
    BY <1>14
  <2> QED
    BY <1>15, <2>2, <2>3
<1>17. Buffers(W, m_response', socket'.rest, x, q2, e)
  BY <1>11, <1>12
<1>18. CASE rd.ec = "none" /\ ~HasLine(g)
  <2>1. Goto("size", g) /\ m' = m /\ m_stream' = m_stream
    BY <1>2, <1>18
  <2>2. HeadKept
    BY <1>1, <2>1, HeadUnchanged
  <2> HIDE DEF x, g
  <2>3. x <= o + 2
    BY <1>14, <1>16, <1>18
  <2>4. InSize(W, p, m', [pc |-> "size", got |-> g], m_stream'.in, x, v)
    BY <1>7, <1>8, <1>14, <1>15, <2>1, <2>3 DEF InSize
  <2>5. Parses(W, p, m', [pc |-> "size", got |-> g], m_stream'.in, x, q2, v)
    BY <1>6, <2>1, <2>4 DEF Parses
  <2>6. "size" \notin Async /\ Inflates(r, p, m_stream', user.reported, u, v)
    BY <1>5, <2>1 DEF Async
  <2> QED
    BY <1>3, <1>5, <1>14, <1>17, <2>1, <2>2, <2>5, <2>6, GoesOn DEF W
<1>19. CASE rd.ec = "none" /\ HasLine(g)
  <2>1. x = o + 3 /\ SizeOf(g) = k
    <3> HIDE DEF x, g
    <3> QED
      BY <1>14, <1>16, <1>19
  <2>2. SizeRead(k, "chunk")
    BY <1>2, <1>19, <2>1
  <2>3. Buffers(W, m_response', socket'.rest, o + 3, q2, e)
    BY <1>17, <2>1
  <2> QED
    BY <1>1, <1>3, <1>5, <1>6, <1>7, <1>8, <2>2, <2>3, SizeReadInv DEF W
<1> QED
  BY <1>13, <1>18, <1>19

(* HandleChunkedSize: all of a size line at once. *)
LEMMA HandleChunkedSizeInv ==
  ASSUME IInv, TypesInv', HandleChunkedSize
  PROVE  IInv' /\ Progress
<1> DEFINE r == user.r
           p == Now
           W == Wire(r, p)
<1>1. call.pc = "async_size" /\ exchange' = exchange
  BY DEF HandleChunkedSize, At
<1>2. PICK rd \in ReadUntilLine :
       /\ socket' = [socket EXCEPT !.rest = rd.rest]
       /\ IF rd.ec # "none"
          THEN /\ m_response' = rd.response
               /\ Return(<< >>, 0, rd.ec) /\ UNCHANGED <<m, m_stream>>
          ELSE /\ m_response' = Drop(rd.response, LineEnd(rd.response))
               /\ SizeRead(SizeOf(rd.response), "async_chunk")
  BY DEF HandleChunkedSize
<1>3. ~user.ended /\ call.pc # "idle"
  BY <1>1, Calling
<1>4. PICK pos \in Nat, q \in Nat, e \in Nat, u \in Nat, v \in Nat :
        ReadingAt(r, p, WholeSent, m_response, socket.rest, m, m_stream, call,
                  user.reported, pos, q, e, u, v)
  BY <1>3, InRead
<1>5. /\ Buffers(W, m_response, socket.rest, pos, q, e) /\ (WholeSent => e = Len(W))
      /\ Inflates(r, p, m_stream, user.reported, u, v)
      /\ Parses(W, p, m, call, m_stream.in, pos, q, v)
  BY <1>4 DEF ReadingAt
<1>6. InSize(W, p, m, call, m_stream.in, pos, v) /\ ~m.is_chunked_end
  BY <1>1, <1>5 DEF Parses, Between, InCrlf, InSize
<1>7. PICK o \in Nat, k \in Nat : AtLine(p, o, v, k) /\ pos = o
  BY <1>1, <1>6 DEF InSize
<1>8. p.framing = "chunked" /\ m.chunked_size = 0 /\ m_stream.in = << >>
  BY <1>6 DEF InSize
<1>9. /\ r \in Nat /\ p \in Response /\ W \in Seq(Token) /\ Len(W) \in Nat
  BY NowTyped DEF IInv
<1>10. o + 5 <= Len(W) /\ IsLine(W, o, k)
  BY <1>7, <1>8, <1>9, LineOfSize
<1>11. socket'.rest = rd.rest
  <2>1. socket \in Sockets
    BY NowTyped DEF IInv
  <2> QED
    BY <1>2, <2>1 DEF Sockets
<1>12. exchange.mode = "async"
  BY <1>1 DEF IInv, ModeInv, Async
<1> HIDE DEF W
<1>13. PICK q2 \in Nat :
           /\ Buffers(W, rd.response, rd.rest, o, q2, e) /\ rd.ec \in {"none", "eof"}
           /\ rd.ec = "none" => q2 >= o + 3 /\ SizeOf(rd.response) = k
                                /\ LineEnd(rd.response) = 3
           /\ rd.ec = "eof" => e < o + 3
  BY <1>5, <1>7, <1>9, <1>10, LineSegs
<1>14. CASE rd.ec # "none"
  <2>1. rd.ec = "eof" /\ e < o + 3
    BY <1>13, <1>14
  <2>2. ~WholeSent
    BY <1>5, <1>9, <1>10, <2>1
  <2>3. Return(<< >>, 0, "eof") /\ m' = m /\ m_stream' = m_stream
    BY <1>2, <1>14, <2>1
  <2>4. HeadKept
    BY <1>1, <2>3, HeadUnchanged
  <2> QED
    BY <1>3, <2>2, <2>3, <2>4, BodyOver
<1>15. CASE rd.ec = "none"
  <2>1. SizeRead(k, "async_chunk") /\ m_response' = Drop(rd.response, 3)
    BY <1>2, <1>13, <1>15
  <2>2. q2 >= o + 3 /\ q2 <= e /\ e <= Len(W) /\ rd.response = Seg(W, o, q2)
        /\ rd.rest = Seg(W, q2, e)
    BY <1>13, <1>15 DEF Buffers
  <2>3. Drop(Seg(W, o, q2), 3) = Seg(W, o + 3, q2)
    <3> DEFINE n == 3
    <3>1. n \in Nat /\ n <= q2 - o /\ o <= q2 /\ q2 <= Len(W)
      BY <1>9, <2>2
    <3> HIDE DEF n
    <3>2. Drop(Seg(W, o, q2), n) = Seg(W, o + n, q2)
      BY <1>9, <3>1, SegDrop
    <3> QED
      BY <3>2 DEF n
  <2>4. Buffers(W, m_response', socket'.rest, o + 3, q2, e)
    BY <1>11, <2>1, <2>2, <2>3 DEF Buffers
  <2> QED
    BY <1>1, <1>3, <1>5, <1>6, <1>7, <1>8, <1>12, <2>1, <2>4, SizeReadInv DEF W
<1> QED
  BY <1>13, <1>14, <1>15

(* AsyncStartChunk: the CRLF, or the part of it that m_response holds. *)
LEMMA AsyncStartChunkInv ==
  ASSUME IInv, TypesInv', AsyncStartChunk
  PROVE  IInv' /\ Progress
<1> DEFINE r == user.r
           p == Now
           W == Wire(r, p)
<1>1. call.pc = "async_read_some" /\ NeedsSize
      /\ exchange' = exchange /\ m' = m /\ m_stream' = m_stream /\ socket' = socket
      /\ IF m.skip_crlf THEN Goto("async_size", << >>) /\ UNCHANGED m_response
         ELSE /\ m_response' = Drop(m_response, 2)
              /\ IF Len(m_response) < 2 THEN Goto("async_crlf", m_response)
                 ELSE IF ~m.is_chunked_end /\ SubSeq(m_response, 1, 2) # <<CR, LF>>
                 THEN Return(<< >>, 0, "invalid_chunked_encoding")
                 ELSE CrlfRead(SubSeq(m_response, 1, 2), "async_size")
  BY DEF AsyncStartChunk, At
<1>2. ~user.ended /\ call.pc # "idle"
  BY <1>1, Calling
<1>3. HeadKept
  BY <1>1, HeadUnchanged
<1>4. PICK pos \in Nat, q \in Nat, e \in Nat, u \in Nat, v \in Nat :
        ReadingAt(r, p, WholeSent, m_response, socket.rest, m, m_stream, call,
                  user.reported, pos, q, e, u, v)
  BY <1>2, InRead
<1>5. p.framing = "chunked" /\ m.chunked_size = 0 /\ m_stream.in = << >>
  BY <1>1, <1>2, InRead DEF NeedsSize
<1>6. /\ Buffers(W, m_response, socket.rest, pos, q, e) /\ (WholeSent => e = Len(W))
      /\ Inflates(r, p, m_stream, user.reported, u, v)
      /\ Parses(W, p, m, call, m_stream.in, pos, q, v)
  BY <1>4 DEF ReadingAt
<1>7. /\ ~m.is_chunked_end
      /\ \/ ~m.skip_crlf /\ InChunk(p, 0, pos, v)
         \/ m.skip_crlf /\ pos = 0 /\ v = 0
  BY <1>1, <1>5, <1>6 DEF Parses, InBody, AtStart, InCrlf, InSize
<1>8. /\ r \in Nat /\ p \in Response /\ W \in Seq(Token) /\ Len(W) \in Nat
  BY NowTyped DEF IInv
<1>9. Inflates(r, p, m_stream', user.reported, u, v)
  BY <1>1, <1>6
<1>10. exchange.mode = "async"
  BY <1>1 DEF IInv, ModeInv, Async
<1>11. /\ pos <= q /\ q <= e /\ e <= Len(W)
       /\ m_response = Seg(W, pos, q) /\ socket'.rest = Seg(W, q, e)
  BY <1>1, <1>6 DEF Buffers
<1>15. pos <= q /\ q <= Len(W)
  BY <1>8, <1>11
<1> HIDE DEF W
<1>12. ASSUME NEW x \in Nat, NEW k \in Nat, AtLine(p, x, v, k), x <= q,
              m_response' = Seg(W, x, q), Goto("async_size", << >>)
       PROVE  IInv' /\ Progress
  <2>1. Buffers(W, m_response', socket'.rest, x, q, e)
    BY <1>11, <1>12 DEF Buffers
  <2>2. << >> = Seg(W, x, x)
    <3>1. x <= Len(W)
      BY <1>8, <1>11, <1>12
    <3> QED
      BY <1>8, <3>1, SegEmpty
  <2>3. InSize(W, p, m', [pc |-> "async_size", got |-> << >>], m_stream'.in, x, v)
    <3>1. x <= x /\ x <= x + 2
      OBVIOUS
    <3> QED
      BY <1>1, <1>5, <1>12, <2>2, <3>1 DEF InSize
  <2>4. Parses(W, p, m', [pc |-> "async_size", got |-> << >>], m_stream'.in, x, q, v)
    BY <1>1, <1>7, <2>3 DEF Parses
  <2> QED
    BY <1>2, <1>3, <1>6, <1>9, <1>10, <1>12, <2>1, <2>4, GoesOn DEF W
<1>13. CASE m.skip_crlf
  <2>1. Goto("async_size", << >>) /\ m_response' = m_response /\ pos = 0 /\ v = 0
    BY <1>1, <1>7, <1>13
  <2>2. PICK k \in Nat : AtLine(p, 0, 0, k)
    BY <1>5, <1>8, FirstLine
  <2> QED
    BY <1>11, <1>12, <2>1, <2>2
<1>14. CASE ~m.skip_crlf
  <2>1. InChunk(p, 0, pos, v) /\ m_response' = Drop(m_response, 2)
    BY <1>1, <1>7, <1>14
  <2> DEFINE o == pos + 2
  <2>2. AfterChunk(p, o, v) /\ o \in Nat /\ pos = o - 2
    BY <1>5, <1>8, <2>1, ChunkOver
  <2>3. /\ o + 5 <= Len(W) /\ Seg(W, o - 2, o) = <<CR, LF>>
        /\ \E k \in Nat : AtLine(p, o, v, k)
    <3> HIDE DEF o
    <3> QED
      BY <1>5, <1>8, <2>2, ChunkCrlf DEF W
  <2>4. m_response = Seg(W, pos, q) /\ Len(m_response) = q - pos
    <3>1. W \in Seq(Token)
      BY <1>8
    <3>2. Len(Seg(W, pos, q)) = q - pos
      BY ONLY <3>1, <1>15, pos \in Nat, q \in Nat, SegTyped
    <3> QED
      BY <1>11, <3>2
  <2>5. CASE Len(m_response) < 2
    <3>1. Goto("async_crlf", m_response)
      BY <1>1, <1>14, <2>5
    <3>2. q = o - 2 \/ q = o - 1
      BY <1>11, <2>2, <2>4, <2>5
    <3>3. m_response' = << >>
      <4> DEFINE n == 2
      <4>1. n \in Nat /\ n >= q - pos /\ q <= Len(W)
        BY <1>8, <1>11, <2>4, <2>5
      <4> HIDE DEF n
      <4>2. Drop(Seg(W, pos, q), n) = << >>
        BY <1>8, <1>11, <4>1, SegDropAll
      <4> QED
        BY <2>1, <2>4, <4>2 DEF n
    <3>4. m_response' = Seg(W, q, q)
      <4>1. q <= Len(W)
        BY <1>8, <1>11
      <4>2. Seg(W, q, q) = << >>
        BY <1>8, <4>1, SegEmpty
      <4> QED
        BY <3>3, <4>2
    <3>5. Buffers(W, m_response', socket'.rest, q, q, e)
      BY <1>11, <3>4 DEF Buffers
    <3> HIDE DEF o
    <3>6. m_response = Seg(W, o - 2, q)
      BY <2>2, <2>4
    <3>7. InCrlf(W, p, m', [pc |-> "async_crlf", got |-> m_response], m_stream'.in, q, q, v)
      BY <1>1, <1>5, <2>2, <3>2, <3>6 DEF InCrlf
    <3>8. Parses(W, p, m', [pc |-> "async_crlf", got |-> m_response], m_stream'.in, q, q, v)
      BY <1>1, <1>7, <3>7 DEF Parses
    <3> QED
      BY <1>2, <1>3, <1>6, <1>9, <1>10, <3>1, <3>5, <3>8, GoesOn DEF W
  <2>6. CASE ~(Len(m_response) < 2)
    <3>1. o <= q /\ q <= Len(W)
      BY <1>8, <1>11, <2>4, <2>6
    <3>2. SubSeq(m_response, 1, 2) = <<CR, LF>> /\ m_response' = Seg(W, o, q)
      <4> DEFINE n == 2
      <4>1. n \in Nat /\ n <= q - pos /\ q <= Len(W)
        BY <1>8, <1>11, <3>1
      <4>2. pos + n = o
        OBVIOUS
      <4>7. W \in Seq(Token)
        BY <1>8
      <4> HIDE DEF n, o
      <4>3. SubSeq(Seg(W, pos, q), 1, n) = Seg(W, pos, pos + n)
        BY ONLY <4>7, <1>15, <4>1, pos \in Nat, q \in Nat, SegTake
      <4>4. Drop(Seg(W, pos, q), n) = Seg(W, pos + n, q)
        BY <1>8, <1>11, <4>1, SegDrop
      <4>5. SubSeq(m_response, 1, n) = <<CR, LF>>
        BY <2>2, <2>3, <2>4, <4>2, <4>3
      <4>6. Drop(m_response, n) = Seg(W, o, q)
        BY <2>4, <4>2, <4>4
      <4> QED
        BY <2>1, <4>5, <4>6 DEF n
    <3>3. Goto("async_size", << >>)
      BY <1>1, <1>7, <1>14, <2>6, <3>2 DEF CrlfRead
    <3> HIDE DEF o
    <3> QED
      BY <1>12, <2>2, <2>3, <3>1, <3>2, <3>3
  <2> QED
    BY <2>5, <2>6
<1> QED
  BY <1>13, <1>14

(* HandleSkipCrlf: the rest of the CRLF, all of it or not. *)
LEMMA HandleSkipCrlfInv ==
  ASSUME IInv, TypesInv', HandleSkipCrlf
  PROVE  IInv' /\ Progress
<1> DEFINE r == user.r
           p == Now
           W == Wire(r, p)
           max == 2 - Len(call.got)
<1>1. call.pc = "async_crlf" /\ exchange' = exchange /\ m' = m /\ m_stream' = m_stream
  BY DEF HandleSkipCrlf, At
<1>2. PICK rd \in SocketRead(max) :
       /\ Take(rd)
       /\ IF rd.ec # "none" THEN Return(<< >>, 0, rd.ec)
          ELSE IF m.is_chunked_end THEN Return(<< >>, Len(rd.tokens), EndOfBody)
          ELSE IF call.got \o rd.tokens # <<CR, LF>>
          THEN Return(<< >>, Len(rd.tokens), "invalid_chunked_encoding")
          ELSE Goto("async_size", << >>)
  BY DEF HandleSkipCrlf
<1>3. ~user.ended /\ call.pc # "idle"
  BY <1>1, Calling
<1>4. HeadKept
  BY <1>1, HeadUnchanged
<1>5. PICK pos \in Nat, q \in Nat, e \in Nat, u \in Nat, v \in Nat :
        ReadingAt(r, p, WholeSent, m_response, socket.rest, m, m_stream, call,
                  user.reported, pos, q, e, u, v)
  BY <1>3, InRead
<1>6. /\ Buffers(W, m_response, socket.rest, pos, q, e) /\ (WholeSent => e = Len(W))
      /\ Inflates(r, p, m_stream', user.reported, u, v)
      /\ Parses(W, p, m, call, m_stream.in, pos, q, v)
  BY <1>1, <1>5 DEF ReadingAt
<1>7. InCrlf(W, p, m, call, m_stream.in, pos, q, v) /\ ~m.is_chunked_end /\ pos = q
  BY <1>1, <1>6 DEF Parses, Between, InCrlf, InSize
<1>8. PICK o \in Nat :
        /\ AfterChunk(p, o, v) /\ (pos = o - 2 \/ pos = o - 1)
        /\ call.got = Seg(W, o - 2, pos)
  BY <1>7 DEF InCrlf
<1>9. p.framing = "chunked" /\ m.chunked_size = 0 /\ m_stream.in = << >>
  BY <1>7 DEF InCrlf
<1>10. /\ r \in Nat /\ p \in Response /\ W \in Seq(Token) /\ Len(W) \in Nat
  BY NowTyped DEF IInv
<1>11. /\ o >= 2 /\ o + 5 <= Len(W) /\ Seg(W, o - 2, o) = <<CR, LF>>
       /\ \E k \in Nat : AtLine(p, o, v, k)
  BY <1>8, <1>9, <1>10, ChunkCrlf
<1>12. exchange.mode = "async"
  BY <1>1 DEF IInv, ModeInv, Async
<1> HIDE DEF W
<1> DEFINE o2 == o - 2
<1>13. o2 \in Nat /\ o2 <= pos /\ pos <= Len(W) /\ o = o2 + 2
  BY <1>8, <1>10, <1>11
<1>14. Len(call.got) = pos - o2 /\ max \in Nat /\ max = o - pos
  <2>1. call.got = Seg(W, o2, pos)
    BY <1>8
  <2> HIDE DEF o2
  <2>2. Len(Seg(W, o2, pos)) = pos - o2
    BY <1>10, <1>13, SegTyped
  <2> QED
    BY <1>8, <1>13, <2>1, <2>2
<1> HIDE DEF max
<1>15. PICK n \in 0 .. max :
           /\ GotOf(W, rd, q, n, e, max)
           /\ rd.response = m_response /\ rd.rest = Seg(W, q + n, e)
  BY <1>6, <1>10, <1>14, SocketSegs
<1>16. m_response' = rd.response /\ socket'.rest = rd.rest
  <2>1. socket \in Sockets
    BY NowTyped DEF IInv
  <2> QED
    BY <1>2, <2>1 DEF Take, Sockets
<1>17. CASE rd.ec # "none"
  <2>1. rd.ec = "eof" /\ pos = e
    BY <1>7, <1>15, <1>17 DEF GotOf
  <2>2. ~WholeSent
    BY <1>6, <1>8, <1>10, <1>11, <2>1
  <2>3. Return(<< >>, 0, "eof")
    BY <1>2, <1>17, <2>1
  <2> QED
    BY <1>3, <1>4, <2>2, <2>3, BodyOver
<1> DEFINE g == call.got \o rd.tokens
           x == pos + n
<1>18. x \in Nat /\ x <= o /\ pos <= x /\ x <= Len(W)
  BY <1>8, <1>10, <1>11, <1>14
<1>19. g = Seg(W, o2, x) /\ Len(g) = x - o2
  <2>1. call.got = Seg(W, o2, pos) /\ rd.tokens = Seg(W, pos, x)
    BY <1>7, <1>8, <1>15 DEF GotOf
  <2> HIDE DEF o2, x
  <2>2. Seg(W, o2, pos) \o Seg(W, pos, x) = Seg(W, o2, x)
    BY <1>10, <1>13, <1>18, SegJoin
  <2>3. o2 <= x
    BY <1>13, <1>18
  <2>4. Len(Seg(W, o2, x)) = x - o2
    BY <1>10, <1>13, <1>18, <2>3, SegTyped
  <2> QED
    BY <2>1, <2>2, <2>4
<1> HIDE DEF g
<1>20. CASE rd.ec = "none" /\ g # <<CR, LF>>
  <2>1. Return(<< >>, Len(rd.tokens), "invalid_chunked_encoding")
    BY <1>2, <1>7, <1>20 DEF g
  <2> QED
    BY <1>3, <1>4, <1>12, <2>1, Fails
<1>21. CASE rd.ec = "none" /\ g = <<CR, LF>>
  <2>1. Goto("async_size", << >>)
    BY <1>2, <1>7, <1>21 DEF g
  <2>2. x = o
    <3>1. Len(<<CR, LF>>) = 2
      OBVIOUS
    <3>2. Len(g) = 2
      BY <1>21, <3>1
    <3> HIDE DEF x, o2
    <3> QED
      BY <1>13, <1>18, <1>19, <3>2
  <2>3. Buffers(W, m_response', socket'.rest, x, x, e)
    <3>1. m_response = Seg(W, pos, pos) /\ x <= e /\ e <= Len(W)
      BY <1>6, <1>7, <1>15 DEF Buffers, GotOf
    <3> HIDE DEF x
    <3>2. Seg(W, pos, pos) = << >> /\ Seg(W, x, x) = << >>
      BY <1>10, <1>13, <1>18, SegEmpty
    <3> QED
      BY <1>7, <1>15, <1>16, <1>18, <3>1, <3>2 DEF Buffers, x
  <2>4. PICK k \in Nat : AtLine(p, o, v, k)
    BY <1>11
  <2> HIDE DEF x
  <2>5. << >> = Seg(W, x, x)
    BY <1>10, <1>18, SegEmpty
  <2>6. InSize(W, p, m', [pc |-> "async_size", got |-> << >>], m_stream'.in, x, v)
    <3>1. AtLine(p, x, v, k) /\ x <= x /\ x <= x + 2
      BY <1>18, <2>2, <2>4
    <3> QED
      BY <1>1, <1>9, <1>18, <2>5, <3>1 DEF InSize
  <2>7. Parses(W, p, m', [pc |-> "async_size", got |-> << >>], m_stream'.in, x, x, v)
    BY <1>1, <1>7, <2>6 DEF Parses
  <2> QED
    BY <1>3, <1>4, <1>6, <1>12, <1>18, <2>1, <2>3, <2>7, GoesOn DEF W
<1> QED
  BY <1>17, <1>20, <1>21

(* A read of the body that is not in a CRLF or a size line. *)
LEMMA InABody ==
  ASSUME IInv, ~user.ended, call.pc \in Between \cup {"chunk", "async_chunk"},
         m.is_chunked => ~NeedsSize \/ call.pc \in {"chunk", "async_chunk"},
         NEW pos \in Nat, NEW q \in Nat, NEW e \in Nat, NEW u \in Nat, NEW v \in Nat,
         ReadingAt(user.r, Now, WholeSent, m_response, socket.rest, m, m_stream, call,
                   user.reported, pos, q, e, u, v)
  PROVE  /\ InBody(Now, m, pos, v)
         /\ Now.framing = "chunked" => ~m.is_chunked_end
         /\ Now.framing = "chunked" /\ m_stream.in = << >> => m.chunked_size # 0
<1>1. /\ Inflates(user.r, Now, m_stream, user.reported, u, v)
      /\ Parses(Wire(user.r, Now), Now, m, call, m_stream.in, pos, q, v)
  BY DEF ReadingAt
<1>2. m.is_chunked <=> Now.framing = "chunked"
  BY InRead
<1>3. CASE call.pc \in {"chunk", "async_chunk"}
  BY <1>1, <1>3 DEF Parses, Between, InCrlf, InSize
<1>4. CASE call.pc \in Between
  <2>1. InBody(Now, m, pos, v) \/ AtStart(Now, m, pos, v)
    BY <1>1, <1>4 DEF Parses, Between, InCrlf, InSize
  <2>2. Now.framing = "chunked" => ~NeedsSize /\ m.is_chunked
    BY <1>2, <1>4 DEF Between
  <2>3. AtStart(Now, m, pos, v) => m_stream.in = << >>
    <3> SUFFICES ASSUME AtStart(Now, m, pos, v) PROVE m_stream.in = << >>
      OBVIOUS
    <3>1. v = 0
      BY DEF AtStart
    <3>2. /\ user.r \in Nat /\ Now \in Response /\ user.reported \in Nat
      BY NowTyped DEF IInv
    <3>3. u <= v
      BY <1>1, <3>2, AllInflated
    <3>4. u = v
      BY <3>1, <3>3
    <3> QED
      BY <1>1, <3>2, <3>4, AllInflated
  <2>4. ~AtStart(Now, m, pos, v)
    BY <2>2, <2>3 DEF AtStart, NeedsSize
  <2>5. Now.framing = "chunked" /\ m_stream.in = << >> => m.chunked_size # 0
    BY <2>2 DEF NeedsSize
  <2> QED
    BY <1>1, <2>1, <2>4, <2>5 DEF Parses
<1> QED
  BY <1>3, <1>4

(* A read gives the caller the tokens t, from v to w of a body that is not *)
(* compressed, and leaves what is on the wire from pos on.                 *)
GivenAt(t, ec, u, v, w, pos, q, e) ==
  /\ ~Now.gzip /\ m_stream' = m_stream /\ Return(Plain(t), Len(t), ec)
  /\ v <= w /\ w <= LengthOf(Now) /\ Inflates(user.r, Now, m_stream, user.reported, u, v)
  /\ t = Seg(Tokens(user.r, Now), v, w)
  /\ Buffers(Wire(user.r, Now), m_response', socket'.rest, pos, q, e)
  /\ WholeSent => e = Len(Wire(user.r, Now))
  /\ ec = "none" /\ v # w => InBody(Now, m', pos, w)
  /\ Now.framing = "chunked" => ~m'.is_chunked_end
  /\ WholeSent /\ (ec = "eof" \/ v = w) =>
       /\ w = LengthOf(Now) /\ m'.chunked_size = 0
       /\ ec = "none" /\ Now.keep /\ Now.framing # "chunked" => socket'.rest = << >>

(* Tokens are passed on to the caller as they are. *)
LEMMA GivesTokens ==
  ASSUME IInv, TypesInv', HeadKept, ~user.ended, NEW ec \in {"none", "eof"}, NEW t,
         NEW u \in Nat, NEW v \in Nat, NEW w \in Nat,
         NEW pos \in Nat, NEW q \in Nat, NEW e \in Nat, GivenAt(t, ec, u, v, w, pos, q, e)
  PROVE  IInv' /\ Progress
<1>0. /\ ~Now.gzip /\ m_stream' = m_stream /\ Return(Plain(t), Len(t), ec)
      /\ v <= w /\ w <= LengthOf(Now)
      /\ Inflates(user.r, Now, m_stream, user.reported, u, v)
      /\ t = Seg(Tokens(user.r, Now), v, w)
      /\ Buffers(Wire(user.r, Now), m_response', socket'.rest, pos, q, e)
      /\ WholeSent => e = Len(Wire(user.r, Now))
      /\ ec = "none" /\ v # w => InBody(Now, m', pos, w)
      /\ Now.framing = "chunked" => ~m'.is_chunked_end
      /\ WholeSent /\ (ec = "eof" \/ v = w) =>
           /\ w = LengthOf(Now) /\ m'.chunked_size = 0
           /\ ec = "none" /\ Now.keep /\ Now.framing # "chunked" => socket'.rest = << >>
  BY DEF GivenAt
<1> DEFINE d == user.reported
<1>1. /\ user.r \in Nat /\ Now \in Response /\ d \in Nat
  BY NowTyped DEF IInv
<1>2. m_stream = NoInflater
  BY <1>0 DEF IInv, HeadInv
<1>3. IsPassedOn(user.r, Now, m_stream, t, d, v, w)
  <2> DEFINE r == user.r
             p == Now
             zz == m_stream
  <2>1. r \in Nat /\ p \in Response /\ ~p.gzip /\ Inflates(r, p, zz, d, u, v) /\ zz.out = << >>
        /\ t = Seg(Tokens(r, p), v, w) /\ w <= LengthOf(p)
    BY <1>0, <1>1, <1>2 DEF NoInflater
  <2> HIDE DEF r, p, zz, d
  <2>2. d \in Nat
    BY <1>1
  <2>3. IsPassedOn(r, p, zz, t, d, v, w)
    BY ONLY <1>0, <2>1, <2>2, u \in Nat, v \in Nat, w \in Nat, PassedOn
  <2> QED
    BY <2>3 DEF r, p, zz, d
<1>4. /\ Plain(t) = Bytes(user.r, d, w) /\ Len(t) = w - d /\ v = d /\ w <= Plains(Now)
      /\ Inflates(user.r, Now, m_stream', w, w, w)
      /\ w = LengthOf(Now) => w = Plains(Now)
  BY <1>0, <1>3 DEF IsPassedOn
<1> DEFINE bytes == Plain(t)
           n == Len(t)
<1>5. /\ bytes = Bytes(user.r, user.reported, w) /\ n = w - user.reported
      /\ user.reported <= w /\ (n = 0 <=> v = w) /\ Return(bytes, n, ec)
  BY <1>0, <1>1, <1>4
<1> HIDE DEF bytes, n, d
<1>6. ec = "none" /\ n # 0 => InBody(Now, m', pos, w)
  BY <1>0, <1>5
<1>7. Now.framing = "chunked" => ~m'.is_chunked_end \/ n = 0
  BY <1>0
<1>8. WholeSent /\ (ec = "eof" \/ n = 0) =>
        /\ w = Plains(Now) /\ m'.chunked_size = 0
        /\ ec = "none" /\ Now.keep /\ Now.framing # "chunked" => socket'.rest = << >>
  BY <1>0, <1>4, <1>5
<1>9. w <= Plains(Now) /\ Inflates(user.r, Now, m_stream', w, w, w)
  BY <1>4
<1>10. HandedOver(bytes, n, ec, w, pos, q, e, w, w)
  BY <1>0, <1>5, <1>6, <1>7, <1>8, <1>9 DEF HandedOver
<1> QED
  BY <1>10, Gives

(* The inflater has got more input, or new input. *)
Filled(z, zz, t) ==
  \/ zz = [z EXCEPT !.in = @ \o t]
  \/ z.in = << >> /\ zz = [z EXCEPT !.in = t]

(* Tokens go to the inflater. *)
LEMMA InflatesTokens ==
  ASSUME IInv, TypesInv', HeadKept, ~user.ended, Now.gzip, call.pc # "idle",
         NEW u \in Nat, NEW v \in Nat, NEW w \in Nat, v <= w, w <= LengthOf(Now),
         Inflates(user.r, Now, m_stream, user.reported, u, v),
         NEW t \in Seq(Token), t = Seg(Tokens(user.r, Now), v, w),
         NEW zz, Filled(m_stream, zz, t),
         NEW ec \in {"none", "eof"},
         NEW again \in {"read_some", "async_read_some"}, InflateInto(zz, ec, again),
         again = "async_read_some" => exchange.mode = "async",
         NEW pos \in Nat, NEW q \in Nat, NEW e \in Nat,
         Buffers(Wire(user.r, Now), m_response', socket'.rest, pos, q, e),
         WholeSent => e = Len(Wire(user.r, Now)),
         InBody(Now, m', pos, w), Now.framing = "chunked" => ~m'.is_chunked_end,
         v = w /\ m_stream.in = << >> /\ WholeSent => w = LengthOf(Now),
         ec = "eof" /\ WholeSent =>
           /\ v = w /\ w = LengthOf(Now) /\ m'.chunked_size = 0
           /\ again = "async_read_some" \/ m_stream.in = << >>
  PROVE  IInv' /\ Progress
<1> DEFINE d == user.reported
           r == user.r
           p == Now
<1>1. /\ r \in Nat /\ p \in Response /\ d \in Nat /\ m_stream \in Inflaters
  BY NowTyped DEF IInv
<1>2. Inflates(r, p, zz, d, u, w)
  <2> DEFINE z == m_stream
             y1 == [z EXCEPT !.in = @ \o t]
             y2 == [z EXCEPT !.in = t]
  <2>1. p.gzip /\ Inflates(r, p, z, d, u, v) /\ t = Seg(Tokens(r, p), v, w) /\ w <= LengthOf(p)
        /\ z \in Inflaters /\ (zz = y1 \/ (z.in = << >> /\ zz = y2))
    BY <1>1 DEF Filled
  <2> HIDE DEF r, p, d, z
  <2>2. Inflates(r, p, y1, d, u, w) /\ (z.in = << >> => Inflates(r, p, y2, d, u, w))
    BY <1>1, <2>1, Refilled
  <2> HIDE DEF y1, y2
  <2> QED
    BY <2>1, <2>2
<1>3. zz \in Inflaters
  BY <1>1, RefillTyped DEF Inflaters, Filled
<1>4. /\ m_stream.in = << >> <=> u = v
      /\ zz.in = << >> <=> u = w
      /\ u <= v /\ v <= w
      /\ w = LengthOf(p) /\ zz.in = << >> => zz.done
  <2> DEFINE z == m_stream
  <2>1. /\ r \in Nat /\ p \in Response /\ d \in Nat /\ p.gzip
        /\ Inflates(r, p, z, d, u, v) /\ Inflates(r, p, zz, d, u, w)
    BY <1>1, <1>2
  <2> HIDE DEF r, p, d, z
  <2>2. (z.in = << >> <=> u = v) /\ u <= v
    BY ONLY <2>1, u \in Nat, v \in Nat, AllInflated
  <2>3. /\ zz.in = << >> <=> u = w
        /\ u <= w /\ w <= LengthOf(p) /\ d <= Plains(p)
        /\ w = LengthOf(p) /\ zz.in = << >> => d = Plains(p) /\ (p.gzip => zz.done)
        /\ ~p.gzip => u = w /\ d = w
    BY ONLY <2>1, u \in Nat, w \in Nat, AllInflated
  <2> QED
    BY <2>1, <2>2, <2>3 DEF z
<1>5. zz.in = << >> => m_stream.in = << >> /\ v = w
  BY <1>4
<1>6. zz.in = << >> => zz.done \/ ~WholeSent
  BY <1>4, <1>5
<1>7. ec = "eof" /\ WholeSent =>
        /\ w = LengthOf(Now) /\ m'.chunked_size = 0
        /\ again = "async_read_some" \/ zz.in = << >>
  BY <1>4
<1>8. InflatesAt(zz, ec, again, pos, q, e, u, w)
  BY <1>2, <1>6, <1>7 DEF InflatesAt
<1> QED
  BY <1>3, <1>8, Inflated

(* ReadChunk: bytes of the chunk, to the caller or through the inflater. *)
LEMMA ReadChunkInv ==
  ASSUME IInv, TypesInv', ReadChunk
  PROVE  IInv' /\ Progress
<1> DEFINE r == user.r
           p == Now
           W == Wire(r, p)
           C == Tokens(r, p)
           d == user.reported
           max == IF m.is_gzip THEN Smaller(m.chunked_size, ZlibBuffer)
                  ELSE Smaller(m.chunked_size, call.room)
<1>1. /\ call.pc = "chunk" \/ (call.pc = "read_some" /\ m.is_chunked /\ ~NeedsSize)
      /\ exchange' = exchange
  BY DEF ReadChunk, At
<1>2. ~user.ended /\ call.pc # "idle" /\ call.room \in Nat \ {0}
  BY <1>1, Calling
<1>3. PICK pos \in Nat, q \in Nat, e \in Nat, u \in Nat, v \in Nat :
        ReadingAt(r, p, WholeSent, m_response, socket.rest, m, m_stream, call,
                  d, pos, q, e, u, v)
  BY <1>2, InRead
<1>4. /\ Buffers(W, m_response, socket.rest, pos, q, e) /\ (WholeSent => e = Len(W))
      /\ Inflates(r, p, m_stream, d, u, v)
      /\ Parses(W, p, m, call, m_stream.in, pos, q, v)
  BY <1>3 DEF ReadingAt
<1>5. /\ (m.is_chunked <=> p.framing = "chunked") /\ (m.is_gzip <=> p.gzip)
      /\ (~p.gzip => m_stream = NoInflater)
  BY <1>2, InRead
<1>6. p.framing = "chunked"
  BY <1>1, <1>4, <1>5 DEF Parses, Between, InCrlf, InSize
<1>7. /\ InBody(p, m, pos, v) /\ ~m.is_chunked_end
      /\ m_stream.in = << >> => m.chunked_size # 0
  <2>1. /\ call.pc \in Between \cup {"chunk", "async_chunk"}
        /\ m.is_chunked => ~NeedsSize \/ call.pc \in {"chunk", "async_chunk"}
    BY <1>1 DEF Between
  <2> QED
    BY <1>2, <1>3, <1>6, <2>1, InABody
<1>8. /\ r \in Nat /\ p \in Response /\ W \in Seq(Token) /\ Len(W) \in Nat /\ d \in Nat
      /\ m_stream \in Inflaters /\ m \in Members /\ socket \in Sockets
  BY NowTyped DEF IInv
<1>9. InChunk(p, m.chunked_size, pos, v) /\ ~m.skip_crlf /\ m.chunked_size \in Nat
  BY <1>6, <1>7, <1>8 DEF InBody, Members
<1>10. CASE m_stream.in # << >>
  <2>1. /\ InflateInto(m_stream, "none", "read_some")
        /\ m' = m /\ m_response' = m_response /\ socket' = socket
    BY <1>10 DEF ReadChunk
  <2>2. p.gzip
    BY <1>5, <1>10 DEF NoInflater
  <2>3. HeadKept
    BY <1>1, <1>5, <2>1, <2>2, HeadUnchanged
  <2>4. InflatesAt(m_stream, "none", "read_some", pos, q, e, u, v)
    BY <1>4, <1>7, <1>10, <2>1, <2>2 DEF InflatesAt
  <2> QED
    BY <1>2, <1>8, <2>3, <2>4, Inflated
<1>11. CASE m_stream.in = << >>
  <2>1. PICK rd \in ReadSomeImpl(max) :
            /\ Take(rd)
            /\ m' = [m EXCEPT !.chunked_size = @ - Len(rd.tokens)]
            /\ IF m.is_gzip
               THEN InflateInto([m_stream EXCEPT !.in = rd.tokens], rd.ec, "read_some")
               ELSE Return(Plain(rd.tokens), Len(rd.tokens), rd.ec) /\ UNCHANGED m_stream
    BY <1>11 DEF ReadChunk
  <2>2. max \in Nat /\ max >= 1 /\ max <= m.chunked_size
    <3>1. m.chunked_size \in Nat \ {0}
      BY <1>7, <1>9, <1>11
    <3> QED
      BY <1>2, <3>1 DEF Smaller, ZlibBuffer
  <2> HIDE DEF max, W, C
  <2>3. PICK n \in 0 .. max, q2 \in Nat :
           /\ GotOf(W, rd, pos, n, e, max)
           /\ Buffers(W, rd.response, rd.rest, pos + n, q2, e)
    BY <1>4, <1>8, <2>2, ReadSegs
  <2> DEFINE c == m.chunked_size
             x == pos + n
             w == v + n
  <2>4. n \in Nat /\ n <= c /\ c \in Nat
    BY <1>9, <2>2
  <2>5. x \in Nat /\ w \in Nat /\ v <= w /\ pos <= x /\ x - pos = n /\ (v = w <=> n = 0)
    BY <2>4
  <2> HIDE DEF c
  <2>6. /\ InChunk(p, c - n, pos + n, v + n)
        /\ Seg(W, pos, pos + n) = Seg(C, v, v + n)
        /\ pos + 2 <= Len(W) /\ v + n <= LengthOf(p)
    <3> HIDE DEF x, w
    <3>1. InChunk(p, c, pos, v) /\ c \in Nat
      BY <1>9, <2>4 DEF c
    <3> DEFINE pp == p
               rr == r
    <3>2. rr \in Nat /\ pp \in Response /\ pp.framing = "chunked" /\ InChunk(pp, c, pos, v)
      BY <1>6, <1>8, <3>1
    <3> HIDE DEF pp, rr
    <3>3. /\ InChunk(pp, c - n, pos + n, v + n)
          /\ Seg(Wire(rr, pp), pos, pos + n) = Seg(Tokens(rr, pp), v, v + n)
          /\ pos + 2 <= Len(Wire(rr, pp)) /\ v + n <= LengthOf(pp)
      BY ONLY <2>4, <3>1, <3>2, pos \in Nat, v \in Nat, ChunkRead
    <3> QED
      BY <3>3 DEF pp, rr, W, C
  <2> HIDE DEF x, w
  <2>7. /\ InChunk(p, c - n, x, w) /\ Seg(W, pos, x) = Seg(C, v, w) /\ w <= LengthOf(p)
    BY <2>6 DEF x, w
  <2>8. rd.tokens = Seg(W, pos, x) /\ rd.ec \in {"none", "eof"}
        /\ (n = 0 => rd.ec = "eof") /\ (rd.ec = "eof" => n = 0 /\ pos = e)
    BY <2>2, <2>3 DEF GotOf, x
  <2>9. rd.ec = "eof" => ~WholeSent
    BY <1>4, <1>8, <2>6, <2>8
  <2>10. Buffers(W, rd.response, rd.rest, x, q2, e)
    BY <2>3 DEF x
  <2>11. Len(rd.tokens) = n /\ rd.tokens \in Seq(Token)
    <3>1. x <= Len(W)
      BY <1>8, <2>10, <2>5 DEF Buffers
    <3>2. W \in Seq(Token)
      BY <1>8
    <3>3. pos <= x /\ x \in Nat
      BY <2>5
    <3>4. Seg(W, pos, x) \in Seq(Token) /\ Len(Seg(W, pos, x)) = x - pos
      BY ONLY <3>1, <3>2, <3>3, pos \in Nat, SegTyped
    <3> QED
      BY <2>5, <2>8, <3>4
  <2>12. /\ m'.is_chunked = m.is_chunked /\ m'.keep_alive = m.keep_alive
         /\ m'.is_gzip = m.is_gzip /\ m'.content_length = m.content_length
         /\ m'.skip_crlf = m.skip_crlf /\ m'.is_chunked_end = m.is_chunked_end
         /\ m'.chunked_size = c - n
    BY <1>8, <2>1, <2>11 DEF Members, c
  <2>13. InBody(p, m', x, w) /\ ~m'.is_chunked_end
    BY <1>6, <1>7, <1>9, <2>7, <2>12 DEF InBody
  <2>14. Buffers(W, m_response', socket'.rest, x, q2, e)
    <3>1. m_response' = rd.response /\ socket'.rest = rd.rest
      BY <1>8, <2>1 DEF Take, Sockets
    <3> QED
      BY <2>10, <3>1
  <2>15. HeadKept
    BY <1>1, <2>1, <2>12, HeadUnchanged
  <2> DEFINE t == rd.tokens
             ec == rd.ec
  <2>16. t \in Seq(Token) /\ t = Seg(C, v, w) /\ ec \in {"none", "eof"}
    BY <2>7, <2>8, <2>11
  <2>17. (v = w => ~WholeSent) /\ (ec = "eof" => ~WholeSent)
    BY <2>5, <2>8, <2>9
  <2>18. CASE p.gzip
    <3> DEFINE zz == [m_stream EXCEPT !.in = t]
    <3>1. InflateInto(zz, ec, "read_some")
      BY <1>5, <2>1, <2>18
    <3>2. Filled(m_stream, zz, t)
      BY <1>11 DEF Filled
    <3> HIDE DEF zz, t, ec
    <3> QED
      BY <1>2, <1>4, <2>5, <2>7, <2>13, <2>14, <2>15, <2>16, <2>17, <2>18, <3>1, <3>2,
         InflatesTokens DEF W, C
  <2>19. CASE ~p.gzip
    <3>1. Return(Plain(t), Len(t), ec) /\ m_stream' = m_stream
      BY <1>5, <2>1, <2>19
    <3> HIDE DEF t, ec
    <3>2. GivenAt(t, ec, u, v, w, x, q2, e)
      BY <1>2, <1>4, <2>5, <2>7, <2>13, <2>14, <2>15, <2>16, <2>17, <2>19, <3>1
         DEF GivenAt, W, C
    <3> QED
      BY <1>2, <1>4, <2>5, <2>7, <2>13, <2>14, <2>15, <2>16, <2>17, <2>19, <3>1,
         <3>2, GivesTokens
  <2> QED
    BY <2>18, <2>19
<1> QED
  BY <1>10, <1>11

(* Where a body that is not chunked is being read. *)
InPlain(W, p, mm, pos, v) ==
  /\ p.framing # "chunked" /\ pos = v /\ mm.body_size = v /\ mm.chunked_size = 0
  /\ W \in Seq(Token) /\ Len(W) = LengthOf(p) /\ LengthOf(p) \in Nat

(* A read of a body that is not chunked is in one. *)
LEMMA InAPlainBody ==
  ASSUME IInv, ~user.ended, call.pc \in Between, ~m.is_chunked,
         NEW pos \in Nat, NEW q \in Nat, NEW e \in Nat, NEW u \in Nat, NEW v \in Nat,
         ReadingAt(user.r, Now, WholeSent, m_response, socket.rest, m, m_stream, call,
                   user.reported, pos, q, e, u, v)
  PROVE  /\ InPlain(Wire(user.r, Now), Now, m, pos, v)
         /\ Wire(user.r, Now) = Tokens(user.r, Now)
<1>1. Now.framing # "chunked"
  BY InRead
<1>2. InBody(Now, m, pos, v)
  BY InABody
<1>3. user.r \in Nat /\ Now \in Response
  BY NowTyped DEF IInv
<1>4. Wire(user.r, Now) = Tokens(user.r, Now)
  BY <1>1, <1>3, WireTyped
<1>5. /\ Wire(user.r, Now) \in Seq(Token) /\ Len(Wire(user.r, Now)) = LengthOf(Now)
      /\ LengthOf(Now) \in Nat
  BY <1>3, <1>4, TokensOfResponse, UnitsOfResponse
<1>6. pos = v /\ m.body_size = v /\ m.chunked_size = 0
  BY <1>1, <1>2 DEF InBody
<1> QED
  BY <1>1, <1>4, <1>5, <1>6 DEF InPlain

(* When Content-Length bytes were read, the body was read. *)
LEMMA WholeBodyRead ==
  ASSUME IInv, ~user.ended, BodyIsRead,
         NEW pos \in Nat, NEW q \in Nat, NEW e \in Nat, NEW u \in Nat, NEW v \in Nat,
         ReadingAt(user.r, Now, WholeSent, m_response, socket.rest, m, m_stream, call,
                   user.reported, pos, q, e, u, v),
         InPlain(Wire(user.r, Now), Now, m, pos, v)
  PROVE  /\ m_stream.in = << >> => user.reported = Plains(Now)
         /\ WholeSent => socket.rest = << >>
<1> DEFINE W == Wire(user.r, Now)
           N == LengthOf(Now)
<1>1. /\ Buffers(W, m_response, socket.rest, pos, q, e) /\ (WholeSent => e = Len(W))
      /\ Inflates(user.r, Now, m_stream, user.reported, u, v)
  BY DEF ReadingAt
<1>2. user.r \in Nat /\ Now \in Response /\ user.reported \in Nat /\ m \in Members
  BY NowTyped DEF IInv
<1>3. /\ Now.framing # "chunked" /\ pos = v /\ m.body_size = v
      /\ W \in Seq(Token) /\ Len(W) = N /\ N \in Nat
  BY DEF InPlain
<1>4. Now.framing = "length"
  <2>1. Now.keep
    BY InRead DEF BodyIsRead
  <2> QED
    BY <1>2, <1>3, <2>1 DEF Response, Responses, WellFormed
<1>5. m.content_length >= N /\ m.body_size = m.content_length
  BY <1>4 DEF IInv, LengthInv, BodyIsRead
<1>6. v <= N
  BY <1>1 DEF Inflates
<1>7. v = N
  BY <1>3, <1>5, <1>6
<1>8. m_stream.in = << >> => user.reported = Plains(Now)
  <2> DEFINE r == user.r
             p == Now
             d == user.reported
             zz == m_stream
  <2>1. r \in Nat /\ p \in Response /\ d \in Nat /\ Inflates(r, p, zz, d, u, v)
        /\ v = LengthOf(p)
    BY <1>1, <1>2, <1>7
  <2> HIDE DEF r, p, d, zz
  <2>2. zz.in = << >> => d = Plains(p)
    BY <2>1, AllInflated
  <2> QED
    BY <2>2 DEF p, d, zz
<1>9. WholeSent => socket.rest = << >>
  <2> SUFFICES ASSUME WholeSent PROVE socket.rest = << >>
    OBVIOUS
  <2>1. q = e /\ e <= Len(W) /\ socket.rest = Seg(W, q, e)
    BY <1>1, <1>3, <1>7 DEF Buffers
  <2>2. W \in Seq(Token)
    BY <1>3
  <2> HIDE DEF W
  <2>3. Seg(W, e, e) = << >>
    BY ONLY <2>1, <2>2, e \in Nat, SegEmpty
  <2> QED
    BY <2>1, <2>3
<1> QED
  BY <1>8, <1>9

(* The caller is told that a body that is not chunked is over. *)
LEMMA EndsPlain ==
  ASSUME IInv, TypesInv', ~user.ended, BodyIsRead, m_stream.in = << >>,
         NEW pos \in Nat, NEW q \in Nat, NEW e \in Nat, NEW u \in Nat, NEW v \in Nat,
         ReadingAt(user.r, Now, WholeSent, m_response, socket.rest, m, m_stream, call,
                   user.reported, pos, q, e, u, v),
         InPlain(Wire(user.r, Now), Now, m, pos, v),
         Return(<< >>, 0, "none"), exchange' = exchange,
         m' = m, m_stream' = m_stream, m_response' = m_response, socket' = socket
  PROVE  IInv' /\ Progress
<1>1. HeadKept
  BY HeadUnchanged
<1>2. /\ user.reported = Plains(Now)
      /\ WholeSent => socket.rest = << >>
  BY WholeBodyRead
<1>3. m.chunked_size = 0
  BY DEF InPlain
<1> QED
  BY <1>1, <1>2, <1>3, BodyOver

(* Tokens v to w of a body that is not chunked were read. *)
WasRead(W, p, mm, m2, t, n, v, w) ==
  /\ t \in Seq(Token) /\ t = Seg(W, v, w) /\ Len(t) = n
  /\ v <= w /\ w <= LengthOf(p) /\ InBody(p, m2, w, w) /\ m2.chunked_size = 0
  /\ m2.is_chunked = mm.is_chunked /\ m2.keep_alive = mm.keep_alive
  /\ m2.is_gzip = mm.is_gzip /\ m2.content_length = mm.content_length

(* Tokens read from a body that is not chunked. *)
LEMMA PlainRead ==
  ASSUME NEW W, NEW p, NEW mm \in Members, NEW pos \in Nat, NEW v \in Nat,
         InPlain(W, p, mm, pos, v), NEW n \in Nat, NEW e \in Nat, e <= Len(W), NEW rd, NEW max,
         GotOf(W, rd, pos, n, e, max), NEW w \in Nat, w = v + n,
         NEW m2, m2 = [mm EXCEPT !.body_size = @ + Len(rd.tokens)]
  PROVE  WasRead(W, p, mm, m2, rd.tokens, n, v, w)
<1>1. /\ p.framing # "chunked" /\ pos = v /\ mm.body_size = v /\ mm.chunked_size = 0
      /\ W \in Seq(Token) /\ Len(W) = LengthOf(p) /\ LengthOf(p) \in Nat
  BY DEF InPlain
<1>2. rd.tokens = Seg(W, pos, pos + n) /\ pos + n <= e
  BY DEF GotOf
<1>3. rd.tokens = Seg(W, v, w) /\ v <= w /\ w <= LengthOf(p) /\ w - v = n
  BY <1>1, <1>2
<1>4. Seg(W, v, w) \in Seq(Token) /\ Len(Seg(W, v, w)) = w - v
  <2>1. W \in Seq(Token) /\ w <= Len(W) /\ v <= w
    BY <1>1, <1>3
  <2> QED
    BY ONLY <2>1, v \in Nat, w \in Nat, SegTyped
<1>5. rd.tokens \in Seq(Token) /\ Len(rd.tokens) = n
  BY <1>3, <1>4
<1>6. /\ m2.body_size = w /\ m2.chunked_size = 0
      /\ m2.is_chunked = mm.is_chunked /\ m2.keep_alive = mm.keep_alive
      /\ m2.is_gzip = mm.is_gzip /\ m2.content_length = mm.content_length
  BY <1>1, <1>5 DEF Members
<1>7. InBody(p, m2, w, w)
  BY <1>1, <1>6 DEF InBody
<1> QED
  BY <1>3, <1>5, <1>6, <1>7 DEF WasRead

(* ReadPlain: bytes of a body that is not chunked. *)
LEMMA ReadPlainInv ==
  ASSUME IInv, TypesInv', ReadPlain
  PROVE  IInv' /\ Progress
<1> DEFINE r == user.r
           p == Now
           W == Wire(r, p)
           C == Tokens(r, p)
           d == user.reported
           max == IF m.is_gzip THEN ZlibBuffer ELSE call.room
<1>1. call.pc = "read_some" /\ ~m.is_chunked /\ exchange' = exchange
  BY DEF ReadPlain, At
<1>2. ~user.ended /\ call.pc # "idle" /\ call.room \in Nat \ {0} /\ call.pc \in Between
  BY <1>1, Calling DEF Between
<1>3. PICK pos \in Nat, q \in Nat, e \in Nat, u \in Nat, v \in Nat :
        ReadingAt(r, p, WholeSent, m_response, socket.rest, m, m_stream, call,
                  d, pos, q, e, u, v)
  BY <1>2, InRead
<1>4. /\ Buffers(W, m_response, socket.rest, pos, q, e) /\ (WholeSent => e = Len(W))
      /\ Inflates(r, p, m_stream, d, u, v)
  BY <1>3 DEF ReadingAt
<1>5. (m.is_gzip <=> p.gzip) /\ (~p.gzip => m_stream = NoInflater)
  BY <1>2, InRead
<1>6. InPlain(W, p, m, pos, v) /\ W = C
  BY <1>1, <1>2, <1>3, InAPlainBody
<1>7. /\ r \in Nat /\ p \in Response /\ W \in Seq(Token) /\ Len(W) \in Nat /\ d \in Nat
      /\ m_stream \in Inflaters /\ m \in Members /\ socket \in Sockets
  BY NowTyped DEF IInv
<1>8. /\ p.framing # "chunked" /\ pos = v /\ InBody(p, m, pos, v)
      /\ Len(W) = LengthOf(p) /\ LengthOf(p) \in Nat
  BY <1>6 DEF InPlain, InBody
<1>9. CASE m.is_gzip /\ m_stream.in # << >>
  <2>1. /\ InflateInto(m_stream, "none", "read_some")
        /\ m' = m /\ m_response' = m_response /\ socket' = socket
    BY <1>9 DEF ReadPlain
  <2>2. HeadKept
    BY <1>1, <1>9, <2>1, HeadUnchanged
  <2>3. InflatesAt(m_stream, "none", "read_some", pos, q, e, u, v)
    BY <1>4, <1>5, <1>8, <1>9, <2>1 DEF InflatesAt
  <2> QED
    BY <1>2, <1>7, <2>2, <2>3, Inflated
<1>10. ASSUME ~(m.is_gzip /\ m_stream.in # << >>) PROVE m_stream.in = << >>
  BY <1>5, <1>10 DEF NoInflater
<1>11. CASE ~(m.is_gzip /\ m_stream.in # << >>) /\ BodyIsRead
  <2>1. /\ Return(<< >>, 0, "none")
        /\ m' = m /\ m_stream' = m_stream /\ m_response' = m_response /\ socket' = socket
    BY <1>11 DEF ReadPlain
  <2> QED
    BY <1>1, <1>2, <1>3, <1>6, <1>10, <1>11, <2>1, EndsPlain
<1>12. CASE ~(m.is_gzip /\ m_stream.in # << >>) /\ ~BodyIsRead
  <2>1. PICK rd \in ReadSomeImpl(max) :
            /\ Take(rd)
            /\ m' = [m EXCEPT !.body_size = @ + Len(rd.tokens)]
            /\ IF m.is_gzip
               THEN InflateInto([m_stream EXCEPT !.in = rd.tokens], rd.ec, "read_some")
               ELSE Return(Plain(rd.tokens), Len(rd.tokens), rd.ec) /\ UNCHANGED m_stream
    BY <1>12 DEF ReadPlain
  <2>2. max \in Nat /\ max >= 1
    BY <1>2 DEF ZlibBuffer
  <2> HIDE DEF max, W, C
  <2>3. PICK n \in 0 .. max, q2 \in Nat :
           /\ GotOf(W, rd, pos, n, e, max)
           /\ Buffers(W, rd.response, rd.rest, pos + n, q2, e)
    BY <1>4, <1>7, <2>2, ReadSegs
  <2> DEFINE w == v + n
             t == rd.tokens
             ec == rd.ec
  <2>4. n \in Nat /\ w \in Nat /\ (v = w <=> n = 0) /\ w = pos + n /\ e <= Len(W)
    BY <1>4, <1>8, <2>2 DEF Buffers
  <2> HIDE DEF w
  <2>5. /\ t \in Seq(Token) /\ t = Seg(W, v, w) /\ Len(t) = n
        /\ v <= w /\ w <= LengthOf(p) /\ InBody(p, m', w, w) /\ m'.chunked_size = 0
        /\ m'.is_chunked = m.is_chunked /\ m'.keep_alive = m.keep_alive
        /\ m'.is_gzip = m.is_gzip /\ m'.content_length = m.content_length
    <3>1. w = v + n /\ m' = [m EXCEPT !.body_size = @ + Len(rd.tokens)]
      BY <2>1 DEF w
    <3> DEFINE m2 == m'
    <3>2. m2 = [m EXCEPT !.body_size = @ + Len(rd.tokens)] /\ w = v + n
      BY <3>1
    <3> HIDE DEF m2
    <3>3. WasRead(W, p, m, m2, rd.tokens, n, v, w)
      BY <1>6, <1>7, <2>3, <2>4, <3>2, PlainRead
    <3> QED
      BY <3>3 DEF WasRead, m2
  <2>6. ec \in {"none", "eof"} /\ (n = 0 => ec = "eof") /\ (ec = "eof" => n = 0 /\ pos = e)
    BY <2>2, <2>3 DEF GotOf
  <2>7. (v = w \/ ec = "eof") /\ WholeSent => v = w /\ w = LengthOf(p) /\ ec = "eof"
    BY <1>4, <1>8, <2>4, <2>6
  <2>8. Buffers(W, m_response', socket'.rest, w, q2, e)
    <3>1. m_response' = rd.response /\ socket'.rest = rd.rest
      BY <1>7, <2>1 DEF Take, Sockets
    <3> QED
      BY <2>3, <2>4, <3>1
  <2>9. HeadKept
    BY <1>1, <2>1, <2>5, HeadUnchanged
  <2>10. m_stream.in = << >> /\ t = Seg(C, v, w)
    BY <1>6, <1>10, <1>12, <2>5
  <2>11. CASE p.gzip
    <3> DEFINE zz == [m_stream EXCEPT !.in = t]
    <3>1. InflateInto(zz, ec, "read_some")
      BY <1>5, <2>1, <2>11
    <3>2. Filled(m_stream, zz, t)
      BY <2>10 DEF Filled
    <3> HIDE DEF zz, t, ec
    <3> QED
      BY <1>2, <1>4, <1>8, <2>4, <2>5, <2>6, <2>7, <2>8, <2>9, <2>10, <2>11, <3>1, <3>2,
         InflatesTokens DEF W, C
  <2>12. CASE ~p.gzip
    <3>1. Return(Plain(t), Len(t), ec) /\ m_stream' = m_stream
      BY <1>5, <2>1, <2>12
    <3> HIDE DEF t, ec
    <3>2. GivenAt(t, ec, u, v, w, w, q2, e)
      BY <1>2, <1>4, <1>8, <2>4, <2>5, <2>6, <2>7, <2>8, <2>9, <2>10, <2>12, <3>1
         DEF GivenAt, W, C
    <3> QED
      BY <1>2, <1>4, <1>8, <2>4, <2>5, <2>6, <2>7, <2>8, <2>9, <2>10, <2>12, <3>1,
         <3>2, GivesTokens
  <2> QED
    BY <2>11, <2>12
<1> QED
  BY <1>9, <1>11, <1>12

(* When handle_read finds nothing to read for, the body has no byte:       *)
(* m_content_length is 0 only for such a body.                             *)
LEMMA NothingToRead ==
  ASSUME IInv, call.pc = "async_read_some", ~m.is_chunked, AsyncPlainRoom = 0
  PROVE  LengthOf(Now) = 0
<1>1. /\ Now \in Response /\ m \in Members /\ user.r \in DOMAIN exchange.responses
      /\ exchange \in Cases /\ LengthOf(Now) \in Nat
  BY NowTyped DEF IInv
<1>2. ~user.ended /\ call.room \in Nat \ {0} /\ exchange.mode = "async"
  BY Calling DEF IInv, ModeInv, Async
<1>3. m.content_length = 0
  BY <1>1, <1>2 DEF AsyncPlainRoom, Smaller, ZlibBuffer, Members
<1>4. Now.framing \in {"length", "close"}
  BY <1>1, <1>2, InRead DEF Response, Responses
<1>5. CASE Now.framing = "length"
  BY <1>1, <1>3, <1>5 DEF IInv, LengthInv
<1>6. CASE Now.framing = "close"
  <2>1. PICK i \in 1 .. user.r :
         /\ exchange.responses[i].framing = "length"
         /\ m.content_length = LengthOf(exchange.responses[i])
         /\ \A k \in i .. user.r - 1 : exchange.responses[k].keep
    BY <1>3 DEF IInv, LengthInv
  <2>2. i # user.r
    BY <1>6, <2>1 DEF Now
  <2>3. DOMAIN exchange.responses = 1 .. Len(exchange.responses)
        /\ Len(exchange.responses) \in Nat
    BY <1>1, ResponsesTyped
  <2>4. i \in DOMAIN exchange.responses /\ i < user.r
    BY <1>1, <2>2, <2>3
  <2>5. AfterLonger(exchange)
    BY <1>1, <1>2, <1>3, <1>6, <2>1, <2>4 DEF AfterLonger, Now
  <2> QED
    BY <2>5 DEF IInv, Readable
<1> QED
  BY <1>4, <1>5, <1>6

(* HandleRead: what the socket had of a body that is not chunked. *)
LEMMA HandleReadInv ==
  ASSUME IInv, TypesInv', HandleRead
  PROVE  IInv' /\ Progress
<1> DEFINE r == user.r
           p == Now
           W == Wire(r, p)
           C == Tokens(r, p)
           d == user.reported
           max == AsyncPlainRoom
<1>1. /\ call.pc = "async_read_some" /\ ~m.is_chunked /\ exchange' = exchange
      /\ m_response = << >>
  BY DEF HandleRead, At
<1>2. ~user.ended /\ call.pc # "idle" /\ call.room \in Nat \ {0} /\ call.pc \in Between
      /\ exchange.mode = "async"
  BY <1>1, Calling DEF Between, IInv, ModeInv, Async
<1>3. PICK pos \in Nat, q \in Nat, e \in Nat, u \in Nat, v \in Nat :
        ReadingAt(r, p, WholeSent, m_response, socket.rest, m, m_stream, call,
                  d, pos, q, e, u, v)
  BY <1>2, InRead
<1>4. /\ Buffers(W, m_response, socket.rest, pos, q, e) /\ (WholeSent => e = Len(W))
      /\ Inflates(r, p, m_stream, d, u, v)
  BY <1>3 DEF ReadingAt
<1>5. (m.is_gzip <=> p.gzip) /\ (~p.gzip => m_stream = NoInflater)
  BY <1>2, InRead
<1>6. InPlain(W, p, m, pos, v) /\ W = C
  BY <1>1, <1>2, <1>3, InAPlainBody
<1>7. /\ r \in Nat /\ p \in Response /\ W \in Seq(Token) /\ Len(W) \in Nat /\ d \in Nat
      /\ m_stream \in Inflaters /\ m \in Members /\ socket \in Sockets
  BY NowTyped DEF IInv
<1>8. /\ p.framing # "chunked" /\ pos = v /\ InBody(p, m, pos, v) /\ m.chunked_size = 0
      /\ Len(W) = LengthOf(p) /\ LengthOf(p) \in Nat
  BY <1>6 DEF InPlain, InBody
<1>9. ~m.is_gzip => m_stream.in = << >>
  BY <1>5 DEF NoInflater
<1>10. CASE ~m.is_gzip /\ BodyIsRead
  <2>1. /\ Return(<< >>, 0, "none")
        /\ m' = m /\ m_stream' = m_stream /\ m_response' = m_response /\ socket' = socket
    BY <1>10 DEF HandleRead
  <2> QED
    BY <1>1, <1>2, <1>3, <1>6, <1>9, <1>10, <2>1, EndsPlain
<1>11. pos = q
  <2>1. pos <= q /\ q <= Len(W) /\ Seg(W, pos, q) = << >> /\ W \in Seq(Token)
    BY <1>1, <1>4, <1>7 DEF Buffers
  <2> HIDE DEF W
  <2> QED
    BY ONLY <2>1, pos \in Nat, q \in Nat, SegEmpty
<1>12. CASE ~(~m.is_gzip /\ BodyIsRead)
  <2>1. PICK rd \in SocketRead(max) :
       /\ socket' = [socket EXCEPT !.rest = rd.rest]
       /\ IF rd.tokens = << >> /\ m_stream.in = << >>
          THEN Return(<< >>, 0, rd.ec) /\ UNCHANGED <<m, m_stream, m_response>>
          ELSE IF ~m.is_gzip
          THEN /\ m' = [m EXCEPT !.body_size = @ + Len(rd.tokens)]
               /\ Return(Plain(rd.tokens), Len(rd.tokens), rd.ec)
               /\ UNCHANGED <<m_stream, m_response>>
          ELSE IF m_stream.in = << >>
          THEN /\ m' = [m EXCEPT !.body_size = @ + Len(rd.tokens)]
               /\ InflateInto([m_stream EXCEPT !.in = rd.tokens], rd.ec, "async_read_some")
               /\ UNCHANGED m_response
          ELSE /\ m_response' = rd.tokens
               /\ InflateInto(m_stream, rd.ec, "async_read_some")
               /\ UNCHANGED m
    BY <1>12 DEF HandleRead
  <2>2. max \in Nat
    BY <1>2, <1>7 DEF AsyncPlainRoom, Smaller, ZlibBuffer, Members
  <2>3. max = 0 => LengthOf(p) = 0
    BY <1>1, NothingToRead
  <2> HIDE DEF max, W, C
  <2>4. PICK n \in 0 .. max :
           /\ GotOf(W, rd, q, n, e, max)
           /\ rd.response = m_response /\ rd.rest = Seg(W, q + n, e)
    BY <1>4, <1>7, <2>2, SocketSegs
  <2> DEFINE w == v + n
             t == rd.tokens
             ec == rd.ec
  <2>5. n \in Nat /\ w \in Nat /\ (v = w <=> n = 0) /\ w = q + n /\ e <= Len(W) /\ w <= e
        /\ v <= w
    BY <1>4, <1>8, <1>11, <2>2, <2>4 DEF Buffers, GotOf
  <2> HIDE DEF w
  <2>6. /\ t = Seg(W, q, w) /\ ec \in {"none", "eof"}
        /\ (ec = "none" /\ max >= 1 => n >= 1) /\ (ec = "eof" => n = 0 /\ q = e)
    BY <2>4, <2>5 DEF GotOf
  <2>7. socket'.rest = Seg(W, w, e)
    BY <1>7, <2>1, <2>4, <2>5 DEF Sockets
  <2>8. t = << >> <=> n = 0
    <3>1. q <= w /\ w <= Len(W) /\ W \in Seq(Token)
      BY <1>7, <1>8, <1>11, <2>5
    <3>2. Seg(W, q, w) = << >> <=> q = w
      BY ONLY <3>1, q \in Nat, <2>5, SegEmpty
    <3> QED
      BY <1>8, <1>11, <2>5, <2>6, <3>2
  <2>9. ec = "eof" /\ WholeSent => v = LengthOf(p)
    BY <1>4, <1>8, <1>11, <2>6
  <2>10. CASE t = << >> /\ m_stream.in = << >>
    <3>1. Return(<< >>, 0, ec) /\ m' = m /\ m_stream' = m_stream /\ m_response' = m_response
      BY <2>1, <2>10
    <3>2. HeadKept
      BY <1>1, <3>1, HeadUnchanged
    <3>3. n = 0 /\ w = v
      BY <2>5, <2>8, <2>10
    <3>4. WholeSent => v = LengthOf(p) /\ v = e
      <4>1. v <= LengthOf(p)
        BY <1>8, <2>5, <3>3
      <4>2. ec = "none" => LengthOf(p) = 0
        BY <2>2, <2>3, <2>6, <3>3
      <4>3. WholeSent => v = LengthOf(p)
        BY <1>8, <2>6, <2>9, <4>1, <4>2
      <4> QED
        BY <1>4, <1>8, <4>3
    <3>5. WholeSent => user.reported = Plains(p)
      <4> DEFINE rr == r
                 pp == p
                 dd == d
                 zz == m_stream
      <4>1. rr \in Nat /\ pp \in Response /\ dd \in Nat /\ Inflates(rr, pp, zz, dd, u, v)
            /\ zz.in = << >>
        BY <1>4, <1>7, <2>10
      <4> HIDE DEF rr, pp, dd, zz
      <4>2. v = LengthOf(pp) => dd = Plains(pp)
        BY ONLY <4>1, u \in Nat, v \in Nat, AllInflated
      <4> QED
        BY <3>4, <4>2 DEF pp, dd
    <3>6. WholeSent => socket'.rest = << >>
      <4>1. e <= Len(W) /\ W \in Seq(Token)
        BY <1>7, <2>5
      <4>2. Seg(W, e, e) = << >>
        BY ONLY <4>1, e \in Nat, SegEmpty
      <4> QED
        BY <2>7, <3>3, <3>4, <4>2
    <3> HIDE DEF t, ec
    <3> QED
      BY <1>2, <1>8, <2>6, <3>1, <3>2, <3>5, <3>6, BodyOver
  <2>11. CASE ~(t = << >> /\ m_stream.in = << >>) /\ m_stream.in = << >>
    <3>1. /\ m' = [m EXCEPT !.body_size = @ + Len(rd.tokens)]
          /\ m_response' = m_response
          /\ IF ~m.is_gzip THEN Return(Plain(t), Len(t), ec) /\ m_stream' = m_stream
             ELSE InflateInto([m_stream EXCEPT !.in = t], ec, "async_read_some")
      BY <2>1, <2>11
    <3>2. n # 0 /\ v # w /\ ec = "none"
      BY <2>5, <2>6, <2>8, <2>11
    <3>3. /\ t \in Seq(Token) /\ t = Seg(W, v, w) /\ Len(t) = n
          /\ v <= w /\ w <= LengthOf(p) /\ InBody(p, m', w, w) /\ m'.chunked_size = 0
          /\ m'.is_chunked = m.is_chunked /\ m'.keep_alive = m.keep_alive
          /\ m'.is_gzip = m.is_gzip /\ m'.content_length = m.content_length
      <4> DEFINE m2 == m'
      <4>1. m2 = [m EXCEPT !.body_size = @ + Len(rd.tokens)] /\ w = v + n
            /\ GotOf(W, rd, pos, n, e, max)
        BY <1>11, <2>4, <3>1 DEF w
      <4> HIDE DEF m2
      <4>2. WasRead(W, p, m, m2, rd.tokens, n, v, w)
        BY <1>6, <1>7, <2>5, <4>1, PlainRead
      <4> QED
        BY <4>2 DEF WasRead, m2
    <3>4. HeadKept
      BY <1>1, <3>1, <3>3, HeadUnchanged
    <3>5. Buffers(W, m_response', socket'.rest, w, w, e)
      <4>1. w <= Len(W) /\ W \in Seq(Token)
        BY <1>8, <1>7, <3>3
      <4>2. Seg(W, w, w) = << >>
        BY ONLY <4>1, <2>5, SegEmpty
      <4> QED
        BY <1>1, <2>5, <2>7, <3>1, <4>2 DEF Buffers
    <3>6. t = Seg(C, v, w)
      BY <1>6, <3>3
    <3>7. CASE p.gzip
      <4> DEFINE zz == [m_stream EXCEPT !.in = t]
      <4>1. InflateInto(zz, ec, "async_read_some")
        BY <1>5, <3>1, <3>7
      <4>2. Filled(m_stream, zz, t)
        BY <2>11 DEF Filled
      <4> HIDE DEF zz, t, ec
      <4> QED
        BY <1>2, <1>4, <1>8, <2>5, <2>6, <3>2, <3>3, <3>4, <3>5, <3>6, <3>7, <4>1, <4>2,
           InflatesTokens DEF W, C
    <3>8. CASE ~p.gzip
      <4>1. Return(Plain(t), Len(t), ec) /\ m_stream' = m_stream
        BY <1>5, <3>1, <3>8
      <4> HIDE DEF t, ec
      <4>2. GivenAt(t, ec, u, v, w, w, w, e)
        BY <1>2, <1>4, <1>8, <2>5, <2>6, <3>2, <3>3, <3>4, <3>5, <3>6, <3>8, <4>1
           DEF GivenAt, W, C
      <4> QED
        BY <1>2, <1>4, <1>8, <2>5, <2>6, <3>2, <3>3, <3>4, <3>5, <3>6, <3>8, <4>1,
           <4>2, GivesTokens
    <3> QED
      BY <3>7, <3>8
  <2>12. CASE m_stream.in # << >>
    <3>1. /\ m_response' = t /\ m' = m /\ InflateInto(m_stream, ec, "async_read_some")
          /\ m.is_gzip
      BY <1>9, <2>1, <2>12
    <3>2. HeadKept
      BY <1>1, <3>1, HeadUnchanged
    <3>3. Buffers(W, m_response', socket'.rest, pos, w, e)
      BY <1>8, <1>11, <2>5, <2>6, <2>7, <3>1 DEF Buffers
    <3> HIDE DEF t, ec
    <3>4. InflatesAt(m_stream, ec, "async_read_some", pos, w, e, u, v)
      BY <1>2, <1>4, <1>5, <1>8, <2>6, <2>9, <2>12, <3>1, <3>3 DEF InflatesAt, W
    <3> QED
      BY <1>2, <1>7, <2>5, <2>6, <3>2, <3>4, Inflated
  <2> QED
    BY <2>10, <2>11, <2>12
<1> QED
  BY <1>10, <1>12

(* What handle_async_read takes of the tokens it has, and what it leaves. *)
IsTaken(W, pos, x, nn, response, k) ==
  /\ k = Smaller(nn, Len(response)) /\ pos + k <= x
  /\ SubSeq(response, 1, k) = Seg(W, pos, pos + k)
  /\ Drop(response, nn) = Seg(W, pos + k, x)
  /\ k = 0 => nn = 0 \/ x = pos

(* It takes a segment, and leaves the one behind it. *)
LEMMA Taken ==
  ASSUME NEW W \in Seq(Token), NEW pos \in Nat, NEW x \in Nat, pos <= x, x <= Len(W),
         NEW nn \in Nat, NEW response, response = Seg(W, pos, x)
  PROVE  \E k \in 0 .. nn : IsTaken(W, pos, x, nn, response, k)
<1>1. Len(response) = x - pos /\ Len(W) \in Nat
  <2>1. Len(Seg(W, pos, x)) = x - pos
    BY ONLY W \in Seq(Token), pos \in Nat, x \in Nat, pos <= x, x <= Len(W), SegTyped
  <2>2. Len(W) \in Nat
    BY ONLY W \in Seq(Token)
  <2> QED
    BY <2>1, <2>2
<1> DEFINE k == Smaller(nn, x - pos)
<1>2. k \in Nat /\ k <= nn /\ k <= x - pos /\ (k = nn \/ k = x - pos) /\ (k = nn \/ nn >= x - pos)
  BY DEF Smaller
<1> HIDE DEF k
<1>3. SubSeq(Seg(W, pos, x), 1, k) = Seg(W, pos, pos + k)
  BY <1>2, SegTake
<1>4. Drop(Seg(W, pos, x), nn) = Seg(W, pos + k, x)
  <2>1. CASE k = nn
    <3>1. Drop(Seg(W, pos, x), k) = Seg(W, pos + k, x)
      BY <1>2, SegDrop
    <3> QED
      BY <2>1, <3>1
  <2>2. CASE k = x - pos /\ nn >= x - pos
    <3>1. Drop(Seg(W, pos, x), nn) = << >>
      BY <2>2, SegDropAll
    <3>2. Seg(W, x, x) = << >>
      BY SegEmpty
    <3>3. pos + k = x
      BY <2>2
    <3> QED
      BY <3>1, <3>2, <3>3
  <2> QED
    BY <1>2, <2>1, <2>2
<1>5. k = Smaller(nn, Len(response)) /\ k \in 0 .. nn /\ pos + k <= x
      /\ (k = 0 => nn = 0 \/ x = pos)
  BY <1>1, <1>2 DEF k
<1> QED
  BY <1>3, <1>4, <1>5 DEF IsTaken

(* HandleAsyncRead: bytes of the chunk in async_read_some. *)
LEMMA HandleAsyncReadInv ==
  ASSUME IInv, TypesInv', HandleAsyncRead
  PROVE  IInv' /\ Progress
<1> DEFINE r == user.r
           p == Now
           W == Wire(r, p)
           C == Tokens(r, p)
           d == user.reported
           max == AsyncChunkRoom
           nn == IF ~m.is_gzip THEN Smaller(m.chunked_size, call.room)
                 ELSE IF m_stream.in = << >> THEN Smaller(m.chunked_size, ZlibBuffer) ELSE 0
<1>1. /\ call.pc = "async_chunk" \/ (call.pc = "async_read_some" /\ m.is_chunked /\ ~NeedsSize)
      /\ exchange' = exchange
  BY DEF HandleAsyncRead, At
<1>2. ~user.ended /\ call.pc # "idle" /\ call.room \in Nat \ {0} /\ exchange.mode = "async"
  BY <1>1, Calling DEF IInv, ModeInv, Async
<1>3. PICK pos \in Nat, q \in Nat, e \in Nat, u \in Nat, v \in Nat :
        ReadingAt(r, p, WholeSent, m_response, socket.rest, m, m_stream, call,
                  d, pos, q, e, u, v)
  BY <1>2, InRead
<1>4. /\ Buffers(W, m_response, socket.rest, pos, q, e) /\ (WholeSent => e = Len(W))
      /\ Inflates(r, p, m_stream, d, u, v)
      /\ Parses(W, p, m, call, m_stream.in, pos, q, v)
  BY <1>3 DEF ReadingAt
<1>5. /\ (m.is_chunked <=> p.framing = "chunked") /\ (m.is_gzip <=> p.gzip)
      /\ (~p.gzip => m_stream = NoInflater)
  BY <1>2, InRead
<1>6. p.framing = "chunked"
  BY <1>1, <1>4, <1>5 DEF Parses, Between, InCrlf, InSize
<1>7. /\ InBody(p, m, pos, v) /\ ~m.is_chunked_end
      /\ m_stream.in = << >> => m.chunked_size # 0
  <2>1. /\ call.pc \in Between \cup {"chunk", "async_chunk"}
        /\ m.is_chunked => ~NeedsSize \/ call.pc \in {"chunk", "async_chunk"}
    BY <1>1 DEF Between
  <2> QED
    BY <1>2, <1>3, <1>6, <2>1, InABody
<1>8. /\ r \in Nat /\ p \in Response /\ W \in Seq(Token) /\ Len(W) \in Nat /\ d \in Nat
      /\ m_stream \in Inflaters /\ m \in Members /\ socket \in Sockets
  BY NowTyped DEF IInv
<1>9. InChunk(p, m.chunked_size, pos, v) /\ ~m.skip_crlf /\ m.chunked_size \in Nat
  BY <1>6, <1>7, <1>8 DEF InBody, Members
<1>10. PICK rd \in SocketRead(max) :
            /\ socket' = [socket EXCEPT !.rest = rd.rest]
            /\ IF rd.ec # "none"
               THEN Return(<< >>, 0, rd.ec) /\ UNCHANGED <<m, m_stream, m_response>>
               ELSE TakeChunk(m_response \o rd.tokens, nn)
  BY DEF HandleAsyncRead
<1>11. /\ max \in Nat /\ (m_response # << >> => max = 0)
       /\ (m_response = << >> /\ m.chunked_size # 0 => max >= 1)
  BY <1>2, <1>9 DEF AsyncChunkRoom, Smaller
<1>12. rd.ec # "none" => m_response = << >>
  BY <1>10, <1>11 DEF SocketRead, Got
<1>13. nn \in Nat /\ nn <= m.chunked_size /\ (m_stream.in = << >> => nn # 0)
  <2>1. CASE m.chunked_size = 0
    BY <1>2, <1>5, <1>7, <2>1 DEF Smaller, ZlibBuffer, NoInflater
  <2>2. CASE m.chunked_size # 0
    BY <1>2, <1>9, <2>2, <1>5 DEF Smaller, ZlibBuffer, NoInflater
  <2> QED
    BY <2>1, <2>2
<1> HIDE DEF max, nn, W, C
<1>14. PICK n \in 0 .. max :
           /\ GotOf(W, rd, q, n, e, max)
           /\ rd.response = m_response /\ rd.rest = Seg(W, q + n, e)
  BY <1>4, <1>8, <1>11, SocketSegs
<1> DEFINE c == m.chunked_size
           x == q + n
<1>15. n \in Nat /\ x \in Nat /\ pos <= q /\ q <= x /\ x <= e /\ e <= Len(W) /\ c \in Nat
       /\ pos <= x /\ x <= Len(W)
  BY <1>4, <1>8, <1>9, <1>11, <1>14 DEF Buffers, GotOf
<1> HIDE DEF c, x
<1>16. \A k \in Nat : k <= c =>
          /\ InChunk(p, c - k, pos + k, v + k) /\ Seg(W, pos, pos + k) = Seg(C, v, v + k)
          /\ pos + 2 <= Len(W) /\ v + k <= LengthOf(p)
  <2> SUFFICES ASSUME NEW k \in Nat, k <= c
               PROVE  /\ InChunk(p, c - k, pos + k, v + k)
                      /\ Seg(W, pos, pos + k) = Seg(C, v, v + k)
                      /\ pos + 2 <= Len(W) /\ v + k <= LengthOf(p)
    OBVIOUS
  <2> DEFINE pp == p
             rr == r
  <2>1. rr \in Nat /\ pp \in Response /\ pp.framing = "chunked" /\ InChunk(pp, c, pos, v)
        /\ c \in Nat
    BY <1>6, <1>8, <1>9, <1>15 DEF c
  <2> HIDE DEF pp, rr
  <2>2. /\ InChunk(pp, c - k, pos + k, v + k)
        /\ Seg(Wire(rr, pp), pos, pos + k) = Seg(Tokens(rr, pp), v, v + k)
        /\ pos + 2 <= Len(Wire(rr, pp)) /\ v + k <= LengthOf(pp)
    BY ONLY <2>1, k \in Nat, k <= c, pos \in Nat, v \in Nat, ChunkRead
  <2> QED
    BY <2>2 DEF pp, rr, W, C
<1>17. pos + 2 <= Len(W)
  <2>1. 0 \in Nat /\ 0 <= c
    BY <1>15
  <2> QED
    BY <1>16, <2>1
<1>18. CASE rd.ec # "none"
  <2>1. m_response = << >> /\ Return(<< >>, 0, rd.ec) /\ m' = m /\ m_stream' = m_stream
    BY <1>10, <1>12, <1>18
  <2>2. rd.ec = "eof" /\ q = e
    BY <1>14, <1>18 DEF GotOf
  <2>3. pos = q
    <3>1. Seg(W, pos, q) = << >> /\ q <= Len(W) /\ pos <= q /\ W \in Seq(Token)
      BY <1>4, <1>8, <2>1 DEF Buffers
    <3> QED
      BY ONLY <3>1, pos \in Nat, q \in Nat, SegEmpty
  <2>4. ~WholeSent
    BY <1>4, <1>8, <1>17, <2>2, <2>3
  <2>5. HeadKept
    BY <1>1, <2>1, HeadUnchanged
  <2> QED
    BY <1>2, <2>1, <2>2, <2>4, <2>5, BodyOver
<1>19. CASE rd.ec = "none"
  <2> DEFINE response == m_response \o rd.tokens
  <2>1. TakeChunk(response, nn)
    BY <1>10, <1>19
  <2>2. response = Seg(W, pos, x)
    <3>1. m_response = Seg(W, pos, q) /\ rd.tokens = Seg(W, q, x)
      BY <1>4, <1>8, <1>14 DEF Buffers, GotOf, x
    <3>3. W \in Seq(Token) /\ pos <= q /\ q <= x /\ x <= Len(W) /\ x \in Nat
      BY <1>8, <1>15
    <3>2. Seg(W, pos, q) \o Seg(W, q, x) = Seg(W, pos, x)
      BY ONLY <3>3, pos \in Nat, q \in Nat, SegJoin
    <3> QED
      BY <3>1, <3>2
  <2> HIDE DEF response
  <2>18. PICK k \in 0 .. nn : IsTaken(W, pos, x, nn, response, k)
    <3>1. W \in Seq(Token) /\ pos <= x /\ x <= Len(W) /\ x \in Nat /\ nn \in Nat
      BY <1>8, <1>13, <1>15
    <3> QED
      BY ONLY <3>1, <2>2, pos \in Nat, Taken
  <2>3. /\ k = Smaller(nn, Len(response)) /\ pos + k <= x
        /\ SubSeq(response, 1, k) = Seg(W, pos, pos + k)
        /\ Drop(response, nn) = Seg(W, pos + k, x)
        /\ k = 0 => nn = 0 \/ x = pos
    BY <2>18 DEF IsTaken
  <2> DEFINE t == SubSeq(response, 1, k)
             y == pos + k
             w == v + k
  <2>4. k \in Nat /\ k <= c /\ y \in Nat /\ w \in Nat /\ v <= w /\ (v = w <=> k = 0)
        /\ pos <= y /\ y <= x /\ y <= Len(W)
    <3>1. nn \in Nat /\ nn <= c
      BY <1>13 DEF c
    <3>2. k \in Nat /\ k <= c
      BY ONLY <1>15, <3>1, k \in 0 .. nn
    <3>3. y \in Nat /\ w \in Nat /\ v <= w /\ (v = w <=> k = 0) /\ pos <= y
      BY <3>2
    <3>4. y <= x /\ x <= Len(W) /\ x \in Nat /\ W \in Seq(Token)
      BY <1>8, <1>15, <2>3
    <3>5. y <= Len(W)
      BY ONLY <3>3, <3>4
    <3> QED
      BY <3>2, <3>3, <3>4, <3>5
  <2>5. m_stream.in = << >> => k # 0
    <3> SUFFICES ASSUME m_stream.in = << >>, k = 0 PROVE FALSE
      OBVIOUS
    <3>1. x = pos /\ m.chunked_size # 0
      BY <1>7, <1>13, <2>3
    <3>2. q = pos /\ n = 0
      BY <1>15, <3>1 DEF x
    <3>3. m_response = << >>
      <4>1. m_response = Seg(W, pos, pos) /\ pos <= Len(W) /\ W \in Seq(Token)
        BY <1>4, <1>8, <1>15, <3>2 DEF Buffers
      <4>2. Seg(W, pos, pos) = << >>
        BY ONLY <4>1, pos \in Nat, SegEmpty
      <4> QED
        BY <4>1, <4>2
    <3>4. max >= 1
      BY <1>11, <3>1, <3>3
    <3> QED
      BY <1>14, <1>19, <3>2, <3>4 DEF GotOf
  <2>6. /\ InChunk(p, c - k, y, w) /\ t = Seg(C, v, w) /\ w <= LengthOf(p)
    BY <1>16, <2>3, <2>4
  <2>7. m_response' = Seg(W, y, x)
    BY <2>1, <2>3 DEF TakeChunk
  <2>8. m' = [m EXCEPT !.chunked_size = @ - k]
    BY <2>1, <2>3 DEF TakeChunk
  <2>9. IF m.is_gzip THEN InflateInto([m_stream EXCEPT !.in = @ \o t], "none", "async_read_some")
        ELSE Return(Plain(t), k, "none") /\ m_stream' = m_stream
    BY <2>1, <2>3 DEF TakeChunk
  <2>10. t \in Seq(Token) /\ Len(t) = k
    <3>1. W \in Seq(Token) /\ y - pos = k /\ t = Seg(W, pos, y)
      BY <1>8, <2>3, <2>4
    <3>2. Seg(W, pos, y) \in Seq(Token) /\ Len(Seg(W, pos, y)) = y - pos
      <4> HIDE DEF y
      <4> QED
        BY ONLY <2>4, <3>1, pos \in Nat, SegTyped
    <3> QED
      BY <3>1, <3>2
  <2> HIDE DEF t, y, w
  <2>11. /\ m'.is_chunked = m.is_chunked /\ m'.keep_alive = m.keep_alive
         /\ m'.is_gzip = m.is_gzip /\ m'.content_length = m.content_length
         /\ m'.skip_crlf = m.skip_crlf /\ m'.is_chunked_end = m.is_chunked_end
         /\ m'.chunked_size = c - k
    BY <1>8, <2>8 DEF Members, c
  <2>12. InBody(p, m', y, w) /\ ~m'.is_chunked_end
    BY <1>6, <1>7, <1>9, <2>6, <2>11 DEF InBody
  <2>13. Buffers(W, m_response', socket'.rest, y, x, e)
    <3>1. socket'.rest = Seg(W, x, e)
      BY <1>8, <1>10, <1>14 DEF Sockets, x
    <3> QED
      BY <1>15, <2>4, <2>7, <3>1 DEF Buffers
  <2>14. HeadKept
    BY <1>1, <2>9, <2>11, HeadUnchanged
  <2> DEFINE ec == "none"
  <2>15. ec \in {"none", "eof"} /\ ec # "eof" /\ (m_stream.in = << >> => v # w)
    BY <2>4, <2>5
  <2>16. CASE p.gzip
    <3> DEFINE zz == [m_stream EXCEPT !.in = @ \o t]
    <3>1. InflateInto(zz, ec, "async_read_some")
      BY <1>5, <2>9, <2>16
    <3>2. Filled(m_stream, zz, t)
      BY DEF Filled
    <3> HIDE DEF zz, ec
    <3> QED
      BY <1>2, <1>4, <1>15, <2>4, <2>6, <2>10, <2>12, <2>13, <2>14, <2>15, <2>16, <3>1, <3>2,
         InflatesTokens DEF W, C
  <2>17. CASE ~p.gzip
    <3>1. Return(Plain(t), Len(t), ec) /\ m_stream' = m_stream
      BY <1>5, <2>9, <2>10, <2>17
    <3>2. v # w
      BY <1>5, <2>15, <2>17 DEF NoInflater
    <3> HIDE DEF ec
    <3>3. GivenAt(t, ec, u, v, w, y, x, e)
      BY <1>2, <1>4, <1>15, <2>4, <2>6, <2>10, <2>12, <2>13, <2>14, <2>15, <2>17, <3>1, <3>2
         DEF GivenAt, W, C
    <3> QED
      BY <1>2, <1>4, <1>15, <2>4, <2>6, <2>10, <2>12, <2>13, <2>14, <2>15, <2>17, <3>1, <3>2,
         <3>3, GivesTokens
  <2> QED
    BY <2>16, <2>17
<1> QED
  BY <1>18, <1>19

-----------------------------------------------------------------------------
(* From one response to the next. *)

(* The head of a response was read, and nothing of its body was used. *)
HeadRead(p, mm, zz) ==
  /\ mm.is_chunked = (p.framing = "chunked") /\ mm.keep_alive = p.keep
  /\ mm.is_gzip = p.gzip /\ (~p.gzip => zz = NoInflater)
  /\ ~mm.is_chunked_end /\ mm.skip_crlf /\ mm.body_size = 0 /\ mm.chunked_size = 0
  /\ zz.in = << >> /\ zz.out = << >> /\ ~zz.done

(* A state in which the reading of a response starts. *)
JustBegun ==
  /\ TypesInv /\ Readable(exchange) /\ LengthInv /\ HeadRead(Now, m, m_stream)
  /\ call.pc = "idle"
  /\ ~user.ended /\ user.ec = "none" /\ user.delivered = << >> /\ user.reported = 0
  /\ \E k \in 0 .. Len(Sent(user.r)) :
       /\ m_response = SubSeq(Sent(user.r), 1, k)
       /\ socket.rest = SubSeq(Sent(user.r), k + 1, Len(Sent(user.r)))

(* The reading of a response starts at its first token. *)
LEMMA Begins ==
  ASSUME exchange \in Cases, NEW r \in DOMAIN exchange.responses,
         NEW p, p = exchange.responses[r], NEW mm, NEW zz, HeadRead(p, mm, zz),
         NEW k \in 0 .. Len(Sent(r)), NEW cl, cl.pc = "idle"
  PROVE  ReadingAt(r, p, ~(Final(r) /\ exchange.unsent > 0), SubSeq(Sent(r), 1, k),
                   SubSeq(Sent(r), k + 1, Len(Sent(r))), mm, zz, cl, 0,
                   0, k, Len(Sent(r)), 0, 0)
<1> DEFINE W == Wire(r, p)
           C == Tokens(r, p)
           e == Len(Sent(r))
<1>1. r \in Nat /\ p \in Response
  BY ResponsesTyped
<1>2. /\ e \in Nat /\ e <= Len(W) /\ Sent(r) = Seg(W, 0, e) /\ W \in Seq(Token)
      /\ (~(Final(r) /\ exchange.unsent > 0) => e = Len(W))
  BY <1>1, SentTyped, WireTyped
<1> HIDE DEF e
<1>3. k \in Nat /\ k <= e
  BY <1>2 DEF e
<1>4. SubSeq(Sent(r), 1, k) = Seg(W, 0, k)
  <2> HIDE DEF W
  <2> DEFINE z == 0
  <2>1. W \in Seq(Token) /\ z \in Nat /\ z <= e /\ e <= Len(W) /\ k <= e - z /\ z + k = k
    BY <1>2, <1>3
  <2> HIDE DEF z
  <2>2. SubSeq(Seg(W, z, e), 1, k) = Seg(W, z, z + k)
    BY ONLY <2>1, <1>2, <1>3, SegTake
  <2> QED
    BY <1>2, <2>1, <2>2 DEF z
<1>5. SubSeq(Sent(r), k + 1, Len(Sent(r))) = Seg(W, k, e)
  <2> HIDE DEF W
  <2> DEFINE z == 0
  <2>1. W \in Seq(Token) /\ z \in Nat /\ z <= e /\ e <= Len(W) /\ k <= e - z /\ z + k = k
    BY <1>2, <1>3
  <2> HIDE DEF z
  <2>2. Drop(Seg(W, z, e), k) = Seg(W, z + k, e)
    BY ONLY <2>1, <1>2, <1>3, SegDrop
  <2>3. Drop(Sent(r), k) = Seg(W, k, e)
    BY <1>2, <2>1, <2>2 DEF z
  <2> QED
    BY <2>3 DEF Drop
<1>6. Buffers(W, SubSeq(Sent(r), 1, k), SubSeq(Sent(r), k + 1, Len(Sent(r))), 0, k, e)
  BY <1>2, <1>3, <1>4, <1>5 DEF Buffers
<1>7. Inflates(r, p, zz, 0, 0, 0)
  <2>1. LengthOf(p) \in Nat /\ C \in Seq(Token)
    BY <1>1, UnitsOfResponse, TokensOfResponse
  <2>2. p.gzip => LengthOf(p) # 0
    <3>1. p.gzip => Units(p) # << >> /\ LengthOf(p) = Len(Units(p)) /\ Units(p) \in Seq(Nat)
      BY <1>1, UnitsOfResponse DEF Response, WellFormed, Units
    <3> QED
      BY <3>1
  <2>3. Ends(p)[0] = 0
    BY <1>1, EndsOfResponse
  <2>4. zz.in = Seg(C, 0, 0)
    <3>1. 0 \in Nat /\ 0 <= Len(C)
      BY <2>1
    <3> HIDE DEF C
    <3>2. Seg(C, 0, 0) = << >>
      BY <2>1, <3>1, SegEmpty
    <3> QED
      BY <3>2 DEF HeadRead
  <2>5. zz.out = Bytes(r, 0, Ends(p)[0])
    <3>1. Bytes(r, 0, 0) = << >>
      BY <1>1, 0 \in Nat, NoBytes
    <3> QED
      BY <2>3, <3>1 DEF HeadRead
  <2>6. ~zz.done
    BY DEF HeadRead
  <2> QED
    BY <2>1, <2>2, <2>3, <2>4, <2>5, <2>6 DEF Inflates
<1>8. Parses(W, p, mm, cl, zz.in, 0, k, 0)
  BY DEF Parses, Between, HeadRead, InBody, AtStart
<1> QED
  BY <1>2, <1>6, <1>7, <1>8 DEF ReadingAt, e

(* The invariant holds when the reading of a response starts. *)
LEMMA BegunInv == JustBegun => IInv
<1> SUFFICES ASSUME JustBegun PROVE IInv
  OBVIOUS
<1>1. /\ TypesInv /\ Readable(exchange) /\ LengthInv /\ HeadRead(Now, m, m_stream)
      /\ call.pc = "idle"
      /\ ~user.ended /\ user.ec = "none" /\ user.delivered = << >> /\ user.reported = 0
  BY DEF JustBegun
<1>2. user.r \in Nat /\ Now \in Response /\ exchange \in Cases
      /\ user.r \in DOMAIN exchange.responses
  BY <1>1, NowTyped
<1>3. HeadInv
  BY <1>1 DEF HeadInv, HeadRead
<1>4. CountInv
  <2>1. Plains(Now) \in Nat
    <3>1. LengthOf(Now) \in 0 .. LengthOf(Now)
      BY <1>2, UnitsOfResponse
    <3> QED
      BY <1>2, <3>1, EndsOfResponse DEF Plains
  <2>2. Bytes(user.r, 0, 0) = << >>
    BY <1>2, 0 \in Nat, NoBytes
  <2> QED
    BY <1>1, <2>1, <2>2 DEF CountInv
<1>5. ModeInv
  BY <1>1 DEF ModeInv, Async
<1>6. ReadingInv
  <2>1. PICK k \in 0 .. Len(Sent(user.r)) :
       /\ m_response = SubSeq(Sent(user.r), 1, k)
       /\ socket.rest = SubSeq(Sent(user.r), k + 1, Len(Sent(user.r)))
    BY DEF JustBegun
  <2> DEFINE e == Len(Sent(user.r))
  <2>2. ReadingAt(user.r, Now, WholeSent, m_response, socket.rest, m, m_stream, call,
                  0, 0, k, e, 0, 0)
    BY <1>1, <1>2, <2>1, Begins DEF Now, WholeSent
  <2>3. e \in Nat /\ k \in Nat /\ 0 \in Nat
    BY <1>2, SentTyped
  <2> HIDE DEF e
  <2>4. ReadingAt(user.r, Now, WholeSent, m_response, socket.rest, m, m_stream, call,
                  user.reported, 0, k, e, 0, 0)
    BY <1>1, <2>2
  <2> QED
    BY <1>1, <2>3, <2>4 DEF ReadingInv
<1>7. EndedInv
  BY <1>1 DEF EndedInv
<1> QED
  BY <1>1, <1>3, <1>4, <1>5, <1>6, <1>7 DEF IInv

(* The same of the next state. *)
LEMMA BegunNext == JustBegun' => IInv'
  BY BegunInv, PTL

(* What the head sets in the members and the inflater. *)
LEMMA HeadIsRead ==
  ASSUME NEW mm \in Members, mm.chunked_size = 0, ~mm.is_gzip, NEW p \in Response
  PROVE  /\ HeadRead(p, HeaderOf(Reset(mm), p), InflateInit(NoInflater, p))
         /\ HeaderOf(Reset(mm), p).content_length =
              IF p.framing = "length" THEN Larger(mm.content_length, LengthOf(p))
              ELSE mm.content_length
<1> DEFINE m1 == Reset(mm)
           m2 == HeaderOf(m1, p)
           zz == InflateInit(NoInflater, p)
<1>1. /\ m1 \in Members /\ m1.chunked_size = 0 /\ ~m1.is_gzip
      /\ ~m1.is_chunked_end /\ m1.skip_crlf /\ m1.body_size = 0
      /\ m1.content_length = mm.content_length
  BY DEF Members, Reset
<1>2. p.gzip \in BOOLEAN /\ p.keep \in BOOLEAN
  BY UnitsOfResponse
<1> HIDE DEF m1
<1>3. /\ m2.is_chunked = (p.framing = "chunked") /\ m2.keep_alive = p.keep
      /\ m2.is_gzip = (m1.is_gzip \/ p.gzip)
      /\ m2.chunked_size = m1.chunked_size /\ m2.is_chunked_end = m1.is_chunked_end
      /\ m2.skip_crlf = m1.skip_crlf /\ m2.body_size = m1.body_size
      /\ m2.content_length =
              IF p.framing = "length" THEN Larger(m1.content_length, LengthOf(p))
              ELSE m1.content_length
  BY <1>1 DEF Members, HeaderOf, LengthOf
<1>4. m2.is_gzip = p.gzip
  BY <1>1, <1>2, <1>3
<1>5. zz.in = << >> /\ zz.out = << >> /\ ~zz.done /\ (~p.gzip => zz = NoInflater)
  BY DEF InflateInit, NoInflater
<1> HIDE DEF m2, zz
<1>6. HeadRead(p, m2, zz)
  BY <1>1, <1>3, <1>4, <1>5 DEF HeadRead
<1> QED
  BY <1>1, <1>3, <1>6 DEF m1, m2, zz

(* The initial states: the head of the first response was read. *)
LEMMA InitInv ==
  ASSUME Init, Readable(exchange)
  PROVE  IInv
<1>1. TypesInv
  BY InitTypes
<1>2. user.r = 1 /\ Now = exchange.responses[1] /\ Now \in Response
  BY <1>1, NowTyped DEF Init, Now
<1>3. NewStream \in Members /\ NewStream.chunked_size = 0 /\ ~NewStream.is_gzip
      /\ NewStream.content_length = -1
  BY DEF NewStream, Members
<1>4. m = HeaderOf(Reset(NewStream), Now) /\ m_stream = InflateInit(NoInflater, Now)
  BY <1>2 DEF Init
<1>5. HeadRead(Now, m, m_stream) /\ m.content_length =
        IF Now.framing = "length" THEN Larger(-1, LengthOf(Now)) ELSE -1
  <2> HIDE DEF Now
  <2> DEFINE s == NewStream
             p == Now
  <2>1. /\ s \in Members /\ s.chunked_size = 0 /\ ~s.is_gzip /\ p \in Response
        /\ m = HeaderOf(Reset(s), p) /\ m_stream = InflateInit(NoInflater, p)
    BY <1>2, <1>3, <1>4
  <2> HIDE DEF s, p
  <2>2. /\ HeadRead(p, HeaderOf(Reset(s), p), InflateInit(NoInflater, p))
        /\ HeaderOf(Reset(s), p).content_length =
              IF p.framing = "length" THEN Larger(s.content_length, LengthOf(p))
              ELSE s.content_length
    BY <2>1, HeadIsRead
  <2> QED
    BY <1>3, <2>1, <2>2 DEF s, p
<1>6. LengthInv
  <2>1. LengthOf(Now) \in Nat
    BY <1>2, UnitsOfResponse
  <2> QED
    BY <1>2, <1>5, <2>1 DEF LengthInv, Larger
<1>7. /\ call.pc = "idle" /\ ~user.ended /\ user.ec = "none"
      /\ user.delivered = << >> /\ user.reported = 0
  BY DEF Init, Idle
<1>8. \E k \in 0 .. Len(Sent(user.r)) :
       /\ m_response = SubSeq(Sent(user.r), 1, k)
       /\ socket.rest = SubSeq(Sent(user.r), k + 1, Len(Sent(user.r)))
  <2>1. PICK k \in 0 .. Len(Sent(1)) :
       /\ m_response = SubSeq(Sent(1), 1, k)
       /\ socket = [rest |-> SubSeq(Sent(1), k + 1, Len(Sent(1))), closes |-> Closes(1)]
    BY DEF Init
  <2> QED
    BY <1>2, <2>1
<1> QED
  BY <1>1, <1>5, <1>6, <1>7, <1>8, BegunInv DEF JustBegun

(* The head of the next response is read: of no response before was the    *)
(* body compressed, so the inflater is new, and m_content_length is none   *)
(* or the length of a response of the same connection.                     *)
LEMMA Turned ==
  ASSUME IInv, TypesInv', exchange' = exchange, user.ended, ~Final(user.r), call' = call,
         m.chunked_size = 0,
         NEW mm, \/ mm = m /\ m.keep_alive
                 \/ mm = [m EXCEPT !.content_length = -1],
         ReceiveHeader(user.r + 1, mm), Turn(user.r + 1)
  PROVE  IInv'
<1> DEFINE r == user.r + 1
           p == exchange.responses[r]
<1>1. /\ user \in Users /\ m \in Members /\ exchange \in Cases /\ user.r \in Nat
      /\ user.r \in DOMAIN exchange.responses
  BY NowTyped DEF IInv
<1>2. /\ DOMAIN exchange.responses = 1 .. Len(exchange.responses)
      /\ Len(exchange.responses) \in Nat
      /\ \A i \in DOMAIN exchange.responses : exchange.responses[i] \in Response
  BY <1>1, ResponsesTyped
<1>3. r \in DOMAIN exchange.responses /\ user.r \in NotLast(exchange) /\ p \in Response
  BY <1>1, <1>2 DEF Final, NotLast
<1>4. /\ user'.r = r /\ user'.delivered = << >> /\ user'.reported = 0
      /\ ~user'.ended /\ user'.ec = "none"
  BY <1>1 DEF Turn, Users
<1>5. Now' = p
  BY <1>4 DEF Now
<1>6. ~Now.gzip
  BY <1>3 DEF IInv, Readable, AfterCompressed, Now
<1>7. m_stream = NoInflater /\ ~m.is_gzip /\ (m.keep_alive <=> Now.keep)
  BY <1>6 DEF IInv, HeadInv
<1>8. /\ mm \in Members /\ mm.chunked_size = 0 /\ ~mm.is_gzip
      /\ mm.content_length = -1 \/ (mm.content_length = m.content_length /\ m.keep_alive)
  BY <1>1, <1>7 DEF Members
<1>9. m' = HeaderOf(Reset(mm), p) /\ m_stream' = InflateInit(NoInflater, p)
  BY <1>7 DEF ReceiveHeader
<1>10. HeadRead(p, m', m_stream') /\ m'.content_length =
         IF p.framing = "length" THEN Larger(mm.content_length, LengthOf(p))
         ELSE mm.content_length
  <2> DEFINE pp == p
             m2 == m'
             z2 == m_stream'
  <2>1. /\ pp \in Response /\ m2 = HeaderOf(Reset(mm), pp)
        /\ z2 = InflateInit(NoInflater, pp)
    BY <1>3, <1>9
  <2> HIDE DEF pp, m2, z2
  <2>2. /\ HeadRead(pp, HeaderOf(Reset(mm), pp), InflateInit(NoInflater, pp))
        /\ HeaderOf(Reset(mm), pp).content_length =
              IF pp.framing = "length" THEN Larger(mm.content_length, LengthOf(pp))
              ELSE mm.content_length
    BY <1>8, <2>1, HeadIsRead
  <2>3. HeadRead(pp, m2, z2) /\ m2.content_length =
         IF pp.framing = "length" THEN Larger(mm.content_length, LengthOf(pp))
         ELSE mm.content_length
    BY <2>1, <2>2
  <2> QED
    BY <2>3 DEF pp, m2, z2
<1>11. LengthInv'
  <2> DEFINE n == m'.content_length
             N == LengthOf(p)
  <2>1. N \in Nat /\ mm.content_length \in Nat \cup {-1}
    BY <1>3, <1>8, UnitsOfResponse DEF Members
  <2>2. p.framing = "length" => n >= N
    <3> HIDE DEF N
    <3> QED
      BY <1>10, <2>1 DEF Larger, N
  <2>3. (p.framing = "length" /\ n = N) \/ n = mm.content_length
    BY <1>10 DEF Larger
  <2>4. ASSUME n # -1
        PROVE  \E i \in 1 .. r :
                 /\ exchange.responses[i].framing = "length"
                 /\ n = LengthOf(exchange.responses[i])
                 /\ \A k \in i .. r - 1 : exchange.responses[k].keep
    <3>1. CASE p.framing = "length" /\ n = N
      <4>1. r \in 1 .. r /\ r .. r - 1 = {}
        BY <1>1
      <4> QED
        BY <3>1, <4>1
    <3>2. CASE n = mm.content_length
      <4>1. m.content_length # -1 /\ n = m.content_length /\ Now.keep
        BY <1>7, <1>8, <2>4, <3>2
      <4>2. PICK i \in 1 .. user.r :
             /\ exchange.responses[i].framing = "length"
             /\ m.content_length = LengthOf(exchange.responses[i])
             /\ \A k \in i .. user.r - 1 : exchange.responses[k].keep
        BY <4>1 DEF IInv, LengthInv
      <4>3. \A k \in i .. r - 1 : exchange.responses[k].keep
        BY <1>1, <4>1, <4>2 DEF Now
      <4>4. i \in 1 .. r
        BY <1>1
      <4> QED
        BY <4>1, <4>2, <4>3, <4>4
    <3> QED
      BY <2>3, <3>1, <3>2
  <2> HIDE DEF r
  <2> QED
    BY <1>4, <1>5, <2>2, <2>4 DEF LengthInv
<1>12. \E k \in 0 .. Len(Sent(user.r)') :
         /\ m_response' = SubSeq(Sent(user.r)', 1, k)
         /\ socket'.rest = SubSeq(Sent(user.r)', k + 1, Len(Sent(user.r)'))
  <2>1. Sent(user.r)' = Sent(r)
    BY <1>4 DEF Sent, Final
  <2>2. PICK k \in 0 .. Len(Sent(r)) :
         /\ m_response' = SubSeq(Sent(r), 1, k)
         /\ socket' = [rest |-> SubSeq(Sent(r), k + 1, Len(Sent(r))), closes |-> Closes(r)]
    BY DEF ReceiveHeader
  <2>3. socket'.rest = SubSeq(Sent(r), k + 1, Len(Sent(r)))
    BY <2>2
  <2> HIDE DEF r
  <2> QED
    BY <2>1, <2>2, <2>3
<1>13. call'.pc = "idle"
  BY DEF IInv, EndedInv
<1>14. Readable(exchange)'
  <2>1. Readable(exchange)
    BY DEF IInv
  <2> QED
    BY <2>1
<1>15. JustBegun'
  BY <1>4, <1>5, <1>10, <1>11, <1>12, <1>13, <1>14 DEF JustBegun
<1> QED
  BY <1>15, BegunNext

(* NextRequest: nothing of the response before is left in the socket, so   *)
(* the next status line is where it is looked for.                         *)
LEMMA NextRequestInv ==
  ASSUME IInv, TypesInv', NextRequest
  PROVE  IInv' /\ Turn(user.r + 1)
<1>1. /\ user.ended /\ ~Final(user.r) /\ user.ec = "none" /\ m.keep_alive
      /\ exchange' = exchange /\ call' = call
  BY DEF NextRequest, More
<1>2. WholeSent
  BY <1>1 DEF WholeSent
<1>3. Now.keep /\ Now.framing # "chunked"
  <2>1. /\ exchange \in Cases /\ user.r \in DOMAIN exchange.responses /\ user.r \in Nat
    BY NowTyped DEF IInv
  <2>2. user.r \in NotLast(exchange)
    BY <1>1, <2>1, ResponsesTyped DEF Final, NotLast
  <2>3. Now.keep
    BY <1>1 DEF IInv, HeadInv
  <2> QED
    BY <2>2, <2>3 DEF IInv, Readable, AfterKeptChunks, Now
<1>4. m.chunked_size = 0 /\ socket.rest = << >>
  BY <1>1, <1>2, <1>3 DEF IInv, EndedInv, EndedWell
<1>5. ReceiveHeader(user.r + 1, m) /\ Turn(user.r + 1)
  BY <1>4 DEF NextRequest
<1> QED
  BY <1>1, <1>4, <1>5, Turned

(* Reopen: a new connection starts with no length. *)
LEMMA ReopenInv ==
  ASSUME IInv, TypesInv', Reopen
  PROVE  IInv' /\ Turn(user.r + 1)
<1>1. /\ user.ended /\ ~Final(user.r) /\ user.ec \in {"none", "eof"}
      /\ exchange' = exchange /\ call' = call
      /\ ReceiveHeader(user.r + 1, [m EXCEPT !.content_length = -1]) /\ Turn(user.r + 1)
  BY DEF Reopen, More
<1>2. m.chunked_size = 0
  BY <1>1 DEF IInv, EndedInv, EndedWell, WholeSent
<1> QED
  BY <1>1, <1>2, Turned

(* The steps that read. *)
LEMMA ReadStepInv ==
  ASSUME IInv, CallRead \/ Advance
  PROVE  IInv' /\ Progress
<1>1. TypesInv'
  BY TypesStep DEF IInv, Next
<1>2. CASE CallRead
  BY <1>1, <1>2, CallReadInv
<1>3. CASE Advance
  BY <1>1, <1>3, StartChunkInv, SkipCrlfInv, ReadSizeInv, ReadChunkInv, ReadPlainInv,
     AsyncStartChunkInv, HandleSkipCrlfInv, HandleChunkedSizeInv, HandleAsyncReadInv,
     AsyncReadHeldInv, HandleReadInv DEF Advance
<1> QED
  BY <1>2, <1>3

(* The steps from one response to the next. *)
LEMMA TurnInv ==
  ASSUME IInv, NextRequest \/ Reopen
  PROVE  IInv' /\ Turn(user.r + 1)
<1>1. TypesInv'
  BY TypesStep DEF IInv, Next
<1> QED
  BY <1>1, NextRequestInv, ReopenInv

(* A step that changes nothing keeps the invariant. *)
LEMMA StutterInv ==
  ASSUME IInv, UNCHANGED vars
  PROVE  IInv'
<1>1. /\ exchange' = exchange /\ m_response' = m_response /\ m' = m /\ m_stream' = m_stream
      /\ socket' = socket /\ call' = call /\ user' = user
  BY DEF vars
<1>2. Now' = Now /\ WholeSent' = WholeSent
  BY <1>1 DEF Now, WholeSent, Final
<1>3. TypesInv' /\ Readable(exchange)'
  BY <1>1 DEF IInv, TypesInv
<1>4. HeadInv' /\ LengthInv' /\ CountInv' /\ ModeInv'
  BY <1>1, <1>2 DEF IInv, HeadInv, LengthInv, CountInv, ModeInv
<1>5. ReadingInv'
  BY <1>1, <1>2 DEF IInv, ReadingInv
<1>6. EndedInv'
  BY <1>1, <1>2 DEF IInv, EndedInv, EndedWell
<1> QED
  BY <1>3, <1>4, <1>5, <1>6 DEF IInv

-----------------------------------------------------------------------------
(* The theorems. *)

(* The inductive invariant holds of every exchange that is Readable. *)
THEOREM BodyInvariant == Spec /\ Readable(exchange) => []IInv
<1>1. Init /\ Readable(exchange) => IInv
  BY InitInv
<1>2. IInv /\ [Next]_vars => IInv'
  BY ReadStepInv, TurnInv, StutterInv DEF Next
<1> QED
  BY <1>1, <1>2, PTL DEF Spec

(* A body that was sent whole is read to its end without an error, and the *)
(* next response is found where the body ended; the one error left is that *)
(* of a CRLF that async_read_some gets in two pieces.                      *)
THEOREM BodyFailsOnlyWhenLost == Spec /\ Readable(exchange) => []FailsOnlyWhenLost
<1>1. IInv => FailsOnlyWhenLost
  BY DEF IInv, ReadingInv, EndedInv, WholeSent, FailsOnlyWhenLost
<1> QED
  BY <1>1, BodyInvariant, PTL

(* The body of the response that is read. *)
LEMMA BodyNow ==
  ASSUME IInv
  PROVE  /\ user.r \in Nat /\ user.r \in DOMAIN Bodies /\ Len(Bodies) = Len(exchange.responses)
         /\ Bodies[user.r] = Bytes(user.r, 0, Plains(Now)) /\ Plains(Now) \in Nat
         /\ user.reported \in Nat /\ user.reported <= Plains(Now)
         /\ user.delivered = Bytes(user.r, 0, user.reported)
         /\ Final(user.r) <=> user.r = Len(Bodies)
         /\ user.r <= Len(Bodies) /\ Len(Bodies) \in Nat
<1>1. /\ user.r \in Nat /\ Now \in Response /\ exchange \in Cases
      /\ user.r \in DOMAIN exchange.responses /\ user.reported \in Nat
  BY NowTyped DEF IInv
<1>2. Len(Bodies) = Len(exchange.responses) /\ user.r \in DOMAIN Bodies
      /\ Len(exchange.responses) \in Nat /\ user.r <= Len(exchange.responses)
  BY <1>1, ResponsesTyped DEF Bodies
<1>3. Bodies[user.r] = Bytes(user.r, 0, Plains(Now))
  <2>1. Bodies[user.r] = Body(user.r)
    BY <1>1 DEF Bodies
  <2>2. LengthOf(Now) = Len(Units(Now))
    BY <1>1, UnitsOfResponse
  <2> QED
    BY <2>1, <2>2 DEF Body, Plains, Ends, Units, Now
<1>4. Plains(Now) \in Nat
  <2>1. LengthOf(Now) \in 0 .. LengthOf(Now)
    BY <1>1, UnitsOfResponse
  <2> QED
    BY <1>1, <2>1, EndsOfResponse DEF Plains
<1> QED
  BY <1>1, <1>2, <1>3, <1>4 DEF IInv, CountInv, Final

(* The reading has ended well, and ByteStream would allow that. *)
Ending == IInv /\ user.ended /\ user.ec \in {"none", "eof"}
MayEndHere == Stream!MayEnd(user.delivered)

(* Where the reading ends well, ByteStream allows an end. *)
LEMMA EndAllowed == Ending => MayEndHere
<1> SUFFICES ASSUME IInv, user.ended, user.ec \in {"none", "eof"}
             PROVE  Stream!MayEnd(user.delivered)
  BY DEF Ending, MayEndHere
<1>1. WholeSent => user.reported = Plains(Now)
  BY DEF IInv, EndedInv, EndedWell
<1>2. ~WholeSent => Lost /\ user.r = Len(Bodies)
  BY BodyNow DEF WholeSent, Lost
<1>3. WholeSent => user.delivered = Bodies[user.r]
  BY <1>1, BodyNow
<1> QED
  BY <1>2, <1>3 DEF Stream!MayEnd

(* The same of the next state. *)
LEMMA EndAllowedNext == Ending' => MayEndHere'
  BY EndAllowed, PTL

(* Some first bytes of a body. *)
LEMMA FirstBytes ==
  ASSUME NEW r \in Nat, NEW n \in Nat, NEW N \in Nat, n <= N
  PROVE  /\ SubSeq(Bytes(r, 0, N), 1, n) = Bytes(r, 0, n)
         /\ Len(Bytes(r, 0, n)) = n /\ Len(Bytes(r, 0, N)) = N
<1>1. Len(Bytes(r, 0, N)) = N /\ Len(Bytes(r, 0, n)) = n
  <2>1. 0 \in Nat /\ 0 <= N /\ 0 <= n
    OBVIOUS
  <2>2. Len(Bytes(r, 0, N)) = N - 0 /\ Len(Bytes(r, 0, n)) = n - 0
    BY <2>1, BytesLength
  <2> QED
    BY <2>2
<1>2. SubSeq(Bytes(r, 0, N), 1, n) = Bytes(r, 0, n)
  BY DEF Bytes
<1> QED
  BY <1>1, <1>2

(* A step of a read delivers bytes, ends the body, fails, or is not seen. *)
LEMMA ReadStepRefines ==
  ASSUME IInv, CallRead \/ Advance
  PROVE  [Stream!Next]_<<Bodies, Lost, user.r, user.delivered, user.reported, Status>>
<1>1. IInv' /\ Progress
  BY ReadStepInv
<1>2. exchange' = exchange
  BY DEF CallRead, Advance, StartChunk, SkipCrlf, ReadSize, ReadChunk, ReadPlain,
     AsyncStartChunk, HandleSkipCrlf, HandleChunkedSize, HandleAsyncRead, AsyncReadHeld,
     HandleRead
<1>3. ~user.ended
  <2>1. CallRead => ~user.ended
    BY DEF CallRead
  <2>2. Advance => call.pc # "idle"
    BY DEF Advance, StartChunk, SkipCrlf, ReadSize, ReadChunk, ReadPlain,
       AsyncStartChunk, HandleSkipCrlf, HandleChunkedSize, HandleAsyncRead, AsyncReadHeld,
       HandleRead, At
  <2> QED
    BY <2>1, <2>2, Calling
<1>4. /\ user'.r = user.r /\ user.reported <= user'.reported
      /\ user'.reported # user.reported => user'.ec \in {"none", "eof"}
  BY <1>1 DEF Progress
<1>5. Bodies' = Bodies /\ Lost' = Lost /\ Now' = Now
  BY <1>2, <1>4 DEF Bodies, Lost, Body, Now
<1>6. Status = "reading"
  BY <1>3 DEF Status
<1> DEFINE r == user.r
           N == Plains(Now)
           a == user.reported
           b == user'.reported
<1>7. /\ r \in Nat /\ N \in Nat /\ a \in Nat /\ Bodies[r] = Bytes(r, 0, N)
      /\ user.delivered = Bytes(r, 0, a)
  BY BodyNow
<1>8. /\ b \in Nat /\ b <= N /\ a <= b /\ user'.delivered = Bytes(r, 0, b)
  <2>1. CountInv' /\ TypesInv'
    BY <1>1 DEF IInv
  <2>2. b <= N /\ user'.delivered = Bytes(r, 0, b)
    BY <1>4, <1>5, <2>1 DEF CountInv
  <2>3. b \in Nat
    BY <2>1 DEF TypesInv, Users
  <2> QED
    BY <1>4, <2>2, <2>3
<1>9. user'.ended /\ user'.ec \in {"none", "eof"} => Stream!MayEnd(user.delivered)'
  BY <1>1, EndAllowedNext DEF Ending, MayEndHere
<1>10. Status' \in {"reading", "ended", "failed"}
       /\ (Status' = "ended" => user'.ended /\ user'.ec \in {"none", "eof"})
       /\ (user'.ec \in {"none", "eof"} => Status' # "failed")
  BY DEF Status
<1> HIDE DEF r, N, a, b
<1>11. CASE a # b
  <2>1. b \in a + 1 .. N
    BY <1>7, <1>8, <1>11
  <2>2. /\ SubSeq(Bytes(r, 0, N), 1, b) = Bytes(r, 0, b)
        /\ Len(Bytes(r, 0, a)) = a /\ Len(Bytes(r, 0, N)) = N
    <3>1. a <= N
      BY <1>7, <1>8
    <3> QED
      BY <1>7, <1>8, <3>1, FirstBytes
  <2>3. /\ b \in Len(user.delivered) + 1 .. Len(Bodies[user.r])
        /\ user'.delivered = SubSeq(Bodies[user.r], 1, b)
        /\ user'.reported = user.reported + (b - Len(user.delivered))
    BY <1>7, <1>8, <2>1, <2>2 DEF r, a, b
  <2>4. Status' = "reading" \/ (Status' = "ended" /\ Stream!MayEnd(user'.delivered))
    <3>1. Stream!MayEnd(user.delivered)' => Stream!MayEnd(user'.delivered)
      BY <1>4, <1>5 DEF Stream!MayEnd
    <3> QED
      BY <1>4, <1>9, <1>10, <1>11, <3>1 DEF a, b
  <2>5. Stream!Deliver
    BY <1>4, <1>5, <1>6, <2>3, <2>4 DEF Stream!Deliver
  <2> QED
    BY <2>5 DEF Stream!Next
<1>12. CASE a = b
  <2>1. user'.delivered = user.delivered /\ user'.reported = user.reported
    BY <1>7, <1>8, <1>12 DEF a, b
  <2>2. CASE Status' = "reading"
    BY <1>4, <1>5, <1>6, <2>1, <2>2
  <2>3. CASE Status' = "ended"
    <3>1. Stream!MayEnd(user.delivered)
      BY <1>4, <1>5, <1>9, <1>10, <2>1, <2>3 DEF Stream!MayEnd
    <3>2. Stream!End
      BY <1>4, <1>5, <1>6, <2>1, <2>3, <3>1 DEF Stream!End
    <3> QED
      BY <3>2 DEF Stream!Next
  <2>4. CASE Status' = "failed"
    <3>1. Stream!Fail
      BY <1>4, <1>5, <1>6, <2>1, <2>4 DEF Stream!Fail
    <3> QED
      BY <3>1 DEF Stream!Next
  <2> QED
    BY <1>10, <2>2, <2>3, <2>4
<1> QED
  BY <1>11, <1>12

(* The next response is the next body. *)
LEMMA TurnRefines ==
  ASSUME IInv, NextRequest \/ Reopen
  PROVE  Stream!Next
<1>1. Turn(user.r + 1) /\ user \in Users
  BY TurnInv, NowTyped DEF IInv
<1>2. /\ user'.r = user.r + 1 /\ user'.delivered = << >> /\ user'.reported = 0
      /\ ~user'.ended
  BY <1>1 DEF Turn, Users
<1>3. exchange' = exchange /\ user.ended /\ ~Final(user.r) /\ user.ec \in {"none", "eof"}
  BY DEF NextRequest, Reopen, More
<1>4. Bodies' = Bodies /\ Lost' = Lost
  BY <1>3 DEF Bodies, Lost, Body
<1>5. Status = "ended" /\ Status' = "reading"
  BY <1>2, <1>3 DEF Status
<1>6. user.r < Len(Bodies)
  BY <1>3, BodyNow
<1>7. Stream!Ask
  BY <1>2, <1>4, <1>5, <1>6 DEF Stream!Ask
<1> QED
  BY <1>7 DEF Stream!Next

(* To the caller the connection is a stream of bodies: of every exchange   *)
(* that is Readable each body is delivered once and in order, with counts  *)
(* that are true, and ends after its last byte or when the connection is   *)
(* lost.                                                                   *)
THEOREM BodiesAreAStream == Spec /\ Readable(exchange) => ImplementsByteStream
<1>1. Init => Stream!Init
  BY DEF Init, Stream!Init, Status
<1>2. IInv /\ [Next]_vars
        => [Stream!Next]_<<Bodies, Lost, user.r, user.delivered, user.reported, Status>>
  <2>1. ASSUME UNCHANGED vars
        PROVE  UNCHANGED <<Bodies, Lost, user.r, user.delivered, user.reported, Status>>
    BY <2>1 DEF vars, Bodies, Lost, Body, Status
  <2> QED
    BY <2>1, ReadStepRefines, TurnRefines DEF Next
<1> QED
  BY <1>1, <1>2, BodyInvariant, PTL DEF Spec, ImplementsByteStream, Stream!Spec, Stream!vars
=============================================================================
