------------------------ MODULE MultiDownloadProofs ------------------------
(***************************************************************************)
(* Proofs about the transfer engine, for every file size, piece size,      *)
(* number of connections, request size and number of crashes.              *)
(*                                                                         *)
(* SafeInv is inductive under every fault: each handler makes a connection *)
(* go on with its range or begin one nobody has had (Goes), so the claims  *)
(* stay apart; what is recorded has been written, as long as no write      *)
(* fails; and what lies behind a connection has been, unless a bad chunk   *)
(* has made it count bytes of the framing.  QuietInv is inductive when nothing fails: a connection rests    *)
(* only when its range is finished, so every byte that was allocated is    *)
(* downloaded or somebody's next work.  The two loops over the connections *)
(* (handle_start's and on_tick's) are folds, reasoned about by induction   *)
(* on the set of the connections visited (SubsetInduction).                *)
(***************************************************************************)
EXTENDS MultiDownload, RangefieldProofs

(* No product of a piece number and the piece size wraps. *)
NoWrap == Size + Piece <= IntLimit

Pieces == 0 .. (PieceNum(Size, Piece) - 1)
Bitfields == [len : {PieceNum(Size, Piece)}, ones : SUBSET Pieces]

Ops == {"none", "open", "request", "read"}
StreamRecords ==
  [left : File, right : File, xfer : Nat, op : Ops, done : BOOLEAN,
   direct : BOOLEAN, refused : BOOLEAN, wide : BOOLEAN]
Streams == {s \in StreamRecords : Position(s) <= Size + 1}
Replaced(n) == [slot : 1 .. n, stream : Streams, caught : BOOLEAN]

ModesInv ==
  /\ phase \in {"starting", "running", "over"}
  /\ m_abort \in BOOLEAN /\ m_accept_multi \in BOOLEAN /\ m_keep_alive \in BOOLEAN
  /\ ticking \in BOOLEAN
  /\ m_download_point \in Nat
  /\ crashes \in 0 .. MaxCrashes
  /\ fetched \subseteq Int
  /\ written \subseteq File
  /\ meta = NoMeta \/ meta \in Bitfields

FieldsInv == IsRanges(m_rangefield, Size) /\ IsRanges(m_downlaoded_field, Size)

StreamsInv ==
  /\ m_streams \in Seq(Streams) /\ Len(m_streams) <= Connections
  /\ late \subseteq Replaced(Len(m_streams))
  /\ phase = "starting" => m_streams = <<>> /\ late = {}

TypeInv == ModesInv /\ FieldsInv /\ StreamsInv

(* A connection has received k bytes more and goes on with its range, or   *)
(* begins one that nobody has had.                                         *)
Goes(s, k, m, t, n) ==
  /\ t \in Streams /\ IsRanges(n, Size)
  /\ \/ /\ t.left = s.left /\ t.right = s.right /\ t.xfer = s.xfer + k
        /\ s.done => t.done
        /\ Covered(n) = Covered(m)
     \/ /\ t.xfer = 0
        /\ (t.left .. t.right) \cap Covered(m) = {}
        /\ Covered(n) = Covered(m) \cup (t.left .. t.right)

(* The sizes, one by one. *)
LEMMA Sizes ==
  /\ Size \in Nat /\ Size \in Nat \ {0} /\ Piece \in Nat \ {0} /\ MaxRequest \in Nat \ {0}
  /\ Connections \in Nat \ {0} /\ Connections \in Nat /\ MaxRead \in Nat \ {0}
  /\ MaxCrashes \in Nat
  /\ File = 0 .. (Size - 1)
BY SizesAssumption DEF File

(* The fields of a connection. *)
LEMMA StreamFields ==
  ASSUME NEW s \in Streams
  PROVE  /\ s \in StreamRecords
         /\ s.left \in File /\ s.right \in File /\ s.xfer \in Nat /\ s.op \in Ops
         /\ s.left \in Nat /\ s.right \in Nat /\ s.right < Size
         /\ s.done \in BOOLEAN /\ s.direct \in BOOLEAN /\ s.refused \in BOOLEAN
         /\ s.wide \in BOOLEAN
         /\ Position(s) \in Nat /\ Position(s) = s.left + s.xfer /\ Position(s) <= Size + 1
<1>1. s \in StreamRecords /\ Position(s) <= Size + 1
  BY DEF Streams
<1>2. /\ s.left \in File /\ s.right \in File /\ s.xfer \in Nat /\ s.op \in Ops
      /\ s.done \in BOOLEAN /\ s.direct \in BOOLEAN /\ s.refused \in BOOLEAN
      /\ s.wide \in BOOLEAN
  BY <1>1 DEF StreamRecords
<1>3. s.left \in Nat /\ s.right \in Nat /\ s.right < Size
  BY <1>2, Sizes
<1> QED
  BY <1>1, <1>2, <1>3 DEF Position

(* A connection stays one when it is given another operation, or a range   *)
(* with nothing received of it.                                            *)
LEMMA StreamsFrom ==
  ASSUME NEW s \in Streams, NEW t \in StreamRecords,
         t.xfer = 0 \/ (t.left = s.left /\ t.xfer = s.xfer)
  PROVE  t \in Streams
<1>1. t.left \in Nat /\ t.left < Size /\ t.xfer \in Nat
  BY Sizes DEF StreamRecords
<1> QED
  BY <1>1, Sizes DEF Streams, Position

(* A rangefield covers bytes of the file only. *)
LEMMA CoveredInFile ==
  ASSUME NEW m, IsRanges(m, Size)
  PROVE  Covered(m) \subseteq File
BY Sizes, CoveredBytes

(* What allocate_range() hands out here. *)
LEMMA AllocateHere ==
  ASSUME NEW m, IsRanges(m, Size), m_download_point \in Nat, NEW a, a = Allocate(m)
  PROVE  /\ IsRanges(a.ranges, Size)
         /\ \/ /\ a.ok = TRUE
               /\ a.request = [left |-> a.request.left, right |-> a.request.right]
               /\ a.request.left \in File /\ a.request.right \in File
               /\ a.request.left <= a.request.right
               /\ (a.request.left .. a.request.right) \cap Covered(m) = {}
               /\ Covered(a.ranges) = Covered(m) \cup (a.request.left .. a.request.right)
            \/ /\ a.ok = FALSE
               /\ Covered(a.ranges) = Covered(m)
               /\ Covered(m) = File
<1>0. a = AllocateRange(m, Size, m_download_point, MaxRequest)
  BY DEF Allocate
<1>1. Takes(a, m, Size, MaxRequest)
  BY <1>0, Sizes, AllocateTakesFreeBytes
<1>2. Missing(m, Size) = {} => Covered(m) = File
  BY Sizes, CoveredInFile DEF Missing
<1> QED
  BY <1>1, <1>2, Sizes DEF Takes, RequestBytes

-----------------------------------------------------------------------------
(* What a connection that goes on does to the others' claims, and to the   *)
(* bytes behind it.                                                        *)

ClaimsApart(q, m) ==
  /\ \A i, j \in DOMAIN q : i # j => Claim(q[i]) \cap Claim(q[j]) = {}
  /\ \A i \in DOMAIN q : Claim(q[i]) \subseteq Covered(m)

BehindIt(s) == s.left .. (Position(s) - 1)
NoHoles(q, w) == \A i \in DOMAIN q : BehindIt(q[i]) \subseteq w

(* One connection of several is replaced. *)
LEMMA PutStream ==
  ASSUME NEW q \in Seq(Streams), NEW i \in DOMAIN q, NEW t \in Streams,
         NEW r, r = [q EXCEPT ![i] = t]
  PROVE  /\ r \in Seq(Streams) /\ Len(r) = Len(q) /\ DOMAIN r = DOMAIN q
         /\ r[i] = t
         /\ \A j \in DOMAIN q \ {i} : r[j] = q[j]
OBVIOUS

(* The claim of a connection that goes on is part of what it was, or new. *)
LEMMA GoesClaim ==
  ASSUME NEW s \in Streams, NEW k \in Nat, NEW m, NEW t, NEW n, Goes(s, k, m, t, n)
  PROVE  /\ Claim(t) \subseteq Claim(s) \/ Claim(t) \cap Covered(m) = {}
         /\ Claim(t) \subseteq Claim(s) \/ Claim(t) \subseteq Covered(n)
         /\ Covered(m) \subseteq Covered(n)
         /\ BehindIt(t) \subseteq BehindIt(s) \cup Bytes(Position(s), Position(s) + k)
<1>1. t \in Streams /\ s \in Streams
  BY DEF Goes
<1>2. CASE /\ t.left = s.left /\ t.right = s.right /\ t.xfer = s.xfer + k
           /\ s.done => t.done
           /\ Covered(n) = Covered(m)
  <2>1. Position(t) = Position(s) + k
    BY <1>1, <1>2, StreamFields
  <2>2. Claim(t) \subseteq Claim(s)
    BY <1>1, <1>2, <2>1, StreamFields DEF Claim
  <2>3. BehindIt(t) \subseteq BehindIt(s) \cup Bytes(Position(s), Position(s) + k)
    BY <1>1, <1>2, <2>1, StreamFields DEF BehindIt, Bytes
  <2> QED
    BY <1>2, <2>2, <2>3
<1>3. CASE /\ t.xfer = 0
           /\ (t.left .. t.right) \cap Covered(m) = {}
           /\ Covered(n) = Covered(m) \cup (t.left .. t.right)
  <2>1. Position(t) = t.left
    BY <1>1, <1>3, StreamFields
  <2>2. Claim(t) \subseteq t.left .. t.right
    BY <2>1 DEF Claim
  <2>3. BehindIt(t) = {}
    BY <1>1, <2>1, StreamFields DEF BehindIt
  <2> QED
    BY <1>3, <2>2, <2>3
<1> QED
  BY <1>2, <1>3 DEF Goes

(* The claims stay apart. *)
LEMMA GoesKeepsClaims ==
  ASSUME NEW q \in Seq(Streams), NEW m, ClaimsApart(q, m), NEW i \in DOMAIN q,
         NEW k \in Nat, NEW t, NEW n, Goes(q[i], k, m, t, n)
  PROVE  ClaimsApart([q EXCEPT ![i] = t], n)
<1> DEFINE r == [q EXCEPT ![i] = t]
<1>1. q[i] \in Streams /\ t \in Streams
  BY DEF Goes
<1>2. DOMAIN r = DOMAIN q /\ r[i] = t /\ \A j \in DOMAIN q \ {i} : r[j] = q[j]
  BY <1>1, PutStream
<1> HIDE DEF r
<1>3. /\ Claim(t) \subseteq Claim(q[i]) \/ Claim(t) \cap Covered(m) = {}
      /\ Claim(t) \subseteq Claim(q[i]) \/ Claim(t) \subseteq Covered(n)
      /\ Covered(m) \subseteq Covered(n)
  BY <1>1, GoesClaim
<1>4. ASSUME NEW a \in DOMAIN r
      PROVE  Claim(r[a]) \subseteq Covered(n)
  BY <1>2, <1>3 DEF ClaimsApart
<1>5. ASSUME NEW b \in DOMAIN q, b # i
      PROVE  Claim(t) \cap Claim(q[b]) = {}
  BY <1>3, <1>5 DEF ClaimsApart
<1>6. ASSUME NEW a \in DOMAIN r, NEW b \in DOMAIN r, a # b
      PROVE  Claim(r[a]) \cap Claim(r[b]) = {}
  <2>1. CASE a = i
    BY <1>2, <1>5, <1>6, <2>1
  <2>2. CASE b = i
    BY <1>2, <1>5, <1>6, <2>2
  <2>3. CASE a # i /\ b # i
    BY <1>2, <1>6, <2>3 DEF ClaimsApart
  <2> QED
    BY <2>1, <2>2, <2>3
<1>7. ClaimsApart(r, n)
  BY <1>4, <1>6 DEF ClaimsApart
<1> QED
  BY <1>7 DEF r

(* No hole is left behind when what has been received has been written. *)
LEMMA GoesKeepsHoles ==
  ASSUME NEW q \in Seq(Streams), NEW m, NEW i \in DOMAIN q, NEW k \in Nat, NEW t, NEW n,
         Goes(q[i], k, m, t, n),
         NEW w, NEW v, w \subseteq v, NoHoles(q, w),
         Bytes(Position(q[i]), Position(q[i]) + k) \subseteq v
  PROVE  NoHoles([q EXCEPT ![i] = t], v)
<1> DEFINE r == [q EXCEPT ![i] = t]
<1>1. q[i] \in Streams /\ t \in Streams
  BY DEF Goes
<1>2. DOMAIN r = DOMAIN q /\ r[i] = t /\ \A j \in DOMAIN q \ {i} : r[j] = q[j]
  BY <1>1, PutStream
<1> HIDE DEF r
<1>3. BehindIt(t) \subseteq BehindIt(q[i]) \cup Bytes(Position(q[i]), Position(q[i]) + k)
  BY <1>1, GoesClaim
<1>4. BehindIt(t) \subseteq v
  BY <1>3 DEF NoHoles
<1>5. NoHoles(r, v)
  BY <1>2, <1>4 DEF NoHoles
<1> QED
  BY <1>5 DEF r

-----------------------------------------------------------------------------
(* After a read a connection goes on; or rests, or begins another range,   *)
(* when its own is finished.                                               *)
Reads(s, m, t, n) ==
  /\ t.done = s.done /\ t.refused = s.refused
  /\ \/ /\ t.op = "read" /\ t.direct = s.direct
        /\ m_accept_multi => ~Finished(s)
        /\ t.left = s.left /\ t.right = s.right /\ t.xfer = s.xfer
        /\ Covered(n) = Covered(m)
     \/ /\ t.op = "none" /\ Finished(s)
        /\ t.left = s.left /\ t.right = s.right /\ t.xfer = s.xfer
        /\ Covered(n) = Covered(m)
     \/ /\ t.op = "request" /\ t.direct = s.direct /\ Finished(s)
        /\ t.xfer = 0 /\ t.left <= t.right
        /\ Covered(n) = Covered(m) \cup (t.left .. t.right)

(* What handle_read does next with a connection: it goes on. *)
LEMMA AfterReadGoes ==
  ASSUME IsRanges(m_rangefield, Size), m_download_point \in Nat,
         NEW s \in Streams, NEW slot, NEW r, r = AfterRead(s, slot)
  PROVE  Goes(s, 0, m_rangefield, r.stream, r.ranges) /\ Reads(s, m_rangefield, r.stream, r.ranges)
<1> DEFINE a == Allocate(m_rangefield)
           reconnect == [s EXCEPT !.op = "none", !.direct = TRUE]
           more == [s EXCEPT !.op = "read"]
<1>1. s \in StreamRecords /\ Ops = {"none", "open", "request", "read"}
  BY StreamFields DEF Ops
<1>2. /\ reconnect \in Streams /\ reconnect.left = s.left /\ reconnect.right = s.right
      /\ reconnect.xfer = s.xfer /\ reconnect.done = s.done
      /\ reconnect.op = "none" /\ reconnect.refused = s.refused
      /\ more.op = "read" /\ more.direct = s.direct /\ more.refused = s.refused
      /\ more \in Streams /\ more.left = s.left /\ more.right = s.right
      /\ more.xfer = s.xfer /\ more.done = s.done
  <2>1. /\ reconnect \in StreamRecords
        /\ reconnect.left = s.left /\ reconnect.right = s.right
        /\ reconnect.xfer = s.xfer /\ reconnect.done = s.done
        /\ reconnect.op = "none" /\ reconnect.refused = s.refused
    BY <1>1 DEF StreamRecords
  <2>2. /\ more \in StreamRecords
        /\ more.left = s.left /\ more.right = s.right
        /\ more.xfer = s.xfer /\ more.done = s.done
        /\ more.op = "read" /\ more.direct = s.direct /\ more.refused = s.refused
    BY <1>1 DEF StreamRecords
  <2> HIDE DEF reconnect, more
  <2> QED
    BY <2>1, <2>2, StreamsFrom
<1> HIDE DEF reconnect, more
<1>3. s.xfer + 0 = s.xfer
  BY StreamFields
<1>4. /\ Goes(s, 0, m_rangefield, reconnect, m_rangefield)
      /\ Goes(s, 0, m_rangefield, more, m_rangefield)
  BY <1>2, <1>3 DEF Goes
<1>5. CASE ~(m_accept_multi /\ Finished(s))
  <2>1. r = [stream |-> more, ranges |-> m_rangefield]
    BY <1>5 DEF AfterRead, more
  <2> QED
    BY <1>2, <1>4, <1>5, <2>1 DEF Reads
<1>6. CASE (m_accept_multi /\ Finished(s)) /\ (~m_keep_alive \/ (s.left = 0 /\ slot = 1))
  <2>1. r = [stream |-> reconnect, ranges |-> m_rangefield]
    BY <1>6 DEF AfterRead, reconnect
  <2> QED
    BY <1>2, <1>4, <1>6, <2>1 DEF Reads
<1>7. CASE (m_accept_multi /\ Finished(s)) /\ ~(~m_keep_alive \/ (s.left = 0 /\ slot = 1))
  <2>1. r = [stream |-> IF a.ok THEN NextRequest(s, a.request) ELSE reconnect,
             ranges |-> a.ranges]
    BY <1>7 DEF AfterRead, reconnect
  <2>2. /\ IsRanges(a.ranges, Size)
        /\ \/ /\ a.ok = TRUE
              /\ a.request.left \in File /\ a.request.right \in File
              /\ a.request.left <= a.request.right
              /\ (a.request.left .. a.request.right) \cap Covered(m_rangefield) = {}
              /\ Covered(a.ranges)
                   = Covered(m_rangefield) \cup (a.request.left .. a.request.right)
           \/ a.ok = FALSE /\ Covered(a.ranges) = Covered(m_rangefield)
    <3> HIDE DEF a
    <3>1. a = Allocate(m_rangefield)
      BY DEF a
    <3> QED
      BY <3>1, AllocateHere
  <2> HIDE DEF a
  <2>3. CASE a.ok = FALSE
    <3>1. r.stream = reconnect /\ r.ranges = a.ranges
      BY <2>1, <2>3
    <3> QED
      BY <1>2, <1>3, <1>7, <2>2, <2>3, <3>1 DEF Goes, Reads
  <2>4. CASE a.ok = TRUE
    <3> DEFINE new == NextRequest(s, a.request)
    <3>1. /\ new \in StreamRecords
          /\ new.left = a.request.left /\ new.right = a.request.right /\ new.xfer = 0
          /\ new.op = "request" /\ new.done = s.done /\ new.direct = s.direct
          /\ new.refused = s.refused
      BY <1>1, <2>2, <2>4 DEF NextRequest, StreamRecords
    <3>2. r.stream = new /\ r.ranges = a.ranges
      BY <2>1, <2>4
    <3> HIDE DEF new
    <3>4. new \in Streams
      BY <3>1, StreamsFrom
    <3> QED
      BY <1>7, <2>2, <2>4, <3>1, <3>2, <3>4 DEF Goes, Reads
  <2> QED
    BY <2>2, <2>3, <2>4
<1> QED
  BY <1>5, <1>6, <1>7

-----------------------------------------------------------------------------
(* Recording, and the meta file. *)

(* What can arrive on a connection fits into the file. *)
LEMMA ArrivalsFit ==
  ASSUME NEW s \in Streams, NEW n \in Arrivals(s)
  PROVE  /\ n \in Nat /\ n > 0 /\ Position(s) + n <= Size
         /\ [s EXCEPT !.xfer = @ + n] \in Streams
<1>1. n \in Nat /\ n > 0 /\ Position(s) + n - 1 <= ServerEnd(s)
  BY Sizes DEF Arrivals
<1>2. ServerEnd(s) \in Int /\ ServerEnd(s) < Size
  BY Sizes, StreamFields DEF ServerEnd
<1>3. Position(s) + n <= Size
  BY <1>1, <1>2, Sizes, StreamFields
<1> DEFINE t == [s EXCEPT !.xfer = @ + n]
<1>4. t \in StreamRecords /\ t.left = s.left /\ t.xfer = s.xfer + n
  BY <1>1, StreamFields DEF StreamRecords
<1> HIDE DEF t
<1>5. Position(t) = Position(s) + n
  BY <1>1, <1>4, StreamFields DEF Position
<1>6. t \in Streams
  <2>1. Position(s) \in Int /\ Size \in Int
    BY Sizes, StreamFields
  <2>2. Position(t) <= Size + 1
    BY <1>1, <1>3, <1>5, <2>1
  <2> QED
    BY <1>4, <2>2 DEF Streams
<1> QED
  BY <1>1, <1>3, <1>6 DEF t

(* What has arrived is recorded, and nothing else; it is written, unless   *)
(* the storage fails.                                                      *)
LEMMA SaveAdds ==
  ASSUME IsRanges(m_downlaoded_field, Size), written \subseteq File,
         NEW s \in Streams, NEW n \in Nat, n = 0 \/ Position(s) + n <= Size, Save(s, n)
  PROVE  /\ IsRanges(m_downlaoded_field', Size)
         /\ Covered(m_downlaoded_field')
              \subseteq Covered(m_downlaoded_field) \cup Bytes(Position(s), Position(s) + n)
         /\ written \subseteq written' /\ written' \subseteq File
         /\ "storage" \notin Faults => Bytes(Position(s), Position(s) + n) \subseteq written'
<1> DEFINE p == Position(s)
           e == Position(s) + n
           new == Update(m_downlaoded_field, p, e)
<1>1. p \in Nat /\ e \in Nat /\ p <= e /\ (n > 0 => p < e /\ e <= Size) /\ (n = 0 => e = p)
  BY Sizes, StreamFields
<1>2. Bytes(p, e) \subseteq File
  <2> HIDE DEF p, e
  <2> QED
    BY <1>1, Sizes DEF Bytes
<1>3. CASE n > 0
  <2>1. m_downlaoded_field' = new
    BY <1>3 DEF Save
  <2>2. CanUpdate(Size, p, e)
    <3> HIDE DEF p, e
    <3> QED
      BY <1>1, <1>3, Sizes DEF CanUpdate
  <2>3. /\ IsRanges(new, Size)
        /\ Covered(new) \subseteq Covered(m_downlaoded_field) \cup Bytes(p, e)
    <3> HIDE DEF p, e
    <3> QED
      BY <1>1, <2>2, Sizes, UpdateAddsBytes
  <2> QED
    BY <1>2, <2>1, <2>3 DEF Save
<1>4. CASE ~(n > 0)
  BY <1>2, <1>4 DEF Save
<1> QED
  BY <1>3, <1>4

MetaSound(bf, w) == \A i \in bf.ones : PieceBytes(i, Size, Piece) \subseteq w

(* What update_meta() saves are whole pieces of what has been downloaded. *)
LEMMA SavedPieces ==
  ASSUME NoWrap, NEW m, IsRanges(m, Size),
         NEW bf, bf = RangeToBitfield(Merge(m), Size, Piece, IntLimit)
  PROVE  bf \in Bitfields /\ MetaSound(bf, Covered(m))
<1> DEFINE tidy == Merge(m)
<1>1. IsRanges(tidy, Size) /\ Covered(tidy) = Covered(m)
  BY Sizes, MergeKeepsBytes
<1> HIDE DEF tidy
<1>2. IntLimit \in Nat
  BY DEF IntLimit
<1>3. bf = RangeToBitfield(tidy, Size, Piece, IntLimit)
  BY DEF tidy
<1>4. Size + Piece <= IntLimit
  BY DEF NoWrap
<1> HIDE DEF NoWrap
<1>5. /\ bf = [len |-> PieceNum(Size, Piece), ones |-> bf.ones]
      /\ bf.ones \subseteq 0 .. (PieceNum(Size, Piece) - 1)
      /\ \A i \in bf.ones : PieceBytes(i, Size, Piece) \subseteq Covered(tidy)
  BY <1>1, <1>2, <1>3, <1>4, Sizes, BitfieldMarksWholePieces
<1>6. bf \in Bitfields
  BY <1>5 DEF Bitfields, Pieces
<1> QED
  BY <1>1, <1>5, <1>6 DEF MetaSound

(* update_meta() saves a sound bitfield and leaves the bytes as they are. *)
LEMMA UpdateMetaSaves ==
  ASSUME NoWrap, IsRanges(m_downlaoded_field, Size), UpdateMeta
  PROVE  /\ IsRanges(m_downlaoded_field', Size)
         /\ Covered(m_downlaoded_field') = Covered(m_downlaoded_field)
         /\ meta' = meta \/ (meta' \in Bitfields /\ MetaSound(meta', Covered(m_downlaoded_field)))
<1>1. CASE m_accept_multi
  <2>1. /\ m_downlaoded_field' = Merge(m_downlaoded_field)
        /\ meta' = RangeToBitfield(Merge(m_downlaoded_field), Size, Piece, IntLimit)
    BY <1>1 DEF UpdateMeta
  <2>2. /\ IsRanges(Merge(m_downlaoded_field), Size)
        /\ Covered(Merge(m_downlaoded_field)) = Covered(m_downlaoded_field)
    BY Sizes, MergeKeepsBytes
  <2>3. /\ meta' \in Bitfields
        /\ MetaSound(meta', Covered(m_downlaoded_field))
    BY <2>1, SavedPieces
  <2> QED
    BY <2>1, <2>2, <2>3
<1>2. CASE ~m_accept_multi
  BY <1>2 DEF UpdateMeta
<1> QED
  BY <1>1, <1>2

(* What open_meta() restores is covered by pieces that are in the file. *)
LEMMA OpenMetaRestores ==
  ASSUME NoWrap, meta = NoMeta \/ meta \in Bitfields, NEW multi, NEW have, have = OpenMeta(multi)
  PROVE  /\ IsRanges(have, Size)
         /\ \A w : MetaSound(meta, w) => Covered(have) \subseteq w
<1>1. CASE multi /\ meta # NoMeta
  <2>1. /\ meta = [len |-> PieceNum(Size, Piece), ones |-> meta.ones]
        /\ meta.ones \in SUBSET (0 .. (PieceNum(Size, Piece) - 1))
    BY <1>1 DEF Bitfields, Pieces
  <2>2. have = BitfieldToRange(meta, Size, Piece, IntLimit)
    BY <1>1 DEF OpenMeta
  <2>3. Size <= IntLimit /\ IntLimit \in Nat
    <3>1. IntLimit \in Nat
      BY DEF IntLimit
    <3> QED
      BY <3>1, Sizes DEF NoWrap
  <2>4. /\ IsRanges(have, Size)
        /\ Covered(have) = UNION {PieceBytes(i, Size, Piece) : i \in meta.ones}
    <3> DEFINE ones == meta.ones
    <3> HIDE DEF ones
    <3>1. /\ ones \in SUBSET (0 .. (PieceNum(Size, Piece) - 1))
          /\ meta = [len |-> PieceNum(Size, Piece), ones |-> ones]
      BY <2>1 DEF ones
    <3>2. /\ IsRanges(have, Size)
          /\ Covered(have) = UNION {PieceBytes(i, Size, Piece) : i \in ones}
      BY <2>2, <2>3, <3>1, Sizes, BitfieldCoversItsPieces
    <3> QED
      BY <3>2 DEF ones
  <2> QED
    BY <2>4 DEF MetaSound
<1>2. CASE ~(multi /\ meta # NoMeta)
  <2>1. have = EmptyMap
    BY <1>2 DEF OpenMeta
  <2> QED
    BY <2>1, Sizes, EmptyMapIsMerged
<1> QED
  BY <1>1, <1>2

-----------------------------------------------------------------------------
(* The connections handle_start creates. *)

Claimed(q) == UNION {Claim(q[i]) : i \in DOMAIN q}

RangeMaps == {m \in Maps : IsRanges(m, Size)}
Nets == [ranges : RangeMaps, streams : Seq(Streams)]

(* A well-formed map is one of a set of maps. *)
LEMMA RangesAreMaps ==
  ASSUME NEW m, IsRanges(m, Size)
  PROVE  m \in RangeMaps
<1>1. m \in [DOMAIN m -> Int] /\ DOMAIN m \in SUBSET Int
  BY Sizes DEF IsRanges
<1>2. m \in Maps
  BY <1>1 DEF Maps
<1> QED
  BY <1>2 DEF RangeMaps

(* A connection that has just been created, or is not needed. *)
IsFresh(s) ==
  /\ s.xfer = 0 /\ s.refused = FALSE /\ s.direct = FALSE
  /\ IF s.op = "none" THEN s.done = TRUE ELSE s.done = FALSE /\ s.left <= s.right

(* The first n connections have been created: nobody is to fetch what has  *)
(* been saved or what another is to fetch, nothing is left out, and when   *)
(* one is not needed, all is claimed.                                      *)
NetInv(acc, have, n) ==
  /\ acc \in Nets /\ Len(acc.streams) <= n
  /\ \A i \in DOMAIN acc.streams : IsFresh(acc.streams[i])
  /\ ClaimsApart(acc.streams, acc.ranges)
  /\ Covered(have) \cap Claimed(acc.streams) = {}
  /\ Covered(have) \cup Claimed(acc.streams) = Covered(acc.ranges)
  /\ (\E i \in DOMAIN acc.streams : acc.streams[i].done) => Covered(acc.ranges) = File

(* A connection that is created. *)
LEMMA StreamIsFresh ==
  ASSUME NEW request, request.left \in File, request.right \in File, request.left <= request.right,
         NEW op \in {"read", "open"}, NEW wide \in BOOLEAN,
         NEW s, s = Stream(request, op, wide)
  PROVE  /\ s \in Streams /\ IsFresh(s) /\ ~s.done
         /\ Claim(s) = request.left .. request.right
<1>1. /\ s \in StreamRecords
      /\ s.left = request.left /\ s.right = request.right /\ s.xfer = 0 /\ s.op = op
      /\ s.done = FALSE /\ s.refused = FALSE /\ s.direct = FALSE
  BY DEF Stream, StreamRecords, Ops
<1>2. Position(s) = s.left /\ s.left < Size
  BY <1>1, Sizes DEF Position
<1>3. s \in Streams
  BY <1>1, <1>2, Sizes DEF Streams
<1>4. IsFresh(s)
  BY <1>1 DEF IsFresh
<1> QED
  BY <1>1, <1>2, <1>3, <1>4 DEF Claim

(* The connection that is not needed. *)
LEMMA NoStreamIsFresh ==
  NoStream \in Streams /\ IsFresh(NoStream) /\ NoStream.done = TRUE /\ Claim(NoStream) = {}
<1>1. /\ NoStream \in StreamRecords
      /\ NoStream.left = 0 /\ NoStream.right = 0 /\ NoStream.xfer = 0 /\ NoStream.op = "none"
      /\ NoStream.done = TRUE /\ NoStream.refused = FALSE /\ NoStream.direct = FALSE
  <2> DEFINE s == Stream([left |-> 0, right |-> 0], "none", FALSE)
  <2>1. /\ s \in StreamRecords
        /\ s.left = 0 /\ s.right = 0 /\ s.xfer = 0 /\ s.op = "none"
        /\ s.refused = FALSE /\ s.direct = FALSE
    BY Sizes DEF Stream, StreamRecords, Ops
  <2> HIDE DEF s
  <2>2. NoStream = [s EXCEPT !.done = TRUE]
    BY DEF NoStream, s
  <2> QED
    BY <2>1, <2>2 DEF StreamRecords
<1>2. NoStream \in Streams
  BY <1>1, Sizes DEF Streams, Position
<1>3. IsFresh(NoStream) /\ Claim(NoStream) = {}
  BY <1>1 DEF IsFresh, Claim
<1> QED
  BY <1>1, <1>2, <1>3

(* A connection with a range of its own is added; or every byte is claimed *)
(* and none is, or one that is not needed.                                 *)
Adds(v, acc, s) ==
  /\ v.streams = Append(acc.streams, s)
  /\ s \in Streams /\ IsFresh(s) /\ ~s.done
  /\ Claim(s) \cap Covered(acc.ranges) = {}
  /\ Covered(v.ranges) = Covered(acc.ranges) \cup Claim(s)
AddsNone(v, acc, i) ==
  /\ v.streams = IF i = 1 THEN <<NoStream>> ELSE acc.streams
  /\ Covered(v.ranges) = File /\ Covered(acc.ranges) = File

(* What connecting does when there is a range, and when there is none.     *)
LEMMA ConnectOneDoes ==
  ASSUME m_download_point \in Nat, NEW acc \in Nets, NEW i \in Int,
         NEW v, v = ConnectOne(acc, i)
  PROVE  /\ v = [ranges |-> v.ranges, streams |-> v.streams]
         /\ IsRanges(v.ranges, Size)
         /\ (\E s : Adds(v, acc, s)) \/ AddsNone(v, acc, i)
<1> DEFINE a == Allocate(acc.ranges)
           first == i = 1 /\ a.request.left = 0
           new == Stream(a.request, IF first THEN "read" ELSE "open", first)
<1>1. v = [ranges |-> a.ranges,
           streams |-> IF a.ok THEN Append(acc.streams, new)
                       ELSE IF i = 1 THEN <<NoStream>> ELSE acc.streams]
  BY DEF ConnectOne
<1>2. IsRanges(acc.ranges, Size)
  BY DEF Nets, RangeMaps
<1>3. /\ IsRanges(a.ranges, Size)
      /\ \/ /\ a.ok = TRUE
            /\ a.request.left \in File /\ a.request.right \in File
            /\ a.request.left <= a.request.right
            /\ (a.request.left .. a.request.right) \cap Covered(acc.ranges) = {}
            /\ Covered(a.ranges) = Covered(acc.ranges) \cup (a.request.left .. a.request.right)
         \/ /\ a.ok = FALSE
            /\ Covered(a.ranges) = Covered(acc.ranges)
            /\ Covered(acc.ranges) = File
  <2> HIDE DEF a
  <2>1. a = Allocate(acc.ranges)
    BY DEF a
  <2> QED
    BY <1>2, <2>1, AllocateHere
<1> HIDE DEF a
<1>4. CASE a.ok = TRUE
  <2>1. /\ new \in Streams /\ IsFresh(new) /\ ~new.done
        /\ Claim(new) = a.request.left .. a.request.right
    <3> DEFINE op == IF first THEN "read" ELSE "open"
               wide == first
    <3>1. op \in {"read", "open"} /\ wide \in BOOLEAN /\ new = Stream(a.request, op, wide)
      OBVIOUS
    <3> HIDE DEF op, wide, new
    <3> QED
      BY <1>3, <1>4, <3>1, StreamIsFresh
  <2>2. v = [ranges |-> a.ranges, streams |-> Append(acc.streams, new)]
    BY <1>1, <1>4
  <2> HIDE DEF new
  <2>3. Adds(v, acc, new)
    BY <1>3, <1>4, <2>1, <2>2 DEF Adds
  <2> QED
    BY <1>3, <2>2, <2>3
<1>5. CASE a.ok = FALSE
  <2>1. v = [ranges |-> a.ranges, streams |-> IF i = 1 THEN <<NoStream>> ELSE acc.streams]
    BY <1>1, <1>5
  <2>2. AddsNone(v, acc, i)
    BY <1>3, <1>5, <2>1 DEF AddsNone
  <2> QED
    BY <1>3, <2>1, <2>2
<1> QED
  BY <1>3, <1>4, <1>5

(* Connecting gives what the loop's variables may hold. *)
LEMMA ConnectOneIsNet ==
  ASSUME m_download_point \in Nat, NEW acc \in Nets, NEW i \in Int
  PROVE  ConnectOne(acc, i) \in Nets
<1> DEFINE v == ConnectOne(acc, i)
<1>1. /\ v = [ranges |-> v.ranges, streams |-> v.streams]
      /\ IsRanges(v.ranges, Size)
      /\ (\E s : Adds(v, acc, s)) \/ AddsNone(v, acc, i)
  <2> HIDE DEF v
  <2>1. v = ConnectOne(acc, i)
    BY DEF v
  <2> QED
    BY <2>1, ConnectOneDoes
<1> HIDE DEF v
<1>2. acc.streams \in Seq(Streams) /\ NoStream \in Streams
  BY NoStreamIsFresh DEF Nets
<1>3. v.streams \in Seq(Streams)
  <2>1. ASSUME NEW s, Adds(v, acc, s)
        PROVE  v.streams \in Seq(Streams)
    BY <1>2, <2>1 DEF Adds
  <2>2. CASE AddsNone(v, acc, i)
    BY <1>2, <2>2 DEF AddsNone
  <2> QED
    BY <1>1, <2>1, <2>2
<1>4. v.ranges \in RangeMaps
  BY <1>1, RangesAreMaps
<1>5. v \in Nets
  BY <1>1, <1>3, <1>4 DEF Nets
<1> QED
  BY <1>5 DEF v

(* The next connection keeps what is true of the first n. *)
LEMMA ConnectOneKeeps ==
  ASSUME m_download_point \in Nat, NEW have, NEW i \in Nat, i > 0,
         NEW acc, NetInv(acc, have, i - 1)
  PROVE  NetInv(ConnectOne(acc, i), have, i)
<1> DEFINE v == ConnectOne(acc, i)
           q == acc.streams
<1> SUFFICES NetInv(v, have, i)
  OBVIOUS
<1>1. acc \in Nets /\ q \in Seq(Streams) /\ Len(q) <= i - 1 /\ Len(q) \in Nat
  BY DEF NetInv, Nets
<1>2. v \in Nets
  BY <1>1, ConnectOneIsNet
<1>3. (\E s : Adds(v, acc, s)) \/ AddsNone(v, acc, i)
  <2> HIDE DEF v
  <2>1. v = ConnectOne(acc, i)
    BY DEF v
  <2> QED
    BY <1>1, <2>1, ConnectOneDoes
<1> HIDE DEF v
<1>4. CASE \E s : Adds(v, acc, s)
  <2>0. PICK s : Adds(v, acc, s)
    BY <1>4
  <2>1. /\ v.streams = Append(q, s)
        /\ s \in Streams /\ IsFresh(s) /\ ~s.done
        /\ Claim(s) \cap Covered(acc.ranges) = {}
        /\ Covered(v.ranges) = Covered(acc.ranges) \cup Claim(s)
    BY <2>0 DEF Adds
  <2> DEFINE e == Len(q) + 1
             r == v.streams
  <2>2. /\ r \in Seq(Streams) /\ Len(r) = e /\ DOMAIN r = DOMAIN q \cup {e}
        /\ e \notin DOMAIN q
        /\ r[e] = s
        /\ \A j \in DOMAIN q : r[j] = q[j]
    BY <1>1, <2>1
  <2> HIDE DEF e, r, q
  <2>3. /\ ClaimsApart(q, acc.ranges)
        /\ \A j \in DOMAIN q : IsFresh(q[j])
        /\ Covered(have) \cap Claimed(q) = {}
        /\ Covered(have) \cup Claimed(q) = Covered(acc.ranges)
        /\ (\E j \in DOMAIN q : q[j].done) => Covered(acc.ranges) = File
    BY DEF NetInv, q
  <2>4. Claimed(r) = Claimed(q) \cup Claim(s)
    BY <2>2 DEF Claimed
  <2>5. ClaimsApart(r, v.ranges)
    <3>1. ASSUME NEW a \in DOMAIN q
          PROVE  Claim(r[a]) \subseteq Covered(acc.ranges) /\ Claim(r[a]) \cap Claim(s) = {}
      BY <2>1, <2>2, <2>3 DEF ClaimsApart
    <3>2. ASSUME NEW a \in DOMAIN r, NEW b \in DOMAIN r, a # b
          PROVE  Claim(r[a]) \cap Claim(r[b]) = {}
      <4>1. CASE a = e \/ b = e
        BY <2>2, <3>1, <3>2, <4>1
      <4>2. CASE a # e /\ b # e
        BY <2>2, <2>3, <3>2, <4>2 DEF ClaimsApart
      <4> QED
        BY <4>1, <4>2
    <3>3. ASSUME NEW a \in DOMAIN r
          PROVE  Claim(r[a]) \subseteq Covered(v.ranges)
      BY <2>1, <2>2, <3>1
    <3> QED
      BY <3>2, <3>3 DEF ClaimsApart
  <2>6. \A j \in DOMAIN r : IsFresh(r[j])
    BY <2>1, <2>2, <2>3
  <2>7. (\E j \in DOMAIN r : r[j].done) => Covered(v.ranges) = File
    <3>1. Covered(v.ranges) \subseteq File
      BY <1>2, CoveredInFile DEF Nets, RangeMaps
    <3> QED
      BY <2>1, <2>2, <2>3, <3>1
  <2>8. Len(r) <= i
    BY <1>1, <2>2 DEF q, e
  <2> QED
    BY <1>2, <2>1, <2>3, <2>4, <2>5, <2>6, <2>7, <2>8 DEF NetInv, r
<1>5. CASE AddsNone(v, acc, i)
  <2>0. /\ v.streams = IF i = 1 THEN <<NoStream>> ELSE q
        /\ Covered(v.ranges) = File /\ Covered(acc.ranges) = File
    BY <1>5 DEF AddsNone
  <2>1. CASE i = 1
    <3>1. q = <<>> /\ v.streams = <<NoStream>>
      BY <1>1, <2>0, <2>1
    <3>2. DOMAIN v.streams = {1} /\ v.streams[1] = NoStream /\ Len(v.streams) = 1
      BY <3>1
    <3>3. Claimed(q) = {} /\ Claimed(v.streams) = {}
      BY <3>1, <3>2, NoStreamIsFresh DEF Claimed
    <3>4. ClaimsApart(v.streams, v.ranges) /\ \A j \in DOMAIN v.streams : IsFresh(v.streams[j])
      BY <3>2, NoStreamIsFresh DEF ClaimsApart
    <3> QED
      BY <1>2, <2>0, <2>1, <3>2, <3>3, <3>4 DEF NetInv
  <2>2. CASE i # 1
    <3>1. v.streams = acc.streams /\ Len(q) <= i
      BY <1>1, <2>0, <2>2
    <3> QED
      BY <1>2, <2>0, <3>1 DEF NetInv, ClaimsApart
  <2> QED
    BY <2>1, <2>2
<1> QED
  BY <1>3, <1>4, <1>5

NoNet(have) == [ranges |-> have, streams |-> <<>>]

(* handle_start's loop visits the connections from the first on. *)
LEMMA ConnectIsFold ==
  ASSUME m_download_point \in Nat, NEW have \in RangeMaps
  PROVE  \E g : /\ g[{}] = NoNet(have)
                /\ \A s \in SUBSET (1 .. Connections) :
                     s # {} => g[s] = ConnectOne(g[s \ {Max(s)}], Max(s))
                /\ Connect(have) = g[1 .. Connections]
<1> DEFINE D == 1 .. Connections
           F == [p \in D \X Nets |-> ConnectOne(p[2], p[1])]
           Solves(g) == g = [s \in SUBSET D |->
                               IF s = {} THEN NoNet(have)
                               ELSE ConnectOne(g[s \ {Max(s)}], Max(s))]
<1>1. IsFiniteSet(D) /\ D \subseteq Int
  BY Sizes, FS_Interval
<1>2. NoNet(have) \in Nets
  BY DEF NoNet, Nets
<1>3. F \in [D \X Nets -> Nets]
  BY <1>1, ConnectOneIsNet
<1>4. PICK g \in [SUBSET D -> Nets] : IsFold(g, D, NoNet(have), F)
  <2> HIDE DEF F, D
  <2> QED
    BY <1>1, <1>2, <1>3, FoldExists
<1>5. \A s \in SUBSET D : s # {} => Max(s) \in s
  BY <1>1, FS_Subset, MaxIsLargest
<1>6. \A s \in SUBSET D :
        g[s] = IF s = {} THEN NoNet(have) ELSE ConnectOne(g[s \ {Max(s)}], Max(s))
  BY <1>4, <1>5 DEF IsFold
<1>7. Solves(g)
  BY <1>6
<1> DEFINE h == CHOOSE f : Solves(f)
<1>8. Solves(h)
  <2> HIDE DEF Solves
  <2> QED
    BY <1>7
<1>9. Connect(have) = h[D]
  BY DEF Connect, ForEach, MapThenFoldSet, NoNet
<1>10. /\ h[{}] = NoNet(have)
       /\ \A s \in SUBSET D : s # {} => h[s] = ConnectOne(h[s \ {Max(s)}], Max(s))
  <2> HIDE DEF h
  <2> QED
    BY <1>8
<1> QED
  BY <1>9, <1>10

(* What the loop has created when it ends. *)
LEMMA ConnectKeeps ==
  ASSUME m_download_point \in Nat, NEW have, IsRanges(have, Size)
  PROVE  NetInv(Connect(have), have, Connections)
<1> DEFINE D == 1 .. Connections
<1>1. have \in RangeMaps
  BY RangesAreMaps
<1>2. PICK g : /\ g[{}] = NoNet(have)
               /\ \A s \in SUBSET D : s # {} => g[s] = ConnectOne(g[s \ {Max(s)}], Max(s))
               /\ Connect(have) = g[D]
  BY <1>1, ConnectIsFold
<1> DEFINE G == {s \in SUBSET D : \A n \in Nat : s \subseteq 1 .. n => NetInv(g[s], have, n)}
<1>3. IsFiniteSet(D) /\ D \subseteq Int
  BY Sizes, FS_Interval
<1>4. {} \in G
  <2>1. NoNet(have) \in Nets
    BY <1>1 DEF NoNet, Nets
  <2>2. NoNet(have).streams = <<>> /\ NoNet(have).ranges = have
    BY DEF NoNet
  <2>3. \A n \in Nat : NetInv(NoNet(have), have, n)
    BY <2>1, <2>2 DEF NetInv, ClaimsApart, Claimed
  <2> QED
    BY <1>2, <2>3
<1>5. ASSUME NEW s \in SUBSET D, s # {}, s \ {Max(s)} \in G
      PROVE  s \in G
  <2> DEFINE x == Max(s)
             u == s \ {x}
  <2>1. x \in s /\ x \in Int /\ \A y \in u : y < x
    BY <1>3, <1>5, FS_Subset, MaxIsLargest
  <2>2. g[s] = ConnectOne(g[u], x)
    BY <1>2, <1>5
  <2> HIDE DEF x
  <2>3. x \in Nat /\ x > 0 /\ x - 1 \in Nat
    BY <2>1
  <2>4. u \subseteq 1 .. (x - 1)
    BY <2>1, <2>3
  <2>5. u \in G
    BY <1>5 DEF x
  <2>6. NetInv(g[u], have, x - 1)
    BY <2>3, <2>4, <2>5
  <2> HIDE DEF u, G
  <2>7. NetInv(g[s], have, x)
    BY <2>2, <2>3, <2>6, ConnectOneKeeps
  <2>8. ASSUME NEW n \in Nat, s \subseteq 1 .. n
        PROVE  NetInv(g[s], have, n)
    <3>1. x <= n
      BY <2>1, <2>8
    <3>2. Len(g[s].streams) <= x /\ Len(g[s].streams) \in Nat
      BY <2>7 DEF NetInv, Nets
    <3>3. Len(g[s].streams) <= n
      BY <2>3, <3>1, <3>2
    <3> QED
      BY <2>7, <3>3 DEF NetInv
  <2> QED
    BY <2>8 DEF G
<1> HIDE DEF G
<1>6. SUBSET D \subseteq G
  <2> HIDE DEF D
  <2>1. \A s \in SUBSET D : s # {} /\ s \ {Max(s)} \in G => s \in G
    BY <1>5
  <2> QED
    BY <1>3, <1>4, <2>1, SubsetInduction
<1>7. D \in G /\ D \subseteq 1 .. Connections
  BY <1>6
<1> QED
  BY <1>2, <1>7, Sizes DEF G

-----------------------------------------------------------------------------
(* on_tick's loop over the connections. *)

(* The values of the loop's variables, for n connections. *)
Rounds(n) ==
  [streams : {q \in Seq(Streams) : Len(q) = n}, ranges : RangeMaps,
   late : SUBSET Replaced(n), abort : BOOLEAN]

(* A connection that is replaced or left goes on. *)
LEMMA VisitGoes ==
  ASSUME m_download_point \in Nat, NEW n \in Nat, NEW acc \in Rounds(n), NEW i \in 1 .. n,
         NEW expired, NEW v, v = Visit(acc, i, expired)
  PROVE  /\ v \in Rounds(n)
         /\ v.streams = [acc.streams EXCEPT ![i] = v.streams[i]]
         /\ Goes(acc.streams[i], 0, acc.ranges, v.streams[i], v.ranges)
<1> DEFINE s == acc.streams[i]
           copy == [s EXCEPT !.direct = FALSE, !.wide = FALSE, !.op = "open"]
           gone == [s EXCEPT !.done = TRUE]
           a == Allocate(acc.ranges)
           missed == {[slot |-> i, stream |-> s, caught |-> op = "read"] :
                        op \in {s.op} \cap {"read", "open"}}
           more == acc.late \cup missed
           fresh == [copy EXCEPT !.left = a.request.left, !.right = a.request.right, !.xfer = 0]
<1>1. /\ acc.streams \in Seq(Streams) /\ Len(acc.streams) = n /\ i \in DOMAIN acc.streams
      /\ acc.ranges \in RangeMaps /\ IsRanges(acc.ranges, Size)
      /\ acc.late \in SUBSET Replaced(n) /\ acc.abort \in BOOLEAN
      /\ s \in Streams /\ s \in StreamRecords
  <2>1. /\ acc.streams \in Seq(Streams) /\ Len(acc.streams) = n
        /\ acc.ranges \in RangeMaps
        /\ acc.late \in SUBSET Replaced(n) /\ acc.abort \in BOOLEAN
    BY DEF Rounds
  <2>2. i \in DOMAIN acc.streams /\ s \in Streams
    BY <2>1
  <2> QED
    BY <2>1, <2>2, StreamFields DEF RangeMaps
<1>2. more \in SUBSET Replaced(n)
  <2>1. ASSUME NEW op PROVE [slot |-> i, stream |-> s, caught |-> op = "read"] \in Replaced(n)
    <3> DEFINE b == op = "read"
    <3>1. b \in BOOLEAN
      OBVIOUS
    <3> HIDE DEF b, s
    <3>2. [slot |-> i, stream |-> s, caught |-> b] \in Replaced(n)
      BY <1>1, <3>1 DEF Replaced
    <3> QED
      BY <3>2 DEF b
  <2>2. missed \subseteq Replaced(n)
    <3> HIDE DEF s
    <3> QED
      BY <2>1
  <2> QED
    BY <1>1, <2>2
<1>3. ASSUME NEW t \in Streams, NEW m, NEW late1 \in SUBSET Replaced(n), NEW b \in BOOLEAN,
             v = [streams |-> [acc.streams EXCEPT ![i] = t], ranges |-> m, late |-> late1, abort |-> b],
             Goes(s, 0, acc.ranges, t, m)
      PROVE  /\ v \in Rounds(n)
             /\ v.streams = [acc.streams EXCEPT ![i] = v.streams[i]]
             /\ Goes(acc.streams[i], 0, acc.ranges, v.streams[i], v.ranges)
  <2> DEFINE q == [acc.streams EXCEPT ![i] = t]
  <2>1. q \in Seq(Streams) /\ Len(q) = n /\ q[i] = t
    BY <1>1, PutStream
  <2>2. v.streams = q /\ v.ranges = m
    BY <1>3
  <2>3. m \in RangeMaps
    BY <1>3, RangesAreMaps DEF Goes
  <2>4. v \in Rounds(n)
    <3> HIDE DEF q
    <3>1. v = [streams |-> q, ranges |-> m, late |-> late1, abort |-> b]
      BY <1>3 DEF q
    <3> QED
      BY <2>1, <2>3, <3>1 DEF Rounds
  <2> QED
    BY <1>3, <2>1, <2>2, <2>4
<1>4. /\ copy \in Streams /\ gone \in Streams /\ NothingLeft(copy) \in Streams
      /\ copy.left = s.left /\ copy.right = s.right /\ copy.xfer = s.xfer /\ copy.done = s.done
      /\ gone.left = s.left /\ gone.right = s.right /\ gone.xfer = s.xfer /\ gone.done = TRUE
      /\ NothingLeft(copy).left = s.left /\ NothingLeft(copy).right = s.right
      /\ NothingLeft(copy).xfer = s.xfer /\ NothingLeft(copy).done = TRUE
  <2>1. /\ copy \in StreamRecords
        /\ copy.left = s.left /\ copy.right = s.right /\ copy.xfer = s.xfer /\ copy.done = s.done
    BY <1>1 DEF StreamRecords, Ops
  <2>2. /\ gone \in StreamRecords
        /\ gone.left = s.left /\ gone.right = s.right /\ gone.xfer = s.xfer /\ gone.done = TRUE
    BY <1>1 DEF StreamRecords, Ops
  <2> HIDE DEF copy, gone
  <2>3. /\ NothingLeft(copy) \in StreamRecords
        /\ NothingLeft(copy).left = copy.left /\ NothingLeft(copy).right = copy.right
        /\ NothingLeft(copy).xfer = copy.xfer /\ NothingLeft(copy).done = TRUE
    BY <2>1 DEF StreamRecords, Ops, NothingLeft
  <2> HIDE DEF s
  <2> QED
    BY <1>1, <2>1, <2>2, <2>3, StreamsFrom
<1>5. s.xfer + 0 = s.xfer
  BY <1>1, StreamFields
<1>6. /\ Goes(s, 0, acc.ranges, s, acc.ranges)
      /\ Goes(s, 0, acc.ranges, copy, acc.ranges)
      /\ Goes(s, 0, acc.ranges, gone, acc.ranges)
  BY <1>1, <1>4, <1>5 DEF Goes
<1>7. /\ IsRanges(a.ranges, Size)
      /\ \/ /\ a.ok = TRUE
            /\ a.request.left \in File /\ a.request.right \in File
            /\ (a.request.left .. a.request.right) \cap Covered(acc.ranges) = {}
            /\ Covered(a.ranges) = Covered(acc.ranges) \cup (a.request.left .. a.request.right)
         \/ a.ok = FALSE /\ Covered(a.ranges) = Covered(acc.ranges)
  <2> HIDE DEF a
  <2>1. a = Allocate(acc.ranges)
    BY DEF a
  <2> QED
    BY <1>1, <2>1, AllocateHere
<1>8. CASE ~(~m_streams[i].done /\ (i \in expired \/ m_streams[i].direct))
  <2>1. v = acc
    BY <1>8 DEF Visit
  <2>2. v = [streams |-> [acc.streams EXCEPT ![i] = s], ranges |-> acc.ranges,
             late |-> acc.late, abort |-> acc.abort]
    BY <1>1, <2>1 DEF Rounds
  <2> QED
    BY <1>1, <1>3, <1>6, <2>2
<1>9. CASE ~m_streams[i].done /\ (i \in expired \/ m_streams[i].direct)
  <2>1. v = Reconnect(acc, i)
    BY <1>9 DEF Visit
  <2>2. CASE s.refused
    <3>1. v = [streams |-> [acc.streams EXCEPT ![i] = gone], ranges |-> acc.ranges,
               late |-> acc.late, abort |-> acc.abort]
      BY <1>1, <2>1, <2>2 DEF Reconnect, Rounds
    <3> QED
      BY <1>1, <1>3, <1>4, <1>6, <3>1
  <2>3. CASE ~s.refused /\ ~m_accept_multi
    <3>1. v = [streams |-> [acc.streams EXCEPT ![i] = gone], ranges |-> acc.ranges,
               late |-> acc.late, abort |-> TRUE]
      BY <1>1, <2>1, <2>3 DEF Reconnect, Rounds
    <3> QED
      BY <1>1, <1>3, <1>4, <1>6, <3>1
  <2>4. CASE ~s.refused /\ m_accept_multi /\ s.right - Position(s) > 0
    <3>1. v = [streams |-> [acc.streams EXCEPT ![i] = copy], ranges |-> acc.ranges,
               late |-> more, abort |-> acc.abort]
      BY <1>1, <2>1, <2>4 DEF Reconnect, Rounds
    <3> QED
      BY <1>1, <1>2, <1>3, <1>4, <1>6, <3>1
  <2>5. CASE ~s.refused /\ m_accept_multi /\ ~(s.right - Position(s) > 0)
    <3>1. v = [streams |-> [acc.streams EXCEPT ![i] = IF a.ok THEN fresh ELSE NothingLeft(copy)],
               ranges |-> a.ranges, late |-> more, abort |-> acc.abort]
      BY <1>1, <2>1, <2>5 DEF Reconnect, Rounds
    <3>2. CASE a.ok = TRUE
      <4>1. /\ fresh \in StreamRecords
            /\ fresh.left = a.request.left /\ fresh.right = a.request.right /\ fresh.xfer = 0
        <5>1. copy \in StreamRecords
          BY <1>4, StreamFields
        <5> HIDE DEF copy, a
        <5> QED
          BY <1>7, <3>2, <5>1 DEF StreamRecords
      <4>2. v = [streams |-> [acc.streams EXCEPT ![i] = fresh],
                 ranges |-> a.ranges, late |-> more, abort |-> acc.abort]
        BY <3>1, <3>2
      <4> HIDE DEF fresh, a
      <4>3. fresh \in Streams
        BY <1>1, <4>1, StreamsFrom
      <4>4. Goes(s, 0, acc.ranges, fresh, a.ranges)
        BY <1>7, <3>2, <4>1, <4>3 DEF Goes
      <4> QED
        BY <1>1, <1>2, <1>3, <4>2, <4>3, <4>4
    <3>3. CASE a.ok = FALSE
      <4>1. v = [streams |-> [acc.streams EXCEPT ![i] = NothingLeft(copy)],
                 ranges |-> a.ranges, late |-> more, abort |-> acc.abort]
        BY <3>1, <3>3
      <4> HIDE DEF a
      <4>2. Goes(s, 0, acc.ranges, NothingLeft(copy), a.ranges)
        BY <1>4, <1>5, <1>7, <3>3 DEF Goes
      <4> QED
        BY <1>1, <1>2, <1>3, <1>4, <4>1, <4>2
    <3> QED
      BY <1>7, <3>2, <3>3
  <2> QED
    BY <2>2, <2>3, <2>4, <2>5
<1> QED
  BY <1>8, <1>9

FirstRound ==
  [streams |-> m_streams, ranges |-> m_rangefield, late |-> late, abort |-> FALSE]

(* g is what on_tick's loop has made of its variables when it has visited  *)
(* the connections s, for every s.                                         *)
IsVisitOf(g, expired) ==
  /\ g[{}] = FirstRound
  /\ \A s \in SUBSET (1 .. Len(m_streams)) :
       s # {} => g[s] = Visit(g[s \ {Max(s)}], Max(s), expired)

(* on_tick's loop begins with what on_tick finds. *)
LEMMA FirstRoundIsRound ==
  ASSUME TypeInv
  PROVE  FirstRound \in Rounds(Len(m_streams))
<1>1. m_rangefield \in RangeMaps
  BY RangesAreMaps DEF TypeInv, FieldsInv
<1> QED
  BY <1>1 DEF TypeInv, StreamsInv, FirstRound, Rounds

(* on_tick's loop visits the connections from the first on. *)
LEMMA VisitAllIsFold ==
  ASSUME TypeInv, NEW expired
  PROVE  \E g : IsVisitOf(g, expired) /\ VisitAll(expired) = g[1 .. Len(m_streams)]
<1> DEFINE N == Len(m_streams)
           D == 1 .. N
           A == Rounds(N)
           F == [p \in D \X A |-> Visit(p[2], p[1], expired)]
           Solves(g) == g = [s \in SUBSET D |->
                               IF s = {} THEN FirstRound
                               ELSE Visit(g[s \ {Max(s)}], Max(s), expired)]
<1>1. IsFiniteSet(D) /\ D \subseteq Int /\ N \in Nat
  <2>1. N \in Nat
    BY DEF TypeInv, StreamsInv
  <2> HIDE DEF N
  <2> QED
    BY <2>1, FS_Interval
<1>2. FirstRound \in A
  BY FirstRoundIsRound
<1>3. F \in [D \X A -> A]
  <2>1. ASSUME NEW acc \in A, NEW i \in D
        PROVE  Visit(acc, i, expired) \in A
    <3>0. m_download_point \in Nat
      BY DEF TypeInv, ModesInv
    <3> DEFINE v == Visit(acc, i, expired)
    <3> HIDE DEF v, N
    <3>1. v = Visit(acc, i, expired)
      BY DEF v
    <3>2. v \in Rounds(N)
      BY <1>1, <3>0, <3>1, VisitGoes
    <3> QED
      BY <3>2 DEF v
  <2> HIDE DEF A, D
  <2> QED
    BY <2>1
<1>4. PICK g \in [SUBSET D -> A] : IsFold(g, D, FirstRound, F)
  <2> HIDE DEF F, D, A
  <2> QED
    BY <1>1, <1>2, <1>3, FoldExists
<1>5. \A s \in SUBSET D : s # {} => Max(s) \in s
  BY <1>1, FS_Subset, MaxIsLargest
<1>6. \A s \in SUBSET D :
        g[s] = IF s = {} THEN FirstRound ELSE Visit(g[s \ {Max(s)}], Max(s), expired)
  BY <1>4, <1>5 DEF IsFold
<1>7. Solves(g)
  BY <1>6
<1> DEFINE h == CHOOSE f : Solves(f)
<1>8. Solves(h)
  <2> HIDE DEF Solves
  <2> QED
    BY <1>7
<1>9. VisitAll(expired) = h[D]
  BY DEF VisitAll, ForEach, MapThenFoldSet, FirstRound
<1>10. IsVisitOf(h, expired)
  <2> HIDE DEF h
  <2> QED
    BY <1>8 DEF IsVisitOf
<1> QED
  BY <1>9, <1>10

(* While the loop runs the claims stay apart and no hole comes up. *)
RoundInv(acc) ==
  /\ acc \in Rounds(Len(m_streams))
  /\ m_accept_multi => ClaimsApart(acc.streams, acc.ranges)
  /\ NoHoles(m_streams, written) => NoHoles(acc.streams, written)

(* A visit keeps what the loop keeps. *)
LEMMA VisitKeeps ==
  ASSUME TypeInv, NEW acc, RoundInv(acc), NEW i \in 1 .. Len(m_streams), NEW expired
  PROVE  RoundInv(Visit(acc, i, expired))
<1> DEFINE v == Visit(acc, i, expired)
           t == v.streams[i]
           N == Len(m_streams)
<1>0. m_download_point \in Nat /\ N \in Nat
  BY DEF TypeInv, ModesInv, StreamsInv
<1>1. acc \in Rounds(N)
  BY DEF RoundInv
<1>2. /\ v \in Rounds(N)
      /\ v.streams = [acc.streams EXCEPT ![i] = t]
      /\ Goes(acc.streams[i], 0, acc.ranges, t, v.ranges)
  <2>1. v = Visit(acc, i, expired)
    OBVIOUS
  <2> HIDE DEF v, N
  <2>2. i \in 1 .. N
    BY DEF N
  <2> QED
    BY <1>0, <1>1, <2>1, <2>2, VisitGoes
<1> HIDE DEF v, t
<1>3. acc.streams \in Seq(Streams) /\ i \in DOMAIN acc.streams
  BY <1>1 DEF Rounds
<1>4. ASSUME m_accept_multi
      PROVE  ClaimsApart(v.streams, v.ranges)
  <2> DEFINE q == acc.streams
             m == acc.ranges
             n == v.ranges
  <2>1. ClaimsApart(q, m) /\ q \in Seq(Streams) /\ i \in DOMAIN q /\ Goes(q[i], 0, m, t, n)
    BY <1>2, <1>3, <1>4 DEF RoundInv
  <2>2. v.streams = [q EXCEPT ![i] = t]
    BY <1>2
  <2> HIDE DEF q, m, n
  <2>3. ClaimsApart([q EXCEPT ![i] = t], n)
    BY <2>1, GoesKeepsClaims
  <2> QED
    BY <2>2, <2>3 DEF n
<1>5. ASSUME NoHoles(m_streams, written)
      PROVE  NoHoles(v.streams, written)
  <2>1. NoHoles(acc.streams, written)
    BY <1>5 DEF RoundInv
  <2>2. Bytes(Position(acc.streams[i]), Position(acc.streams[i]) + 0) \subseteq written
    <3>1. Position(acc.streams[i]) \in Nat
      BY <1>3, StreamFields
    <3> QED
      BY <3>1 DEF Bytes
  <2> QED
    BY <1>2, <1>3, <2>1, <2>2, GoesKeepsHoles
<1> QED
  BY <1>2, <1>4, <1>5 DEF RoundInv, v

(* What on_tick's loop leaves behind. *)
LEMMA VisitAllKeeps ==
  ASSUME TypeInv, m_accept_multi => ClaimsApart(m_streams, m_rangefield), NEW expired
  PROVE  RoundInv(VisitAll(expired))
<1> DEFINE D == 1 .. Len(m_streams)
<1>1. PICK g : IsVisitOf(g, expired) /\ VisitAll(expired) = g[D]
  BY VisitAllIsFold
<1> DEFINE G == {s \in SUBSET D : RoundInv(g[s])}
<1>2. IsFiniteSet(D) /\ D \subseteq Int
  <2> DEFINE N == Len(m_streams)
  <2>1. N \in Nat
    BY DEF TypeInv, StreamsInv
  <2> HIDE DEF N
  <2>2. IsFiniteSet(1 .. N) /\ 1 .. N \subseteq Int
    BY <2>1, FS_Interval
  <2> QED
    BY <2>2 DEF N
<1>3. {} \in G
  <2>1. RoundInv(FirstRound)
    <3>1. /\ FirstRound.streams = m_streams /\ FirstRound.ranges = m_rangefield
      BY DEF FirstRound
    <3> QED
      BY <3>1, FirstRoundIsRound DEF RoundInv
  <2> QED
    BY <1>1, <2>1 DEF IsVisitOf
<1>4. ASSUME NEW s \in SUBSET D, s # {}, s \ {Max(s)} \in G
      PROVE  s \in G
  <2> DEFINE x == Max(s)
             u == s \ {x}
  <2>1. x \in D
    BY <1>2, <1>4, FS_Subset, MaxIsLargest
  <2>2. g[s] = Visit(g[u], x, expired)
    BY <1>1, <1>4 DEF IsVisitOf
  <2>3. RoundInv(g[u])
    BY <1>4
  <2> HIDE DEF x, u
  <2> QED
    BY <2>1, <2>2, <2>3, VisitKeeps
<1>5. SUBSET D \subseteq G
  <2> HIDE DEF G, D
  <2>1. \A s \in SUBSET D : s # {} /\ s \ {Max(s)} \in G => s \in G
    BY <1>4
  <2> QED
    BY <1>2, <1>3, <2>1, SubsetInduction
<1>6. RoundInv(g[D])
  BY <1>5
<1> QED
  BY <1>1, <1>6

-----------------------------------------------------------------------------
(* The invariant.                                                          *)

ClaimsInv == m_accept_multi => ClaimsApart(m_streams, m_rangefield)

(* As long as no write fails, what the memory and the meta file say is in  *)
(* the file, and so is what lies behind a connection, unless it has        *)
(* counted bytes of a CRLF.                                                *)
WrittenInv ==
  "storage" \notin Faults =>
    /\ Downloaded \subseteq written
    /\ "framing" \notin Faults => NoHoles(m_streams, written)
    /\ MetaSound(meta, written)

SafeInv == TypeInv /\ ClaimsInv /\ WrittenInv /\ HeadIsDownloaded

(* The bitfield and the written bytes only get better. *)
LEMMA SoundStays ==
  ASSUME NEW bf, NEW w, NEW v, w \subseteq v, MetaSound(bf, w)
  PROVE  MetaSound(bf, v)
BY DEF MetaSound

(* One connection goes on, having received k bytes. *)
LEMMA OneGoes ==
  ASSUME SafeInv, NEW i \in DOMAIN m_streams, NEW k \in Nat, NEW t,
         Goes(m_streams[i], k, m_rangefield, t, m_rangefield'),
         m_streams' = [m_streams EXCEPT ![i] = t],
         IsRanges(m_downlaoded_field', Size),
         Covered(m_downlaoded_field') \subseteq Covered(m_downlaoded_field)
              \cup Bytes(Position(m_streams[i]), Position(m_streams[i]) + k),
         written \subseteq written', written' \subseteq File,
         "storage" \notin Faults =>
           \/ Bytes(Position(m_streams[i]), Position(m_streams[i]) + k) \subseteq written'
           \/ "framing" \in Faults /\ m_downlaoded_field' = m_downlaoded_field,
         m_abort' \in BOOLEAN, fetched' = {},
         UNCHANGED <<modes, m_download_point, late, ticking, disk>>
  PROVE  SafeInv'
<1>1. /\ m_streams \in Seq(Streams) /\ Len(m_streams) <= Connections
      /\ late \subseteq Replaced(Len(m_streams))
      /\ phase # "starting"
  BY DEF SafeInv, TypeInv, StreamsInv
<1>2. t \in Streams /\ IsRanges(m_rangefield', Size)
  BY DEF Goes
<1>3. m_streams' \in Seq(Streams) /\ Len(m_streams') = Len(m_streams)
  BY <1>1, <1>2, PutStream
<1>4. TypeInv'
  <2>1. ModesInv'
    BY DEF SafeInv, TypeInv, ModesInv, modes, disk
  <2>2. FieldsInv'
    BY <1>2 DEF FieldsInv
  <2>3. StreamsInv'
    BY <1>1, <1>3 DEF StreamsInv, modes, Replaced
  <2> QED
    BY <2>1, <2>2, <2>3 DEF TypeInv
<1>5. ClaimsInv'
  <2>1. ASSUME m_accept_multi
        PROVE  ClaimsApart(m_streams', m_rangefield')
    <3>1. ClaimsApart(m_streams, m_rangefield)
      BY <2>1 DEF SafeInv, ClaimsInv
    <3>2. ClaimsApart([m_streams EXCEPT ![i] = t], m_rangefield')
      BY <1>1, <3>1, GoesKeepsClaims
    <3> QED
      BY <3>2
  <2> QED
    BY <2>1 DEF ClaimsInv, modes, ClaimsApart, Claim, Covered, Position, Bytes
<1>6. WrittenInv'
  <2>1. ASSUME "storage" \notin Faults
        PROVE  /\ Downloaded' \subseteq written'
               /\ "framing" \notin Faults => NoHoles(m_streams', written')
               /\ MetaSound(meta, written')
    <3>1. /\ Downloaded \subseteq written
          /\ "framing" \notin Faults => NoHoles(m_streams, written)
          /\ MetaSound(meta, written)
      BY <2>1 DEF SafeInv, WrittenInv
    <3>2. Downloaded' \subseteq written'
      BY <2>1, <3>1 DEF Downloaded, Covered, Bytes
    <3>3. ASSUME "framing" \notin Faults
          PROVE  NoHoles([m_streams EXCEPT ![i] = t], written')
      BY <1>1, <2>1, <3>1, <3>3, GoesKeepsHoles
    <3> QED
      BY <3>1, <3>2, <3>3, SoundStays
  <2> QED
    BY <2>1 DEF WrittenInv, disk, NoHoles, MetaSound, BehindIt, Position, PieceBytes
<1>7. HeadIsDownloaded'
  BY DEF HeadIsDownloaded
<1> QED
  BY <1>4, <1>5, <1>6, <1>7 DEF SafeInv

(* A connection that only changes its operation. *)
LEMMA OpGoes ==
  ASSUME IsRanges(m_rangefield, Size), NEW s \in Streams, NEW t \in StreamRecords,
         t.left = s.left, t.right = s.right, t.xfer = s.xfer, t.done = s.done
  PROVE  Goes(s, 0, m_rangefield, t, m_rangefield)
<1>1. t \in Streams
  BY StreamsFrom
<1>2. s.xfer + 0 = s.xfer
  BY StreamFields
<1> QED
  BY <1>1, <1>2 DEF Goes

(* handle_open and handle_request keep the invariant. *)
LEMMA OpenOrRequestSafe ==
  ASSUME SafeInv, NEW i \in DOMAIN m_streams, HandleOpenOrRequest(i)
  PROVE  SafeInv'
<1> DEFINE s == m_streams[i]
<1>1. /\ m_streams \in Seq(Streams) /\ s \in Streams /\ s \in StreamRecords
      /\ IsRanges(m_rangefield, Size) /\ IsRanges(m_downlaoded_field, Size)
      /\ m_abort \in BOOLEAN /\ m_accept_multi \in BOOLEAN /\ written \subseteq File
  <2>1. m_streams \in Seq(Streams) /\ s \in Streams
    BY DEF SafeInv, TypeInv, StreamsInv
  <2> QED
    BY <2>1, StreamFields DEF SafeInv, TypeInv, FieldsInv, ModesInv
<1>2. \E t \in StreamRecords :
        /\ m_streams' = [m_streams EXCEPT ![i] = t]
        /\ t.left = s.left /\ t.right = s.right /\ t.xfer = s.xfer /\ t.done = s.done
  <2>1. CASE m_streams' = [m_streams EXCEPT ![i].op = "read"]
    <3> DEFINE t == [s EXCEPT !.op = "read"]
    <3>1. /\ t \in StreamRecords
          /\ t.left = s.left /\ t.right = s.right /\ t.xfer = s.xfer /\ t.done = s.done
      BY <1>1 DEF StreamRecords, Ops
    <3>2. m_streams' = [m_streams EXCEPT ![i] = t]
      BY <2>1
    <3> QED
      BY <3>1, <3>2
  <2>2. ASSUME NEW r \in BOOLEAN, GiveUp(i, r)
        PROVE  \E t \in StreamRecords :
                 /\ m_streams' = [m_streams EXCEPT ![i] = t]
                 /\ t.left = s.left /\ t.right = s.right /\ t.xfer = s.xfer /\ t.done = s.done
    <3> DEFINE t == [s EXCEPT !.op = "none", !.refused = r]
    <3>1. /\ t \in StreamRecords
          /\ t.left = s.left /\ t.right = s.right /\ t.xfer = s.xfer /\ t.done = s.done
      BY <1>1 DEF StreamRecords, Ops
    <3>2. m_streams' = [m_streams EXCEPT ![i] = t]
      BY <1>1, <2>2 DEF GiveUp
    <3> QED
      BY <3>1, <3>2
  <2> QED
    BY <2>1, <2>2 DEF HandleOpenOrRequest
<1>3. PICK t \in StreamRecords :
        /\ m_streams' = [m_streams EXCEPT ![i] = t]
        /\ t.left = s.left /\ t.right = s.right /\ t.xfer = s.xfer /\ t.done = s.done
  BY <1>2
<1>4. Goes(s, 0, m_rangefield, t, m_rangefield)
  BY <1>1, <1>3, OpGoes
<1>5. /\ m_abort' \in BOOLEAN /\ fetched' = {}
      /\ UNCHANGED <<modes, m_download_point, m_rangefield, m_downlaoded_field, late,
                     ticking, written, disk>>
  BY <1>1 DEF HandleOpenOrRequest, GiveUp
<1>6. Bytes(Position(s), Position(s) + 0) = {}
  <2>1. Position(s) \in Nat
    BY <1>1, StreamFields
  <2> QED
    BY <2>1 DEF Bytes
<1>7. /\ IsRanges(m_downlaoded_field', Size)
      /\ Covered(m_downlaoded_field')
           \subseteq Covered(m_downlaoded_field) \cup Bytes(Position(s), Position(s) + 0)
      /\ Goes(s, 0, m_rangefield, t, m_rangefield')
      /\ written \subseteq written' /\ written' \subseteq File
      /\ Bytes(Position(s), Position(s) + 0) \subseteq written'
  BY <1>1, <1>4, <1>5, <1>6
<1>8. UNCHANGED <<modes, m_download_point, late, ticking, disk>>
  BY <1>5
<1> QED
  BY <1>3, <1>5, <1>7, <1>8, OneGoes

(* A connection that has received k bytes and goes on without them being   *)
(* counted, goes on with them from before.                                 *)
LEMMA GoesFrom ==
  ASSUME NEW s \in Streams, NEW k \in Nat, NEW u \in Streams,
         u.left = s.left, u.right = s.right, u.xfer = s.xfer + k, u.done = s.done,
         NEW m, NEW t, NEW n, Goes(u, 0, m, t, n)
  PROVE  Goes(s, k, m, t, n)
<1>1. u.xfer + 0 = u.xfer
  BY StreamFields
<1> QED
  BY <1>1 DEF Goes

(* handle_read keeps the invariant, *)
LEMMA ReadSafe ==
  ASSUME SafeInv, NEW i \in DOMAIN m_streams, HandleRead(i)
  PROVE  SafeInv'
<1> DEFINE s == m_streams[i]
<1>1. /\ m_streams \in Seq(Streams) /\ s \in Streams /\ s \in StreamRecords
      /\ IsRanges(m_rangefield, Size) /\ IsRanges(m_downlaoded_field, Size)
      /\ m_download_point \in Nat
      /\ m_abort \in BOOLEAN /\ written \subseteq File
  <2>1. m_streams \in Seq(Streams) /\ s \in Streams
    BY DEF SafeInv, TypeInv, StreamsInv
  <2> QED
    BY <2>1, StreamFields DEF SafeInv, TypeInv, FieldsInv, ModesInv
<1>2. PICK n \in Arrivals(s) :
        LET u == [s EXCEPT !.xfer = @ + n] IN
        /\ Save(s, n)
        /\ IF m_abort \/ (~m_accept_multi /\ u.xfer = Size)
           THEN /\ m_streams' = [m_streams EXCEPT ![i] = [u EXCEPT !.op = "none"]]
                /\ m_abort' = TRUE
                /\ UNCHANGED m_rangefield
           ELSE /\ \E after \in {AfterRead(u, i)} :
                     /\ m_streams' = [m_streams EXCEPT ![i] = after.stream]
                     /\ m_rangefield' = after.ranges
                /\ UNCHANGED m_abort
  BY DEF HandleRead
<1> DEFINE u == [s EXCEPT !.xfer = @ + n]
           over == [u EXCEPT !.op = "none"]
           after == AfterRead(u, i)
<1>3. /\ u \in Streams /\ u \in StreamRecords /\ n \in Nat /\ n > 0 /\ Position(s) + n <= Size
      /\ u.left = s.left /\ u.right = s.right /\ u.xfer = s.xfer + n /\ u.done = s.done
  <2>1. u \in Streams /\ n \in Nat /\ n > 0 /\ Position(s) + n <= Size
    BY <1>1, ArrivalsFit
  <2>2. u.left = s.left /\ u.right = s.right /\ u.xfer = s.xfer + n /\ u.done = s.done
    BY <1>1 DEF StreamRecords
  <2> QED
    BY <2>1, <2>2, StreamFields
<1> HIDE DEF u
<1>4. \E t : /\ m_streams' = [m_streams EXCEPT ![i] = t]
             /\ Goes(s, n, m_rangefield, t, m_rangefield')
  <2>1. CASE m_abort \/ (~m_accept_multi /\ u.xfer = Size)
    <3>1. /\ over \in StreamRecords
          /\ over.left = u.left /\ over.right = u.right /\ over.xfer = u.xfer
          /\ over.done = u.done
      BY <1>3 DEF StreamRecords, Ops
    <3>2. Goes(u, 0, m_rangefield, over, m_rangefield)
      <4> HIDE DEF over
      <4> QED
        BY <1>1, <1>3, <3>1, OpGoes
    <3>3. m_streams' = [m_streams EXCEPT ![i] = over] /\ m_rangefield' = m_rangefield
      BY <1>2, <2>1 DEF u
    <3> HIDE DEF over
    <3>4. Goes(s, n, m_rangefield, over, m_rangefield)
      BY <1>1, <1>3, <3>2, GoesFrom
    <3> QED
      BY <3>3, <3>4
  <2>2. CASE ~(m_abort \/ (~m_accept_multi /\ u.xfer = Size))
    <3>1. m_streams' = [m_streams EXCEPT ![i] = after.stream] /\ m_rangefield' = after.ranges
      BY <1>2, <2>2 DEF u
    <3>2. Goes(u, 0, m_rangefield, after.stream, after.ranges)
      <4>1. after = AfterRead(u, i)
        OBVIOUS
      <4> HIDE DEF after
      <4> QED
        BY <1>1, <1>3, <4>1, AfterReadGoes
    <3> HIDE DEF after
    <3>3. Goes(s, n, m_rangefield, after.stream, after.ranges)
      BY <1>1, <1>3, <3>2, GoesFrom
    <3> QED
      BY <3>1, <3>3
  <2> QED
    BY <2>1, <2>2
<1>5. PICK t : /\ m_streams' = [m_streams EXCEPT ![i] = t]
               /\ Goes(s, n, m_rangefield, t, m_rangefield')
  BY <1>4
<1>6. /\ IsRanges(m_downlaoded_field', Size)
      /\ Covered(m_downlaoded_field')
           \subseteq Covered(m_downlaoded_field) \cup Bytes(Position(s), Position(s) + n)
      /\ written \subseteq written' /\ written' \subseteq File
      /\ "storage" \notin Faults => Bytes(Position(s), Position(s) + n) \subseteq written'
  BY <1>1, <1>2, <1>3, SaveAdds
<1>7. /\ m_abort' \in BOOLEAN /\ fetched' = {}
      /\ UNCHANGED <<modes, m_download_point, late, ticking, disk>>
  <2>1. m_abort' \in BOOLEAN
    BY <1>1, <1>2
  <2> QED
    BY <2>1 DEF HandleRead
<1> QED
  BY <1>3, <1>5, <1>6, <1>7, OneGoes

(* also when the server closes the connection or the read fails, *)
LEMMA ReadErrorSafe ==
  ASSUME SafeInv, NEW i \in DOMAIN m_streams, HandleReadError(i)
  PROVE  SafeInv'
<1> DEFINE s == m_streams[i]
<1>1. /\ m_streams \in Seq(Streams) /\ s \in Streams /\ s \in StreamRecords
      /\ IsRanges(m_rangefield, Size) /\ IsRanges(m_downlaoded_field, Size)
      /\ m_abort \in BOOLEAN /\ m_accept_multi \in BOOLEAN /\ written \subseteq File
  <2>1. m_streams \in Seq(Streams) /\ s \in Streams
    BY DEF SafeInv, TypeInv, StreamsInv
  <2> QED
    BY <2>1, StreamFields DEF SafeInv, TypeInv, FieldsInv, ModesInv
<1>2. PICK n \in Arrivals(s) \cup {0} :
        /\ Save(s, n)
        /\ m_streams' = [m_streams EXCEPT ![i].op = "none", ![i].xfer = @ + n]
  BY DEF HandleReadError, LastBytes
<1> DEFINE t == [s EXCEPT !.op = "none", !.xfer = @ + n]
<1>3. n \in Nat /\ (n = 0 \/ Position(s) + n <= Size)
  <2>1. CASE n \in Arrivals(s)
    BY <1>1, <2>1, ArrivalsFit
  <2>2. CASE n = 0
    BY <2>2
  <2> QED
    BY <2>1, <2>2
<1>4. /\ t \in StreamRecords
      /\ t.left = s.left /\ t.right = s.right /\ t.xfer = s.xfer + n /\ t.done = s.done
  <2>1. s.xfer + n \in Nat
    BY <1>1, <1>3, StreamFields
  <2> DEFINE x == s.xfer + n
  <2>2. t = [s EXCEPT !.op = "none", !.xfer = x] /\ x \in Nat
    BY <2>1
  <2> HIDE DEF x, t
  <2>3. /\ t \in StreamRecords
        /\ t.left = s.left /\ t.right = s.right /\ t.xfer = x /\ t.done = s.done
    BY <1>1, <2>2 DEF StreamRecords, Ops
  <2> QED
    BY <2>3 DEF x
<1>5. m_streams' = [m_streams EXCEPT ![i] = t]
  BY <1>1, <1>2
<1>6. /\ m_abort' \in BOOLEAN /\ fetched' = {} /\ m_rangefield' = m_rangefield
      /\ UNCHANGED <<modes, m_download_point, late, ticking, disk>>
  BY <1>1 DEF HandleReadError
<1> HIDE DEF t
<1>7. Position(t) = Position(s) + n
  BY <1>1, <1>3, <1>4, StreamFields DEF Position
<1>8. Goes(s, n, m_rangefield, t, m_rangefield')
  <2>1. t \in Streams
    BY <1>1, <1>3, <1>4, <1>7, Sizes, StreamFields DEF Streams
  <2> QED
    BY <1>1, <1>4, <1>6, <2>1 DEF Goes
<1>9. /\ IsRanges(m_downlaoded_field', Size)
      /\ Covered(m_downlaoded_field')
           \subseteq Covered(m_downlaoded_field) \cup Bytes(Position(s), Position(s) + n)
      /\ written \subseteq written' /\ written' \subseteq File
      /\ "storage" \notin Faults => Bytes(Position(s), Position(s) + n) \subseteq written'
  BY <1>1, <1>2, <1>3, SaveAdds
<1> QED
  BY <1>3, <1>5, <1>6, <1>8, <1>9, OneGoes

(* or ends with a CRLF that it did not expect, *)
LEMMA MisframedSafe ==
  ASSUME SafeInv, NEW i \in DOMAIN m_streams, HandleReadMisframed(i)
  PROVE  SafeInv'
<1> DEFINE s == m_streams[i]
<1>1. /\ m_streams \in Seq(Streams) /\ s \in Streams /\ s \in StreamRecords
      /\ IsRanges(m_rangefield, Size) /\ IsRanges(m_downlaoded_field, Size)
      /\ m_abort \in BOOLEAN /\ m_accept_multi \in BOOLEAN /\ written \subseteq File
  <2>1. m_streams \in Seq(Streams) /\ s \in Streams
    BY DEF SafeInv, TypeInv, StreamsInv
  <2> QED
    BY <2>1, StreamFields DEF SafeInv, TypeInv, FieldsInv, ModesInv
<1>2. PICK n \in {1, 2} :
        m_streams' = [m_streams EXCEPT ![i].op = "none", ![i].xfer = @ + n]
  BY DEF HandleReadMisframed
<1> DEFINE t == [s EXCEPT !.op = "none", !.xfer = @ + n]
<1>3. n \in Nat /\ n <= 2 /\ Position(s) + n <= Size + 1
  <2>1. PICK k \in Nat : k > 0 /\ Position(s) + k <= Size
    BY <1>1, ArrivalsFit DEF HandleReadMisframed
  <2> QED
    BY <1>1, <1>2, <2>1, Sizes, StreamFields
<1>4. /\ t \in StreamRecords
      /\ t.left = s.left /\ t.right = s.right /\ t.xfer = s.xfer + n /\ t.done = s.done
  <2>1. s.xfer + n \in Nat
    BY <1>1, <1>3, StreamFields
  <2> DEFINE x == s.xfer + n
  <2>2. t = [s EXCEPT !.op = "none", !.xfer = x] /\ x \in Nat
    BY <2>1
  <2> HIDE DEF x, t
  <2>3. /\ t \in StreamRecords
        /\ t.left = s.left /\ t.right = s.right /\ t.xfer = x /\ t.done = s.done
    BY <1>1, <2>2 DEF StreamRecords, Ops
  <2> QED
    BY <2>3 DEF x
<1>5. m_streams' = [m_streams EXCEPT ![i] = t]
  BY <1>1, <1>2
<1>6. /\ m_abort' \in BOOLEAN /\ fetched' = {} /\ m_rangefield' = m_rangefield
      /\ UNCHANGED <<modes, m_download_point, late, ticking, disk>>
  BY <1>1 DEF HandleReadMisframed
<1> HIDE DEF t
<1>7. Position(t) = Position(s) + n
  BY <1>1, <1>3, <1>4, StreamFields DEF Position
<1>8. Goes(s, n, m_rangefield, t, m_rangefield')
  <2>1. t \in Streams
    BY <1>1, <1>3, <1>4, <1>7, Sizes, StreamFields DEF Streams
  <2> QED
    BY <1>1, <1>4, <1>6, <2>1 DEF Goes
<1>9. /\ m_downlaoded_field' = m_downlaoded_field /\ written' = written
      /\ "framing" \in Faults
  BY DEF HandleReadMisframed
<1>10. /\ IsRanges(m_downlaoded_field', Size)
       /\ Covered(m_downlaoded_field')
            \subseteq Covered(m_downlaoded_field) \cup Bytes(Position(s), Position(s) + n)
       /\ written \subseteq written' /\ written' \subseteq File
  BY <1>1, <1>9
<1> QED
  BY <1>3, <1>5, <1>6, <1>8, <1>9, <1>10, OneGoes

(* Completions of connections that have been replaced only add: to what is *)
(* allocated, downloaded and written.                                      *)
LEMMA LateAdds ==
  ASSUME SafeInv, NEW n \in Nat, NEW s \in Streams, n = 0 \/ Position(s) + n <= Size,
         late' \subseteq Replaced(Len(m_streams)), phase # "starting",
         IsRanges(m_rangefield', Size), Covered(m_rangefield) \subseteq Covered(m_rangefield'),
         Save(s, n), fetched' = {},
         UNCHANGED <<modes, m_abort, m_download_point, m_streams, ticking, disk>>
  PROVE  SafeInv'
<1>1. /\ m_streams \in Seq(Streams) /\ Len(m_streams) <= Connections
      /\ IsRanges(m_downlaoded_field, Size) /\ written \subseteq File
  BY DEF SafeInv, TypeInv, StreamsInv, FieldsInv, ModesInv
<1>2. /\ IsRanges(m_downlaoded_field', Size)
      /\ Covered(m_downlaoded_field')
           \subseteq Covered(m_downlaoded_field) \cup Bytes(Position(s), Position(s) + n)
      /\ written \subseteq written' /\ written' \subseteq File
      /\ "storage" \notin Faults => Bytes(Position(s), Position(s) + n) \subseteq written'
  BY <1>1, SaveAdds
<1>3. TypeInv'
  <2>1. ModesInv'
    BY <1>2 DEF SafeInv, TypeInv, ModesInv, modes, disk
  <2>2. FieldsInv'
    BY <1>2 DEF FieldsInv
  <2>3. StreamsInv'
    BY <1>1 DEF SafeInv, TypeInv, StreamsInv, modes, Replaced
  <2> QED
    BY <2>1, <2>2, <2>3 DEF TypeInv
<1>4. ClaimsInv'
  <2>1. ASSUME m_accept_multi
        PROVE  ClaimsApart(m_streams, m_rangefield')
    BY <2>1 DEF SafeInv, ClaimsInv, ClaimsApart
  <2> QED
    BY <2>1 DEF ClaimsInv, modes, ClaimsApart, Claim, Covered, Position, Bytes
<1>5. WrittenInv'
  <2>1. ASSUME "storage" \notin Faults
        PROVE  /\ Downloaded' \subseteq written'
               /\ "framing" \notin Faults => NoHoles(m_streams, written')
               /\ MetaSound(meta, written')
    <3>1. /\ Downloaded \subseteq written
          /\ "framing" \notin Faults => NoHoles(m_streams, written)
          /\ MetaSound(meta, written)
      BY <2>1 DEF SafeInv, WrittenInv
    <3>2. Downloaded' \subseteq written'
      BY <1>2, <2>1, <3>1 DEF Downloaded, Covered, Bytes
    <3>3. ASSUME "framing" \notin Faults
          PROVE  NoHoles(m_streams, written')
      BY <1>2, <3>1, <3>3 DEF NoHoles
    <3> QED
      BY <1>2, <3>1, <3>2, <3>3, SoundStays
  <2> QED
    BY <2>1 DEF WrittenInv, disk, NoHoles, MetaSound, BehindIt, Position, PieceBytes
<1>6. HeadIsDownloaded'
  BY DEF HeadIsDownloaded
<1> QED
  BY <1>3, <1>4, <1>5, <1>6 DEF SafeInv

(* What is known of a connection that has been replaced. *)
LEMMA LateFields ==
  ASSUME SafeInv, NEW z \in late
  PROVE  /\ late \subseteq Replaced(Len(m_streams)) /\ phase # "starting"
         /\ z \in Replaced(Len(m_streams))
         /\ z.stream \in Streams /\ z.stream \in StreamRecords
         /\ IsRanges(m_rangefield, Size) /\ m_download_point \in Nat
<1>1. /\ late \subseteq Replaced(Len(m_streams)) /\ phase # "starting"
      /\ IsRanges(m_rangefield, Size) /\ m_download_point \in Nat
  BY DEF SafeInv, TypeInv, StreamsInv, FieldsInv, ModesInv
<1>2. z.stream \in Streams
  BY <1>1 DEF Replaced
<1> QED
  BY <1>1, <1>2, StreamFields

(* It may go on. *)
LEMMA GoesOnLate ==
  ASSUME SafeInv, NEW z \in late, NEW s \in Streams, GoesOn(z, s)
  PROVE  late' \subseteq Replaced(Len(m_streams))
<1> DEFINE y == [z EXCEPT !.stream = s]
<1>1. z \in Replaced(Len(m_streams)) /\ late \subseteq Replaced(Len(m_streams))
  BY LateFields
<1>2. y \in Replaced(Len(m_streams))
  BY <1>1 DEF Replaced
<1>3. late' \subseteq late \cup {y}
  BY DEF GoesOn
<1> QED
  BY <1>1, <1>2, <1>3

(* Its open keeps the invariant, *)
LEMMA LateOpenSafe ==
  ASSUME SafeInv, NEW z \in late, HandleLateOpenOrRequest(z)
  PROVE  SafeInv'
<1> DEFINE s == z.stream
           t == [s EXCEPT !.op = "read"]
<1>1. /\ phase # "starting" /\ s \in Streams /\ s \in StreamRecords
      /\ IsRanges(m_rangefield, Size)
  BY LateFields
<1>2. t \in Streams
  <2>1. /\ t \in StreamRecords
        /\ t.left = s.left /\ t.right = s.right /\ t.xfer = s.xfer /\ t.done = s.done
    BY <1>1 DEF StreamRecords, Ops
  <2> HIDE DEF s, t
  <2> QED
    BY <1>1, <2>1, StreamsFrom
<1>3. late' \subseteq Replaced(Len(m_streams))
  <2>1. GoesOn(z, t)
    BY DEF HandleLateOpenOrRequest
  <2> HIDE DEF t
  <2> QED
    BY <1>2, <2>1, GoesOnLate
<1>4. /\ fetched' = {} /\ m_rangefield' = m_rangefield
      /\ m_downlaoded_field' = m_downlaoded_field /\ written' = written
      /\ UNCHANGED <<modes, m_abort, m_download_point, m_streams, ticking, disk>>
  BY DEF HandleLateOpenOrRequest
<1> HIDE DEF s, t
<1>5. Save(s, 0)
  <2>1. Bytes(Position(s), Position(s) + 0) = {}
    BY <1>1, StreamFields DEF Bytes
  <2> QED
    BY <1>4, <2>1 DEF Save
<1>6. Covered(m_rangefield) \subseteq Covered(m_rangefield') /\ IsRanges(m_rangefield', Size)
  BY <1>1, <1>4
<1> QED
  BY <1>1, <1>3, <1>4, <1>5, <1>6, LateAdds

(* its reads do, whatever they bring and allocate, *)
LEMMA LateReadSafe ==
  ASSUME SafeInv, NEW z \in late, HandleLateRead(z)
  PROVE  SafeInv'
<1> DEFINE s == z.stream
<1>1. /\ late \subseteq Replaced(Len(m_streams)) /\ phase # "starting"
      /\ s \in Streams /\ s \in StreamRecords
      /\ IsRanges(m_rangefield, Size) /\ m_download_point \in Nat
  BY LateFields
<1>2. PICK n \in Arrivals(s) :
        LET u == [s EXCEPT !.xfer = @ + n] IN
        /\ Save(s, n)
        /\ \/ late' = late \ {z} /\ m_rangefield' = m_rangefield
           \/ /\ GoesOn(z, AfterRead(u, z.slot).stream)
              /\ m_rangefield' = AfterRead(u, z.slot).ranges
  BY DEF HandleLateRead
<1> DEFINE u == [s EXCEPT !.xfer = @ + n]
           after == AfterRead(u, z.slot)
<1>3. u \in Streams /\ n \in Nat /\ Position(s) + n <= Size
  BY <1>1, ArrivalsFit
<1>4. \/ late' = late \ {z} /\ m_rangefield' = m_rangefield
      \/ GoesOn(z, after.stream) /\ m_rangefield' = after.ranges
  BY <1>2
<1> HIDE DEF u
<1>5. Goes(u, 0, m_rangefield, after.stream, after.ranges)
  <2>1. after = AfterRead(u, z.slot)
    OBVIOUS
  <2> HIDE DEF after
  <2> QED
    BY <1>1, <1>3, <2>1, AfterReadGoes
<1> HIDE DEF after
<1>6. /\ after.stream \in Streams
      /\ IsRanges(after.ranges, Size) /\ Covered(m_rangefield) \subseteq Covered(after.ranges)
  BY <1>5 DEF Goes
<1>7. IsRanges(m_rangefield', Size) /\ Covered(m_rangefield) \subseteq Covered(m_rangefield')
  BY <1>1, <1>4, <1>6
<1>8. late' \subseteq Replaced(Len(m_streams))
  <2>1. CASE late' = late \ {z}
    BY <1>1, <2>1
  <2>2. CASE GoesOn(z, after.stream)
    BY <1>6, <2>2, GoesOnLate
  <2> QED
    BY <1>4, <2>1, <2>2
<1>9. /\ Save(s, n) /\ fetched' = {}
      /\ UNCHANGED <<modes, m_abort, m_download_point, m_streams, ticking, disk>>
  BY <1>2 DEF HandleLateRead
<1> HIDE DEF s
<1> QED
  BY <1>1, <1>3, <1>7, <1>8, <1>9, LateAdds

(* and so does its end. *)
LEMMA LateErrorSafe ==
  ASSUME SafeInv, NEW z \in late, HandleLateError(z)
  PROVE  SafeInv'
<1> DEFINE s == z.stream
<1>1. /\ late \subseteq Replaced(Len(m_streams)) /\ phase # "starting"
      /\ s \in Streams /\ s \in StreamRecords
      /\ IsRanges(m_rangefield, Size) /\ m_download_point \in Nat
  BY LateFields
<1>2. PICK n \in Arrivals(s) \cup {0} : Save(s, n)
  BY DEF HandleLateError, LateBytes, LastBytes
<1>3. n \in Nat /\ (n = 0 \/ Position(s) + n <= Size)
  <2>1. CASE n \in Arrivals(s)
    BY <1>1, <2>1, ArrivalsFit
  <2>2. CASE n = 0
    BY <2>2
  <2> QED
    BY <1>2, <2>1, <2>2
<1>4. /\ late' = late \ {z} /\ fetched' = {} /\ m_rangefield' = m_rangefield
      /\ UNCHANGED <<modes, m_abort, m_download_point, m_streams, ticking, disk>>
  BY DEF HandleLateError
<1> HIDE DEF s
<1>5. /\ late' \subseteq Replaced(Len(m_streams))
      /\ Covered(m_rangefield) \subseteq Covered(m_rangefield') /\ IsRanges(m_rangefield', Size)
  BY <1>1, <1>4
<1> QED
  BY <1>1, <1>2, <1>3, <1>4, <1>5, LateAdds

(* A tick that writes the meta file keeps what is written sound. *)
LEMMA MetaStaysSound ==
  ASSUME NoWrap, SafeInv, UpdateMeta, written' = written
  PROVE  /\ IsRanges(m_downlaoded_field', Size)
         /\ Covered(m_downlaoded_field') = Covered(m_downlaoded_field)
         /\ meta' = NoMeta \/ meta' \in Bitfields
         /\ "storage" \notin Faults => /\ Covered(m_downlaoded_field') \subseteq written
                                       /\ MetaSound(meta', written)
<1>1. /\ IsRanges(m_downlaoded_field, Size) /\ (meta = NoMeta \/ meta \in Bitfields)
      /\ "storage" \notin Faults => /\ Covered(m_downlaoded_field) \subseteq written
                                    /\ MetaSound(meta, written)
  BY DEF SafeInv, TypeInv, FieldsInv, ModesInv, WrittenInv, Downloaded
<1>2. /\ IsRanges(m_downlaoded_field', Size)
      /\ Covered(m_downlaoded_field') = Covered(m_downlaoded_field)
      /\ meta' = meta \/ (meta' \in Bitfields /\ MetaSound(meta', Covered(m_downlaoded_field)))
  BY <1>1, UpdateMetaSaves
<1>3. ASSUME "storage" \notin Faults
      PROVE  MetaSound(meta', written)
  BY <1>1, <1>2, <1>3, SoundStays
<1> QED
  BY <1>1, <1>2, <1>3

(* on_tick keeps the invariant, *)
LEMMA TickSafe ==
  ASSUME NoWrap, SafeInv, UpdateMeta, NEW expired, TickFinding(expired)
  PROVE  SafeInv'
<1> DEFINE end == VisitAll(expired)
           N == Len(m_streams)
<1>1. /\ m_streams' = end.streams /\ m_rangefield' = end.ranges /\ late' = end.late
      /\ m_abort' = (end.abort \/ \A i \in DOMAIN m_streams : end.streams[i].done)
      /\ UpdateMeta /\ fetched' = {}
      /\ UNCHANGED <<modes, m_download_point, ticking, written, crashes>>
  BY DEF TickFinding
<1>2. TypeInv /\ (m_accept_multi => ClaimsApart(m_streams, m_rangefield))
  BY DEF SafeInv, ClaimsInv
<1>3. RoundInv(end)
  BY <1>2, VisitAllKeeps
<1> HIDE DEF end
<1>4. /\ end.streams \in Seq(Streams) /\ Len(end.streams) = N
      /\ IsRanges(end.ranges, Size) /\ end.late \in SUBSET Replaced(N)
      /\ end.abort \in BOOLEAN
      /\ m_accept_multi => ClaimsApart(end.streams, end.ranges)
      /\ NoHoles(m_streams, written) => NoHoles(end.streams, written)
  BY <1>3 DEF RoundInv, Rounds, RangeMaps
<1>5. /\ IsRanges(m_downlaoded_field', Size)
      /\ Covered(m_downlaoded_field') = Covered(m_downlaoded_field)
      /\ meta' = NoMeta \/ meta' \in Bitfields
      /\ "storage" \notin Faults => /\ Covered(m_downlaoded_field') \subseteq written
                                    /\ MetaSound(meta', written)
  BY <1>1, MetaStaysSound
<1>6. TypeInv'
  <2>1. ModesInv'
    BY <1>1, <1>2, <1>4, <1>5 DEF TypeInv, ModesInv, modes
  <2>2. FieldsInv'
    BY <1>1, <1>4, <1>5 DEF FieldsInv
  <2>3. StreamsInv'
    <3>1. phase' = "starting" => m_streams = <<>> /\ late = {}
      BY <1>1, <1>2 DEF TypeInv, StreamsInv, modes
    <3>2. phase = "starting" => DOMAIN m_streams = {}
      BY <1>2 DEF TypeInv, StreamsInv
    <3>3. phase' = "starting" => m_streams' = <<>> /\ late' = {}
      <4>1. ASSUME phase' = "starting"
            PROVE  N = 0 /\ m_streams' = <<>> /\ late' = {}
        <5>1. N = 0
          BY <3>1, <4>1
        <5>2. end.streams = <<>>
          BY <1>4, <5>1
        <5>3. Replaced(N) = {}
          BY <5>1 DEF Replaced
        <5> QED
          BY <1>1, <1>4, <5>1, <5>2, <5>3
      <4> QED
        BY <4>1
    <3>4. Len(m_streams) <= Connections
      BY <1>2 DEF TypeInv, StreamsInv
    <3> QED
      BY <1>1, <1>4, <3>3, <3>4 DEF StreamsInv, Replaced
  <2> QED
    BY <2>1, <2>2, <2>3 DEF TypeInv
<1>7. ClaimsInv'
  BY <1>1, <1>4 DEF ClaimsInv, modes, ClaimsApart, Claim, Covered, Position, Bytes
<1>8. WrittenInv'
  <2>1. ASSUME "storage" \notin Faults
        PROVE  /\ Covered(m_downlaoded_field') \subseteq written
               /\ "framing" \notin Faults => NoHoles(end.streams, written)
               /\ MetaSound(meta', written)
    <3>1. "framing" \notin Faults => NoHoles(m_streams, written)
      BY <2>1 DEF SafeInv, WrittenInv
    <3> QED
      BY <1>4, <1>5, <2>1, <3>1
  <2>2. written' = written
    BY <1>1
  <2> QED
    BY <1>1, <2>1, <2>2
      DEF WrittenInv, Downloaded, Covered, Bytes, NoHoles, MetaSound, BehindIt, Position, PieceBytes
<1>9. HeadIsDownloaded'
  BY <1>1 DEF HeadIsDownloaded
<1> QED
  BY <1>6, <1>7, <1>8, <1>9 DEF SafeInv

(* also the last one. *)
LEMMA LastTickSafe ==
  ASSUME NoWrap, SafeInv, LastTick
  PROVE  SafeInv'
<1>1. /\ ticking' = FALSE /\ UpdateMeta /\ fetched' = {}
      /\ UNCHANGED <<modes, m_abort, m_download_point, m_rangefield, m_streams, late,
                     written, crashes>>
  BY DEF LastTick
<1>2. /\ IsRanges(m_downlaoded_field', Size)
      /\ Covered(m_downlaoded_field') = Covered(m_downlaoded_field)
      /\ meta' = NoMeta \/ meta' \in Bitfields
      /\ "storage" \notin Faults => /\ Covered(m_downlaoded_field') \subseteq written
                                    /\ MetaSound(meta', written)
  BY <1>1, MetaStaysSound
<1>3. TypeInv'
  <2>1. ModesInv'
    BY <1>1, <1>2 DEF SafeInv, TypeInv, ModesInv, modes
  <2>2. FieldsInv'
    BY <1>1, <1>2 DEF SafeInv, TypeInv, FieldsInv
  <2>3. StreamsInv'
    BY <1>1 DEF SafeInv, TypeInv, StreamsInv, modes
  <2> QED
    BY <2>1, <2>2, <2>3 DEF TypeInv
<1>4. ClaimsInv'
  BY <1>1 DEF SafeInv, ClaimsInv, modes, ClaimsApart, Claim, Covered, Position, Bytes
<1>5. WrittenInv'
  <2>1. ASSUME "storage" \notin Faults
        PROVE  /\ Covered(m_downlaoded_field') \subseteq written
               /\ "framing" \notin Faults => NoHoles(m_streams, written)
               /\ MetaSound(meta', written)
    BY <1>2, <2>1 DEF SafeInv, WrittenInv
  <2> QED
    BY <1>1, <2>1
      DEF WrittenInv, Downloaded, Covered, Bytes, NoHoles, MetaSound, BehindIt, Position, PieceBytes
<1>6. HeadIsDownloaded'
  BY <1>1 DEF HeadIsDownloaded
<1> QED
  BY <1>3, <1>4, <1>5, <1>6 DEF SafeInv

(* fetch_data() keeps the invariant: what it reads from the start of the   *)
(* file on has been downloaded. *)
LEMMA FetchSafe ==
  ASSUME SafeInv, NEW offset \in FetchOffsets, NEW length \in FetchLengths,
         FetchData(offset, length)
  PROVE  SafeInv'
<1> DEFINE tidy == Merge(m_downlaoded_field)
           halves == {n \in 1 .. length : \E k \in 0 .. length : n = length \div (2 ^ k)}
           good == {n \in halves : CheckRange(tidy, offset, n)}
           n == IF good = {} THEN 0 ELSE Max(good)
<1>1. /\ m_download_point' = offset /\ m_downlaoded_field' = tidy
      /\ fetched' = Bytes(offset, offset + n)
      /\ UNCHANGED <<modes, m_abort, m_rangefield, m_streams, late, ticking, written, disk>>
  BY DEF FetchData
<1>2. offset \in Nat /\ length \in Nat
  BY ChoicesAssumption
<1>3. n \in Int /\ n >= 0 /\ (n > 0 => CheckRange(tidy, offset, n))
  <2>1. good \subseteq 1 .. length /\ \A k \in good : CheckRange(tidy, offset, k)
    OBVIOUS
  <2> HIDE DEF good
  <2>2. CASE good = {}
    BY <2>2
  <2>3. CASE good # {}
    <3> DEFINE all == 1 .. length
    <3>1. IsFiniteSet(all) /\ all \subseteq Int /\ good \subseteq all
      BY <1>2, <2>1, FS_Interval
    <3>2. IsFiniteSet(good) /\ good \subseteq Int
      <4> HIDE DEF all
      <4> QED
        BY <3>1, FS_Subset
    <3>3. Max(good) \in good
      BY <2>3, <3>2, MaxIsLargest
    <3>4. n = Max(good)
      BY <2>3
    <3> HIDE DEF n
    <3>5. n \in 1 .. length /\ CheckRange(tidy, offset, n)
      BY <2>1, <3>3, <3>4
    <3> QED
      BY <1>2, <3>5
  <2> QED
    BY <2>2, <2>3
<1> HIDE DEF n
<1>4. /\ IsRanges(m_downlaoded_field, Size)
      /\ IsRanges(tidy, Size) /\ Covered(tidy) = Covered(m_downlaoded_field)
  <2>1. IsRanges(m_downlaoded_field, Size)
    BY DEF SafeInv, TypeInv, FieldsInv
  <2> QED
    BY <2>1, Sizes, MergeKeepsBytes
<1> HIDE DEF tidy
<1>5. HeadIsDownloaded'
  <2>1. ASSUME 0 \in fetched'
        PROVE  fetched' \subseteq Covered(tidy)
    <3>1. offset = 0 /\ n > 0
      BY <1>1, <1>2, <1>3, <2>1 DEF Bytes
    <3>2. PICK k \in DOMAIN tidy : 0 >= k /\ n <= tidy[k]
      BY <1>3, <3>1 DEF CheckRange
    <3>3. k \in Int /\ tidy[k] \in Int
      BY <1>4, Sizes DEF IsRanges
    <3>4. Bytes(0, 0 + n) \subseteq Bytes(k, tidy[k])
      BY <1>3, <3>2, <3>3 DEF Bytes
    <3> QED
      BY <1>1, <3>1, <3>4 DEF Covered
  <2> QED
    BY <1>1, <2>1 DEF HeadIsDownloaded, Downloaded, Covered, Bytes
<1>6. TypeInv'
  <2>1. ModesInv'
    BY <1>1, <1>2 DEF SafeInv, TypeInv, ModesInv, modes, disk, Bytes
  <2>2. FieldsInv'
    BY <1>1, <1>4 DEF SafeInv, TypeInv, FieldsInv
  <2>3. StreamsInv'
    BY <1>1 DEF SafeInv, TypeInv, StreamsInv, modes
  <2> QED
    BY <2>1, <2>2, <2>3 DEF TypeInv
<1>7. ClaimsInv'
  BY <1>1 DEF SafeInv, ClaimsInv, modes, ClaimsApart, Claim, Covered, Position, Bytes
<1>8. WrittenInv'
  <2>1. ASSUME "storage" \notin Faults
        PROVE  /\ Covered(m_downlaoded_field') \subseteq written
               /\ "framing" \notin Faults => NoHoles(m_streams, written)
               /\ MetaSound(meta, written)
    BY <1>1, <1>4, <2>1 DEF SafeInv, WrittenInv, Downloaded
  <2> QED
    BY <1>1, <2>1
      DEF WrittenInv, Downloaded, Covered, Bytes, NoHoles, MetaSound, BehindIt, Position, PieceBytes, disk
<1> QED
  BY <1>5, <1>6, <1>7, <1>8 DEF SafeInv

(* Nothing is behind a connection that has received nothing. *)
LEMMA FreshHasNoHoles ==
  ASSUME NEW q \in Seq(Streams), \A i \in DOMAIN q : q[i].xfer = 0, NEW w
  PROVE  NoHoles(q, w)
<1> SUFFICES ASSUME NEW i \in DOMAIN q
             PROVE  BehindIt(q[i]) = {}
  BY DEF NoHoles
<1>1. q[i] \in Streams /\ q[i].xfer = 0
  OBVIOUS
<1>2. Position(q[i]) = q[i].left /\ q[i].left \in Nat
  BY <1>1, StreamFields
<1> QED
  BY <1>2 DEF BehindIt

(* What handle_start can leave behind. *)
Started(multi, have, q, m) ==
  /\ q \in Seq(Streams) /\ Len(q) <= Connections /\ IsRanges(m, Size)
  /\ multi => ClaimsApart(q, m)
  /\ \A i \in DOMAIN q : q[i].xfer = 0

(* It leaves the connections apart, with and without a meta file. *)
LEMMA StartsWell ==
  ASSUME SafeInv, NEW multi \in BOOLEAN, NEW have, IsRanges(have, Size),
         NEW net, net = IF multi THEN Connect(have) ELSE [ranges |-> have, streams |-> <<Single>>]
  PROVE  Started(multi, have, net.streams, net.ranges) /\ Started(multi, have, <<>>, have)
<1>0. m_download_point \in Nat
  BY DEF SafeInv, TypeInv, ModesInv
<1>1. Started(multi, have, <<>>, have)
  BY Sizes DEF Started, ClaimsApart
<1>2. CASE multi
  <2> DEFINE made == Connect(have)
  <2>1. NetInv(made, have, Connections)
    BY <1>0, ConnectKeeps
  <2> HIDE DEF made
  <2>2. net = made
    BY <1>2 DEF made
  <2> QED
    BY <1>1, <2>1, <2>2 DEF Started, NetInv, Nets, RangeMaps, IsFresh
<1>3. CASE ~multi
  <2>1. net.ranges = have /\ net.streams = <<Single>>
    BY <1>3
  <2>2. Single \in Streams /\ Single.xfer = 0
    <3> DEFINE request == [left |-> 0, right |-> 0]
               op == "read"
    <3>1. /\ Single = Stream(request, op, TRUE) /\ request.left \in File
          /\ request.right \in File /\ request.left <= request.right
          /\ op \in {"read", "open"}
      BY Sizes DEF Single
    <3> HIDE DEF request, op
    <3>2. Single \in Streams /\ IsFresh(Single)
      BY <3>1, StreamIsFresh
    <3> QED
      BY <3>2 DEF IsFresh
  <2>3. 1 <= Connections
    BY Sizes
  <2> QED
    BY <1>1, <1>3, <2>1, <2>2, <2>3 DEF Started
<1> QED
  BY <1>2, <1>3

(* handle_start keeps the invariant. *)
LEMMA StartSafe ==
  ASSUME NoWrap, SafeInv, HandleStart
  PROVE  SafeInv'
<1>1. phase = "starting" /\ m_streams = <<>> /\ late = {} /\ m_abort' = FALSE /\ fetched' = {}
      /\ UNCHANGED <<m_download_point, late, written, disk>>
  BY DEF HandleStart, SafeInv, TypeInv, StreamsInv
<1>2. PICK multi \in Modes, keep \in BOOLEAN :
       /\ m_accept_multi' = multi
       /\ m_keep_alive' = (multi /\ keep)
       /\ \E have \in {OpenMeta(multi)} :
            \E net \in {IF multi THEN Connect(have)
                        ELSE [ranges |-> have, streams |-> <<Single>>]} :
              /\ m_downlaoded_field' = Merge(have)
              /\ IF IsFull(Merge(have), Size)
                 THEN /\ phase' = "over"
                      /\ m_rangefield' = have
                      /\ UNCHANGED <<m_streams, ticking>>
                 ELSE /\ phase' = "running"
                      /\ m_rangefield' = net.ranges
                      /\ m_streams' = net.streams
                      /\ ticking' = TRUE
  BY DEF HandleStart
<1> DEFINE have == OpenMeta(multi)
           net == IF multi THEN Connect(have) ELSE [ranges |-> have, streams |-> <<Single>>]
<1>3. /\ m_downlaoded_field' = Merge(have)
      /\ \/ /\ phase' = "over" /\ m_rangefield' = have /\ m_streams' = <<>>
            /\ ticking' = ticking
         \/ /\ phase' = "running" /\ m_rangefield' = net.ranges /\ m_streams' = net.streams
            /\ ticking' = TRUE
  BY <1>1, <1>2
<1>4. multi \in BOOLEAN
  BY ChoicesAssumption
<1>5. IsRanges(have, Size) /\ \A w : MetaSound(meta, w) => Covered(have) \subseteq w
  <2>1. meta = NoMeta \/ meta \in Bitfields
    BY DEF SafeInv, TypeInv, ModesInv
  <2>2. have = OpenMeta(multi)
    OBVIOUS
  <2> HIDE DEF have
  <2> QED
    BY <2>1, <2>2, OpenMetaRestores
<1>6. Started(multi, have, net.streams, net.ranges) /\ Started(multi, have, <<>>, have)
  <2>1. net = IF multi THEN Connect(have) ELSE [ranges |-> have, streams |-> <<Single>>]
    OBVIOUS
  <2> HIDE DEF net, have
  <2> QED
    BY <1>4, <1>5, <2>1, StartsWell
<1>7. IsRanges(Merge(have), Size) /\ Covered(Merge(have)) = Covered(have)
  <2> HIDE DEF have
  <2> QED
    BY <1>5, Sizes, MergeKeepsBytes
<1> HIDE DEF net, have
<1>8. Started(multi, have, m_streams', m_rangefield')
  BY <1>3, <1>6
<1>9. TypeInv'
  <2>1. ModesInv'
    BY <1>1, <1>2, <1>3, <1>4 DEF SafeInv, TypeInv, ModesInv, disk
  <2>2. FieldsInv'
    BY <1>3, <1>7, <1>8 DEF FieldsInv, Started
  <2>3. StreamsInv'
    BY <1>1, <1>3, <1>8 DEF StreamsInv, Started
  <2> QED
    BY <2>1, <2>2, <2>3 DEF TypeInv
<1>10. ClaimsInv'
  <2>1. m_accept_multi' => ClaimsApart(m_streams', m_rangefield')
    BY <1>2, <1>8 DEF Started
  <2> QED
    BY <2>1 DEF ClaimsInv, ClaimsApart, Claim, Covered, Position, Bytes
<1>11. WrittenInv'
  <2>1. ASSUME "storage" \notin Faults
        PROVE  /\ Covered(m_downlaoded_field') \subseteq written
               /\ "framing" \notin Faults => NoHoles(m_streams', written)
               /\ MetaSound(meta, written)
    <3>1. MetaSound(meta, written)
      BY <2>1 DEF SafeInv, WrittenInv
    <3>2. NoHoles(m_streams', written)
      BY <1>8, FreshHasNoHoles DEF Started
    <3> QED
      BY <1>3, <1>5, <1>7, <3>1, <3>2
  <2> QED
    BY <1>1, <2>1
      DEF WrittenInv, Downloaded, Covered, Bytes, NoHoles, MetaSound, BehindIt, Position, PieceBytes, disk
<1>12. HeadIsDownloaded'
  BY <1>1 DEF HeadIsDownloaded
<1> QED
  BY <1>9, <1>10, <1>11, <1>12 DEF SafeInv

(* A meta file that was torn by a crash is as sound as the one before it   *)
(* and the one that was being written.                                     *)
LEMMA TornIsSound ==
  ASSUME NoWrap, SafeInv, NEW bf \in Torn
  PROVE  /\ bf = NoMeta \/ bf \in Bitfields
         /\ "storage" \notin Faults => MetaSound(bf, written)
<1> DEFINE saved == RangeToBitfield(Merge(m_downlaoded_field), Size, Piece, IntLimit)
<1>1. PICK n \in 0 .. meta.len : 
        bf = [meta EXCEPT !.ones = {p \in saved.ones : p < n} \cup {p \in @ : p >= n}]
  BY DEF Torn
<1>2. /\ IsRanges(m_downlaoded_field, Size) /\ (meta = NoMeta \/ meta \in Bitfields)
      /\ "storage" \notin Faults => /\ Covered(m_downlaoded_field) \subseteq written
                                    /\ MetaSound(meta, written)
  BY DEF SafeInv, TypeInv, FieldsInv, ModesInv, WrittenInv, Downloaded
<1>3. saved \in Bitfields /\ MetaSound(saved, Covered(m_downlaoded_field))
  <2>1. saved = RangeToBitfield(Merge(m_downlaoded_field), Size, Piece, IntLimit)
    OBVIOUS
  <2> HIDE DEF saved
  <2> QED
    BY <1>2, <2>1, SavedPieces
<1> HIDE DEF saved
<1>4. ASSUME "storage" \notin Faults
      PROVE  MetaSound(saved, written)
  BY <1>2, <1>3, <1>4, SoundStays
<1>5. CASE meta = NoMeta
  <2>1. n = 0
    BY <1>5 DEF NoMeta
  <2>2. {p \in saved.ones : p < 0} = {}
    BY <1>3 DEF Bitfields, Pieces
  <2>3. bf = [len |-> 0, ones |-> {}]
    BY <1>1, <1>5, <2>1, <2>2 DEF NoMeta
  <2> QED
    BY <2>3 DEF NoMeta, MetaSound
<1>6. CASE meta \in Bitfields
  <2>1. bf = [len |-> meta.len, ones |-> {p \in saved.ones : p < n} \cup {p \in meta.ones : p >= n}]
    BY <1>1, <1>6 DEF Bitfields
  <2>2. bf \in Bitfields
    BY <1>3, <1>6, <2>1 DEF Bitfields
  <2> QED
    BY <1>2, <1>4, <2>1, <2>2 DEF MetaSound
<1> QED
  BY <1>2, <1>5, <1>6

(* A crash keeps the invariant. *)
LEMMA CrashSafe ==
  ASSUME NoWrap, SafeInv, Crash
  PROVE  SafeInv'
<1>1. /\ meta' \in {meta} \cup Torn /\ crashes < MaxCrashes /\ crashes' = crashes + 1
      /\ phase' = "starting"
      /\ m_abort' = FALSE /\ m_accept_multi' = FALSE /\ m_keep_alive' = FALSE
      /\ m_download_point' = 0
      /\ m_rangefield' = EmptyMap /\ m_downlaoded_field' = EmptyMap
      /\ m_streams' = <<>> /\ late' = {} /\ ticking' = FALSE /\ fetched' = {}
      /\ written' = written
  BY DEF Crash
<1>2. /\ meta' = NoMeta \/ meta' \in Bitfields
      /\ "storage" \notin Faults => MetaSound(meta', written)
  <2>1. CASE meta' = meta
    BY <2>1 DEF SafeInv, TypeInv, ModesInv, WrittenInv
  <2>2. CASE meta' \in Torn
    BY <2>2, TornIsSound
  <2> QED
    BY <1>1, <2>1, <2>2
<1>3. IsRanges(EmptyMap, Size) /\ Covered(EmptyMap) = {}
  BY Sizes, EmptyMapIsMerged
<1>4. TypeInv'
  <2>1. ModesInv'
    <3>1. crashes \in 0 .. MaxCrashes /\ written \subseteq File
      BY DEF SafeInv, TypeInv, ModesInv
    <3>2. crashes' \in 0 .. MaxCrashes /\ m_download_point' \in Nat
      BY <1>1, <3>1, Sizes
    <3> QED
      BY <1>1, <1>2, <3>1, <3>2 DEF ModesInv
  <2>2. FieldsInv'
    BY <1>1, <1>3 DEF FieldsInv
  <2>3. StreamsInv'
    BY <1>1, Sizes DEF StreamsInv
  <2> QED
    BY <2>1, <2>2, <2>3 DEF TypeInv
<1>5. ClaimsInv' /\ HeadIsDownloaded'
  BY <1>1 DEF ClaimsInv, HeadIsDownloaded
<1>6. WrittenInv'
  <2>1. ASSUME "storage" \notin Faults
        PROVE  /\ Covered(m_downlaoded_field') \subseteq written
               /\ "framing" \notin Faults => NoHoles(m_streams', written)
               /\ MetaSound(meta', written)
    BY <1>1, <1>2, <1>3, <2>1 DEF NoHoles
  <2> QED
    BY <1>1, <2>1
      DEF WrittenInv, Downloaded, Covered, Bytes, NoHoles, MetaSound, BehindIt, Position, PieceBytes
<1> QED
  BY <1>4, <1>5, <1>6 DEF SafeInv

(* The invariant holds at the start, *)
LEMMA InitSafe ==
  ASSUME Init
  PROVE  SafeInv
<1>1. IsRanges(EmptyMap, Size) /\ Covered(EmptyMap) = {}
  BY Sizes, EmptyMapIsMerged
<1>2. TypeInv
  <2>1. ModesInv
    <3>1. crashes \in 0 .. MaxCrashes /\ m_download_point \in Nat
      BY Sizes DEF Init
    <3> QED
      BY <3>1 DEF Init, ModesInv
  <2>2. FieldsInv
    BY <1>1 DEF Init, FieldsInv
  <2>3. StreamsInv
    BY Sizes DEF Init, StreamsInv
  <2> QED
    BY <2>1, <2>2, <2>3 DEF TypeInv
<1>3. ClaimsInv /\ HeadIsDownloaded
  BY DEF Init, ClaimsInv, HeadIsDownloaded
<1>4. WrittenInv
  BY <1>1 DEF Init, WrittenInv, Downloaded, NoHoles, MetaSound, NoMeta
<1> QED
  BY <1>2, <1>3, <1>4 DEF SafeInv

(* and every step keeps it. *)
LEMMA StepSafe ==
  ASSUME NoWrap, SafeInv, [Next]_vars
  PROVE  SafeInv'
<1>1. CASE HandleStart
  BY <1>1, StartSafe
<1>2. ASSUME NEW i \in DOMAIN m_streams, Completion(i)
      PROVE  SafeInv'
  BY <1>2, OpenOrRequestSafe, ReadSafe, ReadErrorSafe, MisframedSafe DEF Completion
<1>3. ASSUME NEW z \in late, LateCompletion(z)
      PROVE  SafeInv'
  BY <1>3, LateOpenSafe, LateReadSafe, LateErrorSafe DEF LateCompletion
<1>4. CASE Tick
  BY <1>4, TickSafe DEF Tick
<1>5. CASE LastTick
  BY <1>5, LastTickSafe
<1>6. ASSUME NEW offset \in FetchOffsets, NEW length \in FetchLengths,
             FetchData(offset, length)
      PROVE  SafeInv'
  BY <1>6, FetchSafe
<1>7. CASE Crash
  BY <1>7, CrashSafe
<1>8. CASE UNCHANGED vars
  BY <1>8 DEF vars, SafeInv, TypeInv, ModesInv, FieldsInv, StreamsInv, ClaimsInv, ClaimsApart,
              WrittenInv, Downloaded, NoHoles, BehindIt, MetaSound, HeadIsDownloaded,
              Claim, Covered, Position, Bytes, PieceBytes, Replaced, IsRanges
<1> QED
  BY <1>1, <1>2, <1>3, <1>4, <1>5, <1>6, <1>7, <1>8 DEF Next

(* The invariant holds always. *)
LEMMA SafeInvariant ==
  ASSUME NoWrap
  PROVE  Spec => []SafeInv
<1>1. Init => SafeInv
  BY InitSafe
<1>2. SafeInv /\ [Next]_vars => SafeInv'
  BY StepSafe
<1> QED
  BY <1>1, <1>2, PTL DEF Spec

(* What a connection is in the model, is a connection of the invariant. *)
LEMMA StreamsAreStreams ==
  ASSUME NEW s \in Streams
  PROVE  IsStream(s)
<1>1. s.xfer \in 0 .. (Size + 1)
  BY StreamFields, Sizes
<1> QED
  BY <1>1, StreamFields DEF IsStream, Ops

(* Type correctness of the transfer engine, for every file size, piece     *)
(* size, number of connections and fault: the rangefields stay within the  *)
(* file and no connection reads beyond it.                                 *)
THEOREM TransferTypeCorrect ==
  ASSUME NoWrap
  PROVE  Spec => []TypeOK
<1>1. SafeInv => TypeOK
  <2> SUFFICES ASSUME SafeInv
               PROVE  TypeOK
    OBVIOUS
  <2>1. /\ m_streams \in Seq(Streams) /\ Len(m_streams) <= Connections
        /\ late \subseteq Replaced(Len(m_streams))
    BY DEF SafeInv, TypeInv, StreamsInv
  <2>2. Allocated \subseteq File /\ Downloaded \subseteq File
    BY CoveredInFile DEF SafeInv, TypeInv, FieldsInv, Allocated, Downloaded
  <2>3. \A i \in DOMAIN m_streams : IsStream(m_streams[i])
    BY <2>1, StreamsAreStreams
  <2>4. \A z \in late :
          z.slot \in DOMAIN m_streams /\ IsStream(z.stream) /\ z.caught \in BOOLEAN
    BY <2>1, StreamsAreStreams DEF Replaced
  <2> QED
    BY <2>1, <2>2, <2>3, <2>4 DEF SafeInv, TypeInv, ModesInv, TypeOK
<1> QED
  BY <1>1, SafeInvariant, PTL

(* No byte is claimed by two connections, and a claimed byte is never      *)
(* allocated again, whatever fails, times out, comes late or is resumed.   *)
THEOREM ClaimsStayDisjoint ==
  ASSUME NoWrap
  PROVE  Spec => []ClaimsDisjoint
<1>1. SafeInv => ClaimsDisjoint
  BY DEF SafeInv, ClaimsInv, ClaimsApart, ClaimsDisjoint, Allocated
<1> QED
  BY <1>1, SafeInvariant, PTL

(* As long as no write fails, what the program believes to have downloaded *)
(* is in the file, also what it believes after a crash that tore the meta  *)
(* file.                                                                   *)
THEOREM DownloadedStaysWritten ==
  ASSUME NoWrap, "storage" \notin Faults
  PROVE  Spec => []DownloadedIsWritten
<1>1. SafeInv => DownloadedIsWritten
  BY DEF SafeInv, WrittenInv, DownloadedIsWritten
<1> QED
  BY <1>1, SafeInvariant, PTL

(* As long as no write fails and the server frames its chunks well, no     *)
(* connection has a hole behind it, through errors, time-outs, refusals,   *)
(* reuse, late answers and crashes.  With bad framing it is false of the   *)
(* code (TransferHole.cfg): that is the one error that carries bytes which *)
(* are not saved.                                                          *)
THEOREM NoHoleComesUp ==
  ASSUME NoWrap, "storage" \notin Faults, "framing" \notin Faults
  PROVE  Spec => []NoHoleBehind
<1>1. SafeInv => NoHoleBehind
  BY DEF SafeInv, WrittenInv, NoHoles, BehindIt, NoHoleBehind
<1> QED
  BY <1>1, SafeInvariant, PTL

(* What fetch_data() returns from the start of the file on has been        *)
(* downloaded.                                                             *)
THEOREM HeadStaysDownloaded ==
  ASSUME NoWrap
  PROVE  Spec => []HeadIsDownloaded
<1>1. SafeInv => HeadIsDownloaded
  BY DEF SafeInv
<1> QED
  BY <1>1, SafeInvariant, PTL

-----------------------------------------------------------------------------
(* Without faults: a connection rests only when its range is finished, and *)
(* works only when it is not.                                              *)
Settled(s, abort) ==
  /\ s.refused = FALSE /\ (s.direct => s.op = "none")
  /\ s.op # "none" => s.done = FALSE /\ Position(s) <= s.right
  /\ s.op = "none" /\ ~s.done /\ ~abort => s.right < Position(s)

(* Where the recorded intervals begin: update() would replace one that     *)
(* begins where a connection is to read.                                   *)
Begins(m) == {k \in DOMAIN m : k < m[k]}

Quiet ==
  /\ late = {}
  /\ \A i \in DOMAIN m_streams : Settled(m_streams[i], m_abort)
  /\ (\E i \in DOMAIN m_streams : m_streams[i].done) => Allocated = File
  /\ Begins(m_downlaoded_field) \subseteq Allocated
  /\ Begins(m_downlaoded_field) \cap Claimed(m_streams) = {}
  /\ Allocated \subseteq Downloaded \cup Claimed(m_streams)

QuietInv == m_accept_multi => Quiet

(* A connection that has received k bytes goes on, and no byte is left     *)
(* behind.                                                                 *)
LeavesNone(s, k, m, t, n) ==
  /\ Claim(s) \subseteq Claim(t) \cup Bytes(Position(s), Position(s) + k)
  /\ Covered(n) \subseteq Covered(m) \cup Claim(t)
  /\ t.done /\ ~s.done => Covered(n) = File

(* Recording what a connection was to read loses no byte. *)
LEMMA RecordsAll ==
  ASSUME NEW m, IsRanges(m, Size), NEW p \in Nat, NEW e \in Nat, p < e, e <= Size,
         p \notin Begins(m), NEW n, n = Update(m, p, e)
  PROVE  /\ Covered(n) = Covered(m) \cup Bytes(p, e)
         /\ Begins(n) \subseteq Begins(m) \cup {p}
<1>1. CanUpdate(Size, p, e)
  BY Sizes DEF CanUpdate
<1>2. /\ IsRanges(Update(m, p, e), Size)
      /\ Bytes(p, e) \subseteq Covered(Update(m, p, e))
      /\ Covered(Update(m, p, e)) \subseteq Covered(m) \cup Bytes(p, e)
      /\ \A b \in Covered(m) \ Covered(Update(m, p, e)) :
           p \in DOMAIN m /\ e <= b /\ b < m[p]
  BY <1>1, Sizes, UpdateAddsBytes
<1>3. ASSUME NEW b \in Covered(m), b \notin Covered(n)
      PROVE  FALSE
  <2>1. p \in DOMAIN m /\ e <= b /\ b < m[p]
    BY <1>2, <1>3
  <2>2. m[p] \in Int /\ b \in Int
    BY <2>1, CoveredInFile, Sizes DEF IsRanges
  <2>3. p < m[p]
    BY <2>1, <2>2
  <2> QED
    BY <2>1, <2>3 DEF Begins
<1>4. Begins(n) \subseteq Begins(m) \cup {p}
  BY DEF Begins, Update, Replace
<1> QED
  BY <1>2, <1>3, <1>4

(* One connection goes on, having received and recorded k bytes. *)
LEMMA OneQuiet ==
  ASSUME SafeInv, Quiet, m_accept_multi,
         NEW i \in DOMAIN m_streams, NEW k \in Nat, NEW t,
         Goes(m_streams[i], k, m_rangefield, t, m_rangefield'),
         LeavesNone(m_streams[i], k, m_rangefield, t, m_rangefield'),
         m_streams' = [m_streams EXCEPT ![i] = t],
         k > 0 => Position(m_streams[i]) \in Claim(m_streams[i]),
         k > 0 => Position(m_streams[i]) + k <= Size,
         m_downlaoded_field' =
           IF k > 0 THEN Update(m_downlaoded_field, Position(m_streams[i]),
                                Position(m_streams[i]) + k)
                    ELSE m_downlaoded_field,
         Settled(t, m_abort'), m_abort => m_abort', late' = late
  PROVE  Quiet'
<1> DEFINE s == m_streams[i]
           p == Position(s)
           d == m_downlaoded_field
           q == m_streams
           r == m_streams'
<1>1. /\ q \in Seq(Streams) /\ s \in Streams /\ t \in Streams
      /\ IsRanges(d, Size) /\ IsRanges(m_rangefield, Size) /\ IsRanges(m_rangefield', Size)
      /\ ClaimsApart(q, m_rangefield)
  <2>1. /\ q \in Seq(Streams) /\ IsRanges(d, Size) /\ IsRanges(m_rangefield, Size)
        /\ ClaimsApart(q, m_rangefield)
    BY DEF SafeInv, TypeInv, StreamsInv, FieldsInv, ClaimsInv
  <2>2. s \in Streams
    BY <2>1
  <2> QED
    BY <2>1, <2>2 DEF Goes
<1>2. /\ \A j \in DOMAIN q : Settled(q[j], m_abort)
      /\ (\E j \in DOMAIN q : q[j].done) => Covered(m_rangefield) = File
      /\ Begins(d) \subseteq Covered(m_rangefield)
      /\ Begins(d) \cap Claimed(q) = {}
      /\ Covered(m_rangefield) \subseteq Covered(d) \cup Claimed(q)
  BY DEF Quiet, Allocated, Downloaded
<1>3. p \in Nat
  BY <1>1, StreamFields
<1>4. /\ DOMAIN r = DOMAIN q /\ r[i] = t /\ \A j \in DOMAIN q \ {i} : r[j] = q[j]
      /\ r = [q EXCEPT ![i] = t]
  BY <1>1, PutStream
<1>5. /\ Claimed(q) \subseteq Claimed(r) \cup Claim(s)
      /\ Claimed(r) \subseteq Claimed(q) \cup Claim(t)
      /\ Claim(t) \subseteq Claimed(r)
      /\ \A b \in Claimed(r) : b \in Claim(t) \/ \E j \in DOMAIN q \ {i} : b \in Claim(q[j])
  <2>1. s = q[i] /\ i \in DOMAIN q
    OBVIOUS
  <2> HIDE DEF q, r, s
  <2>2. /\ Claimed(q) \subseteq Claimed(r) \cup Claim(q[i])
        /\ Claimed(r) \subseteq Claimed(q) \cup Claim(t)
        /\ Claim(t) \subseteq Claimed(r)
        /\ \A b \in Claimed(r) : b \in Claim(t) \/ \E j \in DOMAIN q \ {i} : b \in Claim(q[j])
    BY <1>4, <2>1 DEF Claimed
  <2> QED
    BY <2>1, <2>2
<1>6. /\ Claim(t) \subseteq Claim(s) \/ Claim(t) \cap Covered(m_rangefield) = {}
      /\ Covered(m_rangefield) \subseteq Covered(m_rangefield')
  BY <1>1, GoesClaim
<1>7. k > 0 => p \in Claim(s) /\ p \in Covered(m_rangefield) /\ p \notin Begins(d)
  BY <1>1, <1>2 DEF ClaimsApart, Claimed
<1>8. /\ Covered(d') = Covered(d) \cup Bytes(p, p + k)
      /\ Begins(d') \subseteq Begins(d) \cup (IF k > 0 THEN {p} ELSE {})
  <2>1. CASE k > 0
    <3> DEFINE e == p + k
    <3>1. e \in Nat /\ p < e /\ e <= Size /\ d' = Update(d, p, e) /\ p \notin Begins(d)
      BY <1>3, <1>7, <2>1
    <3> HIDE DEF p, e, d
    <3>2. /\ Covered(d') = Covered(d) \cup Bytes(p, e)
          /\ Begins(d') \subseteq Begins(d) \cup {p}
      BY <1>1, <1>3, <3>1, RecordsAll
    <3> QED
      BY <2>1, <3>2 DEF e
  <2>2. CASE ~(k > 0)
    <3>1. d' = d /\ Bytes(p, p + k) = {}
      BY <1>3, <2>2 DEF Bytes
    <3> QED
      BY <3>1
  <2> QED
    BY <2>1, <2>2
<1>9. k > 0 => p \notin Claimed(r)
  <2> SUFFICES ASSUME k > 0, p \in Claimed(r)
               PROVE  FALSE
    OBVIOUS
  <2>1. \A j \in DOMAIN q \ {i} : p \notin Claim(q[j])
    BY <1>1, <1>7 DEF ClaimsApart
  <2>2. p \in Claim(t)
    BY <1>5, <2>1
  <2>3. ~(Claim(t) \cap Covered(m_rangefield) = {})
    BY <1>7, <2>2
  <2>4. t.xfer = s.xfer + k /\ t.left = s.left
    <3>1. Claim(t) \subseteq t.left .. t.right \/ t.xfer # 0
      BY <1>1, StreamFields DEF Claim
    <3> QED
      BY <2>3, <3>1 DEF Goes
  <2>5. Position(t) = p + k
    BY <1>1, <2>4, StreamFields DEF Position
  <2> QED
    BY <1>3, <2>2, <2>5 DEF Claim
<1>10. Begins(d') \subseteq Covered(m_rangefield')
  BY <1>2, <1>6, <1>7, <1>8
<1>11. Begins(d') \cap Claimed(r) = {}
  <2> SUFFICES ASSUME NEW b \in Begins(d'), b \in Claimed(r)
               PROVE  FALSE
    OBVIOUS
  <2>1. b \in Begins(d)
    BY <1>8, <1>9
  <2>2. b \in Covered(m_rangefield) /\ b \notin Claimed(q)
    BY <1>2, <2>1
  <2>3. b \in Claim(t)
    BY <1>5, <2>2
  <2>4. Claim(s) \subseteq Claimed(q)
    BY DEF Claimed
  <2> QED
    BY <1>6, <2>2, <2>3, <2>4
<1>12. Covered(m_rangefield') \subseteq Covered(d') \cup Claimed(r)
  BY <1>2, <1>5, <1>8 DEF LeavesNone
<1>13. ASSUME NEW j \in DOMAIN r, r[j].done
       PROVE  Covered(m_rangefield') = File
  <2>1. Covered(m_rangefield') \subseteq File
    BY <1>1, CoveredInFile
  <2>2. CASE \E a \in DOMAIN q : q[a].done
    BY <1>2, <1>6, <2>1, <2>2
  <2>3. CASE ~\E a \in DOMAIN q : q[a].done
    BY <1>4, <1>13, <2>3 DEF LeavesNone
  <2> QED
    BY <2>2, <2>3
<1>14. \A j \in DOMAIN r : Settled(r[j], m_abort')
  BY <1>2, <1>4 DEF Settled
<1>15. late' = {}
  BY DEF Quiet
<1> HIDE DEF q, r, d, s, p
<1>16. /\ Allocated' = Covered(m_rangefield') /\ Downloaded' = Covered(d')
       /\ Begins(m_downlaoded_field)' = Begins(d')
       /\ Claimed(m_streams)' = Claimed(r)
  BY DEF Allocated, Downloaded, d, r, Claimed, Claim, Position, Begins, Covered, Bytes
<1> QED
  BY <1>10, <1>11, <1>12, <1>13, <1>14, <1>15, <1>16 DEF Quiet, r, Settled, Position

(* A connection of a download by several, as the invariants have it. *)
LEMMA QuietStream ==
  ASSUME SafeInv, Quiet, NEW i \in DOMAIN m_streams
  PROVE  /\ m_streams \in Seq(Streams)
         /\ m_streams[i] \in Streams /\ m_streams[i] \in StreamRecords
         /\ IsRanges(m_rangefield, Size) /\ IsRanges(m_downlaoded_field, Size)
         /\ m_download_point \in Nat /\ m_abort \in BOOLEAN
         /\ Settled(m_streams[i], m_abort)
         /\ Position(m_streams[i]) \in Nat
<1>1. m_streams \in Seq(Streams) /\ m_streams[i] \in Streams
  BY DEF SafeInv, TypeInv, StreamsInv
<1> QED
  BY <1>1, StreamFields DEF SafeInv, TypeInv, FieldsInv, ModesInv, Quiet

(* handle_open and handle_request, without faults, forget nothing; *)
LEMMA OpenOrRequestQuiet ==
  ASSUME SafeInv, Quiet, m_accept_multi, Faults = {},
         NEW i \in DOMAIN m_streams, HandleOpenOrRequest(i)
  PROVE  Quiet'
<1> DEFINE s == m_streams[i]
<1>1. /\ m_streams \in Seq(Streams) /\ s \in Streams /\ s \in StreamRecords
      /\ IsRanges(m_rangefield, Size) /\ Settled(s, m_abort) /\ Position(s) \in Nat
  BY QuietStream
<1>2. /\ m_rangefield' = m_rangefield /\ m_downlaoded_field' = m_downlaoded_field
      /\ late' = late /\ s.op \in {"open", "request"}
  BY DEF HandleOpenOrRequest
<1>3. \E t \in StreamRecords :
        /\ m_streams' = [m_streams EXCEPT ![i] = t] /\ (m_abort => m_abort')
        /\ t.left = s.left /\ t.right = s.right /\ t.xfer = s.xfer /\ t.done = s.done
        /\ t.refused = FALSE /\ t.direct = s.direct
        /\ t.op # "read" => t.op = "none" /\ m_abort'
  <2>1. CASE m_streams' = [m_streams EXCEPT ![i].op = "read"] /\ m_abort' = m_abort
    <3> DEFINE t == [s EXCEPT !.op = "read"]
    <3>1. /\ t \in StreamRecords
          /\ t.left = s.left /\ t.right = s.right /\ t.xfer = s.xfer /\ t.done = s.done
          /\ t.refused = s.refused /\ t.direct = s.direct /\ t.op = "read"
      BY <1>1 DEF StreamRecords, Ops
    <3>2. m_streams' = [m_streams EXCEPT ![i] = t]
      BY <2>1
    <3> QED
      BY <1>1, <2>1, <3>1, <3>2 DEF Settled
  <2>2. CASE m_abort /\ GiveUp(i, FALSE)
    <3> DEFINE t == [s EXCEPT !.op = "none", !.refused = FALSE]
    <3>1. /\ t \in StreamRecords
          /\ t.left = s.left /\ t.right = s.right /\ t.xfer = s.xfer /\ t.done = s.done
          /\ t.refused = FALSE /\ t.direct = s.direct /\ t.op = "none"
      BY <1>1 DEF StreamRecords, Ops
    <3>2. m_streams' = [m_streams EXCEPT ![i] = t] /\ m_abort'
      BY <1>1, <2>2 DEF GiveUp
    <3> QED
      BY <3>1, <3>2
  <2> QED
    BY <2>1, <2>2 DEF HandleOpenOrRequest
<1>4. PICK t \in StreamRecords :
        /\ m_streams' = [m_streams EXCEPT ![i] = t] /\ (m_abort => m_abort')
        /\ t.left = s.left /\ t.right = s.right /\ t.xfer = s.xfer /\ t.done = s.done
        /\ t.refused = FALSE /\ t.direct = s.direct
        /\ t.op # "read" => t.op = "none" /\ m_abort'
  BY <1>3
<1>5. Goes(s, 0, m_rangefield, t, m_rangefield')
  BY <1>1, <1>2, <1>4, OpGoes
<1>6. Position(t) = Position(s)
  BY <1>4 DEF Position
<1>7. Settled(t, m_abort')
  BY <1>1, <1>2, <1>4, <1>6 DEF Settled
<1>8. LeavesNone(s, 0, m_rangefield, t, m_rangefield')
  BY <1>2, <1>4, <1>6 DEF LeavesNone, Claim
<1>9. /\ 0 \in Nat /\ (0 > 0 => Position(s) \in Claim(s) /\ Position(s) + 0 <= Size)
      /\ m_downlaoded_field' =
           IF 0 > 0 THEN Update(m_downlaoded_field, Position(s), Position(s) + 0)
                    ELSE m_downlaoded_field
  BY <1>1, <1>2, StreamFields
<1> QED
  BY <1>2, <1>4, <1>5, <1>7, <1>8, <1>9, OneQuiet

(* handle_read does not, *)
LEMMA ReadQuiet ==
  ASSUME SafeInv, Quiet, m_accept_multi, Faults = {},
         NEW i \in DOMAIN m_streams, HandleRead(i)
  PROVE  Quiet'
<1> DEFINE s == m_streams[i]
<1>1. /\ m_streams \in Seq(Streams) /\ s \in Streams /\ s \in StreamRecords
      /\ IsRanges(m_rangefield, Size) /\ Settled(s, m_abort) /\ Position(s) \in Nat
      /\ m_download_point \in Nat /\ m_abort \in BOOLEAN
  BY QuietStream
<1>2. PICK n \in Arrivals(s) :
        LET u == [s EXCEPT !.xfer = @ + n] IN
        /\ Save(s, n)
        /\ IF m_abort \/ (~m_accept_multi /\ u.xfer = Size)
           THEN /\ m_streams' = [m_streams EXCEPT ![i] = [u EXCEPT !.op = "none"]]
                /\ m_abort' = TRUE
                /\ UNCHANGED m_rangefield
           ELSE /\ \E after \in {AfterRead(u, i)} :
                     /\ m_streams' = [m_streams EXCEPT ![i] = after.stream]
                     /\ m_rangefield' = after.ranges
                /\ UNCHANGED m_abort
  BY DEF HandleRead
<1> DEFINE u == [s EXCEPT !.xfer = @ + n]
           over == [u EXCEPT !.op = "none"]
           after == AfterRead(u, i)
<1>3. /\ u \in Streams /\ u \in StreamRecords /\ n \in Nat /\ n > 0 /\ Position(s) + n <= Size
      /\ u.left = s.left /\ u.right = s.right /\ u.xfer = s.xfer + n /\ u.done = s.done
      /\ u.refused = s.refused /\ u.direct = s.direct
  <2>1. u \in Streams /\ n \in Nat /\ n > 0 /\ Position(s) + n <= Size
    BY <1>1, ArrivalsFit
  <2>2. /\ u.left = s.left /\ u.right = s.right /\ u.xfer = s.xfer + n /\ u.done = s.done
        /\ u.refused = s.refused /\ u.direct = s.direct
    BY <1>1 DEF StreamRecords
  <2> QED
    BY <2>1, <2>2, StreamFields
<1> HIDE DEF u
<1>4. /\ s.op = "read" /\ s.done = FALSE /\ s.refused = FALSE /\ s.direct = FALSE
      /\ Position(s) <= s.right /\ Position(s) \in Claim(s)
  <2>1. s.op = "read"
    BY DEF HandleRead
  <2>2. s.direct \in BOOLEAN /\ s.right \in Nat
    BY <1>1, StreamFields DEF StreamRecords
  <2>3. s.done = FALSE /\ s.refused = FALSE /\ s.direct = FALSE /\ Position(s) <= s.right
    BY <1>1, <2>1, <2>2 DEF Settled
  <2> QED
    BY <1>1, <2>1, <2>2, <2>3 DEF Claim
<1>5. Position(u) = Position(s) + n /\ (Finished(u) <=> Position(u) > u.right)
      /\ Position(u) \in Nat /\ u.right \in Nat
  <2>1. s.left \in Nat /\ s.xfer \in Nat /\ s.right \in Nat /\ n \in Nat
    BY <1>1, <1>3, StreamFields
  <2>2. u.left = s.left /\ u.right = s.right /\ u.xfer = s.xfer + n
    BY <1>3
  <2> HIDE DEF s
  <2> QED
    BY <2>1, <2>2 DEF Position, Finished
<1>6. m_downlaoded_field' = Update(m_downlaoded_field, Position(s), Position(s) + n)
  BY <1>2, <1>3 DEF Save
<1>7. late' = late
  BY DEF HandleRead
<1>8. CASE m_abort
  <2>1. /\ over \in StreamRecords
        /\ over.left = u.left /\ over.right = u.right /\ over.xfer = u.xfer
        /\ over.done = u.done /\ over.op = "none" /\ over.refused = u.refused
    BY <1>3 DEF StreamRecords, Ops
  <2>2. m_streams' = [m_streams EXCEPT ![i] = over] /\ m_rangefield' = m_rangefield /\ m_abort'
    BY <1>2, <1>8 DEF u
  <2> HIDE DEF over
  <2>3. Goes(u, 0, m_rangefield, over, m_rangefield)
    BY <1>1, <1>3, <2>1, OpGoes
  <2>4. Goes(s, n, m_rangefield, over, m_rangefield')
    BY <1>1, <1>3, <2>2, <2>3, GoesFrom
  <2>5. Position(over) = Position(s) + n
    BY <1>5, <2>1 DEF Position
  <2>6. Settled(over, m_abort')
    BY <1>3, <1>4, <2>1, <2>2 DEF Settled
  <2>7. LeavesNone(s, n, m_rangefield, over, m_rangefield')
    BY <1>1, <1>3, <1>4, <2>1, <2>2, <2>5 DEF LeavesNone, Claim, Bytes
  <2> QED
    BY <1>3, <1>4, <1>6, <1>7, <2>2, <2>4, <2>6, <2>7, OneQuiet
<1>9. CASE ~m_abort
  <2>1. /\ m_streams' = [m_streams EXCEPT ![i] = after.stream]
        /\ m_rangefield' = after.ranges /\ m_abort' = m_abort
    BY <1>2, <1>9 DEF u
  <2> DEFINE t == after.stream
             m == after.ranges
  <2>2. Goes(u, 0, m_rangefield, t, m) /\ Reads(u, m_rangefield, t, m)
    <3>1. after = AfterRead(u, i)
      OBVIOUS
    <3> HIDE DEF after
    <3> QED
      BY <1>1, <1>3, <3>1, AfterReadGoes
  <2> HIDE DEF after, t, m
  <2>3. Goes(s, n, m_rangefield, t, m)
    BY <1>1, <1>3, <2>2, GoesFrom
  <2>4. t.done = FALSE /\ t.refused = FALSE
    BY <1>3, <1>4, <2>2 DEF Reads
  <2>5. ASSUME /\ t.op = "read" /\ t.direct = u.direct /\ ~Finished(u)
               /\ t.left = u.left /\ t.right = u.right /\ t.xfer = u.xfer
               /\ Covered(m) = Covered(m_rangefield)
        PROVE  Settled(t, m_abort) /\ LeavesNone(s, n, m_rangefield, t, m)
    <3>1. Position(t) = Position(u)
      BY <2>5 DEF Position
    <3> QED
      BY <1>1, <1>3, <1>4, <1>5, <2>4, <2>5, <3>1 DEF Settled, LeavesNone, Claim, Bytes
  <2>6. ASSUME /\ t.op = "none" /\ Finished(u)
               /\ t.left = u.left /\ t.right = u.right /\ t.xfer = u.xfer
               /\ Covered(m) = Covered(m_rangefield)
        PROVE  Settled(t, m_abort) /\ LeavesNone(s, n, m_rangefield, t, m)
    <3>1. Position(t) = Position(u)
      BY <2>6 DEF Position
    <3> QED
      BY <1>1, <1>3, <1>4, <1>5, <2>4, <2>6, <3>1 DEF Settled, LeavesNone, Claim, Bytes
  <2>7. ASSUME /\ t.op = "request" /\ t.direct = u.direct /\ Finished(u)
               /\ t.xfer = 0 /\ t.left <= t.right
               /\ Covered(m) = Covered(m_rangefield) \cup (t.left .. t.right)
        PROVE  Settled(t, m_abort) /\ LeavesNone(s, n, m_rangefield, t, m)
    <3>1. Position(t) = t.left
      BY <2>2, <2>7, StreamFields DEF Position, Goes
    <3> QED
      BY <1>1, <1>3, <1>4, <1>5, <2>4, <2>7, <3>1 DEF Settled, LeavesNone, Claim, Bytes
  <2>8. Settled(t, m_abort) /\ LeavesNone(s, n, m_rangefield, t, m)
    BY <2>2, <2>5, <2>6, <2>7 DEF Reads
  <2>9. m_streams' = [m_streams EXCEPT ![i] = t] /\ m_rangefield' = m
    BY <2>1 DEF t, m
  <2>10. Settled(t, m_abort') /\ LeavesNone(s, n, m_rangefield, t, m_rangefield')
         /\ Goes(s, n, m_rangefield, t, m_rangefield')
    BY <2>1, <2>3, <2>8, <2>9
  <2> QED
    BY <1>3, <1>4, <1>6, <1>7, <2>1, <2>9, <2>10, OneQuiet
<1> QED
  BY <1>8, <1>9

(* and neither does the end of an answer: it is all there. *)
LEMMA ReadErrorQuiet ==
  ASSUME SafeInv, Quiet, m_accept_multi, Faults = {},
         NEW i \in DOMAIN m_streams, HandleReadError(i)
  PROVE  Quiet'
<1> DEFINE s == m_streams[i]
<1>1. /\ m_streams \in Seq(Streams) /\ s \in Streams /\ s \in StreamRecords
      /\ IsRanges(m_rangefield, Size) /\ Settled(s, m_abort) /\ Position(s) \in Nat
  BY QuietStream
<1>2. PICK n \in Arrivals(s) \cup {0} :
        /\ Position(s) + n - 1 = ServerEnd(s)
        /\ Save(s, n)
        /\ m_streams' = [m_streams EXCEPT ![i].op = "none", ![i].xfer = @ + n]
  BY DEF HandleReadError, LastBytes
<1> DEFINE t == [s EXCEPT !.op = "none", !.xfer = @ + n]
<1>3. n \in Nat /\ Position(s) + n <= Size
  <2>1. CASE n \in Arrivals(s)
    BY <1>1, <2>1, ArrivalsFit
  <2>2. CASE n = 0
    BY <1>1, <1>2, <2>2, Sizes, StreamFields DEF ServerEnd
  <2> QED
    BY <2>1, <2>2
<1>4. /\ t \in StreamRecords
      /\ t.left = s.left /\ t.right = s.right /\ t.xfer = s.xfer + n /\ t.done = s.done
      /\ t.op = "none" /\ t.refused = s.refused
  <2>1. s.xfer + n \in Nat
    BY <1>1, <1>3, StreamFields
  <2> DEFINE x == s.xfer + n
  <2>2. t = [s EXCEPT !.op = "none", !.xfer = x] /\ x \in Nat
    BY <2>1
  <2> HIDE DEF x, t
  <2>3. /\ t \in StreamRecords
        /\ t.left = s.left /\ t.right = s.right /\ t.xfer = x /\ t.done = s.done
        /\ t.op = "none" /\ t.refused = s.refused
    BY <1>1, <2>2 DEF StreamRecords, Ops
  <2> QED
    BY <2>3 DEF x
<1>5. m_streams' = [m_streams EXCEPT ![i] = t]
  BY <1>1, <1>2
<1>6. m_rangefield' = m_rangefield /\ late' = late /\ s.op = "read" /\ (m_abort => m_abort')
  BY DEF HandleReadError
<1> HIDE DEF t
<1>7. Position(t) = Position(s) + n
  BY <1>1, <1>3, <1>4, StreamFields DEF Position
<1>8. Goes(s, n, m_rangefield, t, m_rangefield')
  <2>1. t \in Streams
    BY <1>1, <1>3, <1>4, <1>7, Sizes DEF Streams
  <2> QED
    BY <1>1, <1>4, <1>6, <2>1 DEF Goes
<1>9. s.done = FALSE /\ s.refused = FALSE /\ Position(s) <= s.right /\ Position(s) \in Claim(s)
  <2>1. s.done = FALSE /\ s.refused = FALSE /\ Position(s) <= s.right
    BY <1>1, <1>6 DEF Settled
  <2> QED
    BY <1>1, <2>1, StreamFields DEF Claim
<1>10. s.right < Position(t)
  <2>1. s.right \in Nat /\ s.right < Size /\ Size \in Nat
    BY <1>1, StreamFields, Sizes
  <2> QED
    BY <1>1, <1>2, <1>3, <1>7, <2>1 DEF ServerEnd
<1>11. Settled(t, m_abort')
  BY <1>4, <1>9, <1>10 DEF Settled
<1>12. LeavesNone(s, n, m_rangefield, t, m_rangefield')
  <2>1. s.right \in Nat
    BY <1>1, StreamFields
  <2> QED
    BY <1>1, <1>3, <1>4, <1>6, <1>7, <1>9, <1>10, <2>1 DEF LeavesNone, Claim, Bytes
<1>13. m_downlaoded_field' =
         IF n > 0 THEN Update(m_downlaoded_field, Position(s), Position(s) + n)
                  ELSE m_downlaoded_field
  BY <1>2 DEF Save
<1> QED
  BY <1>3, <1>5, <1>6, <1>8, <1>9, <1>11, <1>12, <1>13, OneQuiet

-----------------------------------------------------------------------------
(* on_tick without faults.  A visit leaves a connection alone, or gives    *)
(* one that has finished its range another, or none when all is claimed.   *)
Rests(v, acc, s, t) ==
  /\ v.late = acc.late /\ v.abort = acc.abort /\ Settled(t, FALSE)
  /\ \/ t = s /\ v.ranges = acc.ranges
     \/ /\ Claim(s) = {} /\ t.done = FALSE
        /\ Claim(t) \cap Covered(acc.ranges) = {}
        /\ Covered(v.ranges) = Covered(acc.ranges) \cup Claim(t)
     \/ /\ Claim(s) = {} /\ t.done = TRUE
        /\ Covered(acc.ranges) = File /\ Covered(v.ranges) = File

(* What a visit does with a connection that is as on_tick found it. *)
LEMMA VisitRests ==
  ASSUME m_accept_multi, m_download_point \in Nat, NEW n \in Nat, NEW acc \in Rounds(n),
         NEW i \in 1 .. n, acc.streams[i] = m_streams[i], Settled(acc.streams[i], FALSE),
         NEW expired, i \in expired => m_streams[i].op = "none",
         NEW v, v = Visit(acc, i, expired)
  PROVE  Rests(v, acc, acc.streams[i], v.streams[i])
<1> DEFINE s == acc.streams[i]
           copy == [s EXCEPT !.direct = FALSE, !.wide = FALSE, !.op = "open"]
           a == Allocate(acc.ranges)
           fresh == [copy EXCEPT !.left = a.request.left, !.right = a.request.right, !.xfer = 0]
           none == NothingLeft(copy)
<1>1. /\ acc.streams \in Seq(Streams) /\ i \in DOMAIN acc.streams /\ IsRanges(acc.ranges, Size)
      /\ s \in StreamRecords /\ s.right \in Nat /\ Position(s) \in Nat
  <2>1. /\ acc.streams \in Seq(Streams) /\ i \in DOMAIN acc.streams /\ IsRanges(acc.ranges, Size)
        /\ s \in Streams
    BY DEF Rounds, RangeMaps
  <2> QED
    BY <2>1, StreamFields
<1>2. CASE ~(~m_streams[i].done /\ (i \in expired \/ m_streams[i].direct))
  <2>1. v = acc
    BY <1>2 DEF Visit
  <2> QED
    BY <2>1 DEF Rests
<1>3. CASE ~m_streams[i].done /\ (i \in expired \/ m_streams[i].direct)
  <2>1. s.op = "none" /\ s.refused = FALSE /\ s.right < Position(s) /\ s.done = FALSE
    BY <1>1, <1>3 DEF Settled, StreamRecords
  <2>2. Claim(s) = {} /\ ~(s.right - Position(s) > 0)
    BY <1>1, <2>1 DEF Claim
  <2>3. /\ v.streams = [acc.streams EXCEPT ![i] = IF a.ok THEN fresh ELSE none]
        /\ v.ranges = a.ranges /\ v.late = acc.late /\ v.abort = acc.abort
    <3>1. v = Reconnect(acc, i)
      BY <1>3 DEF Visit
    <3> DEFINE missed == {[slot |-> i, stream |-> s, caught |-> op = "read"] :
                            op \in {s.op} \cap {"read", "open"}}
    <3>2. v = [acc EXCEPT !.streams[i] = IF a.ok THEN fresh ELSE none,
                          !.ranges = a.ranges, !.late = @ \cup missed]
      BY <2>1, <2>2, <3>1 DEF Reconnect
    <3>3. missed = {}
      BY <2>1
    <3> HIDE DEF missed
    <3> HIDE DEF a, fresh, none
    <3> QED
      BY <3>2, <3>3 DEF Rounds
  <2>4. v.streams[i] = IF a.ok THEN fresh ELSE none
    BY <1>1, <2>3
  <2>5. \/ /\ a.ok = TRUE
           /\ a.request.left \in File /\ a.request.right \in File
           /\ a.request.left <= a.request.right
           /\ (a.request.left .. a.request.right) \cap Covered(acc.ranges) = {}
           /\ Covered(a.ranges) = Covered(acc.ranges) \cup (a.request.left .. a.request.right)
        \/ /\ a.ok = FALSE
           /\ Covered(a.ranges) = Covered(acc.ranges)
           /\ Covered(acc.ranges) = File
    <3> HIDE DEF a
    <3>1. a = Allocate(acc.ranges)
      BY DEF a
    <3> QED
      BY <1>1, <3>1, AllocateHere
  <2>6. /\ copy \in StreamRecords
        /\ copy.done = FALSE /\ copy.op = "open" /\ copy.direct = FALSE /\ copy.refused = FALSE
    BY <1>1, <2>1 DEF StreamRecords, Ops
  <2> HIDE DEF a, copy
  <2>7. CASE a.ok = TRUE
    <3>1. /\ fresh.left = a.request.left /\ fresh.right = a.request.right /\ fresh.xfer = 0
          /\ fresh.done = FALSE /\ fresh.op = "open" /\ fresh.direct = FALSE
          /\ fresh.refused = FALSE
      BY <2>6 DEF StreamRecords
    <3>2. a.request.left \in Nat
      BY <2>5, <2>7, Sizes
    <3> HIDE DEF fresh
    <3>3. Position(fresh) = a.request.left
      BY <3>1, <3>2 DEF Position
    <3>4. Claim(fresh) = a.request.left .. a.request.right /\ Settled(fresh, FALSE)
      BY <2>5, <2>7, <3>1, <3>3 DEF Claim, Settled
    <3> QED
      BY <2>2, <2>3, <2>4, <2>5, <2>7, <3>1, <3>4 DEF Rests
  <2>8. CASE a.ok = FALSE
    <3>1. none.done = TRUE /\ none.op = "none" /\ none.refused = FALSE
      BY <2>6 DEF NothingLeft, StreamRecords
    <3> HIDE DEF none
    <3>2. Settled(none, FALSE)
      BY <3>1 DEF Settled
    <3> QED
      BY <2>2, <2>3, <2>4, <2>5, <2>8, <3>1, <3>2 DEF Rests
  <2> QED
    BY <2>5, <2>7, <2>8
<1> QED
  BY <1>2, <1>3

(* While the loop runs: the connections todo have not been visited yet,    *)
(* what is claimed is what was claimed or what nobody had, and no byte is  *)
(* left out.                                                               *)
QuietRound(acc, todo) ==
  /\ acc \in Rounds(Len(m_streams))
  /\ acc.late = {}
  /\ \A j \in todo : acc.streams[j] = m_streams[j]
  /\ \A j \in 1 .. Len(m_streams) : Settled(acc.streams[j], FALSE)
  /\ (\E j \in 1 .. Len(m_streams) : acc.streams[j].done) => Covered(acc.ranges) = File
  /\ Allocated \subseteq Covered(acc.ranges)
  /\ Allocated \cap Claimed(acc.streams) \subseteq Claimed(m_streams)
  /\ Covered(acc.ranges) \subseteq Downloaded \cup Claimed(acc.streams)

(* A visit keeps what the loop keeps. *)
LEMMA QuietVisitKeeps ==
  ASSUME TypeInv, m_accept_multi, NEW todo, NEW i \in todo, i \in 1 .. Len(m_streams),
         NEW acc, QuietRound(acc, todo),
         NEW expired, \A j \in expired : m_streams[j].op = "none"
  PROVE  QuietRound(Visit(acc, i, expired), todo \ {i})
<1> DEFINE v == Visit(acc, i, expired)
           N == Len(m_streams)
           q == acc.streams
           r == v.streams
           s == q[i]
           t == r[i]
<1> SUFFICES QuietRound(v, todo \ {i})
  OBVIOUS
<1>0. m_download_point \in Nat /\ N \in Nat /\ i \in 1 .. N
  BY DEF TypeInv, ModesInv, StreamsInv
<1>1. acc \in Rounds(N) /\ acc.streams[i] = m_streams[i] /\ Settled(acc.streams[i], FALSE)
  BY DEF QuietRound
<1>2. /\ v \in Rounds(N)
      /\ v.streams = [acc.streams EXCEPT ![i] = v.streams[i]]
      /\ Goes(acc.streams[i], 0, acc.ranges, v.streams[i], v.ranges)
      /\ Rests(v, acc, acc.streams[i], v.streams[i])
  <2>1. v = Visit(acc, i, expired)
    OBVIOUS
  <2>2. i \in expired => m_streams[i].op = "none"
    OBVIOUS
  <2> HIDE DEF v, N
  <2>3. /\ v \in Rounds(N)
        /\ v.streams = [acc.streams EXCEPT ![i] = v.streams[i]]
        /\ Goes(acc.streams[i], 0, acc.ranges, v.streams[i], v.ranges)
    BY <1>0, <1>1, <2>1, VisitGoes
  <2>4. Rests(v, acc, acc.streams[i], v.streams[i])
    BY <1>0, <1>1, <2>1, <2>2, VisitRests
  <2> QED
    BY <2>3, <2>4
<1> HIDE DEF v
<1>3. /\ q \in Seq(Streams) /\ Len(q) = N /\ i \in DOMAIN q /\ DOMAIN q = 1 .. N
      /\ t \in Streams /\ IsRanges(v.ranges, Size)
  BY <1>0, <1>1, <1>2 DEF Rounds, Goes
<1>4. DOMAIN r = DOMAIN q /\ r[i] = t /\ \A j \in DOMAIN q \ {i} : r[j] = q[j]
  <2>1. r = [q EXCEPT ![i] = t]
    BY <1>2
  <2> HIDE DEF q, r, t
  <2>2. DOMAIN r = DOMAIN q /\ r[i] = t /\ \A j \in DOMAIN q \ {i} : r[j] = q[j]
    BY <1>3, <2>1
  <2> QED
    BY <2>2
<1>5. /\ Claimed(q) \subseteq Claimed(r) \cup Claim(s)
      /\ Claimed(r) \subseteq Claimed(q) \cup Claim(t)
      /\ Claim(t) \subseteq Claimed(r) /\ Claim(s) \subseteq Claimed(q)
  <2>1. s = q[i]
    OBVIOUS
  <2> HIDE DEF q, r, s, t
  <2> QED
    BY <1>3, <1>4, <2>1 DEF Claimed
<1>6. /\ acc.late = {}
      /\ \A j \in todo : q[j] = m_streams[j]
      /\ \A j \in 1 .. N : Settled(q[j], FALSE)
      /\ (\E j \in 1 .. N : q[j].done) => Covered(acc.ranges) = File
      /\ Allocated \subseteq Covered(acc.ranges)
      /\ Allocated \cap Claimed(q) \subseteq Claimed(m_streams)
      /\ Covered(acc.ranges) \subseteq Downloaded \cup Claimed(q)
  BY DEF QuietRound
<1>7. v.late = {} /\ Settled(t, FALSE)
  BY <1>2, <1>6 DEF Rests
<1>8. /\ Covered(acc.ranges) \subseteq Covered(v.ranges)
      /\ Covered(v.ranges) \subseteq Covered(acc.ranges) \cup Claim(t)
      /\ Claim(t) \subseteq Claim(s) \/ Claim(t) \cap Covered(acc.ranges) = {}
      /\ Claim(s) \subseteq Claim(t)
      /\ t.done => s.done \/ Covered(v.ranges) = File
  <2>1. Rests(v, acc, s, t)
    BY <1>2
  <2> HIDE DEF s, t
  <2> QED
    BY <2>1 DEF Rests, Claim
<1> HIDE DEF q, r, s, t, N
<1>9. \A j \in todo \ {i} : r[j] = m_streams[j]
  <2> SUFFICES ASSUME NEW j \in todo \ {i}
               PROVE  r[j] = m_streams[j]
    OBVIOUS
  <2>1. r = [q EXCEPT ![i] = t]
    BY <1>2 DEF q, r, t
  <2> QED
    BY <1>3, <1>6, <2>1
<1>10. \A j \in 1 .. N : Settled(r[j], FALSE)
  BY <1>3, <1>4, <1>6, <1>7
<1>11. (\E j \in 1 .. N : r[j].done) => Covered(v.ranges) = File
  <2> SUFFICES ASSUME NEW j \in 1 .. N, r[j].done
               PROVE  Covered(v.ranges) = File
    OBVIOUS
  <2>1. Covered(v.ranges) \subseteq File
    BY <1>3, CoveredInFile
  <2>2. (\E k \in 1 .. N : q[k].done) \/ Covered(v.ranges) = File
    BY <1>3, <1>4, <1>8 DEF s
  <2> QED
    BY <1>6, <1>8, <2>1, <2>2
<1>12. Allocated \cap Claimed(r) \subseteq Claimed(m_streams)
  BY <1>5, <1>6, <1>8
<1>13. Covered(v.ranges) \subseteq Downloaded \cup Claimed(r)
  BY <1>5, <1>6, <1>8
<1>14. Allocated \subseteq Covered(v.ranges)
  BY <1>6, <1>8
<1> QED
  BY <1>2, <1>7, <1>9, <1>10, <1>11, <1>12, <1>13, <1>14 DEF QuietRound, r, N

(* on_tick's loop keeps it. *)
LEMMA QuietVisitAllKeeps ==
  ASSUME TypeInv, m_accept_multi, ~m_abort, Quiet,
         NEW expired, \A j \in expired : m_streams[j].op = "none"
  PROVE  QuietRound(VisitAll(expired), {})
<1> DEFINE D == 1 .. Len(m_streams)
<1>1. PICK g : IsVisitOf(g, expired) /\ VisitAll(expired) = g[D]
  BY VisitAllIsFold
<1> DEFINE G == {s \in SUBSET D : QuietRound(g[s], D \ s)}
<1>2. IsFiniteSet(D) /\ D \subseteq Int
  <2> DEFINE N == Len(m_streams)
  <2>1. N \in Nat
    BY DEF TypeInv, StreamsInv
  <2> HIDE DEF N
  <2>2. IsFiniteSet(1 .. N) /\ 1 .. N \subseteq Int
    BY <2>1, FS_Interval
  <2> QED
    BY <2>2 DEF N
<1>3. {} \in G
  <2>1. QuietRound(FirstRound, D)
    <3>1. /\ FirstRound.streams = m_streams /\ FirstRound.ranges = m_rangefield
          /\ FirstRound.late = late
      BY DEF FirstRound
    <3>2. m_abort = FALSE /\ DOMAIN m_streams = D
      BY DEF TypeInv, ModesInv, StreamsInv
    <3> QED
      BY <3>1, <3>2, FirstRoundIsRound DEF QuietRound, Quiet, Allocated
  <2>2. D \ {} = D
    OBVIOUS
  <2> QED
    BY <1>1, <2>1, <2>2 DEF IsVisitOf
<1>4. ASSUME NEW s \in SUBSET D, s # {}, s \ {Max(s)} \in G
      PROVE  s \in G
  <2> DEFINE x == Max(s)
             u == s \ {x}
             todo == D \ u
  <2>1. x \in D /\ x \in s
    BY <1>2, <1>4, FS_Subset, MaxIsLargest
  <2>2. g[s] = Visit(g[u], x, expired)
    BY <1>1, <1>4 DEF IsVisitOf
  <2>3. QuietRound(g[u], todo) /\ x \in todo /\ todo \ {x} = D \ s
    BY <1>4, <2>1
  <2> HIDE DEF x, u, todo
  <2>4. QuietRound(g[s], todo \ {x})
    BY <2>1, <2>2, <2>3, QuietVisitKeeps
  <2> QED
    BY <2>3, <2>4
<1>5. SUBSET D \subseteq G
  <2> HIDE DEF G, D
  <2>1. \A s \in SUBSET D : s # {} /\ s \ {Max(s)} \in G => s \in G
    BY <1>4
  <2> QED
    BY <1>2, <1>3, <2>1, SubsetInduction
<1>6. QuietRound(g[D], D \ D)
  BY <1>5
<1> QED
  BY <1>1, <1>6

(* Merging the downloaded intervals lets none begin at a new byte. *)
LEMMA TidyBegins ==
  ASSUME NEW m, IsRanges(m, Size)
  PROVE  /\ Covered(Merge(m)) = Covered(m)
         /\ Begins(Merge(m)) \subseteq Begins(m)
         /\ Begins(m) \subseteq Covered(m)
<1>1. Covered(Merge(m)) = Covered(m)
  BY Sizes, MergeKeepsBytes
<1>2. Begins(Merge(m)) \subseteq Begins(m)
  BY Sizes, MergedEntriesBegin DEF Begins
<1>3. \A k \in DOMAIN m : k \in Int /\ m[k] \in Int
  BY Sizes DEF IsRanges
<1>4. Begins(m) \subseteq Covered(m)
  BY <1>3 DEF Begins, Covered, Bytes
<1> QED
  BY <1>1, <1>2, <1>4

(* What Quiet says of the next state, in terms of the new values. *)
LEMMA QuietNext ==
  ASSUME late' = {},
         \A i \in DOMAIN m_streams' : Settled(m_streams'[i], m_abort'),
         (\E i \in DOMAIN m_streams' : m_streams'[i].done) => Covered(m_rangefield') = File,
         Begins(m_downlaoded_field') \subseteq Covered(m_rangefield'),
         Begins(m_downlaoded_field') \cap Claimed(m_streams') = {},
         Covered(m_rangefield') \subseteq Covered(m_downlaoded_field') \cup Claimed(m_streams')
  PROVE  Quiet'
<1>1. /\ Allocated' = Covered(m_rangefield') /\ Downloaded' = Covered(m_downlaoded_field')
      /\ Begins(m_downlaoded_field)' = Begins(m_downlaoded_field')
      /\ Claimed(m_streams)' = Claimed(m_streams')
  BY DEF Allocated, Downloaded, Claimed, Claim, Position, Begins, Covered, Bytes
<1> QED
  BY <1>1 DEF Quiet, Settled, Position

(* on_tick forgets nothing, *)
LEMMA TickQuiet ==
  ASSUME SafeInv, Quiet, m_accept_multi, Faults = {}, ~m_abort, UpdateMeta,
         NEW expired, TickFinding(expired)
  PROVE  Quiet'
<1> DEFINE end == VisitAll(expired)
           N == Len(m_streams)
           d == m_downlaoded_field
<1>1. /\ m_streams' = end.streams /\ m_rangefield' = end.ranges /\ late' = end.late
      /\ m_downlaoded_field' = Merge(d) /\ ~m_abort
      /\ \A j \in expired : m_streams[j].op = "none"
  BY DEF TickFinding, UpdateMeta, MayExpire
<1>2. TypeInv /\ IsRanges(d, Size)
  BY DEF SafeInv, TypeInv, FieldsInv
<1>3. QuietRound(end, {})
  BY <1>1, <1>2, QuietVisitAllKeeps
<1> HIDE DEF end
<1>4. /\ end.streams \in Seq(Streams) /\ Len(end.streams) = N /\ end.late = {}
      /\ \A j \in 1 .. N : Settled(end.streams[j], FALSE)
      /\ (\E j \in 1 .. N : end.streams[j].done) => Covered(end.ranges) = File
      /\ Allocated \subseteq Covered(end.ranges)
      /\ Allocated \cap Claimed(end.streams) \subseteq Claimed(m_streams)
      /\ Covered(end.ranges) \subseteq Downloaded \cup Claimed(end.streams)
  BY <1>3 DEF QuietRound, Rounds
<1>5. DOMAIN m_streams' = 1 .. N
  BY <1>1, <1>4
<1>6. /\ Begins(d) \subseteq Allocated
      /\ Begins(d) \cap Claimed(m_streams) = {}
  BY DEF Quiet
<1>7. /\ Covered(Merge(d)) = Covered(d) /\ Begins(Merge(d)) \subseteq Begins(d)
  BY <1>2, TidyBegins
<1>8. \A i \in DOMAIN m_streams' : Settled(m_streams'[i], m_abort')
  BY <1>1, <1>4, <1>5 DEF Settled
<1>9. (\E i \in DOMAIN m_streams' : m_streams'[i].done) => Covered(m_rangefield') = File
  BY <1>1, <1>4, <1>5
<1>10. Begins(m_downlaoded_field') \subseteq Covered(m_rangefield')
  BY <1>1, <1>4, <1>6, <1>7
<1>11. Begins(m_downlaoded_field') \cap Claimed(m_streams') = {}
  BY <1>1, <1>4, <1>6, <1>7
<1>12. Covered(m_rangefield') \subseteq Covered(m_downlaoded_field') \cup Claimed(m_streams')
  BY <1>1, <1>4, <1>7 DEF Downloaded
<1>13. late' = {}
  BY <1>1, <1>4
<1> QED
  BY <1>8, <1>9, <1>10, <1>11, <1>12, <1>13, QuietNext

(* and neither do the last on_tick and fetch_data(), which merge, *)
LEMMA TidyQuiet ==
  ASSUME SafeInv, Quiet,
         m_downlaoded_field' = Merge(m_downlaoded_field),
         UNCHANGED <<m_abort, m_rangefield, m_streams, late>>
  PROVE  Quiet'
<1> DEFINE d == m_downlaoded_field
<1>1. IsRanges(d, Size)
  BY DEF SafeInv, TypeInv, FieldsInv
<1>2. Covered(Merge(d)) = Covered(d) /\ Begins(Merge(d)) \subseteq Begins(d)
  BY <1>1, TidyBegins
<1>3. /\ late' = {}
      /\ \A i \in DOMAIN m_streams' : Settled(m_streams'[i], m_abort')
      /\ (\E i \in DOMAIN m_streams' : m_streams'[i].done) => Covered(m_rangefield') = File
  BY DEF Quiet, Allocated
<1>4. /\ Begins(m_downlaoded_field') \subseteq Covered(m_rangefield')
      /\ Begins(m_downlaoded_field') \cap Claimed(m_streams') = {}
      /\ Covered(m_rangefield') \subseteq Covered(m_downlaoded_field') \cup Claimed(m_streams')
  BY <1>2 DEF Quiet, Allocated, Downloaded
<1> QED
  BY <1>3, <1>4, QuietNext

(* or handle_start, which continues with what the meta file says. *)
LEMMA StartQuiet ==
  ASSUME NoWrap, SafeInv, HandleStart, m_accept_multi'
  PROVE  Quiet'
<1>1. m_streams = <<>> /\ late = {} /\ m_abort' = FALSE /\ late' = late
      /\ m_download_point \in Nat
  BY DEF HandleStart, SafeInv, TypeInv, StreamsInv, ModesInv
<1>2. PICK multi \in Modes :
       /\ m_accept_multi' = multi
       /\ \E have \in {OpenMeta(multi)} :
            \E net \in {IF multi THEN Connect(have)
                        ELSE [ranges |-> have, streams |-> <<Single>>]} :
              /\ m_downlaoded_field' = Merge(have)
              /\ IF IsFull(Merge(have), Size)
                 THEN /\ phase' = "over"
                      /\ m_rangefield' = have
                      /\ UNCHANGED <<m_streams, ticking>>
                 ELSE /\ phase' = "running"
                      /\ m_rangefield' = net.ranges
                      /\ m_streams' = net.streams
                      /\ ticking' = TRUE
  BY DEF HandleStart
<1> DEFINE have == OpenMeta(multi)
           net == Connect(have)
<1>3. /\ m_downlaoded_field' = Merge(have)
      /\ \/ m_rangefield' = have /\ m_streams' = <<>>
         \/ m_rangefield' = net.ranges /\ m_streams' = net.streams
  BY <1>1, <1>2
<1>4. IsRanges(have, Size)
  <2>1. (meta = NoMeta \/ meta \in Bitfields) /\ multi \in BOOLEAN
    BY ChoicesAssumption DEF SafeInv, TypeInv, ModesInv
  <2>2. have = OpenMeta(multi)
    OBVIOUS
  <2> HIDE DEF have
  <2> QED
    BY <2>1, <2>2, OpenMetaRestores
<1>5. /\ Covered(Merge(have)) = Covered(have)
      /\ Begins(Merge(have)) \subseteq Covered(have)
  <2> HIDE DEF have
  <2> QED
    BY <1>4, TidyBegins
<1>6. NetInv(net, have, Connections)
  <2>1. net = Connect(have)
    OBVIOUS
  <2> HIDE DEF net, have
  <2> QED
    BY <1>1, <1>4, <2>1, ConnectKeeps
<1> HIDE DEF net, have
<1>7. late' = {}
  BY <1>1
<1>8. CASE m_rangefield' = have /\ m_streams' = <<>>
  <2>1. DOMAIN m_streams' = {} /\ Claimed(m_streams') = {}
    BY <1>8 DEF Claimed
  <2> QED
    BY <1>3, <1>5, <1>7, <1>8, <2>1, QuietNext
<1>9. CASE m_rangefield' = net.ranges /\ m_streams' = net.streams
  <2>1. /\ net.streams \in Seq(Streams)
        /\ \A i \in DOMAIN net.streams : IsFresh(net.streams[i])
        /\ Covered(have) \cap Claimed(net.streams) = {}
        /\ Covered(have) \cup Claimed(net.streams) = Covered(net.ranges)
        /\ (\E i \in DOMAIN net.streams : net.streams[i].done) => Covered(net.ranges) = File
    BY <1>6 DEF NetInv, Nets
  <2>2. ASSUME NEW i \in DOMAIN net.streams
        PROVE  Settled(net.streams[i], FALSE)
    <3>1. net.streams[i] \in Streams /\ IsFresh(net.streams[i])
      BY <2>1
    <3>2. Position(net.streams[i]) = net.streams[i].left
      BY <3>1, StreamFields DEF Position, IsFresh
    <3> QED
      BY <3>1, <3>2 DEF Settled, IsFresh
  <2>3. \A i \in DOMAIN m_streams' : Settled(m_streams'[i], m_abort')
    BY <1>1, <1>9, <2>2
  <2>4. /\ (\E i \in DOMAIN m_streams' : m_streams'[i].done) => Covered(m_rangefield') = File
        /\ Begins(m_downlaoded_field') \subseteq Covered(m_rangefield')
        /\ Begins(m_downlaoded_field') \cap Claimed(m_streams') = {}
        /\ Covered(m_rangefield') \subseteq Covered(m_downlaoded_field') \cup Claimed(m_streams')
    BY <1>3, <1>5, <1>9, <2>1
  <2> QED
    BY <1>7, <2>3, <2>4, QuietNext
<1> QED
  BY <1>3, <1>8, <1>9

(* Every step keeps the invariant when nothing fails. *)
LEMMA StepQuiet ==
  ASSUME NoWrap, Faults = {}, SafeInv, QuietInv, [Next]_vars
  PROVE  QuietInv'
<1> SUFFICES ASSUME m_accept_multi'
             PROVE  Quiet'
  BY DEF QuietInv
<1>1. CASE HandleStart
  BY <1>1, StartQuiet
<1>2. ASSUME NEW i \in DOMAIN m_streams, Completion(i)
      PROVE  Quiet'
  <2>1. m_accept_multi' = m_accept_multi
    BY <1>2 DEF Completion, HandleOpenOrRequest, HandleRead, HandleReadError,
               HandleReadMisframed, modes
  <2>2. Quiet /\ m_accept_multi
    BY <2>1 DEF QuietInv
  <2> QED
    BY <1>2, <2>2, OpenOrRequestQuiet, ReadQuiet, ReadErrorQuiet
       DEF Completion, HandleReadMisframed
<1>3. ASSUME NEW z \in late, LateCompletion(z)
      PROVE  Quiet'
  <2>1. m_accept_multi' = m_accept_multi
    BY <1>3 DEF LateCompletion, HandleLateOpenOrRequest, HandleLateRead, HandleLateError, modes
  <2> QED
    BY <1>3, <2>1 DEF QuietInv, Quiet
<1>4. CASE Tick
  <2>1. PICK expired : TickFinding(expired)
    BY <1>4 DEF Tick
  <2>2. m_accept_multi' = m_accept_multi
    BY <2>1 DEF TickFinding, modes
  <2>3. Quiet /\ m_accept_multi
    BY <2>2 DEF QuietInv
  <2>4. ~m_abort /\ UpdateMeta
    BY <1>4 DEF Tick
  <2> QED
    BY <2>1, <2>3, <2>4, TickQuiet
<1>5. CASE LastTick
  <2>1. m_accept_multi' = m_accept_multi /\ UpdateMeta
        /\ UNCHANGED <<m_abort, m_rangefield, m_streams, late>>
    BY <1>5 DEF LastTick, modes
  <2>2. m_downlaoded_field' = Merge(m_downlaoded_field) /\ Quiet
    BY <2>1 DEF QuietInv, UpdateMeta
  <2> QED
    BY <2>1, <2>2, TidyQuiet
<1>6. ASSUME NEW offset \in FetchOffsets, NEW length \in FetchLengths,
             FetchData(offset, length)
      PROVE  Quiet'
  <2>1. /\ m_accept_multi' = m_accept_multi
        /\ m_downlaoded_field' = Merge(m_downlaoded_field)
        /\ UNCHANGED <<m_abort, m_rangefield, m_streams, late>>
    BY <1>6 DEF FetchData, modes
  <2> QED
    BY <2>1, TidyQuiet DEF QuietInv
<1>7. CASE Crash
  BY <1>7 DEF Crash
<1>8. CASE UNCHANGED vars
  <2>1. /\ m_accept_multi' = m_accept_multi
        /\ UNCHANGED <<m_abort, m_rangefield, m_downlaoded_field, m_streams, late>>
    BY <1>8 DEF vars
  <2> QED
    BY <2>1 DEF QuietInv, Quiet, Allocated, Downloaded, Claimed, Claim, Position, Begins,
                Covered, Bytes, Settled
<1> QED
  BY <1>1, <1>2, <1>3, <1>4, <1>5, <1>6, <1>7, <1>8 DEF Next

(* Both invariants hold always, when nothing fails. *)
LEMMA QuietInvariant ==
  ASSUME NoWrap, Faults = {}
  PROVE  Spec => [](SafeInv /\ QuietInv)
<1>1. Init => SafeInv /\ QuietInv
  BY InitSafe DEF Init, QuietInv
<1>2. SafeInv /\ QuietInv /\ [Next]_vars => SafeInv' /\ QuietInv'
  BY StepSafe, StepQuiet
<1> QED
  BY <1>1, <1>2, PTL DEF Spec

(* When nothing fails, no allocated byte is ever left to nobody, however   *)
(* the connections, the timer, fetch_data() and crashes alternate: it has  *)
(* been downloaded, or a connection is to fetch it.                        *)
THEOREM NothingIsForgotten ==
  ASSUME NoWrap, Faults = {}
  PROVE  Spec => []NothingForgotten
<1>1. SafeInv /\ QuietInv => NothingForgotten
  BY DEF QuietInv, Quiet, NothingForgotten, Claimed
<1> QED
  BY <1>1, QuietInvariant, PTL

(* When nothing fails, a download all of whose connections are done is     *)
(* complete, as on_tick takes for granted when it stops the download.      *)
THEOREM DoneDownloadIsComplete ==
  ASSUME NoWrap, Faults = {}
  PROVE  Spec => []DoneIsComplete
<1>1. SafeInv /\ QuietInv => DoneIsComplete
  <2> SUFFICES ASSUME SafeInv, QuietInv, m_accept_multi, AllDone
               PROVE  Downloaded = File
    BY DEF DoneIsComplete
  <2>1. m_streams \in Seq(Streams) /\ m_streams # <<>>
        /\ \A i \in DOMAIN m_streams : m_streams[i].done
    BY DEF AllDone, SafeInv, TypeInv, StreamsInv
  <2>2. Claimed(m_streams) = {}
    BY <2>1 DEF Claimed, Claim
  <2>3. 1 \in DOMAIN m_streams
    BY <2>1
  <2>4. Allocated = File /\ Allocated \subseteq Downloaded \cup Claimed(m_streams)
    BY <2>1, <2>3 DEF QuietInv, Quiet
  <2>5. Downloaded \subseteq File
    BY CoveredInFile DEF Downloaded, SafeInv, TypeInv, FieldsInv
  <2> QED
    BY <2>2, <2>4, <2>5
<1> QED
  BY <1>1, QuietInvariant, PTL
=============================================================================
