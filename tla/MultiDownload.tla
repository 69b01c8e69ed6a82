--------------------------- MODULE MultiDownload ---------------------------
(***************************************************************************)
(* The transfer engine of multi_download (include/avhttp/impl/             *)
(* multi_download.ipp): how the bytes of a file of known size are divided  *)
(* between connections, asked for, received, recorded in the two           *)
(* rangefields and the meta file, reconnected after errors and time-outs,  *)
(* and resumed after a crash of the program.                               *)
(*                                                                         *)
(* Each handler is one action here; RangeAllocator and DownloadLifecycle   *)
(* have the interleavings inside the handlers.  Completions come in any    *)
(* order, so a success that was queued when on_tick closed the stream may  *)
(* be handled late, on the object on_tick has already replaced; and an     *)
(* open that this close has missed goes on, and downloads beside the       *)
(* connection that has taken its place.                                    *)
(*                                                                         *)
(* The server answers a request for a range with exactly that range, any   *)
(* number of bytes at a time.  A read of 0 bytes (the rate limit) changes  *)
(* nothing of this and is left out.                                        *)
(***************************************************************************)
EXTENDS Integers, Sequences, FiniteSets, RangeRequest

CONSTANTS
  Size,          \* the file size, known from the first response
  Piece,         \* settings::piece_size
  MaxRequest,    \* request_piece_num * piece_size
  Connections,   \* settings::connections_limit
  Modes,         \* the values m_accept_multi may get
  Faults,        \* what may go wrong: see ChoicesAssumption
  MaxRead,       \* bound: the most bytes one read delivers
  MaxLate,       \* bound: replaced connections with an operation at a time
  MaxCrashes,    \* bound: crashes of the program
  FetchOffsets,  \* the offsets and buffer lengths fetch_data is called with
  FetchLengths

ASSUME SizesAssumption ==
  /\ Size \in Nat \ {0} /\ Piece \in Nat \ {0} /\ MaxRequest \in Nat \ {0}
  /\ Connections \in Nat \ {0} /\ MaxRead \in Nat \ {0}
  /\ MaxLate \in Nat /\ MaxCrashes \in Nat
ASSUME ChoicesAssumption ==
  /\ Modes \subseteq BOOLEAN
  /\ Faults \subseteq {"error", "framing", "stall", "refused", "storage"}
  /\ FetchOffsets \subseteq Nat /\ FetchLengths \subseteq Nat

VARIABLES
  phase,              \* "starting": the first open is under way; "running"; "over"
  m_abort, m_accept_multi, m_keep_alive, m_download_point,
  m_rangefield,       \* what has been allocated to connections
  m_downlaoded_field, \* what has been downloaded
  m_streams,          \* the connections
  late,               \* replaced connections whose operation may succeed still
  ticking,            \* the timer is running
  written,            \* storage: the bytes of the file that have been written
  meta,               \* the meta file: the complete pieces, or NoMeta
  fetched,            \* the bytes the last call, if it was fetch_data, returned
  crashes

vars == <<phase, m_abort, m_accept_multi, m_keep_alive, m_download_point,
          m_rangefield, m_downlaoded_field, m_streams, late, ticking, written,
          meta, fetched, crashes>>
disk  == <<meta, crashes>>
modes == <<phase, m_accept_multi, m_keep_alive>>

(* Far above the products of the small files here; RangefieldCalls has the *)
(* wrap of the piece borders.                                              *)
IntLimit == 2 ^ 20
NoMeta == [len |-> 0, ones |-> {}]
File == 0 .. (Size - 1)

(* An http_stream_object: request_range, bytes_transferred, the operation   *)
(* in flight, done, direct_reconnect, an ec that forbids another try, and  *)
(* whether the server sends everything up to the end of the file - to the  *)
(* first connection, which asked for "bytes=0-" - or the range only.       *)
Stream(request, op, wide) ==
  [left |-> request.left, right |-> request.right, xfer |-> 0, op |-> op,
   done |-> FALSE, direct |-> FALSE, refused |-> FALSE, wide |-> wide]

Position(s)  == s.left + s.xfer
ServerEnd(s) == IF s.wide THEN Size - 1 ELSE s.right

(* Mutant of Finished: request_range is inclusive, its size is not.        *)
FinishedEarly(s) == s.xfer >= s.right - s.left
Finished(s) == s.xfer >= s.right - s.left + 1

Allocate(ranges) == AllocateRange(ranges, Size, m_download_point, MaxRequest)

(* A loop over the connections 1 .. n, from the first to the last. *)
ForEach(op(_, _), base, n) ==
  MapThenFoldSet(LAMBDA i, acc : op(acc, i), base, LAMBDA i : i, LAMBDA S : Max(S), 1 .. n)

Init ==
  /\ phase = "starting"
  /\ m_abort = FALSE /\ m_accept_multi = FALSE /\ m_keep_alive = FALSE
  /\ m_download_point = 0
  /\ m_rangefield = EmptyMap /\ m_downlaoded_field = EmptyMap
  /\ m_streams = <<>> /\ late = {}
  /\ ticking = FALSE
  /\ written = {} /\ meta = NoMeta
  /\ fetched = {}
  /\ crashes = 0

-----------------------------------------------------------------------------
(* handle_start.  open_meta: what an earlier run has saved is neither      *)
(* allocated nor downloaded again.                                         *)
OpenMeta(multi) ==
  IF multi /\ meta # NoMeta THEN BitfieldToRange(meta, Size, Piece, IntLimit)
                            ELSE EmptyMap

(* The connections handle_start creates: the first goes on reading unless  *)
(* its range begins elsewhere than at 0; the others are opened.            *)
NoStream == [Stream([left |-> 0, right |-> 0], "none", FALSE) EXCEPT !.done = TRUE]

ConnectOne(acc, i) ==
  LET first(a) == i = 1 /\ a.request.left = 0
      connect(a) ==
        [ranges |-> a.ranges,
         streams |->
           IF a.ok
           THEN Append(acc.streams,
                       Stream(a.request, IF first(a) THEN "read" ELSE "open", first(a)))
           ELSE IF i = 1 THEN <<NoStream>> ELSE acc.streams]
  IN  connect(Allocate(acc.ranges))

Connect(ranges) ==
  ForEach(ConnectOne, [ranges |-> ranges, streams |-> <<>>], Connections)

Single == Stream([left |-> 0, right |-> 0], "read", TRUE)

HandleStart ==
  /\ phase = "starting"
  /\ \E multi \in Modes, keep \in BOOLEAN :
       /\ m_accept_multi' = multi
       /\ m_keep_alive' = (multi /\ keep)
       /\ \E have \in {OpenMeta(multi)} :
            \E net \in {IF multi THEN Connect(have)
                        ELSE [ranges |-> have, streams |-> <<Single>>]} :
              /\ m_downlaoded_field' = Merge(have)
              /\ IF IsFull(Merge(have), Size)
                 THEN /\ phase' = "over"
                      /\ m_rangefield' = have
                      /\ UNCHANGED <<m_streams, ticking>>
                 ELSE /\ phase' = "running"
                      /\ m_rangefield' = net.ranges
                      /\ m_streams' = net.streams
                      /\ ticking' = TRUE
  /\ m_abort' = FALSE
  /\ fetched' = {}
  /\ UNCHANGED <<m_download_point, late, written, disk>>

-----------------------------------------------------------------------------
(* An operation on the i-th connection fails, or completes after the       *)
(* download has been aborted: on_tick will look at it, or a single         *)
(* connection ends the download.                                           *)
GiveUp(i, refused) ==
  /\ m_streams' = [m_streams EXCEPT ![i].op = "none", ![i].refused = refused]
  /\ m_abort' = (m_abort \/ ~m_accept_multi)

(* handle_open and handle_request: forbidden, not_found and                *)
(* method_not_allowed are the refusals.                                    *)
HandleOpenOrRequest(i) ==
  /\ m_streams[i].op \in {"open", "request"}
  /\ \/ /\ ~m_abort
        /\ m_streams' = [m_streams EXCEPT ![i].op = "read"]
        /\ UNCHANGED m_abort
     \/ /\ \/ m_abort /\ GiveUp(i, FALSE)
           \/ "error" \in Faults /\ GiveUp(i, FALSE)
           \/ "refused" \in Faults /\ GiveUp(i, TRUE)
  /\ fetched' = {}
  /\ UNCHANGED <<modes, m_download_point, m_rangefield, m_downlaoded_field, late,
                 ticking, written, disk>>

(* n bytes have arrived: they are recorded, then written, and nobody looks *)
(* at what the write returns.                                              *)
Save(s, n) ==
  /\ m_downlaoded_field' =
       IF n > 0 THEN Update(m_downlaoded_field, Position(s), Position(s) + n)
                ELSE m_downlaoded_field
  /\ \/ written' = written \cup Bytes(Position(s), Position(s) + n)
     \/ "storage" \in Faults /\ UNCHANGED written

(* Mutant of NextRequest: bytes_transferred is not reset. *)
NextKeepsCount(s, request) ==
  [s EXCEPT !.op = "request", !.left = request.left, !.right = request.right,
            !.wide = FALSE]

(* A kept-alive connection gets another request_range. *)
NextRequest(s, request) ==
  [s EXCEPT !.op = "request", !.left = request.left, !.right = request.right,
            !.xfer = 0, !.wide = FALSE]

(* After a read without error: a finished range leads to a reconnect by    *)
(* on_tick, or, on a kept-alive connection, to a request for the next one; *)
(* otherwise to the next read.                                             *)
AfterRead(s, slot) ==
  LET reconnect == [s EXCEPT !.op = "none", !.direct = TRUE]
      again(a) == [stream |-> IF a.ok THEN NextRequest(s, a.request) ELSE reconnect,
                   ranges |-> a.ranges]
  IN  IF ~(m_accept_multi /\ Finished(s))
      THEN [stream |-> [s EXCEPT !.op = "read"], ranges |-> m_rangefield]
      ELSE IF ~m_keep_alive \/ (s.left = 0 /\ slot = 1)
      THEN [stream |-> reconnect, ranges |-> m_rangefield]
      ELSE again(Allocate(m_rangefield))

Arrivals(s) == {n \in 1 .. MaxRead : Position(s) + n - 1 <= ServerEnd(s)}

(* handle_read, without an error. *)
HandleRead(i) ==
  /\ m_streams[i].op = "read"
  /\ \E n \in Arrivals(m_streams[i]) :
       LET s == [m_streams[i] EXCEPT !.xfer = @ + n] IN
       /\ Save(m_streams[i], n)
       /\ IF m_abort \/ (~m_accept_multi /\ s.xfer = Size)
          THEN /\ m_streams' = [m_streams EXCEPT ![i] = [s EXCEPT !.op = "none"]]
               /\ m_abort' = TRUE
               /\ UNCHANGED m_rangefield
          ELSE /\ \E after \in {AfterRead(s, i)} :
                    /\ m_streams' = [m_streams EXCEPT ![i] = after.stream]
                    /\ m_rangefield' = after.ranges
               /\ UNCHANGED m_abort
  /\ fetched' = {}
  /\ UNCHANGED <<modes, m_download_point, late, ticking, disk>>

(* What a read may have brought when it ends with an error: the last bytes *)
(* of the answer, with eof; any bytes or none when the server closes the   *)
(* connection before; and none with an error other than eof, but for the   *)
(* one below.                                                              *)
LastBytes(s) ==
  {n \in Arrivals(s) \cup {0} : Position(s) + n - 1 = ServerEnd(s) \/ "error" \in Faults}

(* handle_read, with an error. *)
HandleReadError(i) ==
  /\ m_streams[i].op = "read"
  /\ \E n \in LastBytes(m_streams[i]) :
       /\ Save(m_streams[i], n)
       /\ m_streams' = [m_streams EXCEPT ![i].op = "none", ![i].xfer = @ + n]
  /\ m_abort' = (m_abort \/ ~m_accept_multi)
  /\ fetched' = {}
  /\ UNCHANGED <<modes, m_download_point, m_rangefield, late, ticking, disk>>

(* handle_read, with invalid_chunked_encoding: behind a chunk the stream   *)
(* has found something else than CRLF, be it the CR alone (SkipsACrlf in   *)
(* BodyReader), and passes on how many bytes it took: one or two.  Nothing *)
(* is saved with that error, but bytes_transferred is added up as ever.    *)
(* A chunk has come before, more is to come.                               *)
HandleReadMisframed(i) ==
  /\ "framing" \in Faults
  /\ m_streams[i].op = "read" /\ m_streams[i].xfer > 0 /\ Arrivals(m_streams[i]) # {}
  /\ \E n \in {1, 2} :
       m_streams' = [m_streams EXCEPT ![i].op = "none", ![i].xfer = @ + n]
  /\ m_abort' = (m_abort \/ ~m_accept_multi)
  /\ fetched' = {}
  /\ UNCHANGED <<modes, m_download_point, m_rangefield, m_downlaoded_field, late,
                 ticking, written, disk>>

-----------------------------------------------------------------------------
(* The handlers of a connection z that on_tick has replaced meanwhile: on  *)
(* the closed stream, caught, a read that has succeeded before is all that *)
(* can come, for what is started next fails; an open that the close has    *)
(* missed goes on and on.  Nobody looks at an object that is not in        *)
(* m_streams when it rests.                                                *)
GoesOn(z, s) ==
  late' = (late \ {z}) \cup
            (IF z.caught \/ s.op = "none" THEN {} ELSE {[z EXCEPT !.stream = s]})

HandleLateOpenOrRequest(z) ==
  /\ z.stream.op \in {"open", "request"} /\ ~m_abort
  /\ GoesOn(z, [z.stream EXCEPT !.op = "read"])
  /\ fetched' = {}
  /\ UNCHANGED <<modes, m_abort, m_download_point, m_rangefield, m_downlaoded_field,
                 m_streams, ticking, written, disk>>

HandleLateRead(z) ==
  /\ z.stream.op = "read"
  /\ \E n \in Arrivals(z.stream) :
       LET s == [z.stream EXCEPT !.xfer = @ + n] IN
       /\ Save(z.stream, n)
       /\ IF m_abort
          THEN late' = late \ {z} /\ UNCHANGED m_rangefield
          ELSE \E after \in {AfterRead(s, z.slot)} :
                 GoesOn(z, after.stream) /\ m_rangefield' = after.ranges
  /\ fetched' = {}
  /\ UNCHANGED <<modes, m_abort, m_download_point, m_streams, ticking, disk>>

(* The bytes that come with an error: an open the close has caught, or a   *)
(* read, is aborted without any; so ends what the server fails, and what   *)
(* completes after the download has been aborted.                          *)
LateBytes(z) ==
  (IF z.stream.op = "read" THEN LastBytes(z.stream) ELSE {}) \cup
  {n \in {0} : z.caught \/ z.stream.op = "open" \/ "error" \in Faults
                \/ (z.stream.op = "request" /\ m_abort)}

HandleLateError(z) ==
  /\ \E n \in LateBytes(z) : Save(z.stream, n)
  /\ late' = late \ {z}
  /\ fetched' = {}
  /\ UNCHANGED <<modes, m_abort, m_download_point, m_rangefield, m_streams, ticking, disk>>

-----------------------------------------------------------------------------
(* on_tick.                                                                *)

(* update_meta(): range_to_bitfield() merges the downloaded field.         *)
UpdateMeta ==
  IF m_accept_multi
  THEN \E tidy \in {Merge(m_downlaoded_field)} :
         /\ m_downlaoded_field' = tidy
         /\ meta' = RangeToBitfield(tidy, Size, Piece, IntLimit)
  ELSE UNCHANGED <<m_downlaoded_field, meta>>

(* Mutant of NothingLeft: the connection is not marked as done. *)
NothingLeftUnmarked(copy) == [copy EXCEPT !.op = "none"]

(* No range is left for a reconnect. *)
NothingLeft(copy) == [copy EXCEPT !.op = "none", !.done = TRUE]

(* The i-th connection has timed out or wants to reconnect: it is refused  *)
(* for good; or the only one; or replaced by a copy that goes on where it  *)
(* was, or with another range, or is done because there is none.  close()  *)
(* may have come too late for a read, and too early for an open; it does   *)
(* catch a request.                                                        *)
Reconnect(acc, i) ==
  LET s == acc.streams[i]
      copy == [s EXCEPT !.direct = FALSE, !.wide = FALSE, !.op = "open"]
      put(new, more) ==
        [acc EXCEPT !.streams[i] = new, !.ranges = more,
                    !.late = @ \cup {[slot |-> i, stream |-> s, caught |-> op = "read"] :
                                      op \in {s.op} \cap {"read", "open"}}]
      again(a) ==
        put(IF a.ok THEN [copy EXCEPT !.left = a.request.left,
                                      !.right = a.request.right, !.xfer = 0]
                    ELSE NothingLeft(copy), a.ranges)
  IN  IF s.refused THEN [acc EXCEPT !.streams[i].done = TRUE]
      ELSE IF ~m_accept_multi
           THEN [acc EXCEPT !.streams[i].done = TRUE, !.abort = TRUE]
      ELSE IF s.right - Position(s) > 0 THEN put(copy, acc.ranges)
      ELSE again(Allocate(acc.ranges))

(* A connection times out when nothing has been started on it for a while, *)
(* or the answer is slow.                                                  *)
MayExpire(s) == s.op = "none" \/ "stall" \in Faults

(* The loop over m_streams. *)
Visit(acc, i, expired) ==
  IF ~m_streams[i].done /\ (i \in expired \/ m_streams[i].direct)
  THEN Reconnect(acc, i) ELSE acc

VisitAll(expired) ==
  ForEach(LAMBDA acc, i : Visit(acc, i, expired),
          [streams |-> m_streams, ranges |-> m_rangefield, late |-> late, abort |-> FALSE],
          Len(m_streams))

TickFinding(expired) ==
  /\ \A i \in expired : MayExpire(m_streams[i])
  /\ \E end \in {VisitAll(expired)} :
       /\ Cardinality(end.late) <= MaxLate
       /\ m_streams' = end.streams
       /\ m_rangefield' = end.ranges
       /\ late' = end.late
       /\ m_abort' = (end.abort \/ \A i \in DOMAIN m_streams : end.streams[i].done)
  /\ fetched' = {}
  /\ UNCHANGED <<modes, m_download_point, ticking, written, crashes>>

(* The meta file is saved, then the connections are looked at: whether     *)
(* one has expired matters of those only that are to go on at all.         *)
Tick ==
  /\ ticking /\ ~m_abort
  /\ UpdateMeta
  /\ \E expired \in SUBSET {i \in DOMAIN m_streams : ~m_streams[i].done /\ ~m_streams[i].direct} :
       TickFinding(expired)

(* The last on_tick, after the abort. *)
LastTick ==
  /\ ticking /\ m_abort
  /\ ticking' = FALSE
  /\ UpdateMeta
  /\ fetched' = {}
  /\ UNCHANGED <<modes, m_abort, m_download_point, m_rangefield, m_streams, late,
                 written, crashes>>

-----------------------------------------------------------------------------
(* Mutant of FetchData: the buffer is filled if any of it can be. *)
FetchWholeBuffer(offset, length) ==
  /\ phase = "running"
  /\ m_download_point' = offset
  /\ m_downlaoded_field' = Merge(m_downlaoded_field)
  /\ fetched' = IF CheckRange(Merge(m_downlaoded_field), offset, 1)
                THEN Bytes(offset, offset + length) ELSE {}
  /\ UNCHANGED <<modes, m_abort, m_rangefield, m_streams, late, ticking, written, disk>>

(* fetch_data(buffers, offset): the buffer length is halved until          *)
(* check_range() answers true.                                             *)
FetchData(offset, length) ==
  LET tidy == Merge(m_downlaoded_field)
      halves == {n \in 1 .. length : \E k \in 0 .. length : n = length \div (2 ^ k)}
      good == {n \in halves : CheckRange(tidy, offset, n)}
      n == IF good = {} THEN 0 ELSE Max(good)
  IN /\ phase = "running"
     /\ m_download_point' = offset
     /\ m_downlaoded_field' = tidy
     /\ fetched' = Bytes(offset, offset + n)
     /\ UNCHANGED <<modes, m_abort, m_rangefield, m_streams, late, ticking, written, disk>>

(* The meta file that update_meta was about to write over the old one, of  *)
(* which the first n pieces got there.                                     *)
Torn ==
  {[meta EXCEPT !.ones = {p \in ones : p < n} \cup {p \in @ : p >= n}] :
     n \in 0 .. meta.len,
     ones \in IF ticking /\ m_accept_multi
              THEN {RangeToBitfield(Merge(m_downlaoded_field), Size, Piece, IntLimit).ones}
              ELSE {}}

(* The program dies, perhaps while it saves the meta file, and is started  *)
(* again with the same files.                                              *)
Crash ==
  /\ crashes < MaxCrashes
  /\ meta' \in {meta} \cup Torn
  /\ crashes' = crashes + 1
  /\ phase' = "starting"
  /\ m_abort' = FALSE /\ m_accept_multi' = FALSE /\ m_keep_alive' = FALSE
  /\ m_download_point' = 0
  /\ m_rangefield' = EmptyMap /\ m_downlaoded_field' = EmptyMap
  /\ m_streams' = <<>> /\ late' = {}
  /\ ticking' = FALSE
  /\ fetched' = {}
  /\ UNCHANGED written

Completion(i) ==
  HandleOpenOrRequest(i) \/ HandleRead(i) \/ HandleReadError(i) \/ HandleReadMisframed(i)
LateCompletion(z) == HandleLateOpenOrRequest(z) \/ HandleLateRead(z) \/ HandleLateError(z)

Next ==
  \/ HandleStart
  \/ \E i \in DOMAIN m_streams : Completion(i)
  \/ \E z \in late : LateCompletion(z)
  \/ Tick
  \/ LastTick
  \/ \E offset \in FetchOffsets, length \in FetchLengths : FetchData(offset, length)
  \/ Crash

Spec == Init /\ [][Next]_vars

(* Weak fairness of HandleStart, of the completions of each connection, of *)
(* the on_tick that finds a connection expired, and of LastTick, with      *)
(* ENABLED spelled out: the operation in flight can complete; a tick would *)
(* change the connection.                                                  *)
Busy(i) ==
  /\ i \in DOMAIN m_streams /\ m_streams[i].op # "none"
  /\ m_streams[i].op = "read" =>
       Arrivals(m_streams[i]) # {} \/ Position(m_streams[i]) - 1 = ServerEnd(m_streams[i])
Idle(i) ==
  /\ i \in DOMAIN m_streams /\ m_streams[i].op = "none" /\ ~m_streams[i].done
  /\ VisitAll({i}).streams[i] # m_streams[i]

Fairness ==
  /\ []<>(phase # "starting")
  /\ \A i \in 1 .. Connections :
       /\ []<>~Busy(i) \/ []<><<Busy(i) /\ m_streams'[i] # m_streams[i]>>_vars
       /\ []<>~(ticking /\ ~m_abort /\ Idle(i))
  /\ []<>~(ticking /\ m_abort)

FairSpec == Spec /\ Fairness

-----------------------------------------------------------------------------
Downloaded == Covered(m_downlaoded_field)
Allocated  == Covered(m_rangefield)

(* What a connection has still to fetch. *)
Claim(s) == IF s.done THEN {} ELSE Position(s) .. s.right

IsStream(s) ==
  /\ s.left \in File /\ s.right \in File /\ s.xfer \in 0 .. (Size + 1)
  /\ s.op \in {"none", "open", "request", "read"}
  /\ {s.done, s.direct, s.refused, s.wide} \subseteq BOOLEAN

TypeOK ==
  /\ phase \in {"starting", "running", "over"}
  /\ {m_abort, m_accept_multi, m_keep_alive, ticking} \subseteq BOOLEAN
  /\ m_download_point \in Nat
  /\ Allocated \subseteq File /\ Downloaded \subseteq File
  /\ \A i \in DOMAIN m_streams : IsStream(m_streams[i])
  /\ Len(m_streams) <= Connections
  /\ \A z \in late :
       z.slot \in DOMAIN m_streams /\ IsStream(z.stream) /\ z.caught \in BOOLEAN
  /\ written \subseteq File /\ fetched \subseteq Int
  /\ crashes \in 0 .. MaxCrashes

(* No two connections are to fetch the same byte, however often they have  *)
(* been replaced, and what they are to fetch is never allocated again.     *)
ClaimsDisjoint ==
  m_accept_multi =>
    /\ \A i, j \in DOMAIN m_streams :
         i # j => Claim(m_streams[i]) \cap Claim(m_streams[j]) = {}
    /\ \A i \in DOMAIN m_streams : Claim(m_streams[i]) \subseteq Allocated

(* What the program believes to have downloaded - before or after a crash, *)
(* from its own reads or from the meta file - is in the file.              *)
DownloadedIsWritten == Downloaded \subseteq written

(* Nothing is skipped: behind the position of a connection the bytes of    *)
(* its range are in the file.                                              *)
NoHoleBehind ==
  \A i \in DOMAIN m_streams :
    m_streams[i].left .. (Position(m_streams[i]) - 1) \subseteq written

(* Without faults no allocated byte is forgotten: it has been downloaded   *)
(* or is the next work of some connection.                                 *)
NothingForgotten ==
  m_accept_multi => Allocated \subseteq
    Downloaded \cup UNION {Claim(m_streams[i]) : i \in DOMAIN m_streams}

(* wait_for_complete returns whether file_size() bytes were downloaded,    *)
(* when the download has stopped and no operation is left.  It returns     *)
(* true of a file that is all there only, whatever was refused, given up   *)
(* or downloaded twice.                                                    *)
Stopped ==
  /\ m_abort /\ ~ticking /\ late = {}
  /\ \A i \in DOMAIN m_streams : m_streams[i].op = "none"
WaitResult == RangeSize(m_downlaoded_field) = Size
TrueIsComplete == Stopped /\ WaitResult => File \subseteq written

(* A player that reads from the start of the file gets downloaded bytes.   *)
HeadIsDownloaded == 0 \in fetched => fetched \subseteq Downloaded

(* multi_download.ipp:1613, "当m_streams中所有连接都done时, 表示已经下载完成":  *)
(* when all connections are done, the download is complete.                *)
AllDone == m_streams # <<>> /\ \A i \in DOMAIN m_streams : m_streams[i].done
DoneIsComplete == m_accept_multi /\ AllDone => Downloaded = File

(* Without faults the whole file gets downloaded, and the download ends.   *)
Completes == <>(Downloaded = File /\ ~ticking)

(* multi_download.ipp:636, "得到offset后面可读取的数据大小": fetch_data        *)
(* returns bytes behind offset that can be read.                           *)
FetchedIsDownloaded == fetched \subseteq Downloaded

(* rangefield.hpp:131, "可以重叠添加" (intervals may be added that overlap):   *)
(* a byte that was recorded as downloaded stays recorded while the program *)
(* runs, also when a late answer to a replaced connection is recorded      *)
(* beside the answer to the one that replaced it.                          *)
DownloadedStays == [][crashes' = crashes => Downloaded \subseteq Downloaded']_vars
=============================================================================
