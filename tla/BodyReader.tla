----------------------------- MODULE BodyReader -----------------------------
(***************************************************************************)
(* Reading response bodies through http_stream: read_some and              *)
(* async_read_some with what they keep between calls (the over-read        *)
(* m_response, the chunk in progress, the CRLF to skip, the inflater) over *)
(* one connection that may be kept alive for a second request.             *)
(*                                                                         *)
(* The wire is a sequence of tokens: a unit of the (perhaps compressed)    *)
(* body with the plain bytes it stands for, a chunk size, CR and LF.  The  *)
(* peer has sent everything it will send, so a read that finds nothing     *)
(* waits for ever or, if the peer closed, gets an end of file; how the     *)
(* bytes are cut into segments is what each read chooses.                  *)
(***************************************************************************)
EXTENDS Integers, Sequences, SequencesExt, FiniteSets

CONSTANTS
  Cases,           \* what the peer answers and how it is read: see below
  BufferSizes      \* the sizes of the caller's buffers

(***************************************************************************)
(* A case is a sequence of responses, the number of tokens of the last one *)
(* that the peer never sends (it then closes), and whether the caller uses *)
(* read_some or async_read_some.  A response has a framing, is kept alive  *)
(* or not, and its body is a sequence of chunks (of one, unless it is      *)
(* chunked) of units, a unit being the number of plain bytes it stands     *)
(* for: 1 without compression; with it 0 for the header and the trailer    *)
(* and any number in between.  A body that ends with the connection cannot *)
(* be kept alive, an empty chunk would be the last, and what is compressed *)
(* has a trailer.                                                          *)
(***************************************************************************)
WellFormed(p) ==
  /\ p.framing = "close" => ~p.keep
  /\ p.framing = "chunked" => \A j \in DOMAIN p.chunks : p.chunks[j] # << >>
  /\ LET units == FlattenSeq(p.chunks) IN
     IF p.gzip THEN units # << >> /\ units[Len(units)] = 0
     ELSE \A i \in DOMAIN units : units[i] = 1

Responses ==
  [framing : {"chunked", "length", "close"}, gzip : BOOLEAN, keep : BOOLEAN,
   chunks : Seq(Seq(Nat))]

Response == {p \in Responses : WellFormed(p)}

Case == [responses : Seq(Response) \ {<< >>}, unsent : Nat, mode : {"sync", "async"}]

ASSUME CasesAssumption == \A c \in Cases : c \in Case

ASSUME BufferSizesAssumption == BufferSizes \subseteq Nat \ {0}

VARIABLES
  exchange,        \* the case of this behaviour
  m_response,      \* the bytes read from the socket and not yet used
  m,               \* the other members the reads use, named as in the code
  m_stream,        \* the inflater: initialised, at its end, its input, its
                   \* output that found no room
  socket,          \* the tokens not yet read, and whether the peer closes
  call,            \* the read in progress: where it is, the caller's room,
                   \* and the tokens of the CRLF or of the size line so far
  user             \* the caller: the response it reads, the bytes it got,
                   \* the sum of the counts, and how its last call ended

vars == <<exchange, m_response, m, m_stream, socket, call, user>>

-----------------------------------------------------------------------------
(* The wire. *)

CR == [kind |-> "cr"]
LF == [kind |-> "lf"]
Size(n) == [kind |-> "size", n |-> n]
Unit(bytes, gzip, last) ==
  [kind |-> "unit", bytes |-> bytes, gzip |-> gzip, last |-> last]

(* The sums of the first 0, 1, ..., Len(s) numbers of s. *)
Sums(s) ==
  LET sums[i \in 0 .. Len(s)] == IF i = 0 THEN 0 ELSE sums[i - 1] + s[i] IN sums

(* The plain bytes of response r: number n, and those from one to another. *)
Byte(r, n) == <<r, n>>
Bytes(r, from, to) == [i \in 1 .. to - from |-> Byte(r, from + i)]
Body(r) ==
  LET units == FlattenSeq(exchange.responses[r].chunks) IN
  Bytes(r, 0, Sums(units)[Len(units)])

(* The units of response r as tokens; the last one of a compressed body is *)
(* the trailer that ends the compressed stream.                            *)
UnitToken(r, units, gzip, i) ==
  Unit(Bytes(r, Sums(units)[i - 1], Sums(units)[i]), gzip, gzip /\ i = Len(units))
Coded(r, units, gzip) == [i \in DOMAIN units |-> UnitToken(r, units, gzip, i)]

Lengths(chunks) == [i \in DOMAIN chunks |-> Len(chunks[i])]
Chunk(coded, chunks, j) ==
  LET before == Sums(Lengths(chunks))[j - 1] IN
  <<Size(Len(chunks[j])), CR, LF>>
    \o SubSeq(coded, before + 1, before + Len(chunks[j])) \o <<CR, LF>>

Wire(r, p) ==
  LET coded == Coded(r, FlattenSeq(p.chunks), p.gzip) IN
  IF p.framing # "chunked" THEN coded
  ELSE FlattenSeq([j \in DOMAIN p.chunks |-> Chunk(coded, p.chunks, j)])
         \o <<Size(0), CR, LF, CR, LF>>

(* What the peer sends for response r, and whether it closes after it. *)
Final(r) == r = Len(exchange.responses)
Sent(r) ==
  LET w == Wire(r, exchange.responses[r]) IN
  IF Final(r) THEN SubSeq(w, 1, Len(w) - exchange.unsent) ELSE w
Closes(r) == ~exchange.responses[r].keep \/ (Final(r) /\ exchange.unsent > 0)

-----------------------------------------------------------------------------
(* receive_header and handle_header, as far as they set what the reads     *)
(* use.  m_content_length is never lowered, m_is_gzip never cleared, and   *)
(* the inflater not started again once it was.                             *)
Larger(a, b) == IF a > b THEN a ELSE b

HeaderOf(mm, p) ==
  [mm EXCEPT
     !.is_chunked = p.framing = "chunked",
     !.keep_alive = p.keep,
     !.content_length = IF p.framing = "length"
                        THEN Larger(@, Len(FlattenSeq(p.chunks))) ELSE @,
     !.is_gzip = @ \/ p.gzip]

InflateInit(zz, p) ==
  IF p.gzip /\ ~zz.zalloc
  THEN [zalloc |-> TRUE, done |-> FALSE, in |-> << >>, out |-> << >>]
  ELSE zz

(* Mutant of Reset: the CRLF state of the response before stays. *)
ResetKeepsCrlf(mm) ==
  [mm EXCEPT !.is_chunked = FALSE, !.is_chunked_end = FALSE,
             !.keep_alive = TRUE, !.body_size = 0]

(* request and async_request: what they reset. *)
Reset(mm) ==
  [mm EXCEPT !.is_chunked = FALSE, !.is_chunked_end = FALSE,
             !.skip_crlf = TRUE, !.keep_alive = TRUE, !.body_size = 0]

(* The head of response r is read; some of the body comes with it. *)
ReceiveHeader(r, mm) ==
  /\ m' = HeaderOf(Reset(mm), exchange.responses[r])
  /\ m_stream' = InflateInit(m_stream, exchange.responses[r])
  /\ \E k \in 0 .. Len(Sent(r)) :
       /\ m_response' = SubSeq(Sent(r), 1, k)
       /\ socket' = [rest |-> SubSeq(Sent(r), k + 1, Len(Sent(r))),
                     closes |-> Closes(r)]

NewStream ==
  [is_chunked |-> FALSE, chunked_size |-> 0, skip_crlf |-> TRUE,
   is_chunked_end |-> FALSE, keep_alive |-> FALSE, body_size |-> 0,
   content_length |-> -1, is_gzip |-> FALSE]
NoInflater == [zalloc |-> FALSE, done |-> FALSE, in |-> << >>, out |-> << >>]
Idle == [pc |-> "idle", room |-> 0, got |-> << >>]

Init ==
  /\ exchange \in Cases
  /\ LET p == exchange.responses[1] IN
     /\ m = HeaderOf(Reset(NewStream), p)
     /\ m_stream = InflateInit(NoInflater, p)
  /\ \E k \in 0 .. Len(Sent(1)) :
       /\ m_response = SubSeq(Sent(1), 1, k)
       /\ socket = [rest |-> SubSeq(Sent(1), k + 1, Len(Sent(1))),
                    closes |-> Closes(1)]
  /\ call = Idle
  /\ user = [r |-> 1, delivered |-> << >>, reported |-> 0,
             ended |-> FALSE, ec |-> "none"]

-----------------------------------------------------------------------------
(* Reads of the connection: the set of what a call may get, which is empty *)
(* where it waits.                                                         *)

Smaller(a, b) == IF a < b THEN a ELSE b
Drop(s, n) == SubSeq(s, n + 1, Len(s))
ZlibBuffer == 1024

Got(tokens, response, rest, ec) ==
  [tokens |-> tokens, response |-> response, rest |-> rest, ec |-> ec]

(* m_sock.read_some and m_sock.async_read_some with room for max bytes.    *)
SocketRead(max) ==
  IF max = 0 THEN {Got(<< >>, m_response, socket.rest, "none")}
  ELSE IF socket.rest = << >>
       THEN {Got(<< >>, m_response, << >>, "eof") : c \in {socket.closes} \cap {TRUE}}
       ELSE {Got(SubSeq(socket.rest, 1, n), m_response, Drop(socket.rest, n), "none") :
               n \in 1 .. Smaller(max, Len(socket.rest))}

(* read_some_impl: what is left in m_response comes first. *)
ReadSomeImpl(max) ==
  IF m_response = << >> THEN SocketRead(max)
  ELSE {Got(SubSeq(m_response, 1, Smaller(max, Len(m_response))),
            Drop(m_response, max), socket.rest, "none")}

(* async_read_until(m_sock, m_response, "\r\n"): however much comes along.  *)
HasLine(s) == \E i \in 1 .. Len(s) - 1 : s[i] = CR /\ s[i + 1] = LF
LineEnd(s) == CHOOSE i \in 2 .. Len(s) :
  HasLine(SubSeq(s, 1, i)) /\ ~HasLine(SubSeq(s, 1, i - 1))
ReadUntilLine ==
  IF HasLine(m_response) THEN {Got(<< >>, m_response, socket.rest, "none")}
  ELSE IF HasLine(m_response \o socket.rest)
  THEN {Got(<< >>, m_response \o SubSeq(socket.rest, 1, n), Drop(socket.rest, n), "none") :
          n \in {k \in 1 .. Len(socket.rest) :
                   HasLine(m_response \o SubSeq(socket.rest, 1, k))}}
  ELSE {Got(<< >>, m_response \o socket.rest, << >>, "eof") :
          c \in {socket.closes} \cap {TRUE}}

Take(rd) ==
  /\ m_response' = rd.response
  /\ socket' = [socket EXCEPT !.rest = rd.rest]

-----------------------------------------------------------------------------
(* The inflater.  It uses a unit as long as all the output before that     *)
(* unit found room, keeps what found none, and after the trailer uses      *)
(* nothing.  No input and no output is an error (Z_BUF_ERROR), and so is   *)
(* input that is not compressed.                                           *)

Compressed(t) == t.kind = "unit" /\ t.gzip
Trailer(t) == t.kind = "unit" /\ t.last
Plain(tokens) ==
  FlattenSeq([i \in DOMAIN tokens |->
    IF tokens[i].kind = "unit" THEN tokens[i].bytes ELSE <<<<0, 0>>>>])

UsedUnits(zz, room) ==
  IF zz.done THEN 0
  ELSE Cardinality({k \in DOMAIN zz.in :
         /\ Len(zz.out) + Len(Plain(SubSeq(zz.in, 1, k - 1))) <= room
         /\ \A i \in 1 .. k - 1 : ~Trailer(zz.in[i])})

Inflation(zz, room, used, out) ==
  [z |-> [zz EXCEPT !.in = Drop(@, Len(used)), !.out = Drop(out, room),
                    !.done = @ \/ \E i \in DOMAIN used : Trailer(used[i])],
   bytes |-> SubSeq(out, 1, Smaller(room, Len(out))),
   failed |-> /\ ~zz.done
              /\ \/ used = << >> /\ out = << >>
                 \/ \E i \in DOMAIN used : ~Compressed(used[i])]

InflateWith(zz, room, used) == Inflation(zz, room, used, zz.out \o Plain(used))
Inflate(zz, room) == InflateWith(zz, room, SubSeq(zz.in, 1, UsedUnits(zz, room)))

-----------------------------------------------------------------------------
(* How a read proceeds and ends. *)

At(pc) == call.pc = pc
Goto(pc, got) ==
  /\ call' = [call EXCEPT !.pc = pc, !.got = got]
  /\ UNCHANGED user

(* The call reports n bytes, having placed bytes; the caller takes an      *)
(* error, or no byte at all, as the end of the body.                       *)
Return(bytes, n, ec) ==
  /\ call' = Idle
  /\ user' = [user EXCEPT
       !.delivered = @ \o bytes,
       !.reported = IF ec \in {"none", "eof"} THEN @ + n ELSE @,
       !.ended = ec # "none" \/ n = 0,
       !.ec = ec]

EndOfBody == IF m.keep_alive THEN "none" ELSE "eof"

(* Mutant of BodyIsRead: one more byte is expected. *)
BodyIsReadLate ==
  m.keep_alive /\ m.content_length # -1 /\ m.body_size > m.content_length

(* With keep-alive the body ends when Content-Length bytes were read. *)
BodyIsRead ==
  m.keep_alive /\ m.content_length # -1 /\ m.body_size = m.content_length

NeedsSize == m.is_chunked /\ m.chunked_size = 0 /\ m_stream.in = << >>

(* Inflate into the caller's buffer; with no output the read starts again. *)
InflatedTo(f, ec, again) ==
  /\ m_stream' = f.z
  /\ IF f.failed THEN Return(<< >>, 0, "operation_not_supported")
     ELSE IF f.bytes = << >> THEN Goto(again, << >>)
     ELSE Return(f.bytes, Len(f.bytes), IF again = "async_read_some" /\ f.z.in # << >>
                                        THEN "none" ELSE ec)

(* Mutant of InflateInto: input that found no room is dropped. *)
InflateIntoOnce(zz, ec, again) ==
  InflatedTo([Inflate(zz, call.room) EXCEPT !.z.in = << >>], ec, again)

InflateInto(zz, ec, again) == InflatedTo(Inflate(zz, call.room), ec, again)

(* The caller reads, with a buffer of some size. *)
CallRead ==
  /\ At("idle") /\ ~user.ended
  /\ \E room \in BufferSizes :
       call' = [pc |-> IF exchange.mode = "sync" THEN "read_some" ELSE "async_read_some",
                room |-> room, got |-> << >>]
  /\ UNCHANGED <<exchange, m_response, m, m_stream, socket, user>>

-----------------------------------------------------------------------------
(* read_some. *)

(* A new chunk: past the CRLF of the one before, if there was one. *)
StartChunk ==
  /\ At("read_some") /\ NeedsSize
  /\ Goto(IF m.skip_crlf THEN "size" ELSE "crlf", << >>)
  /\ UNCHANGED <<exchange, m_response, m, m_stream, socket>>

CrlfRead(crlf, size) ==
  IF m.is_chunked_end THEN Return(<< >>, 0, EndOfBody)
  ELSE IF crlf # <<CR, LF>> THEN Return(<< >>, 2, "invalid_chunked_encoding")
  ELSE Goto(size, << >>)

SkipCrlf ==
  /\ At("crlf")
  /\ \E rd \in ReadSomeImpl(2 - Len(call.got)) :
       /\ Take(rd)
       /\ IF rd.ec # "none" THEN Return(<< >>, 0, rd.ec)
          ELSE IF Len(call.got \o rd.tokens) < 2 THEN Goto("crlf", call.got \o rd.tokens)
          ELSE CrlfRead(call.got \o rd.tokens, "size")
  /\ UNCHANGED <<exchange, m, m_stream>>

(* The number at the start of a size line; 0 when there is none. *)
SizeOf(line) == IF line[1].kind = "size" THEN line[1].n ELSE 0

(* The size of the next chunk is known: read it, or end the body.  Of a    *)
(* compressed body the end leaves m_is_chunked_end alone, and in           *)
(* handle_chunked_size m_skip_crlf too, and the inflater as it is.         *)
SizeRead(n, chunk) ==
  /\ m' = [m EXCEPT
       !.chunked_size = n,
       !.skip_crlf = IF n = 0 /\ m.is_gzip /\ chunk = "async_chunk" THEN @ ELSE FALSE,
       !.is_chunked_end = @ \/ (n = 0 /\ ~m.is_gzip)]
  /\ m_stream' = IF n = 0 /\ ~m.is_gzip THEN [m_stream EXCEPT !.zalloc = FALSE]
                 ELSE m_stream
  /\ IF n = 0 THEN Return(<< >>, 0, EndOfBody) ELSE Goto(chunk, << >>)

(* The size line, byte by byte. *)
ReadSize ==
  /\ At("size")
  /\ \E rd \in ReadSomeImpl(1) :
       /\ Take(rd)
       /\ IF rd.ec # "none" THEN Return(<< >>, 0, rd.ec) /\ UNCHANGED <<m, m_stream>>
          ELSE IF ~HasLine(call.got \o rd.tokens)
          THEN Goto("size", call.got \o rd.tokens) /\ UNCHANGED <<m, m_stream>>
          ELSE SizeRead(SizeOf(call.got \o rd.tokens), "chunk")
  /\ UNCHANGED exchange

(* Bytes of the chunk, straight into the caller's buffer or through the    *)
(* inflater, whose input is refilled only when it is empty.                *)
ReadChunk ==
  /\ At("chunk") \/ (At("read_some") /\ m.is_chunked /\ ~NeedsSize)
  /\ IF m_stream.in # << >>
     THEN InflateInto(m_stream, "none", "read_some") /\ UNCHANGED <<m, m_response, socket>>
     ELSE \E rd \in ReadSomeImpl(IF m.is_gzip THEN Smaller(m.chunked_size, ZlibBuffer)
                                  ELSE Smaller(m.chunked_size, call.room)) :
            /\ Take(rd)
            /\ m' = [m EXCEPT !.chunked_size = @ - Len(rd.tokens)]
            /\ IF m.is_gzip
               THEN InflateInto([m_stream EXCEPT !.in = rd.tokens], rd.ec, "read_some")
               ELSE Return(Plain(rd.tokens), Len(rd.tokens), rd.ec) /\ UNCHANGED m_stream
  /\ UNCHANGED exchange

(* A body that is not chunked. *)
ReadPlain ==
  /\ At("read_some") /\ ~m.is_chunked
  /\ IF m.is_gzip /\ m_stream.in # << >>
     THEN InflateInto(m_stream, "none", "read_some") /\ UNCHANGED <<m, m_response, socket>>
     ELSE IF BodyIsRead
     THEN Return(<< >>, 0, "none") /\ UNCHANGED <<m, m_stream, m_response, socket>>
     ELSE \E rd \in ReadSomeImpl(IF m.is_gzip THEN ZlibBuffer ELSE call.room) :
            /\ Take(rd)
            /\ m' = [m EXCEPT !.body_size = @ + Len(rd.tokens)]
            /\ IF m.is_gzip
               THEN InflateInto([m_stream EXCEPT !.in = rd.tokens], rd.ec, "read_some")
               ELSE Return(Plain(rd.tokens), Len(rd.tokens), rd.ec) /\ UNCHANGED m_stream
  /\ UNCHANGED exchange

-----------------------------------------------------------------------------
(* async_read_some and its handlers. *)

(* What is left of a CRLF in m_response is taken at once. *)
AsyncStartChunk ==
  /\ At("async_read_some") /\ NeedsSize
  /\ IF m.skip_crlf THEN Goto("async_size", << >>) /\ UNCHANGED m_response
     ELSE /\ m_response' = Drop(m_response, 2)
          /\ IF Len(m_response) < 2 THEN Goto("async_crlf", m_response)
             ELSE IF ~m.is_chunked_end /\ SubSeq(m_response, 1, 2) # <<CR, LF>>
             THEN Return(<< >>, 0, "invalid_chunked_encoding")
             ELSE CrlfRead(SubSeq(m_response, 1, 2), "async_size")
  /\ UNCHANGED <<exchange, m, m_stream, socket>>

(* handle_skip_crlf: one read, and the number of bytes it got is what the  *)
(* caller is told when the read ends here.                                 *)
HandleSkipCrlf ==
  /\ At("async_crlf")
  /\ \E rd \in SocketRead(2 - Len(call.got)) :
       /\ Take(rd)
       /\ IF rd.ec # "none" THEN Return(<< >>, 0, rd.ec)
          ELSE IF m.is_chunked_end THEN Return(<< >>, Len(rd.tokens), EndOfBody)
          ELSE IF call.got \o rd.tokens # <<CR, LF>>
          THEN Return(<< >>, Len(rd.tokens), "invalid_chunked_encoding")
          ELSE Goto("async_size", << >>)
  /\ UNCHANGED <<exchange, m, m_stream>>

(* handle_chunked_size: the line, and what came with it stays. *)
HandleChunkedSize ==
  /\ At("async_size")
  /\ \E rd \in ReadUntilLine :
       /\ socket' = [socket EXCEPT !.rest = rd.rest]
       /\ IF rd.ec # "none"
          THEN /\ m_response' = rd.response
               /\ Return(<< >>, 0, rd.ec) /\ UNCHANGED <<m, m_stream>>
          ELSE /\ m_response' = Drop(rd.response, LineEnd(rd.response))
               /\ SizeRead(SizeOf(rd.response), "async_chunk")
  /\ UNCHANGED exchange

(* Mutant of TakeChunk: the chunk is charged for all that was read. *)
TakeChunkOverpaid(response, n) ==
  /\ m_response' = Drop(response, n)
  /\ m' = [m EXCEPT !.chunked_size = @ - Len(response)]
  /\ Return(Plain(SubSeq(response, 1, Smaller(n, Len(response)))),
            Smaller(n, Len(response)), "none")
  /\ UNCHANGED m_stream

(* handle_async_read: n tokens of m_response and of what was read. *)
TakeChunk(response, n) ==
  /\ m_response' = Drop(response, n)
  /\ m' = [m EXCEPT !.chunked_size = @ - Smaller(n, Len(response))]
  /\ IF m.is_gzip
     THEN InflateInto([m_stream EXCEPT !.in = @ \o SubSeq(response, 1, Smaller(n, Len(response)))],
                      "none", "async_read_some")
     ELSE /\ Return(Plain(SubSeq(response, 1, Smaller(n, Len(response)))),
                    Smaller(n, Len(response)), "none")
          /\ UNCHANGED m_stream

(* async_read_some asks the socket for nothing while m_response holds some. *)
AsyncChunkRoom == IF m_response # << >> THEN 0 ELSE Smaller(call.room, m.chunked_size)

HandleAsyncRead ==
  /\ At("async_chunk") \/ (At("async_read_some") /\ m.is_chunked /\ ~NeedsSize)
  /\ \E rd \in SocketRead(AsyncChunkRoom) :
       /\ socket' = [socket EXCEPT !.rest = rd.rest]
       /\ IF rd.ec # "none"
          THEN Return(<< >>, 0, rd.ec) /\ UNCHANGED <<m, m_stream, m_response>>
          ELSE TakeChunk(m_response \o rd.tokens,
                 IF ~m.is_gzip THEN Smaller(m.chunked_size, call.room)
                 ELSE IF m_stream.in = << >> THEN Smaller(m.chunked_size, ZlibBuffer) ELSE 0)
  /\ UNCHANGED exchange

(* A body that is not chunked, of which m_response holds some: read_some. *)
AsyncReadHeld ==
  /\ At("async_read_some") /\ ~m.is_chunked /\ m_response # << >>
  /\ Goto("read_some", << >>)
  /\ UNCHANGED <<exchange, m_response, m, m_stream, socket>>

(* async_read_some reads no more at once than the body is long. *)
AsyncPlainRoom ==
  Smaller(call.room, IF m.content_length = -1 THEN ZlibBuffer ELSE m.content_length)

(* handle_read.  Only an uncompressed body is known to be read. *)
HandleRead ==
  /\ At("async_read_some") /\ ~m.is_chunked /\ m_response = << >>
  /\ IF ~m.is_gzip /\ BodyIsRead
     THEN Return(<< >>, 0, "none") /\ UNCHANGED <<m, m_stream, m_response, socket>>
     ELSE \E rd \in SocketRead(AsyncPlainRoom) :
       /\ socket' = [socket EXCEPT !.rest = rd.rest]
       /\ IF rd.tokens = << >> /\ m_stream.in = << >>
          THEN Return(<< >>, 0, rd.ec) /\ UNCHANGED <<m, m_stream, m_response>>
          ELSE IF ~m.is_gzip
          THEN /\ m' = [m EXCEPT !.body_size = @ + Len(rd.tokens)]
               /\ Return(Plain(rd.tokens), Len(rd.tokens), rd.ec)
               /\ UNCHANGED <<m_stream, m_response>>
          ELSE IF m_stream.in = << >>
          THEN /\ m' = [m EXCEPT !.body_size = @ + Len(rd.tokens)]
               /\ InflateInto([m_stream EXCEPT !.in = rd.tokens], rd.ec, "async_read_some")
               /\ UNCHANGED m_response
          ELSE /\ m_response' = rd.tokens
               /\ InflateInto(m_stream, rd.ec, "async_read_some")
               /\ UNCHANGED m
  /\ UNCHANGED exchange

-----------------------------------------------------------------------------
(* The next exchange, once a body has ended well: on the same connection   *)
(* with request or async_request, or on a new one after close and open.    *)

More == At("idle") /\ user.ended /\ ~Final(user.r)
Turn(r) == user' = [user EXCEPT !.r = r, !.delivered = << >>, !.reported = 0,
                                !.ended = FALSE, !.ec = "none"]

(* What is still in the socket comes before the head of the new response.  *)
NextRequest ==
  /\ More /\ user.ec = "none" /\ m.keep_alive
  /\ IF socket.rest = << >>
     THEN ReceiveHeader(user.r + 1, m) /\ Turn(user.r + 1)
     ELSE /\ user' = [user EXCEPT !.r = @ + 1, !.delivered = << >>, !.reported = 0,
                                  !.ec = "malformed_status_line"]
          /\ m_response' = << >> /\ m' = Reset(m)
          /\ UNCHANGED <<m_stream, socket>>
  /\ UNCHANGED <<exchange, call>>

Reopen ==
  /\ More /\ ~m.keep_alive /\ user.ec \in {"none", "eof"}
  /\ ReceiveHeader(user.r + 1, [m EXCEPT !.content_length = -1])
  /\ Turn(user.r + 1)
  /\ UNCHANGED <<exchange, call>>

Advance ==
  \/ StartChunk \/ SkipCrlf \/ ReadSize \/ ReadChunk \/ ReadPlain
  \/ AsyncStartChunk \/ HandleSkipCrlf \/ HandleChunkedSize
  \/ HandleAsyncRead \/ AsyncReadHeld \/ HandleRead

Next == CallRead \/ Advance \/ NextRequest \/ Reopen

(* The caller reads on until it is told to stop, and the threads that run  *)
(* its calls and handlers are never stopped for good.                      *)
Spec == Init /\ [][Next]_vars
Fairness == WF_vars(CallRead) /\ WF_vars(Advance) /\ WF_vars(NextRequest \/ Reopen)
FairSpec == Spec /\ Fairness

-----------------------------------------------------------------------------
(* Cases the reader does not get right, whatever the segments.  The        *)
(* members they name outlive a response: m_content_length is the largest   *)
(* length seen on the connection, m_is_gzip is never cleared and the       *)
(* inflater never started again, and the CRLF that ends a chunked body is  *)
(* left where the next status line is looked for.  Two more lose the end   *)
(* of a compressed body: handle_read does not compare its length, and      *)
(* read_some inflates once more at the end of file.                        *)

LengthOf(p) == Len(FlattenSeq(p.chunks))
NotLast(c) == 1 .. Len(c.responses) - 1

AfterCompressed(c) == \E i \in NotLast(c) : c.responses[i].gzip
AfterKeptChunks(c) ==
  \E i \in NotLast(c) : c.responses[i].framing = "chunked" /\ c.responses[i].keep
AfterLonger(c) ==
  \E i, j \in DOMAIN c.responses :
    /\ i < j /\ \A k \in i .. j - 1 : c.responses[k].keep
    /\ c.responses[i].framing = "length"
    /\ \/ /\ c.responses[j].framing = "length" /\ c.responses[j].keep
          /\ LengthOf(c.responses[i]) > LengthOf(c.responses[j])
       \/ /\ c.responses[j].framing = "close" /\ c.mode = "async"
          /\ LengthOf(c.responses[i]) = 0
CompressedEndMissed(c) ==
  \E i \in DOMAIN c.responses :
    /\ c.responses[i].gzip /\ c.responses[i].framing # "chunked"
    /\ c.responses[i].keep = (c.mode = "async")

Readable(c) ==
  ~(AfterCompressed(c) \/ AfterKeptChunks(c) \/ AfterLonger(c) \/ CompressedEndMissed(c))

-----------------------------------------------------------------------------
(* Properties, of the cases that are Readable except for SkipsACrlf.       *)

TypeOK ==
  /\ exchange \in Cases
  /\ m.chunked_size \in Nat /\ m.body_size \in Nat
  /\ m.content_length \in Nat \cup {-1}
  /\ user.r \in DOMAIN exchange.responses
  /\ call.pc \in {"idle", "read_some", "crlf", "size", "chunk", "async_read_some",
                 "async_crlf", "async_size", "async_chunk"}
  /\ user.reported \in Nat
  /\ user.ec \in {"none", "eof", "invalid_chunked_encoding",
                 "operation_not_supported", "malformed_status_line"}

(* To the caller a connection is a stream of bodies: see ByteStream.       *)
Bodies == [i \in DOMAIN exchange.responses |-> Body(i)]
Lost == exchange.unsent > 0
Status ==
  IF ~user.ended THEN "reading"
  ELSE IF user.ec \in {"none", "eof"} THEN "ended" ELSE "failed"

Stream == INSTANCE ByteStream WITH
  bodies <- Bodies, lost <- Lost, turn <- user.r, delivered <- user.delivered,
  reported <- user.reported, status <- Status

(* However the bytes are cut into segments, chunks and buffers, the caller *)
(* gets every byte of every body once and in order, with counts that are   *)
(* true, and no end before the last byte unless the connection was lost.   *)
ImplementsByteStream == Stream!Spec

(* A body that was sent whole is read to its end without an error, and the *)
(* next response is found where the body ended.  The one exception is a    *)
(* CRLF after a chunk that async_read_some gets in two pieces.             *)
FailsOnlyWhenLost ==
  /\ user.ec \in {"operation_not_supported", "malformed_status_line"} =>
       exchange.unsent > 0
  /\ user.ec = "invalid_chunked_encoding" => exchange.mode = "async"

(* Every body ends for a caller that reads on: with keep-alive no read     *)
(* waits for bytes after the last, without it the end of file gets through *)
(* the inflater and the chunk parser.                                      *)
BodyEnds == []<>user.ended

(* BOOST_ASSERT in handle_skip_crlf: what async_read_some got for the CRLF *)
(* after a chunk is the CRLF.                                              *)
SkipsACrlf == user.ec # "invalid_chunked_encoding"
=============================================================================
