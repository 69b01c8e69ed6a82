----------------------------- MODULE FileUpload -----------------------------
(***************************************************************************)
(* file_upload: a POST of a form with a file in it, as a sequence of       *)
(* writes on an http_stream that has been opened for it.  The form's       *)
(* length is announced before anything of it is written.                   *)
(*                                                                         *)
(* The module is also the composition: a caller that opens, closes and     *)
(* reuses a stream, and may end with an upload on it.                      *)
(***************************************************************************)
EXTENDS HttpOpen

CONSTANTS
  Forms,           \* the forms: sequences of the sizes of a field
  FileSize,        \* of the file
  Names            \* of the file's name, the form's name for it and its type

ASSUME FormsAssumption ==
  /\ Forms \subseteq Seq(Nat) /\ FileSize \in Nat /\ Names \in Nat

VARIABLE up        \* the upload: where it is, the parts it writes, how many
                   \* it has written, the length announced, the tail's write

vars == <<setup, st, op, peer, hist, up>>

NewUpload == [pc |-> "no", parts |-> <<>>, written |-> 0, length |-> 0, torn |-> FALSE]

(* The sizes of the boundary string and of the two dispositions' own text. *)
Boundary == 55
FieldText == 45
FileText == 72

(* calc_content_length *)
ContentLength(form) ==
  LET boundary_size == Boundary + 4 IN
  FileSize + FoldLeft(LAMBDA n, field : n + boundary_size + FieldText + field, 0, form)
           + boundary_size + FileText + Names + 4 + boundary_size

(* Mutant of TailSize: without the last line break and dashes. *)
TailSizeShort == Boundary + 4

TailSize == Boundary + 8

(* What is written before the file: a boundary line and a disposition for  *)
(* each field, and for the file.                                           *)
BoundaryLine == Boundary + 4
PartsOf(form) ==
  FoldLeft(LAMBDA parts, field : parts \o <<BoundaryLine, FieldText + field>>, <<>>, form)
    \o <<BoundaryLine, FileText + Names>>

-----------------------------------------------------------------------------
(* open: the length is computed, which fails without the file, and the     *)
(* stream opened.  Its result is given to the upload before anybody else   *)
(* is called.                                                              *)
UploadOpen(scheme, form) ==
  /\ At("idle") /\ up.pc = "no" /\ setup.method = "POST" /\ hist.opens < MaxOpens
  /\ \/ /\ hist' = [NewCall("open") EXCEPT !.call = "upload", !.ec = "no_such_file"]
        /\ up' = [up EXCEPT !.pc = "done"]
        /\ UNCHANGED <<st, op, peer>>
     \/ /\ Begin(scheme, st, NewCall("open"))
        /\ up' = [up EXCEPT !.pc = "opening", !.parts = PartsOf(form),
                            !.length = ContentLength(form)]
  /\ UNCHANGED setup

(* Any success but these, and every error, ends the upload. *)
StreamOpened ==
  /\ At("idle") /\ up.pc = "opening"
  /\ IF hist.ec \in {"none", "continue", "fake_continue"}
     THEN /\ op' = [Idle EXCEPT !.pc = "upload", !.live = IsOpen(st)]
          /\ up' = [up EXCEPT !.pc = "parts"]
     ELSE up' = [up EXCEPT !.pc = "done"] /\ UNCHANGED op
  /\ UNCHANGED <<setup, st, peer, hist>>

(* One part is written, and the next write started; after the last of them *)
(* the upload's open is done.                                              *)
PartWritten ==
  /\ peer' = [peer EXCEPT !.body = @ + up.parts[up.written + 1]]
  /\ IF up.written + 1 = Len(up.parts)
     THEN /\ op' = Idle
          /\ hist' = [hist EXCEPT !.call = "upload", !.ec = "none"]
          /\ up' = [up EXCEPT !.pc = "file", !.written = @ + 1]
     ELSE /\ op' = [op EXCEPT !.live = IsOpen(st)]
          /\ up' = [up EXCEPT !.written = @ + 1]
          /\ UNCHANGED hist

PartFailed(ec) ==
  /\ op' = Idle
  /\ hist' = [hist EXCEPT !.call = "upload", !.ec = ec]
  /\ up' = [up EXCEPT !.pc = "done"]
  /\ UNCHANGED peer

(* The loop of file_upload::open, and the coroutine of async_open. *)
WritePart ==
  /\ Sync /\ At("upload")
  /\ PartWritten \/ PartFailed("lost")
  /\ UNCHANGED <<setup, st>>

HandlePart ==
  /\ ~Sync /\ At("upload")
  /\ \E ec \in Outcomes : IF ec = "ok" THEN PartWritten ELSE PartFailed(ec)
  /\ UNCHANGED <<setup, st>>

(* The caller writes the file's content, and gives up when it fails. *)
WriteFile ==
  /\ At("idle") /\ up.pc = "file"
  /\ \/ /\ IsOpen(st)
        /\ peer' = [peer EXCEPT !.body = @ + FileSize]
        /\ up' = [up EXCEPT !.pc = "tail"]
     \/ up' = [up EXCEPT !.pc = "done"] /\ UNCHANGED peer
  /\ UNCHANGED <<setup, st, op, hist>>

(* write_tail: the error of its write is overwritten by receive_header's. *)
WriteTail ==
  /\ Sync /\ At("idle") /\ up.pc = "tail"
  /\ \E torn \in IF IsOpen(st) THEN BOOLEAN ELSE {TRUE} :
       /\ peer' = [peer EXCEPT !.body = IF torn THEN @ ELSE @ + TailSize,
                               !.lost = @ \/ ~IsOpen(st)]
       /\ up' = [up EXCEPT !.pc = "receiving", !.torn = torn]
  /\ op' = [Idle EXCEPT !.pc = "s_status", !.call = "receive"]
  /\ hist' = NewCall("receive")
  /\ UNCHANGED <<setup, st>>

(* async_write_tail: the header is received when the tail was written. *)
AsyncWriteTail ==
  /\ ~Sync /\ At("idle") /\ up.pc = "tail"
  /\ op' = [Idle EXCEPT !.pc = "tail", !.live = IsOpen(st)]
  /\ hist' = NewCall("receive")
  /\ up' = [up EXCEPT !.pc = "receiving"]
  /\ UNCHANGED <<setup, st, peer>>

HandleTail ==
  /\ At("tail")
  /\ \E ec \in Outcomes :
       IF ec = "ok"
       THEN /\ Await("status", st)
            /\ peer' = [peer EXCEPT !.body = @ + TailSize]
       ELSE Done(ec, st) /\ UNCHANGED peer
  /\ UNCHANGED <<setup, up>>

-----------------------------------------------------------------------------
Init == StreamInit /\ up = NewUpload

StreamActs == StreamStep /\ UNCHANGED up
UploadStep == StreamOpened \/ WritePart \/ HandlePart \/ HandleTail

(* What the caller does, and when. *)
CallerStep ==
  \/ /\ up.pc = "no" /\ \E scheme \in Schemes : Open(scheme)
     /\ UNCHANGED up
  \/ /\ (up.pc # "opening" /\ CloseIdle) \/ Close
     /\ UNCHANGED up
  \/ \E scheme \in Schemes, form \in Forms : UploadOpen(scheme, form)
  \/ WriteFile \/ WriteTail \/ AsyncWriteTail

Next == StreamActs \/ UploadStep \/ CallerStep \/ (EndlessRead /\ UNCHANGED up)

Spec == Init /\ [][Next]_vars

(* The io_service runs its handlers, and a blocking call returns: the peer *)
(* answers in the end or the connection is lost.                           *)
FairSpec == Spec /\ WF_vars(StreamActs) /\ WF_vars(UploadStep)

-----------------------------------------------------------------------------
TypeOK ==
  /\ setup \in Setups
  /\ st.sock \in {"none", "plain", "tls"} /\ st.redirects \in 0 .. MaxRedirects
  /\ st.location \in Locations \cup {"none"} /\ st.status_code \in Statuses \cup {0}
  /\ op.endpoints \in 0 .. MaxEndpoints /\ op.live \in BOOLEAN
  /\ peer.continues \in 0 .. MaxContinues /\ peer.body \in Nat
  /\ hist.opens \in 0 .. MaxOpens /\ hist.closes \in 0 .. MaxCloses
  /\ up.pc \in {"no", "opening", "parts", "file", "tail", "receiving", "done"}
  /\ up.written \in 0 .. Len(up.parts)

(* An upload that succeeds has sent the server exactly the bytes that were *)
(* announced to it, whatever the form and however its 100 arrived.  Two    *)
(* successes are not worth that: a blocking one whose last write failed,   *)
(* and an asynchronous one that was redirected at its end, to a server     *)
(* that got the header only.                                               *)
UploadIsWhole ==
  up.pc = "receiving" /\ At("idle") /\ hist.ec = "none" =>
    peer.body = up.length \/ up.torn \/ hist.followed > 0

(* Every operation ends: no redirect, 100 or list of addresses keeps it.   *)
(* Two places are known that do not: the handler that is forgotten after   *)
(* an unknown socks5 method, and reads of more than the proxy has sent.    *)
OpenEnds ==
  ~At("idle") ~> At("idle") \/ At("forgotten") \/ At("endless_read")
=============================================================================
