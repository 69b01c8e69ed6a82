------------------------------ MODULE HttpOpen ------------------------------
(***************************************************************************)
(* open and async_open of http_stream: from a url through name resolution, *)
(* connection or proxy, request, status line and header to the result,     *)
(* with the redirects in between, and close() while that goes on.          *)
(***************************************************************************)
EXTENDS ProxyHandshake

Sync == setup.api = "sync"
Refused == {"operation_not_supported", "already_open"}

(* The members an open clears, and the socket it makes: a plain one is     *)
(* new, TLS is over m_nossl_socket, open or not.  m_location is not among  *)
(* them, nor is m_redirects.                                               *)
OpenMembers(scheme, s) ==
  [s EXCEPT !.url = scheme, !.protocol = scheme, !.status_code = 0,
            !.sock = IF scheme = "http" THEN "plain"
                     ELSE IF scheme = "https" THEN "tls" ELSE @,
            !.plain_open = IF scheme = "http" THEN FALSE ELSE @]

SyncFirst ==
  IF setup.proxy \in {"socks4", "socks5"} THEN "s_socks_resolve" ELSE "s_resolve"

AsyncFirst ==
  IF setup.proxy \in {"socks4", "socks5"} THEN "socks_resolve" ELSE "resolve"

(* What an open does first, given the members it has cleared. *)
FirstStep(s) ==
  IF s.protocol = "other" THEN "operation_not_supported"
  ELSE IF IsOpen(s) THEN "already_open"
  ELSE IF setup.proxy = "http" /\ s.protocol = "https"
  THEN IF Sync THEN "s_https_resolve" ELSE "https_resolve"
  ELSE IF Sync THEN SyncFirst ELSE AsyncFirst

(* async_open: an error that is there at once is posted to the handler. *)
AsyncOpen(s, first, h) ==
  /\ st' = IF first = "socks_resolve" THEN [s EXCEPT !.proxy_status = "socks_proxy_resolve"] ELSE s
  /\ op' = IF first \in Refused THEN [Idle EXCEPT !.pc = "posted", !.ec = first]
           ELSE [Idle EXCEPT !.pc = first]
  /\ hist' = h

(* open: it is returned. *)
SyncOpen(s, first, h) ==
  /\ st' = s
  /\ op' = IF first \in Refused THEN Idle ELSE [Idle EXCEPT !.pc = first]
  /\ hist' = IF first \in Refused THEN [h EXCEPT !.ec = first] ELSE h

Begin(scheme, s, h) ==
  LET cleared == OpenMembers(scheme, s) IN
  /\ IF Sync THEN SyncOpen(cleared, FirstStep(cleared), h)
             ELSE AsyncOpen(cleared, FirstStep(cleared), h)
  /\ peer' = NewPeer

(* Mutants: one redirect too many; redirects that are not counted. *)
WithinBudgetOneMore(s) == s.redirects <= MaxRedirects
RedirectedUncounted(s) == SetOpen(s, FALSE)

(* A redirect is followed while the budget lasts.  The socket is closed    *)
(* before the target is opened.                                            *)
WithinBudget(s) == s.redirects < MaxRedirects
OneMore ==
  [hist EXCEPT !.followed = IF @ > MaxRedirects THEN @ ELSE @ + 1]
Redirected(s) == [SetOpen(s, FALSE) EXCEPT !.redirects = @ + 1]

-----------------------------------------------------------------------------
(* open *)

SyncResolve ==
  /\ At("s_resolve")
  /\ \E n \in Resolutions :
       IF n = 0 THEN Done("host_not_found", st) ELSE AwaitConnect("s_connect", n - 1)
  /\ UNCHANGED <<setup, peer>>

(* The handshake of TLS is a part of its connect. *)
SyncConnect ==
  /\ At("s_connect")
  /\ \/ Await("s_request", st) /\ peer' = [peer EXCEPT !.tls = st.sock = "tls"]
     \/ op.endpoints > 0 /\ AwaitConnect("s_connect", op.endpoints - 1) /\ UNCHANGED peer
     \/ op.endpoints = 0 /\ Done("refused", st) /\ UNCHANGED peer
  /\ UNCHANGED setup

(* What open makes of the result of its request: a redirect that is still  *)
(* in the budget is followed, everything else clears the budget.  An       *)
(* address that is none makes the constructor of url throw.                *)
OpenResult(ec, s, p) ==
  IF ec = "302" /\ WithinBudget(s)
  THEN IF s.location \in {"none", "bad"}
       THEN Done("exception", Redirected(s)) /\ peer' = p
       ELSE Begin(s.location, Redirected(s), OneMore)
  ELSE /\ Done(ec, [(IF ec = "302" THEN SetOpen(s, FALSE) ELSE s) EXCEPT !.redirects = 0])
       /\ peer' = p

(* request: the request is written and, unless the caller wants to go on   *)
(* before there is an answer, the answer read.                             *)
RequestSent(p) ==
  IF setup.fake THEN OpenResult("fake_continue", st, p)
  ELSE Await("s_status", st) /\ peer' = p

Request ==
  /\ At("s_request")
  /\ \/ OpenResult("lost", st, peer)
     \/ RequestSent([peer EXCEPT !.sent = @ \cup {"request"}])
  /\ UNCHANGED setup

(* A receive_header of the caller's returns the result as it is. *)
HeaderResult(ec, s, p) ==
  IF op.call = "open" THEN OpenResult(ec, s, p) ELSE Done(ec, s) /\ peer' = p

-----------------------------------------------------------------------------
(* What is in m_response after a status line of 100: not yet the empty     *)
(* line that ends it, exactly that, or more.  The empty line is taken      *)
(* twice, so that more is damaged.                                         *)
Buffered == {"less", "exact", "more"}

(* The peer's next status line, when it can still be told for one. *)
Answers(status) ==
  /\ peer.odd \cap {"damaged", "status"} = {}
  /\ status = 100 => peer.continues < MaxContinues
Continued(buffered) ==
  [peer EXCEPT !.continues = @ + 1,
     !.odd = IF buffered = "exact" THEN @ ELSE @ \cup {"damaged"}]
Answered == [peer EXCEPT !.header = TRUE]
Garbage == [peer EXCEPT !.odd = @ \cup {"status"}]
WithStatus(status) == [st EXCEPT !.status_code = status]

(* receive_header, as far as the status line.  Only a POST is told of 100. *)
ReceiveStatus ==
  /\ At("s_status")
  /\ \/ HeaderResult("lost", st, peer)
     \/ ~peer.lost /\ HeaderResult("malformed_status_line", WithStatus(0), Garbage)
     \/ /\ ~peer.lost
        /\ \E status \in Statuses \ {100} :
             Answers(status) /\ Await("s_header", WithStatus(status)) /\ UNCHANGED peer
     \/ /\ ~peer.lost /\ Answers(100)
        /\ \E buffered \in Buffered :
             IF buffered = "less"
             THEN HeaderResult("malformed_status_line", WithStatus(100), Continued(buffered))
             ELSE IF setup.method = "POST"
             THEN HeaderResult("continue", WithStatus(100), Continued(buffered))
             ELSE Await("s_status", WithStatus(100)) /\ peer' = Continued(buffered)
  /\ UNCHANGED setup

(* Mutant of Result: every status but 302 is a success. *)
ResultOfRedirect(status) == IF status = 302 THEN "302" ELSE "none"

Result(status) == CASE status = 200 -> "none" [] status = 302 -> "302" [] OTHER -> "404"

(* receive_header from the status line on.  A header without a Location    *)
(* leaves the one there was.                                               *)
ReceiveHeader ==
  /\ At("s_header")
  /\ \/ \E ec \in {"lost", "malformed_response_headers"} : HeaderResult(ec, st, peer)
     \/ \E location \in (IF st.status_code = 302 THEN Locations ELSE {}) \cup {st.location} :
          HeaderResult(Result(st.status_code), [st EXCEPT !.location = location], Answered)
  /\ UNCHANGED setup

-----------------------------------------------------------------------------
(* async_open and its handlers. *)

Posted == At("posted") /\ Done(op.ec, st) /\ UNCHANGED <<setup, peer>>

HandleResolve ==
  /\ At("resolve")
  /\ \E n \in Resolutions :
       IF n = 0 THEN Done("host_not_found", st) ELSE AwaitConnect("connect", n - 1)
  /\ UNCHANGED <<setup, peer>>

(* An attempt that failed, an aborted one too, is followed by the next. *)
HandleConnect ==
  /\ At("connect")
  /\ \E ec \in ConnectOutcomes :
       IF ec = "ok" THEN AsyncRequest(st) /\ peer' = [peer EXCEPT !.tls = st.sock = "tls"]
       ELSE /\ IF op.endpoints = 0 THEN Done(ec, st)
               ELSE AwaitConnect("connect", op.endpoints - 1)
            /\ UNCHANGED peer
  /\ UNCHANGED setup

HandleRequest ==
  /\ At("request")
  /\ \E ec \in WriteOutcomes :
       IF ec # "ok" THEN Done(ec, st) /\ UNCHANGED peer
       ELSE /\ IF setup.fake THEN Done("fake_continue", st) ELSE Await("status", st)
            /\ Send("request")
  /\ UNCHANGED setup

HandleStatus ==
  /\ At("status")
  /\ \/ \E ec \in ReadOutcomes \ {"ok"} : Done(ec, st) /\ UNCHANGED peer
     \/ "ok" \in ReadOutcomes /\ Done("malformed_status_line", WithStatus(0)) /\ peer' = Garbage
     \/ /\ "ok" \in ReadOutcomes
        /\ \E status \in Statuses \ {100} :
             Answers(status) /\ Await("header", WithStatus(status)) /\ UNCHANGED peer
     \/ /\ "ok" \in ReadOutcomes /\ Answers(100)
        /\ \E buffered \in Buffered :
             /\ peer' = Continued(buffered)
             /\ IF buffered = "less" THEN Done("malformed_status_line", WithStatus(100))
                ELSE IF setup.method = "POST" THEN Done("continue", WithStatus(100))
                ELSE Await("status", WithStatus(100))
  /\ UNCHANGED setup

(* A redirect is followed by a new async_open, or ends here for want of an *)
(* address.  Only a header that is not followed clears m_redirects.        *)
FollowRedirect(s) ==
  IF s.location \in {"none", "bad"}
  THEN Done("invalid_redirect", Redirected(s)) /\ peer' = Answered
  ELSE Begin(s.location, Redirected(s), OneMore)

HandleHeader ==
  /\ At("header")
  /\ \/ \E ec \in ReadOutcomes \ {"ok"} : Done(ec, st) /\ UNCHANGED peer
     \/ "ok" \in ReadOutcomes /\ Done("malformed_response_headers", st) /\ UNCHANGED peer
     \/ /\ "ok" \in ReadOutcomes
        /\ \E location \in (IF st.status_code = 302 THEN Locations ELSE {}) \cup {st.location} :
             LET s == [st EXCEPT !.location = location] IN
             IF st.status_code = 302 /\ WithinBudget(st) THEN FollowRedirect(s)
             ELSE /\ Done(Result(st.status_code),
                          [(IF st.status_code = 302 THEN SetOpen(s, FALSE) ELSE s)
                             EXCEPT !.redirects = 0])
                  /\ peer' = Answered
  /\ UNCHANGED setup

-----------------------------------------------------------------------------
(* Mutant of Closed: the socket under TLS is left open. *)
ClosedPlain(s) ==
  IF s.sock = "plain" /\ s.plain_open
  THEN [s EXCEPT !.plain_open = FALSE, !.location = "none", !.protocol = "none"] ELSE s

(* close.  It acts on an open socket only, and forgets where the stream    *)
(* was going.                                                              *)
Closed(s) ==
  IF IsOpen(s) THEN [SetOpen(s, FALSE) EXCEPT !.location = "none", !.protocol = "none"] ELSE s

(* A caller may close between operations, or while an asynchronous one is  *)
(* in progress.                                                            *)
CloseIdle ==
  /\ At("idle") /\ IsOpen(st)
  /\ st' = Closed(st)
  /\ UNCHANGED <<setup, op, peer, hist>>

Close ==
  /\ ~At("idle") /\ ~Sync /\ hist.closes < MaxCloses
  /\ st' = Closed(st)
  /\ hist' = [hist EXCEPT !.closes = @ + 1,
                !.closed = IF At("header") /\ st.status_code = 302 THEN "redirected" ELSE op.pc]
  /\ UNCHANGED <<setup, op, peer>>

(* A caller's open: of a new stream, or of one that was used before. *)
NewCall(call) ==
  [hist EXCEPT !.opens = IF call = "open" THEN @ + 1 ELSE @, !.call = call,
               !.ec = "none", !.followed = 0, !.inherited = st.redirects, !.closed = "no"]

Open(scheme) ==
  /\ At("idle") /\ hist.opens < MaxOpens
  /\ Begin(scheme, st, NewCall("open"))
  /\ UNCHANGED setup

-----------------------------------------------------------------------------
SyncStep == SyncResolve \/ SyncConnect \/ Request \/ ReceiveStatus \/ ReceiveHeader
AsyncStep ==
  \/ Posted \/ HandleResolve \/ HandleConnect \/ HandleRequest \/ HandleStatus \/ HandleHeader

StreamInit ==
  /\ setup \in Setups
  /\ st = NewStream /\ op = Idle /\ peer = NewPeer /\ hist = NewHistory

StreamStep == ProxyStep \/ SyncStep \/ AsyncStep

-----------------------------------------------------------------------------
(* Properties *)

ViaProxy(kind) == kind # "none" /\ (kind = "http" => st.url = "https")
Finished(call) == At("idle") /\ hist.call = call

(* A request is written only over the connection that was asked for: one   *)
(* the proxy has granted, and encrypted for an https url; whatever answers *)
(* came before, whatever was closed, redirected or reused.  The blocking   *)
(* socks handshake is the exception: it takes a lost reply for the bytes   *)
(* its buffer still holds.                                                 *)
RequestThroughTunnel ==
  "request" \in peer.sent =>
    /\ ViaProxy(setup.proxy) => peer.granted \/ (Sync /\ peer.lost)
    /\ st.url = "https" => peer.tls

(* The result of an open or of a receive_header is what happened: success  *)
(* only with a header of status 200, a redirect returned only when the     *)
(* budget is used up or it was the proxy's, no more redirects followed     *)
(* than allowed, and a malformed status line only from a peer that sent    *)
(* one or sent 100.                                                        *)
ResultIsTrue ==
  /\ hist.followed <= MaxRedirects
  /\ Finished("open") \/ Finished("receive") =>
       CASE hist.ec = "none" -> st.status_code = 200 /\ peer.header
         [] hist.ec = "302" ->
              \/ hist.followed + hist.inherited >= MaxRedirects
              \/ "request" \notin peer.sent
              \/ Sync /\ hist.call = "receive"
         [] hist.ec = "malformed_status_line" -> peer.odd # {}
         [] hist.ec = "invalid_redirect" -> st.status_code = 302
         [] OTHER -> TRUE

(* close() during an asynchronous open: once the connection stands, the    *)
(* open fails and leaves the stream closed, unless the header it was       *)
(* reading is that of a redirect.                                          *)
Unstoppable ==
  {"no", "posted", "resolve", "connect", "socks_resolve", "socks_connect",
   "https_resolve", "https_connect", "redirected"}
CloseStops ==
  Finished("open") /\ hist.closed \notin Unstoppable => ~IsOpen(st) /\ st.protocol = "none"

(* What http_stream.hpp says of close(): every operation in progress is    *)
(* stopped, so that the stream is not open after it.  A close while a name *)
(* is resolved finds no open socket and does nothing; one that aborts a    *)
(* connect makes the handler try the next address.                         *)
ClosedStaysClosed == Finished("open") /\ hist.closed # "no" => ~IsOpen(st)
=============================================================================
