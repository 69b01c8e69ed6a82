--------------------------- MODULE HttpConnection ---------------------------
(***************************************************************************)
(* What the steps of an open share: the members of http_stream they read   *)
(* and write, the operation in progress, and the other end.                *)
(*                                                                         *)
(* One operation is in progress at a time.  A synchronous one is a         *)
(* sequence of blocking steps; an asynchronous one is at every moment      *)
(* waiting for the completion of the asio operation it started last, and   *)
(* close() may come in between.  The other end is the proxy or the server: *)
(* it may answer anything, and the connection may be lost at any step.     *)
(***************************************************************************)
EXTENDS Naturals, Sequences, SequencesExt, FiniteSets

CONSTANTS
  Setups,          \* how the stream is configured and called: see Setup
  Schemes,         \* the schemes of the urls: of "http", "https", "other"
  MaxRedirects,    \* m_max_redirects
  MaxEndpoints,    \* the most addresses a name resolves to
  MaxContinues,    \* the most 100 answers of one connection
  MaxOpens,        \* how often the caller opens
  MaxCloses        \* how often it closes while an operation is in progress

(* The proxy, whether a user name is known for it, the interface used, the *)
(* request method and the fake_continue option.                            *)
Setup ==
  [proxy : {"none", "socks4", "socks5", "http"}, username : BOOLEAN,
   api : {"sync", "async"}, method : {"GET", "POST"}, fake : BOOLEAN]

ASSUME SetupsAssumption == Setups \subseteq Setup
ASSUME SchemesAssumption == Schemes \subseteq {"http", "https", "other"}
ASSUME BoundsAssumption ==
  /\ MaxRedirects \in Nat /\ MaxContinues \in Nat
  /\ MaxEndpoints \in Nat \ {0} /\ MaxOpens \in Nat \ {0} /\ MaxCloses \in Nat

VARIABLES
  setup,           \* the configuration of this behaviour
  st,              \* the members of http_stream, see NewStream
  op,              \* the operation: where it is, whether the socket was
                   \* open when its last step was started, the addresses
                   \* left, the error its posted handler will get
  peer,            \* the other end of the connection, see NewPeer
  hist             \* the caller's view, see NewHistory

connVars == <<setup, st, op, peer, hist>>

(* m_sock is nothing yet, a plain socket, or TLS over m_nossl_socket, whose *)
(* state outlives it.                                                      *)
NewStream ==
  [sock |-> "none", plain_open |-> FALSE, nossl_open |-> FALSE,
   url |-> "none", protocol |-> "none", redirects |-> 0, location |-> "none",
   status_code |-> 0, proxy_status |-> "none"]

(* Whether the connection is gone, whether the proxy granted it, whether   *)
(* TLS is on, what was sent, whether a header was answered, and the odd    *)
(* things the peer did.                                                    *)
NewPeer ==
  [lost |-> FALSE, granted |-> FALSE, tls |-> FALSE, sent |-> {},
   header |-> FALSE, odd |-> {}, continues |-> 0, body |-> 0]

(* How often the caller opened and closed; which call was the last and     *)
(* what it gave, the redirects it followed, those that were counted when   *)
(* it began, and where it was when it was closed.                          *)
NewHistory ==
  [opens |-> 0, closes |-> 0, call |-> "none", ec |-> "none", followed |-> 0,
   inherited |-> 0, closed |-> "no"]

(* No operation, or one that has not started a step: call tells open from  *)
(* receive_header.                                                         *)
Idle == [pc |-> "idle", live |-> FALSE, endpoints |-> 0, ec |-> "none",
         call |-> "open"]

At(pc) == op.pc = pc

(* is_open *)
IsOpen(s) ==
  \/ s.sock = "plain" /\ s.plain_open
  \/ s.sock = "tls" /\ s.nossl_open

SetOpen(s, open) ==
  IF s.sock = "plain" THEN [s EXCEPT !.plain_open = open]
  ELSE IF s.sock = "tls" THEN [s EXCEPT !.nossl_open = open] ELSE s

(* The next asio operation is started, on the socket as it is in s. *)
Await(pc, s) ==
  /\ st' = s
  /\ op' = [op EXCEPT !.pc = pc, !.live = IsOpen(s)]
  /\ UNCHANGED hist

(* A connect opens the socket. *)
AwaitConnect(pc, endpoints) ==
  /\ st' = SetOpen(st, TRUE)
  /\ op' = [op EXCEPT !.pc = pc, !.live = TRUE, !.endpoints = endpoints]
  /\ UNCHANGED hist

(* The handler is called, or the call returns. *)
Done(ec, s) ==
  /\ st' = s
  /\ op' = Idle
  /\ hist' = [hist EXCEPT !.ec = ec]

(* How a step on the connection completes.  On a socket that was closed    *)
(* after the step was started it may have completed before.                *)
Outcomes ==
  IF IsOpen(st) THEN {"ok", "lost"}
  ELSE IF op.live THEN {"ok", "aborted"} ELSE {"aborted"}
WriteOutcomes == IF st.sock = "tls" /\ op.pc = "request" /\ ~peer.tls
                 THEN {"uninitialized"} ELSE Outcomes
ReadOutcomes == IF peer.lost THEN {"lost"} ELSE Outcomes
ConnectOutcomes == (Outcomes \ {"lost"}) \cup {"refused"}

Send(what) == peer' = [peer EXCEPT !.sent = @ \cup {what}]

(* A name resolves to some addresses or to none. *)
Resolutions == 0 .. MaxEndpoints
=============================================================================
