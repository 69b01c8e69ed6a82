-------------------------- MODULE HttpStreamProofs --------------------------
(***************************************************************************)
(* Proofs about the open of an http_stream, with its proxies, redirects    *)
(* and closes, and about an upload on it.  An invariant of the stream is   *)
(* kept by what the steps are made of (Done, Await, AwaitConnect, Begin),  *)
(* and by every step as one of these; the bytes of an upload are followed  *)
(* through the steps of the stream by what those leave alone.              *)
(***************************************************************************)
EXTENDS FileUpload, RangefieldProofs


(* Where a blocking operation can be, and where an asynchronous one. *)
BlockingProxyPcs ==
  {"s_socks_resolve", "s_socks_connect", "s_socks_version", "s_socks_auth",
   "s_socks_request", "s_socks4", "s_https_resolve", "s_https_connect",
   "s_https_status", "s_https_header", "s_handshake"}
BlockingPcs ==
  BlockingProxyPcs \cup {"s_resolve", "s_connect", "s_request", "s_status", "s_header"}
ProxyPcs ==
  {"socks_resolve", "socks_connect", "socks_process", "https_resolve", "https_connect",
   "https_request", "https_status", "https_header", "https_handshake"}
HandlerPcs ==
  ProxyPcs \cup {"posted", "resolve", "connect", "request", "status", "header",
                 "forgotten", "tail"}
Resting == {"idle", "upload"}

(* Everywhere. *)
Pcs == BlockingPcs \cup HandlerPcs \cup Resting \cup {"endless_read"}

(* The connection stands: what is awaited goes on over it. *)
Standing ==
  {"socks_connect", "socks_process", "https_connect", "https_request", "https_status",
   "https_header", "https_handshake", "connect", "request", "status", "header",
   "forgotten", "endless_read"}

(* The places in a socks handshake, what is sent to the peer, what it does *)
(* that is odd, and the results of an operation.                           *)
SocksPlaces ==
  {"none", "socks_proxy_resolve", "socks_connect_proxy", "socks4_resolve_host",
   "socks_send_version", "socks4_response", "socks5_response_version",
   "socks5_send_userinfo", "socks5_auth_status", "socks5_connect_response",
   "socks5_result", "socks5_read_domainname", "ssl_handshake"}
Messages == {"request", "connect", "greeting", "userinfo"}
Oddities == {"damaged", "status", "continue", "no fields"}
Codes ==
  {"none", "302", "404", "continue", "fake_continue", "lost", "aborted", "refused",
   "uninitialized", "network_reset", "host_not_found", "exception", "invalid_redirect",
   "malformed_status_line", "malformed_response_headers", "no_such_file",
   "operation_not_supported", "already_open", "length_error",
   "socks_unsupported_version", "socks_unsupported_authentication_version",
   "socks_username_required", "socks_authentication_error", "socks_general_failure",
   "address_family_not_supported"}

(* Of these, the places that try the next address. *)
Connecting == {"connect", "socks_connect", "https_connect"}

(* The types of the variables. *)
StreamMembers ==
  [sock : {"none", "plain", "tls"}, plain_open : BOOLEAN, nossl_open : BOOLEAN,
   url : Schemes \cup {"none"}, protocol : Schemes \cup {"none"},
   redirects : 0 .. MaxRedirects, location : Locations \cup {"none"},
   status_code : Statuses \cup {0}, proxy_status : SocksPlaces]
Operations ==
  [pc : Pcs, live : BOOLEAN,
   endpoints : 0 .. MaxEndpoints, ec : {"none"} \cup Refused, call : {"open", "receive"}]
Peers ==
  [lost : BOOLEAN, granted : BOOLEAN, tls : BOOLEAN, sent : SUBSET Messages,
   header : BOOLEAN, odd : SUBSET Oddities, continues : Nat, body : Nat]
Histories ==
  [opens : Nat, closes : Nat, call : {"none", "open", "receive", "upload"}, ec : Codes,
   followed : Nat, inherited : Nat, closed : Pcs \cup {"no", "redirected"}]

Members ==
  /\ setup \in Setup
  /\ st \in StreamMembers /\ op \in Operations
  /\ peer \in Peers /\ hist \in Histories

Place ==
  /\ op.pc \in BlockingPcs => Sync
  /\ op.pc \in HandlerPcs => ~Sync
  /\ At("posted") => op.ec \in Refused
  /\ At("tail") => hist.call = "receive"
  /\ op.call = "receive" => Sync /\ hist.call = "receive"
  /\ op.pc \in Resting => op.call = "open"

(* The peer p has seen no request but over the connection asked for. *)
Tunnelled(p) == ViaProxy(setup.proxy) => p.granted \/ (Sync /\ p.lost)
Through(p) == "request" \in p.sent => Tunnelled(p) /\ (st.url = "https" => p.tls)

(* What holds of the peer while the operation is at pc and the members are s. *)
MayWait(pc, s, p) ==
  /\ pc \in BlockingProxyPcs \cup ProxyPcs => "request" \notin p.sent
  /\ pc \in {"s_handshake", "s_request", "https_handshake", "request"} => Tunnelled(p)
  /\ pc = "s_request" /\ s.url = "https" => p.tls
  /\ pc = "socks_process" /\ s.proxy_status \in {"socks5_read_domainname", "ssl_handshake"}
       => Tunnelled(p)
  /\ pc = "socks_resolve" =>
       s.proxy_status \in {"socks_proxy_resolve", "socks4_resolve_host"}

(* For the tunnel: no request but through it, and no step that is to send  *)
(* one before it stands.                                                   *)
TunnelInv ==
  /\ Through(peer)
  /\ st.url = "https" => st.sock = "tls"
  /\ op.pc \in BlockingProxyPcs => st.protocol = st.url
  /\ op.pc \in {"s_resolve", "s_connect", "resolve", "connect"} => ~ViaProxy(setup.proxy)
  /\ MayWait(op.pc, st, peer)

(* The result ec is true of the members s and the peer p. *)
Truth(ec, s, p) ==
  /\ ec = "none" => s.status_code = 200 /\ p.header
  /\ ec = "302" => \/ hist.followed + hist.inherited >= MaxRedirects
                   \/ "request" \notin p.sent
                   \/ Sync /\ hist.call = "receive"
  /\ ec = "malformed_status_line" => p.odd # {}
  /\ ec = "invalid_redirect" => s.status_code = 302

(* For the results: those that were told are true, and the redirects that  *)
(* were counted are those that were followed.                              *)
ResultInv ==
  /\ hist.followed <= MaxRedirects
  /\ Finished("open") \/ Finished("receive") => Truth(hist.ec, st, peer)
  /\ op.pc \notin Resting => st.redirects = hist.followed + hist.inherited

Stopped == ~IsOpen(st) /\ st.protocol = "none"
Second == At("socks_resolve") /\ st.proxy_status = "socks4_resolve_host"

(* An asynchronous open that close() can stop. *)
Stoppable == hist.call = "open" /\ ~Sync

(* Once the connection stands the socket is open, or close() was called. *)
StandsOpen ==
  Stoppable /\ (Second \/ op.pc \in Standing) => IsOpen(st) \/ st.protocol = "none"
HasSocket ==
  Stoppable /\ ~Second /\ op.pc \in {"socks_resolve", "https_resolve", "resolve"} =>
    st.sock # "none"
(* What was closed then stays closed, and cannot come as far as a redirect. *)
StaysStopped ==
  Stoppable /\ hist.closed \notin Unstoppable /\ op.pc \notin Resting =>
    /\ Stopped
    /\ Second \/ op.pc \in Standing \ Connecting
    /\ At("header") => st.status_code # 302 \/ ~op.live

(* For close().                                                            *)
CloseInv ==
  /\ CloseStops
  /\ Sync => hist.closed = "no"
  /\ StandsOpen /\ HasSocket /\ StaysStopped

(* The invariant of the stream. *)
Inv == Members /\ Place /\ TunnelInv /\ ResultInv /\ CloseInv

-----------------------------------------------------------------------------
(* The members s are those of the stream, but for what an answer says, for *)
(* the place in the socks handshake and for a socket that may be closed.   *)
Lower(s) ==
  /\ s \in StreamMembers /\ s.sock = st.sock /\ s.url = st.url /\ s.protocol = st.protocol
  /\ IsOpen(s) => IsOpen(st)
Kept(s) ==
  /\ s \in StreamMembers /\ s.sock = st.sock /\ s.url = st.url /\ s.protocol = st.protocol
  /\ IsOpen(s) = IsOpen(st)
  /\ s.redirects = st.redirects

(* No operation. *)
LEMMA IdleIs == Idle \in Operations /\ Idle.pc = "idle" /\ Idle.call = "open"
<1>1. MaxEndpoints \in Nat /\ 0 \in 0 .. MaxEndpoints /\ "idle" \in Pcs
  BY BoundsAssumption DEF Pcs, Resting
<1>2. Idle.pc = "idle" /\ Idle.call = "open"
  BY DEF Idle
<1>3. Idle \in Operations
  BY <1>1 DEF Idle, Operations
<1> QED
  BY <1>2, <1>3

(* Done: the operation is over. *)
LEMMA DoneDoes ==
  ASSUME Members, NEW ec \in Codes, NEW s \in StreamMembers, Done(ec, s)
  PROVE  /\ st' = s /\ op' = Idle /\ op' \in Operations /\ op'.pc = "idle" /\ op'.call = "open"
         /\ hist' \in Histories /\ hist'.ec = ec /\ hist'.call = hist.call
         /\ hist'.followed = hist.followed /\ hist'.inherited = hist.inherited
         /\ hist'.closed = hist.closed
<1>1. st' = s /\ op' = Idle /\ hist' = [hist EXCEPT !.ec = ec] /\ hist \in Histories
  BY DEF Done, Members
<1>2. /\ hist' \in Histories /\ hist'.ec = ec /\ hist'.call = hist.call
      /\ hist'.followed = hist.followed /\ hist'.inherited = hist.inherited
      /\ hist'.closed = hist.closed
  BY <1>1 DEF Histories
<1>3. op' \in Operations /\ op'.pc = "idle" /\ op'.call = "open"
  BY <1>1, IdleIs
<1> QED
  BY <1>1, <1>2, <1>3

(* An operation that ends with a true result keeps the invariant. *)
LEMMA DoneKeeps ==
  ASSUME Inv, op.pc \notin Resting, UNCHANGED setup,
         NEW ec \in Codes, NEW s, Lower(s), peer' \in Peers, Through(peer'),
         Truth(ec, s, peer'), Done(ec, s)
  PROVE  Inv'
<1>1. /\ st' = s /\ op' \in Operations /\ op'.pc = "idle" /\ op'.call = "open"
      /\ hist' \in Histories /\ hist'.ec = ec /\ hist'.call = hist.call
      /\ hist'.followed = hist.followed /\ hist'.inherited = hist.inherited
      /\ hist'.closed = hist.closed
  BY DoneDoes DEF Inv, Lower
<1>2. Members'
  BY <1>1 DEF Inv, Members, Lower
<1>3. Place'
  BY <1>1 DEF Place, BlockingPcs, BlockingProxyPcs, HandlerPcs, ProxyPcs, At
<1>4. TunnelInv'
  <2>1. Through(peer)'
    BY <1>1 DEF Through, Tunnelled, ViaProxy, Lower, Sync
  <2>2. (st.url = "https" => st.sock = "tls")'
    BY <1>1 DEF Inv, TunnelInv, Lower
  <2> QED
    BY <1>1, <2>1, <2>2 DEF TunnelInv, MayWait, BlockingProxyPcs, ProxyPcs
<1>5. ResultInv'
  <2>1. (hist.followed <= MaxRedirects)'
    BY <1>1 DEF Inv, ResultInv
  <2>2. Truth(hist.ec, st, peer)'
    BY <1>1 DEF Truth, Sync
  <2> QED
    BY <1>1, <2>1, <2>2 DEF ResultInv, Resting
<1>6. CloseInv'
  <2>1. CloseStops'
    <3>1. hist.call = "open" /\ hist.closed \notin Unstoppable =>
            ~IsOpen(st) /\ st.protocol = "none"
      BY DEF Inv, CloseInv, StaysStopped, Stoppable, Unstoppable, Stopped
    <3>2. IsOpen(s) => IsOpen(st)
      BY DEF Lower
    <3>3. s.protocol = st.protocol
      BY DEF Lower
    <3> QED
      BY <1>1, <3>1, <3>2, <3>3 DEF CloseStops, Finished, At, IsOpen
  <2>2. (Sync => hist.closed = "no")'
    BY <1>1 DEF Inv, CloseInv, Sync
  <2> QED
    BY <1>1, <2>1, <2>2
       DEF CloseInv, StandsOpen, HasSocket, StaysStopped, Second, At, Resting, Standing
<1> QED
  BY <1>2, <1>3, <1>4, <1>5, <1>6 DEF Inv

(* Await: the next step is started on the connection. *)
Reaches(pc) ==
  /\ pc \in Pcs \ (Resting \cup
                      {"posted", "tail", "s_resolve", "s_connect", "resolve", "connect"})
  /\ \/ op.pc \in BlockingPcs /\ pc \in BlockingPcs \cup {"endless_read"}
     \/ op.pc \in HandlerPcs /\ pc \in HandlerPcs \cup {"endless_read"}
  /\ pc \in BlockingProxyPcs => op.pc \in BlockingProxyPcs

(* What Await changes. *)
LEMMA AwaitDoes ==
  ASSUME Members, NEW pc \in Pcs, NEW s \in StreamMembers, Await(pc, s)
  PROVE  /\ st' = s /\ op' \in Operations /\ op'.pc = pc /\ op'.live = IsOpen(s)
         /\ op'.call = op.call /\ op'.ec = op.ec /\ hist' = hist
<1>1. /\ st' = s /\ op' = [op EXCEPT !.pc = pc, !.live = IsOpen(s)] /\ hist' = hist
      /\ op \in Operations
  BY DEF Await, Members
<1>2. IsOpen(s) \in BOOLEAN
  BY DEF IsOpen, StreamMembers
<1> QED
  BY <1>1, <1>2 DEF Operations, Pcs

(* An operation that goes on keeps the invariant. *)
LEMMA AwaitKeeps ==
  ASSUME Inv, UNCHANGED setup, NEW pc, NEW s, Kept(s), peer' \in Peers, Through(peer'),
         Reaches(pc), MayWait(pc, s, peer'), Await(pc, s),
         hist.call = "open" /\ ~Sync =>
           /\ Second \/ op.pc \in Standing
           /\ \/ pc = "socks_resolve" /\ s.proxy_status = "socks4_resolve_host"
              \/ pc \in Standing \ Connecting
  PROVE  Inv'
<1>1. /\ st' = s /\ op' \in Operations /\ op'.pc = pc /\ op'.live = IsOpen(s)
      /\ op'.call = op.call /\ op'.ec = op.ec /\ hist' = hist
  BY AwaitDoes DEF Inv, Kept, Reaches
<1>2. Members'
  BY <1>1 DEF Inv, Members, Kept
<1>3. Place'
  <2>1. pc \in BlockingPcs => Sync
    BY DEF Inv, Place, Reaches, BlockingPcs, BlockingProxyPcs, HandlerPcs, ProxyPcs
  <2>2. pc \in HandlerPcs => ~Sync
    BY DEF Inv, Place, Reaches, BlockingPcs, BlockingProxyPcs, HandlerPcs, ProxyPcs
  <2>3. pc # "posted" /\ pc # "tail" /\ pc \notin Resting
    BY DEF Reaches
  <2> QED
    BY <1>1, <2>1, <2>2, <2>3 DEF Inv, Place, Sync, At
<1>4. TunnelInv'
  <2>1. Through(peer)'
    BY <1>1 DEF Through, Tunnelled, ViaProxy, Kept, Sync
  <2>2. (st.url = "https" => st.sock = "tls")'
    BY <1>1 DEF Inv, TunnelInv, Kept
  <2>3. MayWait(op.pc, st, peer)'
    BY <1>1 DEF MayWait, Tunnelled, ViaProxy, Kept, Sync
  <2>4. (op.pc \in BlockingProxyPcs => st.protocol = st.url)'
    BY <1>1 DEF Inv, TunnelInv, Reaches, Kept
  <2>5. op'.pc \notin {"s_resolve", "s_connect", "resolve", "connect"}
    BY <1>1 DEF Reaches
  <2> QED
    BY <2>1, <2>2, <2>3, <2>4, <2>5 DEF TunnelInv
<1>5. ResultInv'
  <2>1. pc \notin Resting /\ op.pc \notin Resting
    BY DEF Reaches, Resting, BlockingPcs, BlockingProxyPcs, HandlerPcs, ProxyPcs
  <2> QED
    BY <1>1, <2>1 DEF Inv, ResultInv, Finished, At, Kept, Resting
<1>6. CloseInv'
  <2>0. pc \notin Resting /\ op.pc \notin Resting
    BY DEF Reaches, Resting, BlockingPcs, BlockingProxyPcs, HandlerPcs, ProxyPcs
  <2>1. CloseStops'
    BY <1>1, <2>0 DEF CloseStops, Finished, At, Resting
  <2>2. (Sync => hist.closed = "no")'
    BY <1>1 DEF Inv, CloseInv, Sync
  <2>3. ASSUME Stoppable
        PROVE  /\ IsOpen(s) \/ s.protocol = "none"
               /\ \/ pc = "socks_resolve" /\ s.proxy_status = "socks4_resolve_host"
                  \/ pc \in Standing \ Connecting
               /\ hist.closed \notin Unstoppable => ~IsOpen(s) /\ s.protocol = "none"
    <3>1. Second \/ op.pc \in Standing
      BY <2>3 DEF Stoppable
    <3>2. IsOpen(st) \/ st.protocol = "none"
      BY <2>3, <3>1 DEF Inv, CloseInv, StandsOpen
    <3>3. hist.closed \notin Unstoppable => ~IsOpen(st) /\ st.protocol = "none"
      BY <2>0, <2>3 DEF Inv, CloseInv, StaysStopped, Stopped
    <3> QED
      BY <1>1, <2>3, <3>2, <3>3 DEF Kept, Stoppable
  <2>4. /\ Stoppable' = Stoppable
        /\ Second' <=> pc = "socks_resolve" /\ s.proxy_status = "socks4_resolve_host"
        /\ IsOpen(st)' <=> IsOpen(s)
        /\ Stopped' <=> ~IsOpen(s) /\ s.protocol = "none"
    BY <1>1 DEF Stoppable, Sync, Second, Stopped, At, IsOpen
  <2>5. StandsOpen'
    BY <1>1, <2>3, <2>4 DEF StandsOpen
  <2>6. HasSocket'
    BY <1>1, <2>3, <2>4 DEF HasSocket, Standing, Connecting
  <2>7. StaysStopped'
    <3>1. op'.live <=> IsOpen(s)
      BY <1>1
    <3> QED
      BY <1>1, <2>3, <2>4, <3>1 DEF StaysStopped
  <2> QED
    BY <2>1, <2>2, <2>5, <2>6, <2>7 DEF CloseInv
<1> QED
  BY <1>2, <1>3, <1>4, <1>5, <1>6 DEF Inv

(* AwaitConnect: an address is tried, the first or the next. *)
Opened(s) ==
  /\ s \in StreamMembers /\ s.sock = st.sock /\ s.url = st.url /\ s.protocol = st.protocol
  /\ s.redirects = st.redirects
  /\ IsOpen(s) <=> st.sock # "none"
Connects(pc) ==
  \/ op.pc \in {"s_resolve", "s_connect"} /\ pc = "s_connect"
  \/ op.pc \in {"s_socks_resolve", "s_socks_connect"} /\ pc = "s_socks_connect"
  \/ op.pc \in {"s_https_resolve", "s_https_connect"} /\ pc = "s_https_connect"
  \/ op.pc \in {"resolve", "connect"} /\ pc = "connect"
  \/ ((op.pc = "socks_resolve" /\ ~Second) \/ op.pc = "socks_connect") /\ pc = "socks_connect"
  \/ op.pc \in {"https_resolve", "https_connect"} /\ pc = "https_connect"

(* So does an attempt to connect, on the members s. *)
LEMMA TriesNext ==
  ASSUME Inv, UNCHANGED <<setup, peer, hist>>, NEW pc, NEW n \in 0 .. MaxEndpoints,
         NEW s, Opened(s), Connects(pc), st' = s,
         op' = [op EXCEPT !.pc = pc, !.live = TRUE, !.endpoints = n]
  PROVE  Inv'
<1>0. /\ pc \in {"s_connect", "s_socks_connect", "s_https_connect", "connect",
                "socks_connect", "https_connect"}
      /\ pc \in BlockingPcs <=> op.pc \in BlockingPcs
      /\ pc \in HandlerPcs <=> op.pc \in HandlerPcs
      /\ pc \in BlockingProxyPcs <=> op.pc \in BlockingProxyPcs
      /\ pc \in ProxyPcs <=> op.pc \in ProxyPcs
      /\ pc \in {"s_connect", "connect"} =>
           op.pc \in {"s_resolve", "s_connect", "resolve", "connect"}
  BY DEF Connects, BlockingPcs, BlockingProxyPcs, HandlerPcs, ProxyPcs
<1>1. /\ op' \in Operations /\ op'.pc = pc /\ op'.call = op.call /\ op'.ec = op.ec
      /\ hist' = hist /\ peer' = peer /\ setup' = setup /\ st' = s
  <2>1. pc \in Pcs
    BY <1>0 DEF Pcs, BlockingPcs, BlockingProxyPcs, HandlerPcs, ProxyPcs
  <2>2. op \in Operations
    BY DEF Inv, Members
  <2> QED
    BY <2>1, <2>2 DEF Operations
<1>2. Members'
  BY <1>1 DEF Inv, Members, Opened
<1>3. Place'
  BY <1>0, <1>1 DEF Inv, Place, Sync, At, Resting
<1>4. TunnelInv'
  <2>1. Through(peer)'
    BY <1>1 DEF Inv, TunnelInv, Through, Tunnelled, ViaProxy, Opened, Sync
  <2>2. (st.url = "https" => st.sock = "tls")'
    BY <1>1 DEF Inv, TunnelInv, Opened
  <2>3. MayWait(op.pc, st, peer)'
    BY <1>0, <1>1 DEF Inv, TunnelInv, MayWait
  <2>4. (op.pc \in BlockingProxyPcs => st.protocol = st.url)'
    BY <1>0, <1>1 DEF Inv, TunnelInv, Opened
  <2>5. (op.pc \in {"s_resolve", "s_connect", "resolve", "connect"} => ~ViaProxy(setup.proxy))'
    BY <1>0, <1>1 DEF Inv, TunnelInv, Opened, ViaProxy
  <2> QED
    BY <2>1, <2>2, <2>3, <2>4, <2>5 DEF TunnelInv
<1>5. ResultInv'
  <2>1. pc \notin Resting /\ op.pc \notin Resting
    BY <1>0 DEF Connects, Resting
  <2> QED
    BY <1>1, <2>1 DEF Inv, ResultInv, Finished, At, Opened, Resting
<1>6. CloseInv'
  <2>0. pc \notin Resting /\ op.pc \notin Resting
    BY <1>0 DEF Connects, Resting
  <2>1. CloseStops'
    BY <1>1, <2>0 DEF CloseStops, Finished, At, Resting
  <2>2. (Sync => hist.closed = "no")'
    BY <1>1 DEF Inv, CloseInv, Sync
  <2>3. /\ Stoppable' = Stoppable /\ IsOpen(st)' = IsOpen(s)
        /\ Second' = FALSE /\ At("header")' = FALSE
    BY <1>0, <1>1 DEF Stoppable, Sync, Second, At, IsOpen
  <2>4. ASSUME Stoppable
        PROVE  /\ op.pc \in {"resolve", "https_resolve", "socks_resolve"} => ~Second
               /\ op.pc \in {"resolve", "https_resolve", "socks_resolve"} \cup Connecting
    BY <1>0, <2>4 DEF Connects, Stoppable, Inv, Place, BlockingPcs, BlockingProxyPcs,
                      Second, At, Connecting
  <2>5. ASSUME Stoppable
        PROVE  IsOpen(s) \/ s.protocol = "none"
    <3>1. CASE st.sock # "none"
      BY <3>1 DEF Opened
    <3>2. CASE st.sock = "none"
      <4>1. ~IsOpen(st)
        BY <3>2 DEF IsOpen
      <4>2. op.pc \in Connecting
        BY <2>4, <2>5, <3>2 DEF Inv, CloseInv, HasSocket
      <4> QED
        BY <2>5, <4>1, <4>2 DEF Inv, CloseInv, StandsOpen, Opened, Standing, Connecting
    <3> QED
      BY <3>1, <3>2
  <2>6. StandsOpen'
    BY <1>1, <2>3, <2>5 DEF StandsOpen
  <2>7. HasSocket'
    BY <1>0, <1>1 DEF HasSocket
  <2>8. StaysStopped'
    <3>1. Stoppable => hist.closed \in Unstoppable
      BY <2>0, <2>4 DEF Inv, CloseInv, StaysStopped, Second, At, Standing, Connecting
    <3> QED
      BY <1>1, <2>3, <3>1 DEF StaysStopped
  <2> QED
    BY <2>1, <2>2, <2>6, <2>7, <2>8 DEF CloseInv
<1> QED
  BY <1>2, <1>3, <1>4, <1>5, <1>6 DEF Inv

(* A connect opens the socket there is. *)
LEMMA SetOpenOpens ==
  ASSUME st \in StreamMembers
  PROVE  Opened(SetOpen(st, TRUE))
<1> DEFINE s == SetOpen(st, TRUE)
<1>1. CASE st.sock = "plain"
  BY <1>1 DEF SetOpen, Opened, IsOpen, StreamMembers
<1>2. CASE st.sock = "tls"
  BY <1>2 DEF SetOpen, Opened, IsOpen, StreamMembers
<1>3. CASE st.sock = "none"
  BY <1>3 DEF SetOpen, Opened, IsOpen, StreamMembers
<1> QED
  BY <1>1, <1>2, <1>3 DEF StreamMembers

(* An attempt to connect keeps the invariant. *)
LEMMA ConnectKeeps ==
  ASSUME Inv, UNCHANGED <<setup, peer>>, NEW pc, NEW n \in 0 .. MaxEndpoints,
         Connects(pc), AwaitConnect(pc, n)
  PROVE  Inv'
BY TriesNext, SetOpenOpens DEF AwaitConnect, Inv, Members

(* Begin: an open, the caller's or that of a redirect. *)
LEMMA BeginDoes ==
  ASSUME Members, NEW scheme \in Schemes, NEW s \in StreamMembers, NEW h \in Histories,
         Begin(scheme, s, h)
  PROVE  /\ st' \in StreamMembers /\ op' \in Operations /\ hist' \in Histories
         /\ peer' \in Peers /\ peer'.sent = {}
         /\ st'.url = scheme /\ st'.protocol = scheme /\ st'.redirects = s.redirects
         /\ scheme = "https" => st'.sock = "tls"
         /\ op'.call = "open"
         /\ \/ Sync /\ op'.pc = "idle" /\ hist'.ec \in Refused
            \/ ~Sync /\ op'.pc = "posted" /\ op'.ec \in Refused /\ hist' = h
            \/ /\ st'.sock # "none" /\ hist' = h
               /\ \/ Sync /\ op'.pc \in {"s_socks_resolve", "s_https_resolve", "s_resolve"}
                  \/ ~Sync /\ op'.pc \in {"socks_resolve", "https_resolve", "resolve"}
               /\ op'.pc = "socks_resolve" => st'.proxy_status = "socks_proxy_resolve"
               /\ op'.pc \in {"s_resolve", "resolve"} =>
                    setup.proxy = "none" \/ (setup.proxy = "http" /\ scheme # "https")
         /\ hist'.call = h.call /\ hist'.closed = h.closed
         /\ hist'.followed = h.followed /\ hist'.inherited = h.inherited
<1> DEFINE c == OpenMembers(scheme, s)
           first == FirstStep(c)
<1>1. /\ c \in StreamMembers /\ c.url = scheme /\ c.protocol = scheme
      /\ c.redirects = s.redirects
      /\ scheme = "https" => c.sock = "tls"
      /\ scheme = "http" => c.sock = "plain"
  BY DEF OpenMembers, StreamMembers
<1> HIDE DEF c
<1>2. /\ first \in Refused
         \/ /\ c.sock # "none"
            /\ \/ Sync /\ first \in {"s_socks_resolve", "s_https_resolve", "s_resolve"}
               \/ ~Sync /\ first \in {"socks_resolve", "https_resolve", "resolve"}
            /\ first \in {"s_resolve", "resolve"} =>
                 setup.proxy = "none" \/ (setup.proxy = "http" /\ scheme # "https")
  <2>1. c.protocol # "other" => c.sock # "none"
    BY <1>1, SchemesAssumption
  <2>2. setup.proxy \in {"none", "socks4", "socks5", "http"}
    BY DEF Members, Setup
  <2> QED
    BY <1>1, <2>1, <2>2 DEF FirstStep, SyncFirst, AsyncFirst, Refused
<1>3. /\ IF Sync THEN SyncOpen(c, first, h) ELSE AsyncOpen(c, first, h)
      /\ peer' = NewPeer
  BY DEF Begin, c
<1> HIDE DEF first
<1>4. /\ first \in Refused => first \in {"none"} \cup Refused /\ first \in Codes
      /\ "socks_resolve" \notin Refused
  BY DEF Refused, Codes
<1>5. peer' \in Peers /\ peer'.sent = {}
  BY <1>3 DEF NewPeer, Peers
<1>6. Idle \in Operations /\ Idle.pc = "idle" /\ Idle.call = "open"
  BY IdleIs
<1>7. CASE Sync
  <2>1. SyncOpen(c, first, h)
    BY <1>3, <1>7
  <2>2. CASE first \in Refused
    <3>1. st' = c /\ op' = Idle /\ hist' = [h EXCEPT !.ec = first]
      BY <2>1, <2>2 DEF SyncOpen
    <3>2. /\ hist' \in Histories /\ hist'.ec = first /\ hist'.call = h.call
          /\ hist'.closed = h.closed /\ hist'.followed = h.followed
          /\ hist'.inherited = h.inherited
      BY <1>4, <2>2, <3>1 DEF Histories
    <3> QED
      BY <1>1, <1>5, <1>6, <1>7, <2>2, <3>1, <3>2
  <2>3. CASE first \notin Refused
    <3>1. st' = c /\ op' = [Idle EXCEPT !.pc = first] /\ hist' = h
      BY <2>1, <2>3 DEF SyncOpen
    <3>2. first \in {"s_socks_resolve", "s_https_resolve", "s_resolve"}
      BY <1>2, <1>7, <2>3
    <3>3. op' \in Operations /\ op'.pc = first /\ op'.call = "open"
      BY <1>6, <3>1, <3>2 DEF Operations, Pcs, BlockingPcs, BlockingProxyPcs
    <3> QED
      BY <1>1, <1>2, <1>5, <1>7, <2>3, <3>1, <3>2, <3>3
  <2> QED
    BY <2>2, <2>3
<1>8. CASE ~Sync
  <2>1. AsyncOpen(c, first, h)
    BY <1>3, <1>8
  <2>2. CASE first \in Refused
    <3>1. st' = c /\ op' = [Idle EXCEPT !.pc = "posted", !.ec = first] /\ hist' = h
      BY <1>4, <2>1, <2>2 DEF AsyncOpen
    <3>2. op' \in Operations /\ op'.pc = "posted" /\ op'.ec = first /\ op'.call = "open"
      BY <1>4, <1>6, <2>2, <3>1 DEF Operations, Pcs, HandlerPcs
    <3> QED
      BY <1>1, <1>5, <1>8, <2>2, <3>1, <3>2
  <2>3. CASE first \notin Refused
    <3>1. first \in {"socks_resolve", "https_resolve", "resolve"}
      BY <1>2, <1>8, <2>3
    <3>2. /\ op' = [Idle EXCEPT !.pc = first] /\ hist' = h
          /\ st' = IF first = "socks_resolve"
                   THEN [c EXCEPT !.proxy_status = "socks_proxy_resolve"] ELSE c
      BY <2>1, <2>3 DEF AsyncOpen
    <3>3. op' \in Operations /\ op'.pc = first /\ op'.call = "open"
      BY <1>6, <3>1, <3>2 DEF Operations, Pcs, HandlerPcs, ProxyPcs
    <3>4. /\ st' \in StreamMembers /\ st'.url = scheme /\ st'.protocol = scheme
          /\ st'.redirects = s.redirects /\ st'.sock = c.sock
          /\ first = "socks_resolve" => st'.proxy_status = "socks_proxy_resolve"
      <4>1. CASE first = "socks_resolve"
        <5> DEFINE d == [c EXCEPT !.proxy_status = "socks_proxy_resolve"]
        <5>1. /\ d \in StreamMembers /\ d.url = c.url /\ d.protocol = c.protocol
              /\ d.redirects = c.redirects /\ d.sock = c.sock
              /\ d.proxy_status = "socks_proxy_resolve"
          BY <1>1 DEF StreamMembers, SocksPlaces
        <5>2. st' = d
          BY <3>2, <4>1
        <5> HIDE DEF d
        <5> QED
          BY <1>1, <5>1, <5>2
      <4>2. CASE first # "socks_resolve"
        BY <1>1, <3>2, <4>2
      <4> QED
        BY <4>1, <4>2
    <3> QED
      BY <1>1, <1>2, <1>5, <1>8, <2>3, <3>1, <3>2, <3>3, <3>4
  <2> QED
    BY <2>2, <2>3
<1> QED
  BY <1>7, <1>8

(* An open that begins keeps the invariant: the caller's, or that of a     *)
(* redirect that no close() was meant to stop.                             *)
LEMMA BeginKeeps ==
  ASSUME Inv, UNCHANGED setup, NEW scheme \in Schemes, NEW s \in StreamMembers,
         NEW h \in Histories, Begin(scheme, s, h),
         h.followed <= MaxRedirects, s.redirects = h.followed + h.inherited,
         h.closed \in Unstoppable \/ h.call # "open", Sync => h.closed = "no"
  PROVE  Inv'
<1>1. /\ st' \in StreamMembers /\ op' \in Operations /\ hist' \in Histories
      /\ peer' \in Peers /\ peer'.sent = {}
      /\ st'.url = scheme /\ st'.protocol = scheme /\ st'.redirects = s.redirects
      /\ scheme = "https" => st'.sock = "tls"
      /\ op'.call = "open"
      /\ \/ Sync /\ op'.pc = "idle" /\ hist'.ec \in Refused
         \/ ~Sync /\ op'.pc = "posted" /\ op'.ec \in Refused /\ hist' = h
         \/ /\ st'.sock # "none" /\ hist' = h
            /\ \/ Sync /\ op'.pc \in {"s_socks_resolve", "s_https_resolve", "s_resolve"}
               \/ ~Sync /\ op'.pc \in {"socks_resolve", "https_resolve", "resolve"}
            /\ op'.pc = "socks_resolve" => st'.proxy_status = "socks_proxy_resolve"
            /\ op'.pc \in {"s_resolve", "resolve"} =>
                 setup.proxy = "none" \/ (setup.proxy = "http" /\ scheme # "https")
      /\ hist'.call = h.call /\ hist'.closed = h.closed
      /\ hist'.followed = h.followed /\ hist'.inherited = h.inherited
  BY BeginDoes DEF Inv
<1>2. Members'
  BY <1>1 DEF Inv, Members
<1>3. Place'
  BY <1>1 DEF Place, BlockingPcs, BlockingProxyPcs, HandlerPcs, ProxyPcs, At, Sync
<1>4. TunnelInv'
  <2>1. Through(peer)' /\ (st.url = "https" => st.sock = "tls")'
    BY <1>1 DEF Through
  <2>2. (op.pc \in BlockingProxyPcs => st.protocol = st.url)'
    BY <1>1
  <2>3. (op.pc \in {"s_resolve", "s_connect", "resolve", "connect"} => ~ViaProxy(setup.proxy))'
    BY <1>1 DEF ViaProxy
  <2>4. MayWait(op.pc, st, peer)'
    BY <1>1 DEF MayWait
  <2> QED
    BY <2>1, <2>2, <2>3, <2>4 DEF TunnelInv
<1>5. ResultInv'
  <2>1. (Finished("open") \/ Finished("receive") => Truth(hist.ec, st, peer))'
    BY <1>1 DEF Finished, At, Truth, Refused
  <2> QED
    BY <1>1, <2>1 DEF ResultInv
<1>6. CloseInv'
  <2>1. h.call = "open" => hist'.closed \in Unstoppable
    BY <1>1
  <2>2. Second' = FALSE
    BY <1>1 DEF Second, At
  <2>3. op'.pc \notin Standing
    BY <1>1 DEF Standing
  <2>4. Sync' = Sync
    BY DEF Sync
  <2>5. CloseStops'
    BY <1>1, <2>1 DEF CloseStops, Finished, Unstoppable
  <2>6. StandsOpen' /\ HasSocket' /\ StaysStopped'
    BY <1>1, <2>1, <2>2, <2>3, <2>4 DEF StandsOpen, HasSocket, StaysStopped, Stoppable, Unstoppable
  <2> QED
    BY <1>1, <2>4, <2>5, <2>6 DEF CloseInv
<1> QED
  BY <1>2, <1>3, <1>4, <1>5, <1>6 DEF Inv

-----------------------------------------------------------------------------
(* What every step may use. *)
LEMMA Known ==
  ASSUME Inv
  PROVE  /\ st \in StreamMembers /\ op \in Operations /\ peer \in Peers /\ hist \in Histories
         /\ setup \in Setup /\ Kept(st) /\ Lower(st) /\ Through(peer)
         /\ op.endpoints \in 0 .. MaxEndpoints /\ MaxEndpoints \in Nat
         /\ MayWait(op.pc, st, peer)
BY BoundsAssumption DEF Inv, Members, Operations, Kept, Lower, TunnelInv

(* The members an answer or a step of the socks handshake changes. *)
LEMMA MemberKept ==
  ASSUME st \in StreamMembers
  PROVE  /\ \A x \in Statuses \cup {0} :
              LET s == [st EXCEPT !.status_code = x] IN
              Kept(s) /\ Lower(s) /\ s.status_code = x /\ s.proxy_status = st.proxy_status
                /\ s.location = st.location
         /\ \A x \in Locations \cup {"none"} :
              LET s == [st EXCEPT !.location = x] IN
              Kept(s) /\ Lower(s) /\ s.status_code = st.status_code
                /\ s.proxy_status = st.proxy_status /\ s.location = x
         /\ \A x \in SocksPlaces :
              LET s == [st EXCEPT !.proxy_status = x] IN
              Kept(s) /\ Lower(s) /\ s.proxy_status = x
<1>1. ASSUME NEW x \in Statuses \cup {0}
      PROVE  LET s == [st EXCEPT !.status_code = x] IN
             Kept(s) /\ Lower(s) /\ s.status_code = x /\ s.proxy_status = st.proxy_status
               /\ s.location = st.location
  BY <1>1 DEF Kept, Lower, StreamMembers, IsOpen
<1>2. ASSUME NEW x \in Locations \cup {"none"}
      PROVE  LET s == [st EXCEPT !.location = x] IN
             Kept(s) /\ Lower(s) /\ s.status_code = st.status_code
               /\ s.proxy_status = st.proxy_status /\ s.location = x
  BY <1>2 DEF Kept, Lower, StreamMembers, IsOpen
<1>3. ASSUME NEW x \in SocksPlaces
      PROVE  LET s == [st EXCEPT !.proxy_status = x] IN
             Kept(s) /\ Lower(s) /\ s.proxy_status = x
  BY <1>3 DEF Kept, Lower, StreamMembers, IsOpen
<1> QED
  BY <1>1, <1>2, <1>3

(* The results that are true of anything. *)
Failures == Codes \ {"none", "302", "malformed_status_line", "invalid_redirect"}

(* An operation that fails keeps the invariant. *)
LEMMA Fails ==
  ASSUME Inv, op.pc \notin Resting, UNCHANGED setup, NEW ec \in Failures,
         peer' = peer \/ (peer' \in Peers /\ Through(peer')), Done(ec, st)
  PROVE  Inv'
<1>1. ec \in Codes /\ Truth(ec, st, peer')
  BY DEF Failures, Truth
<1>2. Lower(st) /\ peer' \in Peers /\ Through(peer')
  BY Known
<1> QED
  BY <1>1, <1>2, DoneKeeps

(* A blocking operation goes on. *)
LEMMA GoesOn ==
  ASSUME Inv, UNCHANGED setup, op.pc \in BlockingPcs, NEW s, Kept(s),
         NEW pc \in BlockingPcs \cup {"endless_read"},
         pc \notin {"s_resolve", "s_connect"},
         pc \in BlockingProxyPcs => op.pc \in BlockingProxyPcs,
         peer' \in Peers, Through(peer'), MayWait(pc, s, peer'), Await(pc, s)
  PROVE  Inv'
<1>1. Reaches(pc)
  <2>1. /\ pc \in Pcs /\ pc \notin Resting
        /\ pc \notin {"posted", "tail", "s_resolve", "s_connect", "resolve", "connect"}
    BY DEF Pcs, BlockingPcs, BlockingProxyPcs, Resting
  <2> QED
    BY <2>1 DEF Reaches
<1>2. Sync
  BY DEF Inv, Place
<1> QED
  BY <1>1, <1>2, AwaitKeeps

(* An asynchronous operation goes on, over a connection that stands. *)
LEMMA Continues ==
  ASSUME Inv, UNCHANGED setup, op.pc \in HandlerPcs, NEW s, Kept(s),
         Second \/ op.pc \in Standing \/ op.pc = "tail",
         NEW pc \in Standing \ Connecting,
         peer' \in Peers, Through(peer'), MayWait(pc, s, peer'), Await(pc, s)
  PROVE  Inv'
<1>1. Reaches(pc)
  BY DEF Reaches, Pcs, HandlerPcs, ProxyPcs, BlockingPcs, BlockingProxyPcs, Resting,
         Standing, Connecting
<1>2. hist.call = "open" => Second \/ op.pc \in Standing
  BY DEF Inv, Place, At
<1> QED
  BY <1>1, <1>2, AwaitKeeps

(* The pcs of a proxy: nothing was requested yet. *)
LEMMA SentNothing ==
  ASSUME Inv, op.pc \in BlockingProxyPcs \cup ProxyPcs
  PROVE  "request" \notin peer.sent
BY DEF Inv, TunnelInv, MayWait

(* The blocking handshakes with a proxy. *)
LEMMA BlockingProxyKeeps ==
  ASSUME Inv, SyncProxyStep
  PROVE  Inv'
<1> USE Known DEF At
<1>a. op.pc \in BlockingProxyPcs
  BY DEF SyncProxyStep, SocksProxyResolve, SocksProxyConnect, SocksVersion, SocksAuth,
         SocksProxyHandshake, SyncHandshake, HttpsProxyResolve, HttpsProxyConnect,
         HttpsProxyStatus, HttpsProxyHeader, BlockingProxyPcs
<1>b. /\ op.pc \in BlockingPcs /\ op.pc \notin Resting /\ "request" \notin peer.sent
      /\ st.protocol = st.url
  BY <1>a, SentNothing DEF BlockingPcs, BlockingProxyPcs, Resting, Inv, TunnelInv
<1>1. CASE SocksProxyResolve
  BY <1>1, <1>b, Fails, ConnectKeeps
     DEF SocksProxyResolve, Resolutions, Connects, Failures, Codes
<1>2. CASE SocksProxyConnect
  <2>1. CASE Await(IF setup.proxy = "socks4" THEN "s_socks4" ELSE "s_socks_version", st)
    <3>1. MayWait("s_socks4", st, peer) /\ MayWait("s_socks_version", st, peer)
      BY <1>b DEF MayWait
    <3> QED
      BY <1>2, <1>a, <1>b, <2>1, <3>1, GoesOn
         DEF SocksProxyConnect, BlockingPcs, BlockingProxyPcs
  <2>2. CASE op.endpoints > 0 /\ AwaitConnect("s_socks_connect", op.endpoints - 1)
    BY <1>2, <2>2, ConnectKeeps DEF SocksProxyConnect, Connects
  <2>3. CASE Done("refused", st)
    BY <1>2, <1>b, <2>3, Fails DEF SocksProxyConnect, Failures, Codes
  <2> QED
    BY <1>2, <2>1, <2>2, <2>3 DEF SocksProxyConnect
<1>3. CASE SocksVersion
  <2>1. CASE Done("lost", st) /\ UNCHANGED peer
    BY <1>3, <1>b, <2>1, Fails DEF SocksVersion, Failures, Codes
  <2>2. CASE Send("greeting")
    <3>1. peer' \in Peers /\ "request" \notin peer'.sent
      BY <1>b, <2>2 DEF Send, Peers, Messages
    <3>2. Through(peer') /\ MayWait("s_socks_request", st, peer')
          /\ MayWait("s_socks_auth", st, peer')
      BY <3>1 DEF Through, MayWait
    <3>3. \/ \E ec \in Failures : Done(ec, st)
          \/ \E pc \in {"s_socks_request", "s_socks_auth"} : Await(pc, st)
      BY <1>3 DEF SocksVersion, SocksMethods, Failures, Codes
    <3>4. ASSUME NEW pc \in {"s_socks_request", "s_socks_auth"}, Await(pc, st)
          PROVE  Inv'
      BY <1>3, <1>a, <1>b, <3>1, <3>2, <3>4, GoesOn
         DEF SocksVersion, BlockingPcs, BlockingProxyPcs
    <3> QED
      BY <1>3, <1>b, <3>1, <3>2, <3>3, <3>4, Fails DEF SocksVersion
  <2> QED
    BY <1>3, <2>1, <2>2 DEF SocksVersion
<1>4. CASE SocksAuth
  <2>1. CASE Done("lost", st) /\ UNCHANGED peer
    BY <1>4, <1>b, <2>1, Fails DEF SocksAuth, Failures, Codes
  <2>2. CASE Send("userinfo")
    <3>1. peer' \in Peers /\ "request" \notin peer'.sent
      BY <1>b, <2>2 DEF Send, Peers, Messages
    <3>2. Through(peer') /\ MayWait("s_socks_request", st, peer')
      BY <3>1 DEF Through, MayWait
    <3>3. (\E ec \in Failures : Done(ec, st)) \/ Await("s_socks_request", st)
      BY <1>4 DEF SocksAuth, Failures, Codes
    <3>4. CASE Await("s_socks_request", st)
      BY <1>4, <1>a, <1>b, <3>1, <3>2, <3>4, GoesOn
         DEF SocksAuth, BlockingPcs, BlockingProxyPcs
    <3> QED
      BY <1>4, <1>b, <3>1, <3>2, <3>3, <3>4, Fails DEF SocksAuth
  <2> QED
    BY <1>4, <2>1, <2>2 DEF SocksAuth
<1>5. CASE SocksProxyHandshake
  <2>1. CASE UNCHANGED peer /\ (Done("lost", st) \/ Done("host_not_found", st))
    BY <1>5, <1>b, <2>1, Fails DEF SocksProxyHandshake, Failures, Codes
  <2>2. ASSUME NEW reply \in Socks4Replies \cup Socks5Replies, NEW lost \in BOOLEAN,
               SocksReply(reply),
               peer' = [peer EXCEPT !.sent = @ \cup {"connect"}, !.lost = lost,
                                    !.granted = Grants(reply) /\ ~lost]
        PROVE  Inv'
    <3>1. /\ peer' \in Peers /\ "request" \notin peer'.sent /\ peer'.lost = lost
          /\ peer'.granted <=> Grants(reply) /\ ~lost
      BY <1>b, <2>2 DEF Peers, Messages, Grants
    <3>2. Through(peer')
      BY <3>1 DEF Through
    <3>3. CASE reply \in {"ipv4", "name", "granted"}
      <4>1. SyncTunnelReady(st)
        BY <2>2, <3>3 DEF SocksReply
      <4>2. Sync
        BY <1>b DEF Inv, Place
      <4>3. Tunnelled(peer')
        BY <3>1, <3>3, <4>2 DEF Tunnelled, Grants
      <4>4. CASE st.protocol = "https"
        <5>1. MayWait("s_handshake", st, peer')
          BY <3>1, <4>3 DEF MayWait
        <5> QED
          BY <1>5, <1>a, <1>b, <3>1, <3>2, <4>1, <4>4, <5>1, GoesOn
             DEF SocksProxyHandshake, SyncTunnelReady, BlockingPcs, BlockingProxyPcs
      <4>5. CASE st.protocol # "https"
        <5>1. MayWait("s_request", st, peer')
          BY <1>b, <4>3, <4>5 DEF MayWait, BlockingProxyPcs, ProxyPcs
        <5> QED
          BY <1>5, <1>a, <1>b, <3>1, <3>2, <4>1, <4>5, <5>1, GoesOn
             DEF SocksProxyHandshake, SyncTunnelReady, BlockingPcs, BlockingProxyPcs
      <4> QED
        BY <4>4, <4>5
    <3>4. CASE reply \notin {"ipv4", "name", "granted"}
      <4>1. \E ec \in Failures : Done(ec, st)
        BY <2>2, <3>4 DEF SocksReply, Refusal, Failures, Codes
      <4> QED
        BY <1>5, <1>b, <3>1, <3>2, <4>1, Fails DEF SocksProxyHandshake
    <3> QED
      BY <3>3, <3>4
  <2> QED
    BY <1>5, <2>1, <2>2 DEF SocksProxyHandshake
<1>6. CASE SyncHandshake
  <2>1. CASE Done("lost", st) /\ UNCHANGED peer
    BY <1>6, <1>b, <2>1, Fails DEF SyncHandshake, Failures, Codes
  <2>2. CASE ~peer.lost /\ Await("s_request", st) /\ peer' = [peer EXCEPT !.tls = TRUE]
    <3>1. /\ peer' \in Peers /\ "request" \notin peer'.sent /\ peer'.tls = TRUE
          /\ peer'.granted = peer.granted /\ peer'.lost = peer.lost
      BY <1>b, <2>2 DEF Peers
    <3>2. Through(peer') /\ Tunnelled(peer)
      BY <1>6, <3>1 DEF SyncHandshake, Through, MayWait
    <3>3. MayWait("s_request", st, peer')
      BY <3>1, <3>2 DEF MayWait, Tunnelled, BlockingProxyPcs, ProxyPcs
    <3> QED
      BY <1>6, <1>b, <2>2, <3>1, <3>2, <3>3, GoesOn
         DEF SyncHandshake, BlockingPcs, BlockingProxyPcs
  <2> QED
    BY <1>6, <2>1, <2>2 DEF SyncHandshake
<1>7. CASE HttpsProxyResolve
  BY <1>7, <1>b, Fails, ConnectKeeps
     DEF HttpsProxyResolve, Resolutions, Connects, Failures, Codes
<1>8. CASE HttpsProxyConnect
  <2>1. CASE Await("s_https_status", st)
    <3>1. MayWait("s_https_status", st, peer)
      BY <1>b DEF MayWait
    <3> QED
      BY <1>8, <1>a, <1>b, <2>1, <3>1, GoesOn
         DEF HttpsProxyConnect, BlockingPcs, BlockingProxyPcs
  <2>2. CASE op.endpoints > 0 /\ AwaitConnect("s_https_connect", op.endpoints - 1)
    BY <1>8, <2>2, ConnectKeeps DEF HttpsProxyConnect, Connects
  <2>3. CASE Done("refused", st)
    BY <1>8, <1>b, <2>3, Fails DEF HttpsProxyConnect, Failures, Codes
  <2> QED
    BY <1>8, <2>1, <2>2, <2>3 DEF HttpsProxyConnect
<1>9. CASE HttpsProxyStatus
  <2>1. CASE Done("lost", st) /\ UNCHANGED peer
    BY <1>9, <1>b, <2>1, Fails DEF HttpsProxyStatus, Failures, Codes
  <2>2. ASSUME NEW status \in Statuses,
               peer' = [peer EXCEPT !.sent = @ \cup {"connect"},
                                    !.odd = IF status = 100 THEN @ \cup {"continue"} ELSE @],
               IF status = 100
               THEN Done("malformed_status_line", [st EXCEPT !.status_code = 0])
               ELSE Await("s_https_header", [st EXCEPT !.status_code = status])
        PROVE  Inv'
    <3> DEFINE code == IF status = 100 THEN 0 ELSE status
               s == [st EXCEPT !.status_code = code]
    <3>1. Kept(s) /\ Lower(s)
      <4>1. code \in Statuses \cup {0}
        OBVIOUS
      <4> HIDE DEF code
      <4> QED
        BY <4>1, MemberKept
    <3>2. /\ peer' \in Peers /\ "request" \notin peer'.sent
          /\ status = 100 => peer'.odd # {}
      BY <1>b, <2>2 DEF Peers, Messages, Oddities
    <3>3. /\ Through(peer') /\ MayWait("s_https_header", s, peer')
          /\ status = 100 => Truth("malformed_status_line", s, peer')
      BY <3>2 DEF Through, MayWait, Truth
    <3>4. (Done("malformed_status_line", s) /\ status = 100) \/ Await("s_https_header", s)
      BY <2>2
    <3> HIDE DEF s
    <3>5. UNCHANGED setup
      BY <1>9 DEF HttpsProxyStatus
    <3>6. CASE Done("malformed_status_line", s) /\ status = 100
      BY <1>b, <3>1, <3>2, <3>3, <3>5, <3>6, DoneKeeps DEF Codes
    <3>7. CASE Await("s_https_header", s)
      BY <1>a, <1>b, <3>1, <3>2, <3>3, <3>5, <3>7, GoesOn DEF BlockingPcs, BlockingProxyPcs
    <3> QED
      BY <3>4, <3>6, <3>7
  <2>3. CASE /\ Done("malformed_status_line", [st EXCEPT !.status_code = 0])
             /\ peer' = [peer EXCEPT !.odd = @ \cup {"status"}]
    <3> DEFINE s == [st EXCEPT !.status_code = 0]
    <3>1. Lower(s)
      BY MemberKept
    <3>2. peer' \in Peers /\ peer'.sent = peer.sent /\ peer'.odd # {}
      BY <2>3 DEF Peers, Oddities
    <3>3. Through(peer') /\ Truth("malformed_status_line", s, peer')
      BY <1>b, <3>2 DEF Through, Truth
    <3>4. Done("malformed_status_line", s)
      BY <2>3
    <3> HIDE DEF s
    <3> QED
      BY <1>9, <1>b, <3>1, <3>2, <3>3, <3>4, DoneKeeps DEF HttpsProxyStatus, Codes
  <2> QED
    BY <1>9, <2>1, <2>2, <2>3 DEF HttpsProxyStatus
<1>10. CASE HttpsProxyHeader
  <2>1. CASE UNCHANGED peer /\ \E ec \in Failures : Done(ec, st)
    BY <1>10, <1>b, <2>1, Fails DEF HttpsProxyHeader
  <2>2. ASSUME NEW location \in Locations \cup {st.location},
               Done("302", [st EXCEPT !.location = location]), UNCHANGED peer
        PROVE  Inv'
    <3> DEFINE s == [st EXCEPT !.location = location]
    <3>1. Lower(s)
      BY MemberKept DEF StreamMembers
    <3>2. Truth("302", s, peer')
      BY <1>b, <2>2 DEF Truth
    <3>3. Done("302", s)
      BY <2>2
    <3> HIDE DEF s
    <3> QED
      BY <1>10, <1>b, <2>2, <3>1, <3>2, <3>3, DoneKeeps DEF HttpsProxyHeader, Codes
  <2>3. CASE Await("s_handshake", st) /\ Granted
    <3>1. peer' \in Peers /\ peer'.sent = peer.sent /\ peer'.granted = TRUE
      BY <2>3 DEF Granted, Peers
    <3>2. Through(peer') /\ MayWait("s_handshake", st, peer')
      BY <1>b, <3>1 DEF Through, MayWait, Tunnelled
    <3> QED
      BY <1>10, <1>a, <1>b, <2>3, <3>1, <3>2, GoesOn
         DEF HttpsProxyHeader, BlockingPcs, BlockingProxyPcs
  <2>4. CASE Await("endless_read", st) /\ peer' = [peer EXCEPT !.odd = @ \cup {"no fields"}]
    <3>1. peer' \in Peers /\ peer'.sent = peer.sent
      BY <2>4 DEF Peers, Oddities
    <3>2. Through(peer') /\ MayWait("endless_read", st, peer')
      BY <1>b, <3>1 DEF Through, MayWait, BlockingProxyPcs, ProxyPcs
    <3> QED
      BY <1>10, <1>b, <2>4, <3>1, <3>2, GoesOn
         DEF HttpsProxyHeader, BlockingPcs, BlockingProxyPcs
  <2> QED
    BY <1>10, <2>1, <2>2, <2>3, <2>4 DEF HttpsProxyHeader, Failures, Codes
<1> QED
  BY <1>1, <1>2, <1>3, <1>4, <1>5, <1>6, <1>7, <1>8, <1>9, <1>10 DEF SyncProxyStep

-----------------------------------------------------------------------------
(* The asynchronous socks handshake. *)
LEMMA SocksKeeps ==
  ASSUME Inv, SocksStep
  PROVE  Inv'
<1> USE Known DEF At
<1>a. op.pc \in {"socks_resolve", "socks_connect", "socks_process"} /\ UNCHANGED setup
  BY DEF SocksStep, AsyncSocksProxyResolve, HandleConnectSocks, ProcessError, VersionSent,
         ResponseVersion, UserinfoSent, AuthStatus, ConnectSent, Socks5Result,
         ReadDomainname, Socks4Response, SslHandshake, Process, InProcess
<1>b. op.pc \in HandlerPcs /\ op.pc \in ProxyPcs /\ op.pc \notin Resting
  BY <1>a DEF HandlerPcs, ProxyPcs, Resting
<1>c. "request" \notin peer.sent
  BY <1>b, SentNothing
(* What is sent to the proxy. *)
<1>d. ASSUME NEW what \in {"connect", "greeting", "userinfo"}, Send(what)
      PROVE  /\ peer' \in Peers /\ "request" \notin peer'.sent /\ Through(peer')
             /\ peer'.granted = peer.granted
  <2>1. peer' \in Peers /\ "request" \notin peer'.sent /\ peer'.granted = peer.granted
    BY <1>c, <1>d DEF Send, Peers, Messages
  <2> QED
    BY <2>1 DEF Through
(* The handshake goes on. *)
<1>e. ASSUME NEW status \in SocksPlaces,
             status \notin {"socks5_read_domainname", "ssl_handshake"},
             Enter(status), Second \/ op.pc \in Standing,
             peer' = peer \/ \E what \in {"connect", "greeting", "userinfo"} : Send(what)
      PROVE  Inv'
  <2> DEFINE s == [st EXCEPT !.proxy_status = status]
  <2>1. Kept(s) /\ s.proxy_status = status
    BY MemberKept
  <2>2. peer' \in Peers /\ "request" \notin peer'.sent /\ Through(peer')
    BY <1>c, <1>d, <1>e
  <2>3. MayWait("socks_process", s, peer')
    BY <1>e, <2>1, <2>2 DEF MayWait
  <2>4. Await("socks_process", s)
    BY <1>e DEF Enter
  <2> HIDE DEF s
  <2>5. "socks_process" \in Standing \ Connecting
    BY DEF Standing, Connecting
  <2> QED
    BY <1>a, <1>b, <1>e, <2>1, <2>2, <2>3, <2>4, <2>5, Continues
(* The proxy has granted the connection. *)
<1>f. ASSUME AsyncTunnelReady \/ Enter("socks5_read_domainname") \/ Await("endless_read", st)
               \/ AsyncRequest(st),
             peer' \in Peers, Tunnelled(peer'), "request" \notin peer'.sent,
             op.pc = "socks_process"
      PROVE  Inv'
  <2>1. Through(peer')
    BY <1>f DEF Through
  <2>2. op.pc \in Standing /\ {"socks_process", "request", "endless_read"} \subseteq Standing \ Connecting
    BY <1>f DEF Standing, Connecting
  <2>3. ASSUME NEW status \in {"ssl_handshake", "socks5_read_domainname"}, Enter(status)
        PROVE  Inv'
    <3> DEFINE s == [st EXCEPT !.proxy_status = status]
    <3>1. Kept(s)
      BY MemberKept DEF SocksPlaces
    <3>2. MayWait("socks_process", s, peer')
      BY <1>f DEF MayWait
    <3>3. Await("socks_process", s)
      BY <2>3 DEF Enter
    <3> HIDE DEF s
    <3> QED
      BY <1>a, <1>b, <1>f, <2>1, <2>2, <3>1, <3>2, <3>3, Continues
  <2>4. ASSUME NEW pc \in {"request", "endless_read"}, Await(pc, st)
        PROVE  Inv'
    <3>1. MayWait(pc, st, peer')
      BY <1>f DEF MayWait, BlockingProxyPcs, ProxyPcs
    <3> QED
      BY <1>a, <1>b, <1>f, <2>1, <2>2, <2>4, <3>1, Continues
  <2>5. ASSUME Done("network_reset", st)
        PROVE  Inv'
    BY <1>a, <1>b, <1>f, <2>1, <2>5, Fails DEF Failures, Codes
  <2> QED
    BY <1>f, <2>3, <2>4, <2>5 DEF AsyncTunnelReady, AsyncRequest, WriteRequest
<1>1. CASE AsyncSocksProxyResolve
  <2>1. CASE Done("host_not_found", st) /\ UNCHANGED peer
    BY <1>a, <1>b, <2>1, Fails DEF Failures, Codes
  <2>2. ASSUME NEW n \in 1 .. MaxEndpoints, st.proxy_status = "socks_proxy_resolve",
               st' = [SetOpen(st, TRUE) EXCEPT !.proxy_status = "socks_connect_proxy"],
               op' = [op EXCEPT !.pc = "socks_connect", !.live = TRUE, !.endpoints = n - 1],
               UNCHANGED <<peer, hist>>
        PROVE  Inv'
    <3> DEFINE o == SetOpen(st, TRUE)
               s == [o EXCEPT !.proxy_status = "socks_connect_proxy"]
    <3>1. Opened(o)
      BY SetOpenOpens
    <3> HIDE DEF o
    <3>2. Opened(s)
      BY <3>1 DEF Opened, StreamMembers, SocksPlaces, IsOpen
    <3>3. st' = s
      BY <2>2 DEF o
    <3> HIDE DEF s
    <3>4. Connects("socks_connect")
      BY <1>1, <2>2 DEF AsyncSocksProxyResolve, Connects, Second
    <3>5. n - 1 \in 0 .. MaxEndpoints
      OBVIOUS
    <3> QED
      BY <1>a, <2>2, <3>2, <3>3, <3>4, <3>5, TriesNext
  <2>3. CASE st.proxy_status # "socks_proxy_resolve" /\ Socks4HostResolved
    <3>1. Second
      BY <1>1, <2>3 DEF AsyncSocksProxyResolve, MayWait, Second
    <3> QED
      BY <1>e, <2>3, <3>1 DEF Socks4HostResolved, Enter, SocksPlaces
  <2>4. PICK n \in Resolutions :
          IF n = 0 THEN Done("host_not_found", st) /\ UNCHANGED peer
          ELSE IF st.proxy_status = "socks_proxy_resolve"
          THEN /\ st' = [SetOpen(st, TRUE) EXCEPT !.proxy_status = "socks_connect_proxy"]
               /\ op' = [op EXCEPT !.pc = "socks_connect", !.live = TRUE, !.endpoints = n - 1]
               /\ UNCHANGED <<peer, hist>>
          ELSE Socks4HostResolved
    BY <1>1 DEF AsyncSocksProxyResolve
  <2>5. n # 0 => n \in 1 .. MaxEndpoints
    BY DEF Resolutions
  <2> QED
    BY <2>1, <2>2, <2>3, <2>4, <2>5
<1>2. CASE HandleConnectSocks
  <2>1. op.pc = "socks_connect" /\ op.pc \in Standing
    BY <1>2 DEF HandleConnectSocks, Standing
  <2>2. CASE AwaitConnect("socks_connect", op.endpoints - 1) /\ UNCHANGED peer
               /\ op.endpoints # 0
    BY <1>a, <2>1, <2>2, ConnectKeeps DEF Connects
  <2>3. CASE UNCHANGED peer /\ \E ec \in Failures : Done(ec, st)
    BY <1>a, <1>b, <2>3, Fails
  <2>4. CASE /\ Await("socks_process", [st EXCEPT !.proxy_status = "socks_send_version"])
             /\ Send("greeting")
    BY <1>e, <2>1, <2>4 DEF Enter, SocksPlaces
  <2>5. CASE /\ Await("socks_resolve", [st EXCEPT !.proxy_status = "socks4_resolve_host"])
             /\ UNCHANGED peer
    <3> DEFINE s == [st EXCEPT !.proxy_status = "socks4_resolve_host"]
    <3>1. Kept(s) /\ s.proxy_status = "socks4_resolve_host"
      BY MemberKept DEF SocksPlaces
    <3>2. MayWait("socks_resolve", s, peer)
      BY <1>c, <3>1 DEF MayWait
    <3>3. Await("socks_resolve", s)
      BY <2>5
    <3> HIDE DEF s
    <3>4. Reaches("socks_resolve")
      <4>1. "socks_resolve" \in Pcs /\ "socks_resolve" \in HandlerPcs
        BY DEF Pcs, HandlerPcs, ProxyPcs
      <4> QED
        BY <1>b, <4>1 DEF Reaches, Resting, BlockingProxyPcs
    <3> QED
      BY <1>a, <2>1, <2>5, <3>1, <3>2, <3>3, <3>4, AwaitKeeps
  <2> QED
    BY <1>2, <2>2, <2>3, <2>4, <2>5
       DEF HandleConnectSocks, ConnectOutcomes, Outcomes, Failures, Codes
<1>3. CASE ProcessError
  BY <1>3, <1>b, Fails DEF ProcessError, ReadOutcomes, Outcomes, Failures, Codes
<1>x. op.pc = "socks_process" => op.pc \in Standing
  BY DEF Standing
<1>4. CASE VersionSent
  BY <1>4, <1>e, <1>x DEF VersionSent, Process, InProcess, SocksPlaces
<1>g. ASSUME SendConnectRequest, op.pc = "socks_process"
      PROVE  Inv'
  BY <1>e, <1>g, <1>x DEF SendConnectRequest, SocksPlaces
<1>h. ASSUME NEW ec \in Failures, Done(ec, st), UNCHANGED peer
      PROVE  Inv'
  BY <1>a, <1>b, <1>h, Fails
<1>5. CASE ResponseVersion
  <2>1. op.pc = "socks_process"
    BY <1>5 DEF ResponseVersion, Process, InProcess
  <2>2. CASE Enter("socks5_send_userinfo") /\ Send("userinfo")
    BY <1>e, <1>x, <2>1, <2>2 DEF SocksPlaces
  <2>3. CASE Await("forgotten", st) /\ UNCHANGED peer
    <3>1. /\ MayWait("forgotten", st, peer) /\ "forgotten" \in Standing \ Connecting
          /\ op.pc \in Standing
      BY <1>x, <2>1 DEF MayWait, BlockingProxyPcs, ProxyPcs, Standing, Connecting
    <3> QED
      BY <1>a, <1>b, <2>3, <3>1, Continues
  <2> QED
    BY <1>5, <1>g, <1>h, <2>1, <2>2, <2>3 DEF ResponseVersion, Failures, Codes
<1>6. CASE UserinfoSent
  BY <1>6, <1>e, <1>x DEF UserinfoSent, Process, InProcess, SocksPlaces
<1>7. CASE AuthStatus
  BY <1>7, <1>g, <1>h DEF AuthStatus, Process, InProcess, Failures, Codes
<1>8. CASE ConnectSent
  BY <1>8, <1>e, <1>x DEF ConnectSent, Process, InProcess, SocksPlaces
<1>i. ASSUME Granted
      PROVE  peer' \in Peers /\ Tunnelled(peer') /\ "request" \notin peer'.sent
  <2>1. peer' \in Peers /\ peer'.granted /\ "request" \notin peer'.sent
    BY <1>c, <1>i DEF Granted, Peers
  <2> QED
    BY <2>1 DEF Tunnelled
<1>9. CASE Socks5Result
  <2>1. op.pc = "socks_process"
    BY <1>9 DEF Socks5Result, Process, InProcess
  <2>2. \/ /\ AsyncTunnelReady \/ Enter("socks5_read_domainname") \/ Await("endless_read", st)
           /\ Granted
        \/ UNCHANGED peer /\ \E ec \in Failures : Done(ec, st)
    BY <1>9 DEF Socks5Result, Refusal, Failures, Codes
  <2> QED
    BY <1>f, <1>h, <1>i, <2>1, <2>2
<1>10. CASE ReadDomainname
  <2>1. op.pc = "socks_process" /\ st.proxy_status = "socks5_read_domainname" /\ ~Sync
    BY <1>10, <1>b DEF ReadDomainname, Process, InProcess, Inv, Place
  <2>2. Tunnelled(peer) /\ AsyncTunnelReady /\ peer' = peer
    BY <1>10, <2>1 DEF MayWait, ReadDomainname
  <2> QED
    BY <1>c, <1>f, <2>1, <2>2
<1>11. CASE Socks4Response
  <2>1. op.pc = "socks_process"
    BY <1>11 DEF Socks4Response, Process, InProcess
  <2>2. \/ AsyncTunnelReady /\ Granted
        \/ UNCHANGED peer /\ \E ec \in Failures : Done(ec, st)
    BY <1>11 DEF Socks4Response, Refusal, Failures, Codes
  <2> QED
    BY <1>f, <1>h, <1>i, <2>1, <2>2
<1>12. CASE SslHandshake
  <2>1. op.pc = "socks_process" /\ st.proxy_status = "ssl_handshake"
    BY <1>12 DEF SslHandshake, Process, InProcess
  <2>2. Tunnelled(peer) /\ AsyncRequest(st) /\ peer' = [peer EXCEPT !.tls = TRUE]
    BY <1>12, <2>1 DEF MayWait, SslHandshake
  <2>3. /\ peer' \in Peers /\ "request" \notin peer'.sent
        /\ peer'.granted = peer.granted /\ peer'.lost = peer.lost
    BY <1>c, <2>2 DEF Peers
  <2>4. Tunnelled(peer')
    BY <2>2, <2>3 DEF Tunnelled
  <2> QED
    BY <1>f, <2>1, <2>2, <2>3, <2>4
<1> QED
  BY <1>1, <1>2, <1>3, <1>4, <1>5, <1>6, <1>7, <1>8, <1>9, <1>10, <1>11, <1>12 DEF SocksStep

-----------------------------------------------------------------------------
(* The CONNECT request of an asynchronous open. *)
LEMMA HttpsProxyKeeps ==
  ASSUME Inv, HttpsProxyStep
  PROVE  Inv'
<1> USE Known DEF At
<1>a. /\ op.pc \in {"https_resolve", "https_connect", "https_request", "https_status",
                   "https_header", "https_handshake"}
      /\ UNCHANGED setup
  BY DEF HttpsProxyStep, AsyncHttpsProxyResolve, HandleConnectHttpsProxy,
         HandleHttpsProxyRequest, HandleHttpsProxyStatus, HandleHttpsProxyHeader,
         HandleHttpsProxyHandshake
<1>b. op.pc \in HandlerPcs /\ op.pc \in ProxyPcs /\ op.pc \notin Resting
  BY <1>a DEF HandlerPcs, ProxyPcs, Resting
<1>c. "request" \notin peer.sent
  BY <1>b, SentNothing
<1>d. op.pc # "https_resolve" => op.pc \in Standing
  BY <1>a DEF Standing
<1>e. {"https_request", "https_status", "https_header", "https_handshake", "request",
       "endless_read"} \subseteq Standing \ Connecting
  BY DEF Standing, Connecting
<1>f. ASSUME NEW ec \in Failures, Done(ec, st), UNCHANGED peer
      PROVE  Inv'
  BY <1>a, <1>b, <1>f, Fails
<1>1. CASE AsyncHttpsProxyResolve
  BY <1>1, <1>f, ConnectKeeps
     DEF AsyncHttpsProxyResolve, Resolutions, Connects, Failures, Codes
<1>2. CASE HandleConnectHttpsProxy
  <2>1. CASE Await("https_request", st) /\ Send("connect")
    <3>1. peer' \in Peers /\ "request" \notin peer'.sent
      BY <1>c, <2>1 DEF Send, Peers, Messages
    <3>2. Through(peer') /\ MayWait("https_request", st, peer')
      BY <3>1 DEF Through, MayWait
    <3> QED
      BY <1>2, <1>a, <1>b, <1>d, <1>e, <2>1, <3>1, <3>2, Continues DEF HandleConnectHttpsProxy
  <2>2. CASE AwaitConnect("https_connect", op.endpoints - 1) /\ UNCHANGED peer
               /\ op.endpoints # 0
    BY <1>2, <1>a, <2>2, ConnectKeeps DEF Connects, HandleConnectHttpsProxy
  <2> QED
    BY <1>2, <1>f, <2>1, <2>2
       DEF HandleConnectHttpsProxy, ConnectOutcomes, Outcomes, Failures, Codes
<1>3. CASE HandleHttpsProxyRequest
  <2>1. CASE Await("https_status", st) /\ UNCHANGED peer
    <3>1. MayWait("https_status", st, peer)
      BY <1>c DEF MayWait
    <3> QED
      BY <1>3, <1>a, <1>b, <1>d, <1>e, <2>1, <3>1, Continues DEF HandleHttpsProxyRequest
  <2> QED
    BY <1>3, <1>f, <2>1 DEF HandleHttpsProxyRequest, Outcomes, Failures, Codes
<1>4. CASE HandleHttpsProxyStatus
  <2>1. ASSUME NEW status \in Statuses,
               peer' = [peer EXCEPT !.odd = IF status = 100 THEN @ \cup {"continue"} ELSE @],
               IF status = 100
               THEN Done("malformed_status_line", [st EXCEPT !.status_code = 0])
               ELSE Await("https_header", [st EXCEPT !.status_code = status])
        PROVE  Inv'
    <3> DEFINE code == IF status = 100 THEN 0 ELSE status
               s == [st EXCEPT !.status_code = code]
    <3>1. Kept(s) /\ Lower(s)
      <4>1. code \in Statuses \cup {0}
        OBVIOUS
      <4> HIDE DEF code
      <4> QED
        BY <4>1, MemberKept
    <3>2. /\ peer' \in Peers /\ "request" \notin peer'.sent
          /\ status = 100 => peer'.odd # {}
      BY <1>c, <2>1 DEF Peers, Oddities
    <3>3. /\ Through(peer') /\ MayWait("https_header", s, peer')
          /\ status = 100 => Truth("malformed_status_line", s, peer')
      BY <3>2 DEF Through, MayWait, Truth
    <3>4. (Done("malformed_status_line", s) /\ status = 100) \/ Await("https_header", s)
      BY <2>1
    <3> HIDE DEF s
    <3>5. CASE Done("malformed_status_line", s) /\ status = 100
      BY <1>a, <1>b, <3>1, <3>2, <3>3, <3>5, DoneKeeps DEF Codes
    <3>6. CASE Await("https_header", s)
      BY <1>4, <1>a, <1>b, <1>d, <1>e, <3>1, <3>2, <3>3, <3>6, Continues
         DEF HandleHttpsProxyStatus
    <3> QED
      BY <3>4, <3>5, <3>6
  <2>2. CASE /\ Done("malformed_status_line", [st EXCEPT !.status_code = 0])
             /\ peer' = [peer EXCEPT !.odd = @ \cup {"status"}]
    <3> DEFINE s == [st EXCEPT !.status_code = 0]
    <3>1. Lower(s)
      BY MemberKept
    <3>2. peer' \in Peers /\ peer'.sent = peer.sent /\ peer'.odd # {}
      BY <2>2 DEF Peers, Oddities
    <3>3. Through(peer') /\ Truth("malformed_status_line", s, peer')
      BY <1>c, <3>2 DEF Through, Truth
    <3>4. Done("malformed_status_line", s)
      BY <2>2
    <3> HIDE DEF s
    <3> QED
      BY <1>a, <1>b, <3>1, <3>2, <3>3, <3>4, DoneKeeps DEF Codes
  <2> QED
    BY <1>4, <1>f, <2>1, <2>2 DEF HandleHttpsProxyStatus, ReadOutcomes, Outcomes, Failures, Codes
<1>5. CASE HandleHttpsProxyHeader
  <2>1. ASSUME NEW location \in Locations \cup {st.location},
               Done("302", [st EXCEPT !.location = location]), UNCHANGED peer
        PROVE  Inv'
    <3> DEFINE s == [st EXCEPT !.location = location]
    <3>1. Lower(s)
      BY MemberKept DEF StreamMembers
    <3>2. Truth("302", s, peer')
      BY <1>c, <2>1 DEF Truth
    <3>3. Done("302", s)
      BY <2>1
    <3> HIDE DEF s
    <3> QED
      BY <1>a, <1>b, <2>1, <3>1, <3>2, <3>3, DoneKeeps DEF Codes
  <2>2. CASE Await("https_handshake", st) /\ Granted
    <3>1. peer' \in Peers /\ peer'.sent = peer.sent /\ peer'.granted
      BY <2>2 DEF Granted, Peers
    <3>2. Through(peer') /\ MayWait("https_handshake", st, peer')
      BY <1>c, <3>1 DEF Through, MayWait, Tunnelled
    <3> QED
      BY <1>5, <1>a, <1>b, <1>d, <1>e, <2>2, <3>1, <3>2, Continues DEF HandleHttpsProxyHeader
  <2>3. CASE Await("endless_read", st) /\ peer' = [peer EXCEPT !.odd = @ \cup {"no fields"}]
    <3>1. peer' \in Peers /\ peer'.sent = peer.sent
      BY <2>3 DEF Peers, Oddities
    <3>2. Through(peer') /\ MayWait("endless_read", st, peer')
      BY <1>c, <3>1 DEF Through, MayWait
    <3> QED
      BY <1>5, <1>a, <1>b, <1>d, <1>e, <2>3, <3>1, <3>2, Continues DEF HandleHttpsProxyHeader
  <2> QED
    BY <1>5, <1>f, <2>1, <2>2, <2>3
       DEF HandleHttpsProxyHeader, ReadOutcomes, Outcomes, Failures, Codes
<1>6. CASE HandleHttpsProxyHandshake
  <2>1. Tunnelled(peer) /\ op.pc = "https_handshake"
    BY <1>6 DEF HandleHttpsProxyHandshake, MayWait
  <2>2. CASE AsyncRequest(st) /\ peer' = [peer EXCEPT !.tls = TRUE]
    <3>1. /\ peer' \in Peers /\ peer'.sent = peer.sent
          /\ peer'.granted = peer.granted /\ peer'.lost = peer.lost
      BY <2>2 DEF Peers
    <3>2. Through(peer') /\ MayWait("request", st, peer')
      BY <1>c, <2>1, <3>1 DEF Through, MayWait, Tunnelled, BlockingProxyPcs, ProxyPcs
    <3>3. CASE Await("request", st)
      BY <1>a, <1>b, <1>d, <1>e, <2>1, <3>1, <3>2, <3>3, Continues
    <3>4. CASE Done("network_reset", st)
      BY <1>a, <1>b, <3>1, <3>2, <3>4, Fails DEF Failures, Codes
    <3> QED
      BY <2>2, <3>3, <3>4 DEF AsyncRequest, WriteRequest
  <2> QED
    BY <1>6, <1>f, <2>2 DEF HandleHttpsProxyHandshake, ReadOutcomes, Outcomes, Failures, Codes
<1> QED
  BY <1>1, <1>2, <1>3, <1>4, <1>5, <1>6 DEF HttpsProxyStep

-----------------------------------------------------------------------------
(* The members after a redirect: the socket closed, one more counted. *)
LEMMA RedirectedIs ==
  ASSUME NEW s \in StreamMembers
  PROVE  /\ SetOpen(s, FALSE) \in StreamMembers /\ ~IsOpen(SetOpen(s, FALSE))
         /\ SetOpen(s, FALSE).sock = s.sock /\ SetOpen(s, FALSE).url = s.url
         /\ SetOpen(s, FALSE).protocol = s.protocol
         /\ SetOpen(s, FALSE).redirects = s.redirects
         /\ SetOpen(s, FALSE).status_code = s.status_code
         /\ SetOpen(s, FALSE).location = s.location
         /\ SetOpen(s, FALSE).proxy_status = s.proxy_status
<1>1. CASE s.sock = "plain"
  BY <1>1 DEF SetOpen, IsOpen, StreamMembers
<1>2. CASE s.sock = "tls"
  BY <1>2 DEF SetOpen, IsOpen, StreamMembers
<1>3. CASE s.sock = "none"
  BY <1>3 DEF SetOpen, IsOpen, StreamMembers
<1> QED
  BY <1>1, <1>2, <1>3 DEF StreamMembers

(* The members a redirect or the end of a budget changes. *)
LEMMA LowerIs ==
  ASSUME Inv, NEW s, Lower(s)
  PROVE  /\ Lower([s EXCEPT !.redirects = 0])
         /\ [s EXCEPT !.redirects = 0].status_code = s.status_code
         /\ Lower(SetOpen(s, FALSE)) /\ SetOpen(s, FALSE).status_code = s.status_code
         /\ s.redirects < MaxRedirects =>
              /\ Lower(Redirected(s)) /\ Redirected(s).status_code = s.status_code
              /\ Redirected(s).redirects = s.redirects + 1
<1>1. s \in StreamMembers /\ MaxRedirects \in Nat
  BY BoundsAssumption DEF Lower
<1>2. /\ Lower([s EXCEPT !.redirects = 0])
      /\ [s EXCEPT !.redirects = 0].status_code = s.status_code
  BY <1>1 DEF Lower, StreamMembers, IsOpen
<1> DEFINE c == SetOpen(s, FALSE)
<1>3. /\ c \in StreamMembers /\ ~IsOpen(c) /\ c.sock = s.sock /\ c.url = s.url
      /\ c.protocol = s.protocol /\ c.redirects = s.redirects /\ c.status_code = s.status_code
  BY <1>1, RedirectedIs
<1>4. Redirected(s) = [c EXCEPT !.redirects = @ + 1]
  BY DEF Redirected
<1> HIDE DEF c
<1>5. Lower(c)
  BY <1>3 DEF Lower
<1>6. ASSUME s.redirects < MaxRedirects
      PROVE  /\ Lower(Redirected(s)) /\ Redirected(s).status_code = s.status_code
             /\ Redirected(s).redirects = s.redirects + 1
  <2>1. s.redirects \in Nat /\ s.redirects + 1 \in 0 .. MaxRedirects
    BY <1>1, <1>6 DEF StreamMembers
  <2> QED
    BY <1>3, <1>4, <2>1 DEF Lower, StreamMembers, IsOpen
<1> QED
  BY <1>2, <1>3, <1>5, <1>6 DEF c

(* The count of redirects when one more is followed. *)
LEMMA OneMoreIs ==
  ASSUME Inv, op.pc \notin Resting, st.redirects < MaxRedirects
  PROVE  /\ OneMore \in Histories /\ OneMore.followed <= MaxRedirects
         /\ st.redirects + 1 = OneMore.followed + OneMore.inherited
         /\ OneMore.closed = hist.closed /\ OneMore.call = hist.call
<1>1. /\ hist \in Histories /\ hist.followed <= MaxRedirects
      /\ st.redirects = hist.followed + hist.inherited
      /\ MaxRedirects \in Nat
  BY BoundsAssumption DEF Inv, Members, ResultInv
<1>2. /\ hist.followed \in Nat /\ hist.inherited \in Nat /\ ~(hist.followed > MaxRedirects)
      /\ hist.followed < MaxRedirects
  BY <1>1 DEF Histories
<1>3. OneMore = [hist EXCEPT !.followed = @ + 1]
  BY <1>1, <1>2 DEF OneMore
<1>4. /\ OneMore \in Histories /\ OneMore.followed = hist.followed + 1
      /\ OneMore.inherited = hist.inherited
      /\ OneMore.closed = hist.closed /\ OneMore.call = hist.call
  BY <1>1, <1>2, <1>3 DEF Histories
<1> QED
  BY <1>1, <1>2, <1>4

(* What a blocking open makes of the result of its request. *)
LEMMA ResultKeeps ==
  ASSUME Inv, op.pc \in BlockingPcs, UNCHANGED setup,
         NEW s, Lower(s), s.redirects = st.redirects,
         NEW ec \in Codes, NEW p, p \in Peers, Through(p),
         ec # "302" => Truth(ec, s, p), OpenResult(ec, s, p)
  PROVE  Inv'
<1> USE Known
<1>1. Sync /\ op.pc \notin Resting
  BY DEF Inv, Place, Resting, BlockingPcs, BlockingProxyPcs
<1>2. s.redirects \in Nat /\ st.redirects \in Nat /\ MaxRedirects \in Nat
  BY BoundsAssumption DEF StreamMembers
<1>3. CASE ec = "302" /\ WithinBudget(s)
  <2>1. s.redirects < MaxRedirects
    BY <1>3 DEF WithinBudget
  <2>2. /\ Lower(Redirected(s)) /\ Redirected(s).redirects = s.redirects + 1
    BY <2>1, LowerIs
  <2>3. CASE s.location \in {"none", "bad"}
    <3>1. Done("exception", Redirected(s)) /\ peer' = p
      BY <1>3, <2>3 DEF OpenResult
    <3>2. Truth("exception", Redirected(s), p)
      BY DEF Truth
    <3> QED
      BY <1>1, <2>2, <3>1, <3>2, DoneKeeps DEF Codes
  <2>4. CASE s.location \notin {"none", "bad"}
    <3>1. Begin(s.location, Redirected(s), OneMore)
      BY <1>3, <2>4 DEF OpenResult
    <3>2. s.location \in Schemes /\ Redirected(s) \in StreamMembers
      BY <2>2, <2>4 DEF Lower, StreamMembers, Locations
    <3>3. /\ OneMore \in Histories /\ OneMore.followed <= MaxRedirects
          /\ Redirected(s).redirects = OneMore.followed + OneMore.inherited
          /\ OneMore.closed = hist.closed
      BY <1>1, <2>1, <2>2, OneMoreIs
    <3>4. hist.closed = "no"
      BY <1>1 DEF Inv, CloseInv
    <3> QED
      BY <3>1, <3>2, <3>3, <3>4, BeginKeeps DEF Unstoppable
  <2> QED
    BY <2>3, <2>4
<1>4. CASE ~(ec = "302" /\ WithinBudget(s))
  <2> DEFINE t == IF ec = "302" THEN SetOpen(s, FALSE) ELSE s
             z == [t EXCEPT !.redirects = 0]
  <2>1. Done(ec, z) /\ peer' = p
    BY <1>4 DEF OpenResult
  <2>2. Lower(t) /\ t.status_code = s.status_code
    BY LowerIs
  <2>3. Lower(z) /\ z.status_code = s.status_code
    <3> HIDE DEF t
    <3> QED
      BY <2>2, LowerIs
  <2> HIDE DEF t, z
  <2>4. Truth(ec, z, p)
    <3>1. CASE ec = "302"
      <4>1. ~(s.redirects < MaxRedirects)
        BY <1>4, <3>1 DEF WithinBudget
      <4>2. hist.followed + hist.inherited >= MaxRedirects
        BY <1>1, <1>2, <4>1 DEF Inv, ResultInv
      <4> QED
        BY <3>1, <4>2 DEF Truth
    <3>2. CASE ec # "302"
      BY <2>3, <3>2 DEF Truth
    <3> QED
      BY <3>1, <3>2
  <2> QED
    BY <1>1, <2>1, <2>3, <2>4, DoneKeeps
<1> QED
  BY <1>3, <1>4

(* The result of receive_header, for an open or for the caller. *)
LEMMA HeaderKeeps ==
  ASSUME Inv, op.pc \in BlockingPcs, UNCHANGED setup,
         NEW s, Kept(s), NEW ec \in Codes, NEW p, p \in Peers, Through(p),
         ec # "302" => Truth(ec, s, p), HeaderResult(ec, s, p)
  PROVE  Inv'
<1>1. Lower(s) /\ s.redirects = st.redirects
  BY DEF Kept, Lower
<1>2. CASE op.call = "open"
  BY <1>1, <1>2, ResultKeeps DEF HeaderResult
<1>3. CASE op.call # "open"
  <2>1. Done(ec, s) /\ peer' = p
    BY <1>3 DEF HeaderResult
  <2>2. Sync /\ hist.call = "receive"
    BY <1>3 DEF Inv, Members, Operations, Place
  <2>3. Truth(ec, s, p)
    BY <2>2 DEF Truth
  <2> QED
    BY <1>1, <2>1, <2>3, DoneKeeps DEF Resting, BlockingPcs, BlockingProxyPcs
<1> QED
  BY <1>2, <1>3

(* What the peer's answers change of it. *)
LEMMA AnsweringPeer ==
  ASSUME Inv
  PROVE  /\ Garbage \in Peers /\ Through(Garbage) /\ Garbage.odd # {}
         /\ Garbage.sent = peer.sent
         /\ Answered \in Peers /\ Through(Answered) /\ Answered.header
         /\ Answered.sent = peer.sent
         /\ \A b \in Buffered :
              /\ Continued(b) \in Peers /\ Through(Continued(b))
              /\ b = "less" => Continued(b).odd # {}
              /\ Continued(b).sent = peer.sent
<1>1. peer \in Peers /\ Through(peer)
  BY Known
<1>2. /\ Garbage \in Peers /\ Garbage.odd # {} /\ Garbage.sent = peer.sent
      /\ Garbage.granted = peer.granted /\ Garbage.lost = peer.lost /\ Garbage.tls = peer.tls
  BY <1>1 DEF Garbage, Peers, Oddities
<1>3. /\ Answered \in Peers /\ Answered.header /\ Answered.sent = peer.sent
      /\ Answered.granted = peer.granted /\ Answered.lost = peer.lost
      /\ Answered.tls = peer.tls
  BY <1>1 DEF Answered, Peers
<1>4. ASSUME NEW b \in Buffered
      PROVE  /\ Continued(b) \in Peers /\ Through(Continued(b))
             /\ b = "less" => Continued(b).odd # {}
             /\ Continued(b).sent = peer.sent
  <2> DEFINE p == Continued(b)
  <2>1. /\ p \in Peers /\ p.sent = peer.sent /\ (b = "less" => p.odd # {})
        /\ p.granted = peer.granted /\ p.lost = peer.lost /\ p.tls = peer.tls
    <3> DEFINE odd == IF b = "exact" THEN peer.odd ELSE peer.odd \cup {"damaged"}
               continues == peer.continues + 1
    <3>1. odd \in SUBSET Oddities /\ (b = "less" => odd # {})
      BY <1>1 DEF Peers, Oddities
    <3>2. p = [peer EXCEPT !.continues = continues, !.odd = odd]
      BY DEF Continued
    <3>3. continues \in Nat
      BY <1>1 DEF Peers
    <3> HIDE DEF odd, continues, p
    <3>4. p \in Peers /\ p.sent = peer.sent /\ p.odd = odd
      BY <1>1, <3>1, <3>2, <3>3 DEF Peers
    <3>5. p.granted = peer.granted /\ p.lost = peer.lost /\ p.tls = peer.tls
      BY <1>1, <3>2 DEF Peers
    <3> QED
      BY <3>1, <3>4, <3>5
  <2> HIDE DEF p
  <2>2. Through(p)
    BY <1>1, <2>1 DEF Through, Tunnelled
  <2> QED
    BY <2>1, <2>2 DEF p
<1> QED
  BY <1>1, <1>2, <1>3, <1>4 DEF Through, Tunnelled

(* A blocking open that has its connection, or needs none of a proxy's. *)
LEMMA BlockingKeeps ==
  ASSUME Inv, SyncStep
  PROVE  Inv'
<1> USE Known DEF At
<1>a. /\ op.pc \in {"s_resolve", "s_connect", "s_request", "s_status", "s_header"}
      /\ UNCHANGED setup
  BY DEF SyncStep, SyncResolve, SyncConnect, Request, ReceiveStatus, ReceiveHeader
<1>b. op.pc \in BlockingPcs /\ op.pc \notin Resting
  BY <1>a DEF BlockingPcs, Resting
<1>c. ASSUME NEW pc \in {"s_request", "s_status", "s_header"}, NEW s, Kept(s),
             peer' \in Peers, Through(peer'), MayWait(pc, s, peer'), Await(pc, s)
      PROVE  Inv'
  BY <1>a, <1>b, <1>c, GoesOn DEF BlockingPcs, BlockingProxyPcs
<1>d. \A pc \in {"s_status", "s_header"} : \A s, p : MayWait(pc, s, p)
  BY DEF MayWait, BlockingProxyPcs, ProxyPcs
<1>1. CASE SyncResolve
  BY <1>1, <1>b, Fails, ConnectKeeps
     DEF SyncResolve, Resolutions, Connects, Failures, Codes
<1>2. CASE SyncConnect
  <2>1. CASE Await("s_request", st) /\ peer' = [peer EXCEPT !.tls = st.sock = "tls"]
    <3>1. ~ViaProxy(setup.proxy) /\ (st.url = "https" => st.sock = "tls")
      BY <1>2 DEF SyncConnect, Inv, TunnelInv
    <3>2. peer' \in Peers /\ peer'.sent = peer.sent /\ (peer'.tls <=> st.sock = "tls")
      BY <2>1 DEF Peers
    <3>3. Through(peer') /\ MayWait("s_request", st, peer')
      BY <3>1, <3>2 DEF Through, Tunnelled, MayWait, BlockingProxyPcs, ProxyPcs
    <3> QED
      BY <1>c, <2>1, <3>2, <3>3
  <2>2. CASE op.endpoints > 0 /\ AwaitConnect("s_connect", op.endpoints - 1) /\ UNCHANGED peer
    BY <1>2, <2>2, ConnectKeeps DEF SyncConnect, Connects
  <2>3. CASE Done("refused", st) /\ UNCHANGED peer
    BY <1>a, <1>b, <2>3, Fails DEF Failures, Codes
  <2> QED
    BY <1>2, <2>1, <2>2, <2>3 DEF SyncConnect
<1>3. CASE Request
  <2>1. CASE OpenResult("lost", st, peer)
    BY <1>a, <1>b, <2>1, ResultKeeps DEF Truth, Codes
  <2>2. CASE RequestSent([peer EXCEPT !.sent = @ \cup {"request"}])
    <3> DEFINE p == [peer EXCEPT !.sent = @ \cup {"request"}]
    <3>1. /\ p \in Peers /\ p.granted = peer.granted /\ p.lost = peer.lost
          /\ p.tls = peer.tls
      BY DEF Peers, Messages
    <3>2. Tunnelled(peer) /\ (st.url = "https" => peer.tls)
      BY <1>3 DEF Request, MayWait
    <3> HIDE DEF p
    <3>3. Through(p) /\ Truth("fake_continue", st, p)
      BY <3>1, <3>2 DEF Through, Tunnelled, Truth
    <3>4. \/ OpenResult("fake_continue", st, p)
          \/ Await("s_status", st) /\ peer' = p
      BY <2>2 DEF RequestSent, p
    <3> QED
      BY <1>a, <1>b, <1>c, <1>d, <3>1, <3>3, <3>4, ResultKeeps DEF Codes
  <2> QED
    BY <1>3, <2>1, <2>2 DEF Request
<1>4. CASE ReceiveStatus
  <2>a. ASSUME NEW status \in Statuses \cup {0}
        PROVE  /\ Kept(WithStatus(status)) /\ WithStatus(status).status_code = status
    BY MemberKept DEF WithStatus
  <2>1. CASE HeaderResult("lost", st, peer)
    BY <1>a, <1>b, <2>1, HeaderKeeps DEF Truth, Codes
  <2>2. CASE HeaderResult("malformed_status_line", WithStatus(0), Garbage)
    <3>1. Truth("malformed_status_line", WithStatus(0), Garbage)
      BY AnsweringPeer DEF Truth
    <3> QED
      BY <1>a, <1>b, <2>2, <2>a, <3>1, AnsweringPeer, HeaderKeeps DEF Codes
  <2>3. ASSUME NEW status \in Statuses \ {100},
               Await("s_header", WithStatus(status)), UNCHANGED peer
        PROVE  Inv'
    BY <1>c, <1>d, <2>3, <2>a
  <2>4. ASSUME NEW b \in Buffered,
               IF b = "less"
               THEN HeaderResult("malformed_status_line", WithStatus(100), Continued(b))
               ELSE IF setup.method = "POST"
               THEN HeaderResult("continue", WithStatus(100), Continued(b))
               ELSE Await("s_status", WithStatus(100)) /\ peer' = Continued(b)
        PROVE  Inv'
    <3> DEFINE s == WithStatus(100)
               p == Continued(b)
    <3>1. Kept(s) /\ p \in Peers /\ Through(p) /\ (b = "less" => p.odd # {})
      BY <2>a, AnsweringPeer DEF Statuses
    <3> HIDE DEF s, p
    <3>2. CASE b = "less"
      <4>1. HeaderResult("malformed_status_line", s, p)
        BY <2>4, <3>2 DEF s, p
      <4>2. Truth("malformed_status_line", s, p)
        BY <3>1, <3>2 DEF Truth
      <4> QED
        BY <1>a, <1>b, <3>1, <4>1, <4>2, HeaderKeeps DEF Codes
    <3>3. CASE HeaderResult("continue", s, p)
      <4>1. Truth("continue", s, p)
        BY DEF Truth
      <4> QED
        BY <1>a, <1>b, <3>1, <3>3, <4>1, HeaderKeeps DEF Codes
    <3>4. CASE Await("s_status", s) /\ peer' = p
      BY <1>c, <1>d, <3>1, <3>4
    <3> QED
      BY <2>4, <3>2, <3>3, <3>4 DEF s, p
  <2> QED
    BY <1>4, <2>1, <2>2, <2>3, <2>4 DEF ReceiveStatus
<1>5. CASE ReceiveHeader
  <2>1. ASSUME NEW ec \in {"lost", "malformed_response_headers"}, HeaderResult(ec, st, peer)
        PROVE  Inv'
    <3>1. ec \in Codes /\ Truth(ec, st, peer)
      BY DEF Codes, Truth
    <3> QED
      BY <1>a, <1>b, <2>1, <3>1, HeaderKeeps
  <2>2. ASSUME NEW location \in Locations \cup {st.location},
               HeaderResult(Result(st.status_code), [st EXCEPT !.location = location], Answered)
        PROVE  Inv'
    <3> DEFINE s == [st EXCEPT !.location = location]
               ec == Result(st.status_code)
    <3>1. Kept(s) /\ s.status_code = st.status_code
      BY MemberKept DEF StreamMembers
    <3>2. ec \in Codes /\ (ec = "none" => st.status_code = 200)
            /\ ec \in {"none", "302", "404"}
      BY DEF Result, Codes
    <3>3. HeaderResult(ec, s, Answered)
      BY <2>2
    <3> HIDE DEF s, ec
    <3>4. ec # "302" => Truth(ec, s, Answered)
      BY <3>1, <3>2, AnsweringPeer DEF Truth
    <3> QED
      BY <1>a, <1>b, <3>1, <3>2, <3>3, <3>4, AnsweringPeer, HeaderKeeps
  <2> QED
    BY <1>5, <2>1, <2>2 DEF ReceiveHeader
<1> QED
  BY <1>1, <1>2, <1>3, <1>4, <1>5 DEF SyncStep

-----------------------------------------------------------------------------
(* An asynchronous open that has its connection, or needs none of a proxy's. *)
LEMMA HandlersKeep ==
  ASSUME Inv, AsyncStep
  PROVE  Inv'
<1> USE Known DEF At
<1>a. /\ op.pc \in {"posted", "resolve", "connect", "request", "status", "header"}
      /\ UNCHANGED setup
  BY DEF AsyncStep, Posted, HandleResolve, HandleConnect, HandleRequest, HandleStatus,
         HandleHeader
<1>b. op.pc \in HandlerPcs /\ op.pc \notin Resting /\ ~Sync
  BY <1>a DEF HandlerPcs, Resting, Inv, Place
<1>c. op.pc \in {"connect", "request", "status", "header"} => op.pc \in Standing
  BY DEF Standing
<1>d. ASSUME NEW pc \in {"request", "status", "header"}, NEW s, Kept(s),
             peer' \in Peers, Through(peer'), MayWait(pc, s, peer'), Await(pc, s),
             op.pc \in {"connect", "request", "status", "header"}
      PROVE  Inv'
  <2>1. pc \in Standing \ Connecting
    BY <1>d DEF Standing, Connecting
  <2> QED
    BY <1>a, <1>b, <1>c, <1>d, <2>1, Continues
<1>e. \A pc \in {"status", "header"} : \A s, p : MayWait(pc, s, p)
  BY DEF MayWait, BlockingProxyPcs, ProxyPcs
<1>f. ASSUME NEW ec \in Failures, Done(ec, st), UNCHANGED peer
      PROVE  Inv'
  BY <1>a, <1>b, <1>f, Fails
<1>g. \A ec \in ReadOutcomes \cup WriteOutcomes \cup ConnectOutcomes :
        ec # "ok" => ec \in Failures
  BY DEF ReadOutcomes, WriteOutcomes, ConnectOutcomes, Outcomes, Failures, Codes
<1>h. ASSUME NEW status \in Statuses \cup {0}
      PROVE  /\ Kept(WithStatus(status)) /\ Lower(WithStatus(status))
             /\ WithStatus(status).status_code = status
  BY MemberKept DEF WithStatus
<1>i. ASSUME NEW ec \in Codes, NEW s, Lower(s), peer' \in Peers, Through(peer'),
             Truth(ec, s, peer'), Done(ec, s)
      PROVE  Inv'
  BY <1>a, <1>b, <1>i, DoneKeeps
<1>1. CASE Posted
  BY <1>1, <1>f DEF Posted, Inv, Place, Refused, Failures, Codes
<1>2. CASE HandleResolve
  BY <1>2, <1>f, ConnectKeeps DEF HandleResolve, Resolutions, Connects, Failures, Codes
<1>3. CASE HandleConnect
  <2>1. CASE AsyncRequest(st) /\ peer' = [peer EXCEPT !.tls = st.sock = "tls"]
    <3>1. ~ViaProxy(setup.proxy) /\ (st.url = "https" => st.sock = "tls") /\ op.pc = "connect"
      BY <1>3 DEF HandleConnect, Inv, TunnelInv
    <3>2. peer' \in Peers /\ peer'.sent = peer.sent /\ (peer'.tls <=> st.sock = "tls")
      BY <2>1 DEF Peers
    <3>3. Through(peer') /\ MayWait("request", st, peer')
      BY <3>1, <3>2 DEF Through, Tunnelled, MayWait, BlockingProxyPcs, ProxyPcs
    <3>4. CASE Done("network_reset", st)
      BY <1>a, <1>b, <3>2, <3>3, <3>4, Fails DEF Failures, Codes
    <3> QED
      BY <1>d, <2>1, <3>1, <3>2, <3>3, <3>4 DEF AsyncRequest, WriteRequest
  <2>2. CASE AwaitConnect("connect", op.endpoints - 1) /\ UNCHANGED peer /\ op.endpoints # 0
    BY <1>3, <1>a, <2>2, ConnectKeeps DEF Connects, HandleConnect
  <2> QED
    BY <1>3, <1>f, <1>g, <2>1, <2>2 DEF HandleConnect
<1>4. CASE HandleRequest
  <2>1. CASE /\ IF setup.fake THEN Done("fake_continue", st) ELSE Await("status", st)
             /\ Send("request") /\ "ok" \in WriteOutcomes
    <3>1. /\ peer' \in Peers /\ peer'.granted = peer.granted /\ peer'.lost = peer.lost
          /\ peer'.tls = peer.tls
      BY <2>1 DEF Send, Peers, Messages
    <3>2. Tunnelled(peer) /\ op.pc = "request"
      BY <1>4 DEF HandleRequest, MayWait
    <3>3. st.url = "https" => peer.tls
      BY <2>1, <3>2 DEF WriteOutcomes, Inv, TunnelInv, Peers
    <3>4. Through(peer')
      BY <3>1, <3>2, <3>3 DEF Through, Tunnelled
    <3> QED
      BY <1>a, <1>b, <1>d, <1>e, <2>1, <3>1, <3>2, <3>4, Fails DEF Failures, Codes
  <2> QED
    BY <1>4, <1>f, <1>g, <2>1 DEF HandleRequest
<1>5. CASE HandleStatus
  <2>0. op.pc = "status"
    BY <1>5 DEF HandleStatus
  <2>1. CASE Done("malformed_status_line", WithStatus(0)) /\ peer' = Garbage
    <3>1. Truth("malformed_status_line", WithStatus(0), Garbage)
      BY AnsweringPeer DEF Truth
    <3> QED
      BY <1>h, <1>i, <2>1, <3>1, AnsweringPeer DEF Codes
  <2>2. ASSUME NEW status \in Statuses \ {100},
               Await("header", WithStatus(status)), UNCHANGED peer
        PROVE  Inv'
    BY <1>d, <1>e, <1>h, <2>0, <2>2
  <2>3. ASSUME NEW b \in Buffered, peer' = Continued(b),
               IF b = "less" THEN Done("malformed_status_line", WithStatus(100))
               ELSE IF setup.method = "POST" THEN Done("continue", WithStatus(100))
               ELSE Await("status", WithStatus(100))
        PROVE  Inv'
    <3> DEFINE s == WithStatus(100)
    <3>1. /\ Kept(s) /\ Lower(s) /\ peer' \in Peers /\ Through(peer')
          /\ b = "less" => peer'.odd # {}
      BY <1>h, <2>3, AnsweringPeer DEF Statuses
    <3> HIDE DEF s
    <3>2. CASE b = "less"
      <4>1. Done("malformed_status_line", s) /\ Truth("malformed_status_line", s, peer')
        BY <2>3, <3>1, <3>2 DEF s, Truth
      <4> QED
        BY <1>i, <3>1, <4>1 DEF Codes
    <3>3. CASE Done("continue", s)
      <4>1. Truth("continue", s, peer')
        BY DEF Truth
      <4> QED
        BY <1>i, <3>1, <3>3, <4>1 DEF Codes
    <3>4. CASE Await("status", s)
      BY <1>d, <1>e, <2>0, <3>1, <3>4
    <3> QED
      BY <2>3, <3>2, <3>3, <3>4 DEF s
  <2> QED
    BY <1>5, <1>f, <1>g, <2>1, <2>2, <2>3 DEF HandleStatus
<1>6. CASE HandleHeader
  <2>0. op.pc = "header"
    BY <1>6 DEF HandleHeader
  <2>1. ASSUME NEW location \in Locations \cup {st.location}, "ok" \in ReadOutcomes,
               LET s == [st EXCEPT !.location = location] IN
               IF st.status_code = 302 /\ WithinBudget(st) THEN FollowRedirect(s)
               ELSE /\ Done(Result(st.status_code),
                            [(IF st.status_code = 302 THEN SetOpen(s, FALSE) ELSE s)
                               EXCEPT !.redirects = 0])
                    /\ peer' = Answered
        PROVE  Inv'
    <3> DEFINE s == [st EXCEPT !.location = location]
    <3>1. Kept(s) /\ Lower(s) /\ s.status_code = st.status_code
      BY MemberKept DEF StreamMembers
    <3>2. s.redirects = st.redirects
      BY <3>1 DEF Kept
    <3>3. CASE st.status_code = 302 /\ WithinBudget(st)
      <4>1. FollowRedirect(s) /\ st.redirects < MaxRedirects
        BY <2>1, <3>3 DEF WithinBudget
      <4> HIDE DEF s
      <4>2. /\ Lower(Redirected(s)) /\ Redirected(s).status_code = 302
            /\ Redirected(s).redirects = st.redirects + 1
        BY <3>1, <3>2, <3>3, <4>1, LowerIs
      <4>3. CASE s.location \in {"none", "bad"}
        <5>1. Done("invalid_redirect", Redirected(s)) /\ peer' = Answered
          BY <4>1, <4>3 DEF FollowRedirect
        <5>2. Truth("invalid_redirect", Redirected(s), Answered)
          BY <4>2 DEF Truth
        <5> QED
          BY <1>i, <4>2, <5>1, <5>2, AnsweringPeer DEF Codes
      <4>4. CASE s.location \notin {"none", "bad"}
        <5>1. Begin(s.location, Redirected(s), OneMore)
          BY <4>1, <4>4 DEF FollowRedirect
        <5>2. s.location \in Schemes /\ Redirected(s) \in StreamMembers
          BY <3>1, <4>2, <4>4 DEF Lower, StreamMembers, Locations
        <5>3. /\ OneMore \in Histories /\ OneMore.followed <= MaxRedirects
              /\ Redirected(s).redirects = OneMore.followed + OneMore.inherited
              /\ OneMore.closed = hist.closed /\ OneMore.call = hist.call
          BY <1>b, <4>1, <4>2, OneMoreIs
        <5>4. hist.closed \in Unstoppable \/ hist.call # "open"
          <6>1. SUFFICES ASSUME hist.closed \notin Unstoppable, hist.call = "open"
                         PROVE  FALSE
            OBVIOUS
          <6>2. ~IsOpen(st) /\ ~op.live
            BY <1>b, <2>0, <3>3, <6>1 DEF Inv, CloseInv, StaysStopped, Stoppable, Stopped
          <6> QED
            BY <2>1, <6>2 DEF ReadOutcomes, Outcomes
        <5> QED
          BY <1>a, <1>b, <5>1, <5>2, <5>3, <5>4, BeginKeeps
      <4> QED
        BY <4>3, <4>4
    <3>4. CASE ~(st.status_code = 302 /\ WithinBudget(st))
      <4> DEFINE t == IF st.status_code = 302 THEN SetOpen(s, FALSE) ELSE s
                 z == [t EXCEPT !.redirects = 0]
                 ec == Result(st.status_code)
      <4>1. Done(ec, z) /\ peer' = Answered
        BY <2>1, <3>4
      <4>2. Lower(t) /\ t.status_code = st.status_code
        <5> HIDE DEF s
        <5> QED
          BY <3>1, LowerIs
      <4>3. Lower(z) /\ z.status_code = st.status_code
        <5> HIDE DEF t
        <5> QED
          BY <4>2, LowerIs
      <4>4. /\ ec \in Codes /\ ec \in {"none", "302", "404"}
            /\ ec = "none" => st.status_code = 200
            /\ ec = "302" => st.status_code = 302
        BY DEF Result, Codes
      <4>5. ec = "302" => hist.followed + hist.inherited >= MaxRedirects
        <5>1. /\ st.redirects = hist.followed + hist.inherited /\ st.redirects \in Nat
              /\ MaxRedirects \in Nat
          BY <1>b, BoundsAssumption DEF Inv, ResultInv, StreamMembers
        <5>2. ec = "302" => ~(st.redirects < MaxRedirects)
          BY <3>4, <4>4 DEF WithinBudget
        <5> HIDE DEF ec
        <5> QED
          BY <5>1, <5>2
      <4> HIDE DEF s, t, z, ec
      <4>6. Truth(ec, z, Answered)
        BY <4>3, <4>4, <4>5, AnsweringPeer DEF Truth
      <4> QED
        BY <1>i, <4>1, <4>3, <4>4, <4>6, AnsweringPeer
    <3> QED
      BY <3>3, <3>4
  <2> QED
    BY <1>6, <1>f, <1>g, <2>1 DEF HandleHeader, Failures, Codes
<1> QED
  BY <1>1, <1>2, <1>3, <1>4, <1>5, <1>6 DEF AsyncStep

-----------------------------------------------------------------------------
(* close. *)
LEMMA ClosedIs ==
  ASSUME st \in StreamMembers
  PROVE  LET c == Closed(st) IN
         /\ c \in StreamMembers /\ ~IsOpen(c) /\ c.sock = st.sock /\ c.url = st.url
         /\ c.redirects = st.redirects /\ c.status_code = st.status_code
         /\ c.proxy_status = st.proxy_status
         /\ IsOpen(st) \/ st.protocol = "none" => c.protocol = "none"
<1>1. CASE IsOpen(st)
  <2> DEFINE o == SetOpen(st, FALSE)
             c == [o EXCEPT !.location = "none", !.protocol = "none"]
  <2>1. /\ o \in StreamMembers /\ ~IsOpen(o) /\ o.sock = st.sock /\ o.url = st.url
        /\ o.redirects = st.redirects /\ o.status_code = st.status_code
        /\ o.proxy_status = st.proxy_status
    BY RedirectedIs
  <2> HIDE DEF o
  <2>2. /\ c \in StreamMembers /\ ~IsOpen(c) /\ c.sock = st.sock /\ c.url = st.url
        /\ c.redirects = st.redirects /\ c.status_code = st.status_code
        /\ c.proxy_status = st.proxy_status /\ c.protocol = "none"
    BY <2>1 DEF StreamMembers, IsOpen
  <2>3. Closed(st) = c
    BY <1>1 DEF Closed, o
  <2> HIDE DEF c
  <2> QED
    BY <2>2, <2>3
<1>2. CASE ~IsOpen(st)
  BY <1>2 DEF Closed
<1> QED
  BY <1>1, <1>2

(* close() while an asynchronous operation is in progress: what stood is   *)
(* stopped, and is at none of the places that open the socket again.       *)
LEMMA CloseKeeps ==
  ASSUME Inv, Close
  PROVE  Inv'
<1> DEFINE c == Closed(st)
<1>1. /\ c \in StreamMembers /\ ~IsOpen(c) /\ c.sock = st.sock /\ c.url = st.url
      /\ c.redirects = st.redirects /\ c.status_code = st.status_code
      /\ c.proxy_status = st.proxy_status
      /\ IsOpen(st) \/ st.protocol = "none" => c.protocol = "none"
  BY Known, ClosedIs
<1> HIDE DEF c
<1>2. st' = c /\ UNCHANGED <<setup, op, peer>> /\ ~Sync /\ op.pc # "idle"
  BY DEF Close, c, At
<1> DEFINE where == IF At("header") /\ st.status_code = 302 THEN "redirected" ELSE op.pc
<1>3. /\ hist' \in Histories /\ hist'.closed = where /\ hist'.call = hist.call
      /\ hist'.ec = hist.ec /\ hist'.followed = hist.followed
      /\ hist'.inherited = hist.inherited
  <2>1. where \in Pcs \cup {"no", "redirected"}
    BY Known DEF Operations
  <2> DEFINE closes == hist.closes + 1
  <2>2. hist' = [hist EXCEPT !.closes = closes, !.closed = where] /\ hist \in Histories
    BY Known DEF Close
  <2>3. closes \in Nat
    BY <2>2 DEF Histories
  <2> HIDE DEF where, closes
  <2>4. hist' \in Histories
    BY <2>1, <2>2, <2>3 DEF Histories
  <2>5. /\ hist'.closed = where /\ hist'.call = hist.call
        /\ hist'.ec = hist.ec /\ hist'.followed = hist.followed
        /\ hist'.inherited = hist.inherited
    BY <2>2 DEF Histories
  <2> QED
    BY <2>4, <2>5
<1>4. Members'
  BY <1>1, <1>2, <1>3 DEF Inv, Members
<1>5. Place'
  BY <1>2, <1>3 DEF Inv, Place, Sync, At
<1>6. TunnelInv'
  <2>1. op.pc \notin BlockingPcs
    BY <1>2 DEF Inv, Place
  <2>2. (op.pc \in BlockingProxyPcs => st.protocol = st.url)'
    BY <1>2, <2>1 DEF BlockingPcs
  <2>3. Through(peer)' /\ MayWait(op.pc, st, peer)'
    BY <1>1, <1>2 DEF Inv, TunnelInv, Through, Tunnelled, MayWait, ViaProxy, Sync
  <2>4. (st.url = "https" => st.sock = "tls")'
    BY <1>1, <1>2 DEF Inv, TunnelInv
  <2>5. (op.pc \in {"s_resolve", "s_connect", "resolve", "connect"} => ~ViaProxy(setup.proxy))'
    BY <1>1, <1>2 DEF Inv, TunnelInv, ViaProxy
  <2> QED
    BY <2>2, <2>3, <2>4, <2>5 DEF TunnelInv
<1>7. ResultInv'
  <2>1. (Finished("open") \/ Finished("receive") => Truth(hist.ec, st, peer))'
    BY <1>2 DEF Finished, At
  <2> QED
    BY <1>1, <1>2, <1>3, <2>1 DEF Inv, ResultInv
<1>8. CloseInv'
  <2>1. CloseStops' /\ (Sync => hist.closed = "no")'
    BY <1>2 DEF CloseStops, Finished, At, Sync
  <2>2. Stoppable' = Stoppable /\ Second' = Second
    BY <1>1, <1>2, <1>3 DEF Stoppable, Sync, Second, At
  <2>3. Stoppable /\ (Second \/ op.pc \in Standing) => Stopped'
    <3>1. ASSUME Stoppable /\ (Second \/ op.pc \in Standing)
          PROVE  ~IsOpen(c) /\ c.protocol = "none"
      BY <1>1, <3>1 DEF Inv, CloseInv, StandsOpen
    <3> QED
      BY <1>2, <3>1 DEF Stopped, IsOpen
  <2>4. StandsOpen'
    BY <1>2, <2>2, <2>3 DEF StandsOpen, Stopped
  <2>5. HasSocket'
    BY <1>1, <1>2, <2>2 DEF Inv, CloseInv, HasSocket
  <2>6. StaysStopped'
    <3>1. ASSUME Stoppable, where \notin Unstoppable, op.pc \notin Resting
          PROVE  /\ op.pc \in Standing \ Connecting
                 /\ At("header") => st.status_code # 302
      <4>1. op.pc \in Pcs /\ op.pc \notin BlockingPcs /\ op.pc # "tail"
        BY <1>2, <3>1, Known DEF Operations, Inv, Place, Stoppable, At
      <4> QED
        BY <3>1, <4>1 DEF Unstoppable, Pcs, HandlerPcs, ProxyPcs, Resting, Standing, Connecting
    <3>2. At("header")' = At("header") /\ st'.status_code = st.status_code
      BY <1>1, <1>2 DEF At
    <3> HIDE DEF where
    <3> QED
      BY <1>2, <1>3, <2>2, <2>3, <3>1, <3>2 DEF StaysStopped
  <2> QED
    BY <2>1, <2>4, <2>5, <2>6 DEF CloseInv
<1> QED
  BY <1>4, <1>5, <1>6, <1>7, <1>8 DEF Inv

(* close() between operations. *)
LEMMA CloseIdleKeeps ==
  ASSUME Inv, CloseIdle
  PROVE  Inv'
<1> DEFINE c == Closed(st)
<1>1. /\ c \in StreamMembers /\ ~IsOpen(c) /\ c.sock = st.sock /\ c.url = st.url
      /\ c.redirects = st.redirects /\ c.status_code = st.status_code
      /\ c.proxy_status = st.proxy_status
      /\ c.protocol = "none"
  BY Known, ClosedIs DEF CloseIdle
<1> HIDE DEF c
<1>2. st' = c /\ UNCHANGED <<setup, op, peer, hist>> /\ op.pc = "idle"
  BY DEF CloseIdle, c, At
<1>3. Members'
  BY <1>1, <1>2 DEF Inv, Members
<1>4. Place'
  BY <1>2 DEF Inv, Place, Sync, At
<1>5. TunnelInv'
  <2>1. Through(peer)'
    BY <1>1, <1>2 DEF Inv, TunnelInv, Through, Tunnelled, ViaProxy, Sync
  <2>2. (st.url = "https" => st.sock = "tls")'
    BY <1>1, <1>2 DEF Inv, TunnelInv
  <2> QED
    BY <1>2, <2>1, <2>2 DEF TunnelInv, MayWait, BlockingProxyPcs, ProxyPcs
<1>6. ResultInv'
  BY <1>1, <1>2 DEF Inv, ResultInv, Finished, At, Truth, Sync, Resting
<1>7. CloseInv'
  <2>1. CloseStops'
    BY <1>1, <1>2 DEF CloseStops, IsOpen
  <2> QED
    BY <1>2, <2>1 DEF Inv, CloseInv, StandsOpen, HasSocket, StaysStopped, Second, At,
                      Standing, Resting, Sync
<1> QED
  BY <1>3, <1>4, <1>5, <1>6, <1>7 DEF Inv

-----------------------------------------------------------------------------
(* The steps of an upload, and those of the caller, leave the members of   *)
(* the stream and what the peer saw of requests alone.                     *)
SamePeer ==
  /\ peer' \in Peers /\ peer'.sent = peer.sent /\ peer'.granted = peer.granted
  /\ peer'.tls = peer.tls /\ peer'.lost = peer.lost /\ peer'.header = peer.header
  /\ peer'.odd = peer.odd

(* A step that leaves the stream alone keeps the invariant. *)
LEMMA RestKeeps ==
  ASSUME Inv, UNCHANGED <<setup, st>>, SamePeer,
         op' \in Operations, op'.pc \in Resting, op'.call = "open",
         hist' \in Histories, hist'.followed <= MaxRedirects,
         hist'.closed \in {hist.closed, "no"},
         op'.pc = "idle" => hist'.call = "upload" \/ (hist' = hist /\ op.pc = "idle")
  PROVE  Inv'
<1>1. Members'
  BY DEF Inv, Members, SamePeer
<1>2. Place'
  BY DEF Place, BlockingPcs, BlockingProxyPcs, HandlerPcs, ProxyPcs, Resting, At
<1>3. TunnelInv'
  <2>1. Through(peer)'
    BY DEF Inv, TunnelInv, Through, Tunnelled, ViaProxy, Sync, SamePeer
  <2>2. (st.url = "https" => st.sock = "tls")'
    BY DEF Inv, TunnelInv
  <2> QED
    BY <2>1, <2>2 DEF TunnelInv, MayWait, BlockingProxyPcs, ProxyPcs, Resting
<1>4. ResultInv'
  BY DEF Inv, ResultInv, Finished, At, Truth, Sync, SamePeer, Resting
<1>5. CloseInv'
  <2>1. CloseStops'
    BY DEF Inv, CloseInv, CloseStops, Finished, At, IsOpen
  <2>2. (Sync => hist.closed = "no")'
    BY DEF Inv, CloseInv, Sync
  <2> QED
    BY <2>1, <2>2 DEF CloseInv, StandsOpen, HasSocket, StaysStopped, Second, At,
                      Standing, Resting
<1> QED
  BY <1>1, <1>2, <1>3, <1>4, <1>5 DEF Inv

(* The caller's view of a new call. *)
LEMMA NewCallIs ==
  ASSUME Inv, NEW call \in {"open", "receive"}
  PROVE  LET h == NewCall(call) IN
         /\ h \in Histories /\ h.call = call /\ h.ec = "none" /\ h.followed = 0
         /\ h.inherited = st.redirects /\ h.closed = "no"
         /\ h.closes = hist.closes
         /\ h.opens = IF call = "open" THEN hist.opens + 1 ELSE hist.opens
<1> DEFINE opens == IF call = "open" THEN hist.opens + 1 ELSE hist.opens
           h == NewCall(call)
<1>1. hist \in Histories /\ st.redirects \in Nat
  BY Known DEF StreamMembers
<1>2. opens \in Nat
  BY <1>1 DEF Histories
<1>3. h = [hist EXCEPT !.opens = opens, !.call = call, !.ec = "none", !.followed = 0,
                       !.inherited = st.redirects, !.closed = "no"]
  BY DEF NewCall
<1> HIDE DEF opens, h
<1>4. "none" \in Codes /\ "no" \in Pcs \cup {"no", "redirected"}
        /\ call \in {"none", "open", "receive", "upload"}
  BY DEF Codes
<1>5. h \in Histories
  BY <1>1, <1>2, <1>3, <1>4 DEF Histories
<1>6. /\ h.call = call /\ h.ec = "none" /\ h.followed = 0
      /\ h.inherited = st.redirects /\ h.closed = "no" /\ h.closes = hist.closes
      /\ h.opens = opens
  BY <1>1, <1>3 DEF Histories
<1> QED
  BY <1>5, <1>6 DEF h, opens

(* The caller's open keeps the invariant. *)
LEMMA OpenKeeps ==
  ASSUME Inv, NEW scheme \in Schemes, UNCHANGED setup, Begin(scheme, st, NewCall("open"))
  PROVE  Inv'
<1> DEFINE h == NewCall("open")
<1>1. /\ h \in Histories /\ h.followed = 0 /\ h.inherited = st.redirects /\ h.closed = "no"
  BY NewCallIs
<1>2. st \in StreamMembers /\ st.redirects \in Nat /\ 0 <= MaxRedirects
  BY Known, BoundsAssumption DEF StreamMembers
<1> HIDE DEF h
<1>3. Begin(scheme, st, h)
  BY DEF h
<1> QED
  BY <1>1, <1>2, <1>3, BeginKeeps DEF Unstoppable

-----------------------------------------------------------------------------
(* What a step of the stream leaves of the caller's counts and of the body *)
(* that was sent: it keeps both, or it follows a redirect.                 *)
HistKept ==
  /\ hist'.opens = hist.opens /\ hist'.closes = hist.closes
  /\ hist'.followed = hist.followed
Bounded(p) == p.continues <= MaxContinues
PeerKept == peer'.body = peer.body /\ (Bounded(peer) => Bounded(peer'))
Restarted ==
  /\ hist'.opens = hist.opens /\ hist'.closes = hist.closes /\ hist'.followed > 0
  /\ peer'.body = 0 /\ Bounded(peer')
Elsewhere == op'.pc \notin {"upload", "tail"}
Moves == HistKept /\ Elsewhere

(* What the parts that the steps are made of leave. *)
LEMMA StepFrame ==
  ASSUME Inv
  PROVE  /\ \A ec, s : Done(ec, s) => Moves
         /\ \A pc, s : Await(pc, s) => pc \in {"upload", "tail"} \/ Moves
         /\ \A pc, n : AwaitConnect(pc, n) => pc \in {"upload", "tail"} \/ Moves
         /\ \A scheme, s : Begin(scheme, s, OneMore) => Restarted /\ Elsewhere
         /\ \A x : peer' = [peer EXCEPT !.sent = x] => PeerKept
         /\ \A x : peer' = [peer EXCEPT !.odd = x] => PeerKept
         /\ \A x : peer' = [peer EXCEPT !.tls = x] => PeerKept
         /\ peer' = peer => PeerKept
<1>1. hist \in Histories /\ op \in Operations /\ MaxContinues \in Nat
  BY Known, BoundsAssumption
<1>2. ASSUME NEW ec, NEW s, Done(ec, s)
      PROVE  Moves
  BY <1>1, <1>2 DEF Done, Histories, HistKept, Idle, Moves, Elsewhere
<1>3. ASSUME NEW pc, NEW s, Await(pc, s)
      PROVE  pc \in {"upload", "tail"} \/ Moves
  BY <1>1, <1>3 DEF Await, Operations, HistKept, Moves, Elsewhere
<1>4. ASSUME NEW pc, NEW n, AwaitConnect(pc, n)
      PROVE  pc \in {"upload", "tail"} \/ Moves
  BY <1>1, <1>4 DEF AwaitConnect, Operations, HistKept, Moves, Elsewhere
<1>5. ASSUME NEW scheme, NEW s, Begin(scheme, s, OneMore)
      PROVE  Restarted /\ Elsewhere
  <2> DEFINE c == OpenMembers(scheme, s)
             first == FirstStep(c)
             h == OneMore
  <2>1. /\ h \in Histories /\ h.followed > 0
        /\ h.opens = hist.opens /\ h.closes = hist.closes
    <3> DEFINE n == IF hist.followed > MaxRedirects THEN hist.followed ELSE hist.followed + 1
    <3>1. n \in Nat /\ n > 0
      BY <1>1, BoundsAssumption DEF Histories
    <3>2. h = [hist EXCEPT !.followed = n]
      BY DEF OneMore
    <3> HIDE DEF n, h
    <3> QED
      BY <1>1, <3>1, <3>2 DEF Histories
  <2>2. first \in {"operation_not_supported", "already_open", "s_https_resolve",
                   "https_resolve", "s_socks_resolve", "s_resolve", "socks_resolve",
                   "resolve"}
    BY DEF FirstStep, SyncFirst, AsyncFirst
  <2>3. /\ IF Sync THEN SyncOpen(c, first, h) ELSE AsyncOpen(c, first, h)
        /\ peer' = NewPeer
    BY <1>5 DEF Begin
  <2> HIDE DEF c, first, h
  <2>4. hist' = h \/ hist' = [h EXCEPT !.ec = first]
    BY <2>3 DEF SyncOpen, AsyncOpen
  <2>5. op' = Idle \/ op' = [Idle EXCEPT !.pc = "posted", !.ec = first]
          \/ op' = [Idle EXCEPT !.pc = first]
    BY <2>3 DEF SyncOpen, AsyncOpen
  <2>6. Restarted
    BY <1>1, <2>1, <2>3, <2>4 DEF Restarted, Histories, Bounded, NewPeer
  <2>7. Elsewhere
    <3>1. op'.pc \in {"idle", "posted", first}
      <4>1. [Idle EXCEPT !.pc = "posted", !.ec = first].pc = "posted"
        BY DEF Idle
      <4>2. [Idle EXCEPT !.pc = first].pc = first
        BY DEF Idle
      <4> QED
        BY <2>5, <4>1, <4>2, IdleIs
    <3>2. first # "upload" /\ first # "tail"
      BY <2>2
    <3> QED
      BY <3>1, <3>2 DEF Elsewhere
  <2> QED
    BY <2>6, <2>7
<1>6. \A x : peer' = [peer EXCEPT !.sent = x] => PeerKept
  BY Known DEF Peers, PeerKept, Bounded
<1>7. \A x : peer' = [peer EXCEPT !.odd = x] => PeerKept
  BY Known DEF Peers, PeerKept, Bounded
<1>8. \A x : peer' = [peer EXCEPT !.tls = x] => PeerKept
  BY Known DEF Peers, PeerKept, Bounded
<1> QED
  BY <1>2, <1>3, <1>4, <1>5, <1>6, <1>7, <1>8 DEF PeerKept

Framed ==
  /\ op.pc \notin Resting \cup {"tail"} /\ Elsewhere
  /\ (HistKept /\ PeerKept) \/ Restarted

(* The steps of a handshake with a proxy. *)
LEMMA ProxyFrame ==
  ASSUME Inv, ProxyStep \/ EndlessRead
  PROVE  Framed
<1> USE StepFrame DEF At
<1>a. op.pc \notin Resting \cup {"tail"} /\ Moves /\ PeerKept => Framed
  BY DEF Framed, Moves
<1>b. Granted => PeerKept
  BY Known DEF Granted, Peers, PeerKept, Bounded
<1>c. \A what : Send(what) => PeerKept
  BY DEF Send
<1>d. \A s : AsyncRequest(s) => Moves
  BY DEF AsyncRequest, WriteRequest
<1>e. \A status : Enter(status) => Moves
  BY DEF Enter
<1>f. AsyncTunnelReady => Moves
  BY <1>d, <1>e DEF AsyncTunnelReady
<1>g. \A s : SyncTunnelReady(s) => Moves
  BY DEF SyncTunnelReady
<1>h. ASSUME NEW reply, SocksReply(reply)
      PROVE  Moves
  BY <1>g, <1>h DEF SocksReply
<1>1. CASE SyncProxyStep
  <2>a. op.pc \notin Resting \cup {"tail"}
    BY <1>1 DEF SyncProxyStep, SocksProxyResolve, SocksProxyConnect, SocksVersion, SocksAuth,
                SocksProxyHandshake, SyncHandshake, HttpsProxyResolve, HttpsProxyConnect,
                HttpsProxyStatus, HttpsProxyHeader, Resting
  <2>1. SocksProxyResolve => Moves /\ PeerKept
    BY DEF SocksProxyResolve
  <2>2. SocksProxyConnect => Moves /\ PeerKept
    BY DEF SocksProxyConnect
  <2>3. SocksVersion => Moves /\ PeerKept
    BY <1>c DEF SocksVersion, SocksMethods
  <2>4. SocksAuth => Moves /\ PeerKept
    BY <1>c DEF SocksAuth
  <2>5. ASSUME SocksProxyHandshake
        PROVE  Moves /\ PeerKept
    <3>1. CASE Done("lost", st) /\ UNCHANGED peer
      BY <3>1
    <3>2. CASE Done("host_not_found", st) /\ UNCHANGED peer
      BY <3>2
    <3>3. ASSUME NEW reply, NEW lost, SocksReply(reply),
                 peer' = [peer EXCEPT !.sent = @ \cup {"connect"}, !.lost = lost,
                                      !.granted = Grants(reply) /\ ~lost]
          PROVE  Moves /\ PeerKept
      BY <1>h, <3>3, Known DEF Peers, PeerKept, Bounded
    <3> QED
      BY <2>5, <3>1, <3>2, <3>3 DEF SocksProxyHandshake
  <2>6. SyncHandshake => Moves /\ PeerKept
    BY DEF SyncHandshake
  <2>7. HttpsProxyResolve => Moves /\ PeerKept
    BY DEF HttpsProxyResolve
  <2>8. HttpsProxyConnect => Moves /\ PeerKept
    BY DEF HttpsProxyConnect
  <2>9. ASSUME HttpsProxyStatus
        PROVE  Moves /\ PeerKept
    <3>1. ASSUME NEW status \in Statuses,
                 peer' = [peer EXCEPT !.sent = @ \cup {"connect"},
                                      !.odd = IF status = 100 THEN @ \cup {"continue"} ELSE @]
          PROVE  PeerKept
      BY <3>1, Known DEF Peers, PeerKept, Bounded
    <3>2. ASSUME NEW status \in Statuses,
                 IF status = 100
                 THEN Done("malformed_status_line", [st EXCEPT !.status_code = 0])
                 ELSE Await("s_https_header", [st EXCEPT !.status_code = status])
          PROVE  Moves
      BY <3>2
    <3>3. CASE /\ Done("malformed_status_line", [st EXCEPT !.status_code = 0])
               /\ peer' = [peer EXCEPT !.odd = @ \cup {"status"}]
      BY <3>3
    <3>4. CASE Done("lost", st) /\ UNCHANGED peer
      BY <3>4
    <3> QED
      BY <2>9, <3>1, <3>2, <3>3, <3>4 DEF HttpsProxyStatus
  <2>10. HttpsProxyHeader => Moves /\ PeerKept
    BY <1>b DEF HttpsProxyHeader
  <2> QED
    BY <1>1, <1>a, <2>a, <2>1, <2>2, <2>3, <2>4, <2>5, <2>6, <2>7, <2>8, <2>9, <2>10
       DEF SyncProxyStep
<1>2. CASE SocksStep
  <2>a. op.pc \notin Resting \cup {"tail"}
    BY <1>2 DEF SocksStep, AsyncSocksProxyResolve, HandleConnectSocks, ProcessError,
                VersionSent, ResponseVersion, UserinfoSent, AuthStatus, ConnectSent,
                Socks5Result, ReadDomainname, Socks4Response, SslHandshake, Process, InProcess,
                Resting
  <2>1. ASSUME AsyncSocksProxyResolve
        PROVE  Moves /\ PeerKept
    <3>1. ASSUME NEW n,
                 op' = [op EXCEPT !.pc = "socks_connect", !.live = TRUE, !.endpoints = n],
                 UNCHANGED <<peer, hist>>
          PROVE  Moves /\ PeerKept
      BY <3>1, Known DEF Operations, HistKept, Moves, Elsewhere
    <3>2. Socks4HostResolved => Moves /\ PeerKept
      BY <1>c DEF Socks4HostResolved
    <3> QED
      BY <2>1, <3>1, <3>2 DEF AsyncSocksProxyResolve
  <2>2. HandleConnectSocks => Moves /\ PeerKept
    BY <1>c DEF HandleConnectSocks
  <2>3. ProcessError \/ VersionSent \/ UserinfoSent \/ ConnectSent \/ ReadDomainname
          => Moves /\ PeerKept
    BY <1>e, <1>f
       DEF ProcessError, VersionSent, UserinfoSent, ConnectSent, ReadDomainname
  <2>4. SendConnectRequest => Moves /\ PeerKept
    BY <1>c, <1>e DEF SendConnectRequest
  <2>5. ResponseVersion => Moves /\ PeerKept
    BY <2>4, <1>c, <1>e DEF ResponseVersion
  <2>6. AuthStatus => Moves /\ PeerKept
    BY <2>4 DEF AuthStatus
  <2>7. Socks5Result => Moves /\ PeerKept
    BY <1>b, <1>e, <1>f DEF Socks5Result
  <2>8. Socks4Response => Moves /\ PeerKept
    BY <1>b, <1>f DEF Socks4Response
  <2>9. SslHandshake => Moves /\ PeerKept
    BY <1>d DEF SslHandshake
  <2> QED
    BY <1>2, <1>a, <2>a, <2>1, <2>2, <2>3, <2>5, <2>6, <2>7, <2>8, <2>9 DEF SocksStep
<1>3. CASE HttpsProxyStep
  <2>a. op.pc \notin Resting \cup {"tail"}
    BY <1>3 DEF HttpsProxyStep, AsyncHttpsProxyResolve, HandleConnectHttpsProxy,
                HandleHttpsProxyRequest, HandleHttpsProxyStatus, HandleHttpsProxyHeader,
                HandleHttpsProxyHandshake, Resting
  <2>1. AsyncHttpsProxyResolve => Moves /\ PeerKept
    BY DEF AsyncHttpsProxyResolve
  <2>2. HandleConnectHttpsProxy => Moves /\ PeerKept
    BY <1>c DEF HandleConnectHttpsProxy
  <2>3. HandleHttpsProxyRequest => Moves /\ PeerKept
    BY DEF HandleHttpsProxyRequest
  <2>4. ASSUME HandleHttpsProxyStatus
        PROVE  Moves /\ PeerKept
    <3>1. ASSUME NEW status \in Statuses,
                 peer' = [peer EXCEPT !.odd = IF status = 100 THEN @ \cup {"continue"} ELSE @]
          PROVE  PeerKept
      BY <3>1
    <3>2. ASSUME NEW status \in Statuses,
                 IF status = 100
                 THEN Done("malformed_status_line", [st EXCEPT !.status_code = 0])
                 ELSE Await("https_header", [st EXCEPT !.status_code = status])
          PROVE  Moves
      BY <3>2
    <3>3. CASE /\ Done("malformed_status_line", [st EXCEPT !.status_code = 0])
               /\ peer' = [peer EXCEPT !.odd = @ \cup {"status"}]
      BY <3>3
    <3>4. ASSUME NEW ec, Done(ec, st), UNCHANGED peer
          PROVE  Moves /\ PeerKept
      BY <3>4
    <3> QED
      BY <2>4, <3>1, <3>2, <3>3, <3>4 DEF HandleHttpsProxyStatus
  <2>5. HandleHttpsProxyHeader => Moves /\ PeerKept
    BY <1>b DEF HandleHttpsProxyHeader
  <2>6. HandleHttpsProxyHandshake => Moves /\ PeerKept
    BY <1>d DEF HandleHttpsProxyHandshake
  <2> QED
    BY <1>3, <1>a, <2>a, <2>1, <2>2, <2>3, <2>4, <2>5, <2>6 DEF HttpsProxyStep
<1>4. CASE EndlessRead
  BY <1>4, <1>a DEF EndlessRead, Resting
<1> QED
  BY <1>1, <1>2, <1>3, <1>4 DEF ProxyStep

(* The steps of an open or of a receive_header that need no proxy. *)
LEMMA OwnFrame ==
  ASSUME Inv, SyncStep \/ AsyncStep
  PROVE  Framed
<1> USE StepFrame DEF At
<1>0. op.pc \notin Resting \cup {"tail"}
  BY DEF SyncStep, SyncResolve, SyncConnect, Request, ReceiveStatus, ReceiveHeader,
         AsyncStep, Posted, HandleResolve, HandleConnect, HandleRequest, HandleStatus,
         HandleHeader, Resting
<1>a. Moves /\ PeerKept => Framed
  BY <1>0 DEF Framed, Moves
<1>b. Restarted /\ Elsewhere => Framed
  BY <1>0 DEF Framed
<1>c. peer' = Answered => PeerKept
  BY Known DEF Answered, Peers, PeerKept, Bounded
<1>d. peer' = Garbage => PeerKept
  BY DEF Garbage
<1>e. ASSUME NEW b \in Buffered, Answers(100), peer' = Continued(b)
      PROVE  PeerKept
  <2> DEFINE n == peer.continues + 1
             odd == IF b = "exact" THEN peer.odd ELSE peer.odd \cup {"damaged"}
  <2>1. n <= MaxContinues
    BY <1>e, Known, BoundsAssumption DEF Answers, Peers
  <2>2. peer' = [peer EXCEPT !.continues = n, !.odd = odd]
    BY <1>e DEF Continued
  <2> HIDE DEF n, odd
  <2> QED
    BY <2>1, <2>2, Known DEF Peers, PeerKept, Bounded
<1>f. ASSUME NEW ec, NEW s, NEW p, OpenResult(ec, s, p), peer' = p => PeerKept
      PROVE  Framed
  <2>1. ASSUME NEW z, Done(ec, z), peer' = p
        PROVE  Framed
    BY <1>a, <1>f, <2>1
  <2>2. ASSUME NEW z, Done("exception", z), peer' = p
        PROVE  Framed
    BY <1>a, <1>f, <2>2
  <2>3. ASSUME NEW scheme, NEW z, Begin(scheme, z, OneMore)
        PROVE  Framed
    BY <1>b, <2>3
  <2> QED
    BY <1>f, <2>1, <2>2, <2>3 DEF OpenResult
<1>g. ASSUME NEW ec, NEW s, NEW p, HeaderResult(ec, s, p), peer' = p => PeerKept
      PROVE  Framed
  BY <1>a, <1>f, <1>g DEF HeaderResult
<1>1. CASE SyncResolve
  BY <1>1, <1>a DEF SyncResolve
<1>2. CASE SyncConnect
  BY <1>2, <1>a DEF SyncConnect
<1>3. CASE Request
  <2>1. CASE OpenResult("lost", st, peer)
    BY <1>f, <2>1
  <2>2. CASE RequestSent([peer EXCEPT !.sent = @ \cup {"request"}])
    BY <1>a, <1>f, <2>2 DEF RequestSent
  <2> QED
    BY <1>3, <2>1, <2>2 DEF Request
<1>4. CASE ReceiveStatus
  <2>1. CASE HeaderResult("lost", st, peer)
    BY <1>g, <2>1
  <2>2. CASE HeaderResult("malformed_status_line", WithStatus(0), Garbage)
    BY <1>d, <1>g, <2>2
  <2>3. ASSUME NEW status, Await("s_header", WithStatus(status)), UNCHANGED peer
        PROVE  Framed
    BY <1>a, <2>3
  <2>4. ASSUME NEW b \in Buffered, Answers(100),
               IF b = "less"
               THEN HeaderResult("malformed_status_line", WithStatus(100), Continued(b))
               ELSE IF setup.method = "POST"
               THEN HeaderResult("continue", WithStatus(100), Continued(b))
               ELSE Await("s_status", WithStatus(100)) /\ peer' = Continued(b)
        PROVE  Framed
    BY <1>a, <1>e, <1>g, <2>4
  <2> QED
    BY <1>4, <2>1, <2>2, <2>3, <2>4 DEF ReceiveStatus
<1>5. CASE ReceiveHeader
  <2>1. ASSUME NEW ec, HeaderResult(ec, st, peer)
        PROVE  Framed
    BY <1>g, <2>1
  <2>2. ASSUME NEW ec, NEW s, HeaderResult(ec, s, Answered)
        PROVE  Framed
    BY <1>c, <1>g, <2>2
  <2> QED
    BY <1>5, <2>1, <2>2 DEF ReceiveHeader
<1>6. CASE Posted
  BY <1>6, <1>a DEF Posted
<1>7. CASE HandleResolve
  BY <1>7, <1>a DEF HandleResolve
<1>8. CASE HandleConnect
  BY <1>8, <1>a DEF HandleConnect, AsyncRequest, WriteRequest
<1>9. CASE HandleRequest
  BY <1>9, <1>a DEF HandleRequest, Send
<1>10. CASE HandleStatus
  BY <1>10, <1>a, <1>d, <1>e DEF HandleStatus
<1>11. CASE HandleHeader
  <2>1. ASSUME NEW ec, NEW s, Done(ec, s), UNCHANGED peer
        PROVE  Framed
    BY <1>a, <2>1
  <2>2. ASSUME NEW ec, NEW s, Done(ec, s), peer' = Answered
        PROVE  Framed
    BY <1>a, <1>c, <2>2
  <2>3. ASSUME NEW s, FollowRedirect(s)
        PROVE  Framed
    BY <1>b, <2>2, <2>3 DEF FollowRedirect
  <2> QED
    BY <1>11, <2>1, <2>2, <2>3 DEF HandleHeader
<1> QED
  BY <1>1, <1>2, <1>3, <1>4, <1>5, <1>6, <1>7, <1>8, <1>9, <1>10, <1>11
     DEF SyncStep, AsyncStep

-----------------------------------------------------------------------------
(* The form.  g[i] is what the first i of the parts come to. *)
Sums(g, parts) ==
  /\ g \in [Nat -> Nat] /\ g[0] = 0
  /\ \A i \in 1 .. Len(parts) : g[i] = g[i - 1] + parts[i]

(* The parts come to n bytes. *)
Amounts(parts, n) ==
  parts \in Seq(Nat) /\ n \in Nat /\ \E g : Sums(g, parts) /\ g[Len(parts)] = n

(* No parts come to nothing. *)
LEMMA NothingAmounts == Amounts(<<>>, 0)
<1> DEFINE g == [i \in Nat |-> 0]
<1>1. <<>> \in Seq(Nat) /\ Len(<<>>) = 0
  OBVIOUS
<1>2. Sums(g, <<>>) /\ g[Len(<<>>)] = 0
  BY <1>1 DEF Sums
<1> QED
  BY <1>1, <1>2 DEF Amounts

(* One more part. *)
LEMMA AppendAmounts ==
  ASSUME NEW parts, NEW n, Amounts(parts, n), NEW more \in Nat
  PROVE  Amounts(Append(parts, more), n + more)
<1>1. parts \in Seq(Nat) /\ n \in Nat
  BY DEF Amounts
<1>2. PICK g : Sums(g, parts) /\ g[Len(parts)] = n
  BY DEF Amounts
<1> DEFINE k == Len(parts)
           longer == Append(parts, more)
           h == [i \in Nat |-> IF i = k + 1 THEN n + more ELSE g[i]]
<1>3. /\ k \in Nat /\ longer \in Seq(Nat) /\ Len(longer) = k + 1
      /\ longer[k + 1] = more
      /\ \A i \in 1 .. k : longer[i] = parts[i]
  BY <1>1
<1>4. g \in [Nat -> Nat] /\ g[0] = 0 /\ \A i \in 1 .. k : g[i] = g[i - 1] + parts[i]
  BY <1>2 DEF Sums
<1>5. g[k] = n
  BY <1>2
<1> HIDE DEF k, longer
<1>6. h \in [Nat -> Nat] /\ h[0] = 0 /\ h[k + 1] = n + more
  <2>1. n + more \in Nat /\ k + 1 \in Nat /\ 0 # k + 1 /\ 0 \in Nat
    BY <1>1, <1>3
  <2>2. h \in [Nat -> Nat]
    BY <2>1, <1>4
  <2>3. h[0] = g[0]
    BY <2>1
  <2>4. h[k + 1] = n + more
    BY <2>1
  <2> QED
    BY <1>4, <2>2, <2>3, <2>4
<1>7. ASSUME NEW i \in 1 .. k + 1
      PROVE  h[i] = h[i - 1] + longer[i]
  <2>1. CASE i = k + 1
    <3>1. i - 1 = k /\ i - 1 \in Nat /\ i - 1 # k + 1
      BY <1>3, <2>1
    <3>2. h[i - 1] = n
      BY <1>3, <1>5, <3>1
    <3> QED
      BY <1>3, <1>6, <2>1, <3>2
  <2>2. CASE i # k + 1
    <3>1. i \in 1 .. k /\ i \in Nat /\ i - 1 \in Nat /\ i - 1 # k + 1
      BY <1>3, <2>2
    <3>2. h[i] = g[i] /\ h[i - 1] = g[i - 1]
      BY <2>2, <3>1
    <3> QED
      BY <1>3, <1>4, <3>1, <3>2
  <2> QED
    BY <2>1, <2>2
<1> HIDE DEF h
<1>8. Sums(h, longer) /\ h[Len(longer)] = n + more
  BY <1>3, <1>6, <1>7 DEF Sums
<1>9. n + more \in Nat
  BY <1>1
<1> QED
  BY <1>3, <1>8, <1>9 DEF Amounts, longer

(* Two more parts. *)
LEMMA PairAmounts ==
  ASSUME NEW parts, NEW n, Amounts(parts, n), NEW a \in Nat, NEW b \in Nat
  PROVE  Amounts(parts \o <<a, b>>, n + (a + b))
<1>1. parts \in Seq(Nat) /\ n \in Nat
  BY DEF Amounts
<1>2. Amounts(Append(Append(parts, a), b), (n + a) + b)
  BY AppendAmounts
<1>3. Append(Append(parts, a), b) = parts \o <<a, b>>
  BY <1>1
<1>4. (n + a) + b = n + (a + b)
  BY <1>1
<1> QED
  BY <1>2, <1>3, <1>4

(* What the loops over the fields of a form have for each set of fields:   *)
(* the parts to write, and the length to announce.                         *)
IsPartsOf(g, form) ==
  /\ g[{}] = <<>>
  /\ \A s \in SUBSET DOMAIN form : s # {} =>
       g[s] = g[s \ {Max(s)}] \o <<BoundaryLine, FieldText + form[Max(s)]>>
IsLengthOf(g, form) ==
  /\ g[{}] = 0
  /\ \A s \in SUBSET DOMAIN form : s # {} =>
       g[s] = g[s \ {Max(s)}] + (Boundary + 4) + FieldText + form[Max(s)]

(* The fields of a form are finitely many. *)
LEMMA FieldsAreFinite ==
  ASSUME NEW form \in Seq(Nat)
  PROVE  /\ IsFiniteSet(DOMAIN form) /\ DOMAIN form \subseteq Int
         /\ \A s \in SUBSET DOMAIN form : s # {} => Max(s) \in s /\ form[Max(s)] \in Nat
<1>1. DOMAIN form = 1 .. Len(form) /\ Len(form) \in Nat
  OBVIOUS
<1>2. IsFiniteSet(DOMAIN form)
  BY <1>1, FS_Interval
<1>3. ASSUME NEW s \in SUBSET DOMAIN form, s # {}
      PROVE  Max(s) \in s /\ form[Max(s)] \in Nat
  <2>1. IsFiniteSet(s) /\ s \subseteq Int
    BY <1>1, <1>2, FS_Subset
  <2>2. Max(s) \in s
    BY <1>3, <2>1, MaxIsLargest
  <2> QED
    BY <2>2
<1> QED
  BY <1>1, <1>2, <1>3

(* PartsOf is such a loop, and the last part comes after it. *)
LEMMA PartsAreFold ==
  ASSUME NEW form \in Seq(Nat)
  PROVE  \E g : IsPartsOf(g, form)
                /\ PartsOf(form) = g[DOMAIN form] \o <<BoundaryLine, FileText + Names>>
<1> DEFINE D == DOMAIN form
           A == Seq(Nat)
           F == [p \in D \X A |-> p[2] \o <<BoundaryLine, FieldText + form[p[1]]>>]
           Solves(g) == g = [s \in SUBSET D |->
                               IF s = {} THEN <<>>
                               ELSE g[s \ {Max(s)}] \o <<BoundaryLine, FieldText + form[Max(s)]>>]
<1>1. IsFiniteSet(D) /\ D \subseteq Int /\ \A s \in SUBSET D : s # {} => Max(s) \in s
  BY FieldsAreFinite
<1>2. F \in [D \X A -> A]
  <2>1. \A i \in D : FieldText + form[i] \in Nat /\ BoundaryLine \in Nat
    BY DEF FieldText, BoundaryLine, Boundary
  <2>2. ASSUME NEW i \in D, NEW a \in A
        PROVE  a \o <<BoundaryLine, FieldText + form[i]>> \in A
    <3>1. <<BoundaryLine, FieldText + form[i]>> \in A
      BY <2>1
    <3> QED
      BY <3>1
  <2> QED
    BY <2>2
<1>3. PICK g \in [SUBSET D -> A] : IsFold(g, D, <<>>, F)
  <2>1. <<>> \in A
    OBVIOUS
  <2> HIDE DEF F, D, A
  <2> QED
    BY <1>1, <1>2, <2>1, FoldExists
<1>5. \A s \in SUBSET D :
        g[s] = IF s = {} THEN <<>>
               ELSE g[s \ {Max(s)}] \o <<BoundaryLine, FieldText + form[Max(s)]>>
  <2> SUFFICES ASSUME NEW s \in SUBSET D, s # {}
               PROVE  g[s] = g[s \ {Max(s)}] \o <<BoundaryLine, FieldText + form[Max(s)]>>
    BY <1>3 DEF IsFold
  <2>1. Max(s) \in D /\ g[s \ {Max(s)}] \in A
    BY <1>1, <1>3
  <2>2. g[s] = F[<<Max(s), g[s \ {Max(s)}]>>]
    BY <1>3 DEF IsFold
  <2> HIDE DEF A, D
  <2> QED
    BY <2>1, <2>2
<1>6. Solves(g)
  BY <1>5
<1> DEFINE h == CHOOSE f : Solves(f)
<1>7. Solves(h)
  <2> HIDE DEF Solves
  <2> QED
    BY <1>6
<1>8. PartsOf(form) = h[D] \o <<BoundaryLine, FileText + Names>>
  BY DEF PartsOf, FoldLeft, MapThenFoldSet
<1>9. IsPartsOf(h, form)
  <2> HIDE DEF h
  <2> QED
    BY <1>7 DEF IsPartsOf
<1> QED
  BY <1>8, <1>9

(* So is ContentLength. *)
LEMMA LengthIsFold ==
  ASSUME NEW form \in Seq(Nat)
  PROVE  \E g : IsLengthOf(g, form)
                /\ ContentLength(form)
                     = FileSize + g[DOMAIN form] + (Boundary + 4) + FileText + Names + 4
                         + (Boundary + 4)
<1> DEFINE D == DOMAIN form
           F == [p \in D \X Nat |-> p[2] + (Boundary + 4) + FieldText + form[p[1]]]
           Solves(g) == g = [s \in SUBSET D |->
                               IF s = {} THEN 0
                               ELSE g[s \ {Max(s)}] + (Boundary + 4) + FieldText + form[Max(s)]]
<1>1. IsFiniteSet(D) /\ D \subseteq Int /\ \A s \in SUBSET D : s # {} => Max(s) \in s
  BY FieldsAreFinite
<1>2. F \in [D \X Nat -> Nat]
  BY DEF Boundary, FieldText
<1>3. PICK g \in [SUBSET D -> Nat] : IsFold(g, D, 0, F)
  <2>1. 0 \in Nat
    OBVIOUS
  <2> HIDE DEF F, D
  <2> QED
    BY <1>1, <1>2, <2>1, FoldExists
<1>5. \A s \in SUBSET D :
        g[s] = IF s = {} THEN 0
               ELSE g[s \ {Max(s)}] + (Boundary + 4) + FieldText + form[Max(s)]
  BY <1>1, <1>3 DEF IsFold
<1>6. Solves(g)
  BY <1>5
<1> DEFINE h == CHOOSE f : Solves(f)
<1>7. Solves(h)
  <2> HIDE DEF Solves
  <2> QED
    BY <1>6
<1>8. ContentLength(form) = FileSize + h[D] + (Boundary + 4) + FileText + Names + 4
                              + (Boundary + 4)
  BY DEF ContentLength, FoldLeft, MapThenFoldSet
<1>9. IsLengthOf(h, form)
  <2> HIDE DEF h
  <2> QED
    BY <1>7 DEF IsLengthOf
<1> QED
  BY <1>8, <1>9

(* calc_content_length() announces what open(), the file and write_tail()  *)
(* write, whatever the form.                                               *)
THEOREM LengthIsOfParts ==
  ASSUME NEW form \in Seq(Nat)
  PROVE  \E n \in Nat :
           /\ Amounts(PartsOf(form), n) /\ Len(PartsOf(form)) > 0
           /\ ContentLength(form) = n + FileSize + TailSize
<1> DEFINE D == DOMAIN form
<1>1. PICK p : /\ IsPartsOf(p, form)
               /\ PartsOf(form) = p[D] \o <<BoundaryLine, FileText + Names>>
  BY PartsAreFold
<1>2. PICK c : /\ IsLengthOf(c, form)
               /\ ContentLength(form)
                    = FileSize + c[D] + (Boundary + 4) + FileText + Names + 4 + (Boundary + 4)
  BY LengthIsFold
<1> DEFINE G == {s \in SUBSET D : Amounts(p[s], c[s])}
<1>3. IsFiniteSet(D) /\ D \subseteq Int
        /\ \A s \in SUBSET D : s # {} => form[Max(s)] \in Nat
  BY FieldsAreFinite
<1>4. {} \in G
  BY <1>1, <1>2, NothingAmounts DEF IsPartsOf, IsLengthOf
<1>5. ASSUME NEW s \in SUBSET D, s # {}, s \ {Max(s)} \in G
      PROVE  s \in G
  <2> DEFINE r == s \ {Max(s)}
             field == form[Max(s)]
  <2>1. p[s] = p[r] \o <<BoundaryLine, FieldText + field>>
    BY <1>1, <1>5 DEF IsPartsOf
  <2>2. c[s] = c[r] + (Boundary + 4) + FieldText + field
    BY <1>2, <1>5 DEF IsLengthOf
  <2>3. Amounts(p[r], c[r]) /\ c[r] \in Nat /\ field \in Nat
    BY <1>3, <1>5 DEF Amounts
  <2> HIDE DEF r, field
  <2>4. BoundaryLine \in Nat /\ FieldText + field \in Nat
    BY <2>3 DEF BoundaryLine, Boundary, FieldText
  <2>5. Amounts(p[s], c[r] + (BoundaryLine + (FieldText + field)))
    BY <2>1, <2>3, <2>4, PairAmounts
  <2>6. c[s] = c[r] + (BoundaryLine + (FieldText + field))
    BY <2>2, <2>3 DEF BoundaryLine, Boundary, FieldText
  <2> QED
    BY <2>5, <2>6
<1> HIDE DEF G
<1>6. D \in G
  <2> HIDE DEF D
  <2> QED
    BY <1>3, <1>4, <1>5, SubsetInduction
<1>7. Amounts(p[D], c[D]) /\ c[D] \in Nat
  BY <1>6 DEF G, Amounts
<1> DEFINE n == c[D] + (BoundaryLine + (FileText + Names))
<1>8. BoundaryLine \in Nat /\ FileText + Names \in Nat /\ Names \in Nat /\ FileSize \in Nat
  BY FormsAssumption DEF BoundaryLine, Boundary, FileText
<1>9. Amounts(PartsOf(form), n)
  BY <1>1, <1>7, <1>8, PairAmounts
<1>10. n \in Nat /\ ContentLength(form) = n + FileSize + TailSize
  BY <1>2, <1>7, <1>8 DEF BoundaryLine, Boundary, FileText, TailSize
<1>11. Len(PartsOf(form)) > 0
  BY <1>1, <1>7 DEF Amounts
<1> QED
  BY <1>9, <1>10, <1>11

-----------------------------------------------------------------------------
(* The upload, the bytes it has written and those it has announced. *)
UploadPcs == {"no", "opening", "parts", "file", "tail", "receiving", "done"}
Uploads ==
  [pc : UploadPcs, parts : Seq(Nat), written : Nat, length : Nat, torn : BOOLEAN]

(* Of the parts announced those that are written have been sent. *)
Written(u, body) ==
  \E g : /\ Sums(g, u.parts) /\ body = g[u.written]
         /\ u.length = g[Len(u.parts)] + FileSize + TailSize

(* The last answer is being received, or the upload is over. *)
Ends(u, body, followed) == body = u.length \/ u.torn \/ followed > 0

(* Where the upload is, and what was written by then. *)
UploadInv ==
  /\ up \in Uploads /\ up.written <= Len(up.parts)
  /\ At("upload") <=> up.pc = "parts"
  /\ At("tail") => up.pc = "receiving"
  /\ up.pc \in {"file", "tail"} => At("idle")
  /\ up.pc \in {"no", "opening"} => up.written = 0
  /\ up.pc \in {"opening", "parts"} => up.written < Len(up.parts) /\ Written(up, peer.body)
  /\ up.pc = "file" => peer.body + FileSize + TailSize = up.length
  /\ up.pc = "tail" \/ At("tail") => peer.body + TailSize = up.length
  /\ up.pc = "receiving" =>
       At("tail") \/ (At("idle") /\ hist.ec # "none") \/ Ends(up, peer.body, hist.followed)

(* What bounds the runs. *)
CountInv ==
  /\ setup \in Setups
  /\ hist.opens <= MaxOpens /\ hist.closes <= MaxCloses
  /\ Bounded(peer)

(* The inductive invariant of the stream and the upload on it. *)
IInv == Inv /\ UploadInv /\ CountInv

(* Every step of the stream keeps its invariant, and is framed. *)
LEMMA StreamKeepsInv ==
  ASSUME Inv, StreamStep \/ EndlessRead
  PROVE  Inv' /\ UNCHANGED setup /\ Framed
<1>1. CASE EndlessRead
  <2>1. op.pc = "endless_read" /\ UNCHANGED <<setup, peer>>
    BY <1>1 DEF EndlessRead, At
  <2>2. ASSUME NEW ec \in Outcomes \ {"ok"}, Done(ec, st)
        PROVE  Inv'
    <3>1. ec \in Failures /\ op.pc \notin Resting
      BY <2>1, <2>2 DEF Outcomes, Failures, Codes, Resting
    <3> QED
      BY <2>1, <2>2, <3>1, Fails
  <2> QED
    BY <1>1, <2>1, <2>2, ProxyFrame DEF EndlessRead
<1>2. CASE SyncProxyStep
  <2>1. UNCHANGED setup
    BY <1>2 DEF SyncProxyStep, SocksProxyResolve, SocksProxyConnect, SocksVersion, SocksAuth,
                SocksProxyHandshake, SyncHandshake, HttpsProxyResolve, HttpsProxyConnect,
                HttpsProxyStatus, HttpsProxyHeader
  <2> QED
    BY <1>2, <2>1, BlockingProxyKeeps, ProxyFrame DEF ProxyStep
<1>3. CASE SocksStep
  <2>1. UNCHANGED setup
    BY <1>3 DEF SocksStep, AsyncSocksProxyResolve, HandleConnectSocks, ProcessError,
                VersionSent, ResponseVersion, UserinfoSent, AuthStatus, ConnectSent,
                Socks5Result, ReadDomainname, Socks4Response, SslHandshake
  <2> QED
    BY <1>3, <2>1, SocksKeeps, ProxyFrame DEF ProxyStep
<1>4. CASE HttpsProxyStep
  <2>1. UNCHANGED setup
    BY <1>4 DEF HttpsProxyStep, AsyncHttpsProxyResolve, HandleConnectHttpsProxy,
                HandleHttpsProxyRequest, HandleHttpsProxyStatus, HandleHttpsProxyHeader,
                HandleHttpsProxyHandshake
  <2> QED
    BY <1>4, <2>1, HttpsProxyKeeps, ProxyFrame DEF ProxyStep
<1>5. CASE SyncStep
  <2>1. UNCHANGED setup
    BY <1>5 DEF SyncStep, SyncResolve, SyncConnect, Request, ReceiveStatus, ReceiveHeader
  <2> QED
    BY <1>5, <2>1, BlockingKeeps, OwnFrame
<1>6. CASE AsyncStep
  <2>1. UNCHANGED setup
    BY <1>6 DEF AsyncStep, Posted, HandleResolve, HandleConnect, HandleRequest, HandleStatus,
                HandleHeader
  <2> QED
    BY <1>6, <2>1, HandlersKeep, OwnFrame
<1> QED
  BY <1>1, <1>2, <1>3, <1>4, <1>5, <1>6 DEF StreamStep, ProxyStep

(* A step of the stream while the upload waits for it. *)
LEMMA StreamKeeps ==
  ASSUME IInv, StreamStep \/ EndlessRead, UNCHANGED up
  PROVE  IInv'
<1>1. Inv' /\ UNCHANGED setup /\ Framed
  BY StreamKeepsInv DEF IInv
<1>2. /\ op.pc \notin {"idle", "upload", "tail"} /\ op'.pc \notin {"upload", "tail"}
      /\ (HistKept /\ PeerKept) \/ Restarted
  BY <1>1 DEF Framed, Resting, Elsewhere
<1>3. up \in Uploads /\ up.pc \notin {"parts", "file", "tail"}
  BY <1>2 DEF IInv, UploadInv, At
<1>4. CountInv'
  BY <1>1, <1>2 DEF IInv, CountInv, HistKept, PeerKept, Restarted, Bounded
<1>5. ASSUME up.pc = "opening"
      PROVE  Written(up, peer'.body)
  <2>1. PICK g : /\ Sums(g, up.parts) /\ peer.body = g[up.written]
                 /\ up.length = g[Len(up.parts)] + FileSize + TailSize
    BY <1>5 DEF IInv, UploadInv, Written
  <2>2. g[up.written] = 0
    BY <1>5, <2>1 DEF IInv, UploadInv, Sums
  <2>3. peer'.body = g[up.written]
    BY <1>2, <2>1, <2>2 DEF PeerKept, Restarted
  <2> QED
    BY <2>1, <2>3 DEF Written
<1>6. ASSUME up.pc = "receiving"
      PROVE  Ends(up, peer'.body, hist'.followed)
  <2>1. Ends(up, peer.body, hist.followed)
    BY <1>2, <1>6 DEF IInv, UploadInv, At
  <2> QED
    BY <1>2, <2>1 DEF Ends, HistKept, PeerKept, Restarted
<1>7. UploadInv'
  BY <1>2, <1>3, <1>5, <1>6 DEF IInv, UploadInv, At
<1> QED
  BY <1>1, <1>4, <1>7 DEF IInv

-----------------------------------------------------------------------------
(* What the steps of an upload share. *)
LEMMA UploadKnown ==
  ASSUME IInv
  PROVE  /\ Inv /\ up \in Uploads /\ peer.body \in Nat /\ hist \in Histories /\ op \in Operations
         /\ peer \in Peers /\ IsOpen(st) \in BOOLEAN /\ st \in StreamMembers
         /\ FileSize \in Nat /\ TailSize \in Nat /\ TailSize > 0
         /\ hist.followed <= MaxRedirects /\ hist.closed \in Pcs \cup {"no", "redirected"}
         /\ \A more \in Nat : peer' = [peer EXCEPT !.body = @ + more] =>
              SamePeer /\ peer'.body = peer.body + more /\ peer'.continues = peer.continues
         /\ peer' = peer => SamePeer
         /\ \A x \in BOOLEAN : LET o == [Idle EXCEPT !.pc = "upload", !.live = x] IN
              o \in Operations /\ o.pc = "upload" /\ o.call = "open"
<1>1. Inv /\ up \in Uploads
  BY DEF IInv, UploadInv
<1>2. /\ st \in StreamMembers /\ op \in Operations /\ peer \in Peers /\ hist \in Histories
  BY <1>1, Known
<1>3. FileSize \in Nat /\ TailSize \in Nat /\ TailSize > 0
  BY FormsAssumption DEF TailSize, Boundary
<1>4. peer.body \in Nat /\ IsOpen(st) \in BOOLEAN
  BY <1>2 DEF Peers, IsOpen, StreamMembers
<1>5. hist.followed <= MaxRedirects /\ hist.closed \in Pcs \cup {"no", "redirected"}
  BY <1>1, <1>2 DEF Inv, ResultInv, Histories
<1>6. ASSUME NEW more \in Nat, peer' = [peer EXCEPT !.body = @ + more]
      PROVE  SamePeer /\ peer'.body = peer.body + more /\ peer'.continues = peer.continues
  <2> DEFINE n == peer.body + more
  <2>1. n \in Nat
    BY <1>4
  <2>2. peer' = [peer EXCEPT !.body = n]
    BY <1>6
  <2> HIDE DEF n
  <2>3. SamePeer /\ peer'.body = n /\ peer'.continues = peer.continues
    BY <1>2, <2>1, <2>2 DEF SamePeer, Peers
  <2> QED
    BY <2>3 DEF n
<1>7. ASSUME NEW x \in BOOLEAN
      PROVE  LET o == [Idle EXCEPT !.pc = "upload", !.live = x] IN
             o \in Operations /\ o.pc = "upload" /\ o.call = "open"
  BY IdleIs DEF Operations, Pcs, Resting
<1>8. peer' = peer => SamePeer
  BY <1>2 DEF SamePeer
<1> QED
  BY <1>1, <1>2, <1>3, <1>4, <1>5, <1>6, <1>7, <1>8

(* The stream was opened for the upload. *)
LEMMA OpenedKeeps ==
  ASSUME IInv, StreamOpened
  PROVE  IInv'
<1> USE UploadKnown DEF At
<1>1. op.pc = "idle" /\ up.pc = "opening" /\ UNCHANGED <<setup, st, peer, hist>>
  BY DEF StreamOpened
<1>2. \/ /\ op' = [Idle EXCEPT !.pc = "upload", !.live = IsOpen(st)]
         /\ up' = [up EXCEPT !.pc = "parts"]
      \/ up' = [up EXCEPT !.pc = "done"] /\ op' = op
  BY DEF StreamOpened
<1>3. op' \in Operations /\ op'.pc \in Resting /\ op'.call = "open"
        /\ (op'.pc = "upload" \/ op' = op)
  BY <1>1, <1>2 DEF Inv, Place, Resting
<1>4. Inv'
  BY <1>1, <1>3, RestKeeps DEF Resting
<1>5. CountInv'
  BY <1>1 DEF IInv, CountInv
<1>6. UploadInv'
  <2>0. up.written < Len(up.parts) /\ Written(up, peer.body)
    BY <1>1 DEF IInv, UploadInv
  <2>1. CASE /\ op' = [Idle EXCEPT !.pc = "upload", !.live = IsOpen(st)]
             /\ up' = [up EXCEPT !.pc = "parts"]
    <3>1. /\ up' \in Uploads /\ up'.pc = "parts" /\ up'.parts = up.parts
          /\ up'.written = up.written /\ up'.length = up.length
      BY <2>1 DEF Uploads, UploadPcs
    <3>2. op'.pc = "upload"
      BY <2>1
    <3>3. Written(up, peer.body)'
      BY <1>1, <2>0, <3>1 DEF Written
    <3> QED
      BY <2>0, <3>1, <3>2, <3>3 DEF IInv, UploadInv
  <2>2. CASE up' = [up EXCEPT !.pc = "done"] /\ op' = op
    <3>1. /\ up' \in Uploads /\ up'.pc = "done" /\ up'.parts = up.parts
          /\ up'.written = up.written
      BY <2>2 DEF Uploads, UploadPcs
    <3> QED
      BY <1>1, <2>0, <2>2, <3>1 DEF IInv, UploadInv
  <2> QED
    BY <1>2, <2>1, <2>2
<1> QED
  BY <1>4, <1>5, <1>6 DEF IInv

(* The parts are numbers. *)
LEMMA PartIs ==
  ASSUME NEW parts \in Seq(Nat)
  PROVE  Len(parts) \in Nat /\ \A i \in 1 .. Len(parts) : parts[i] \in Nat
OBVIOUS

(* The next of n parts. *)
LEMMA NextPart ==
  ASSUME NEW k \in Nat, NEW n \in Nat, k < n
  PROVE  /\ k + 1 \in 1 .. n /\ k + 1 \in Nat /\ (k + 1) - 1 = k
         /\ k + 1 <= n /\ (k + 1 # n => k + 1 < n)
OBVIOUS

(* A part was written, or its write failed. *)
LEMMA PartKeeps ==
  ASSUME IInv, WritePart \/ HandlePart
  PROVE  IInv'
<1> USE UploadKnown DEF At
<1>1. op.pc = "upload" /\ UNCHANGED <<setup, st>> /\ up.pc = "parts"
  BY DEF WritePart, HandlePart, IInv, UploadInv
<1>2. up.written < Len(up.parts) /\ Written(up, peer.body) /\ up.parts \in Seq(Nat)
        /\ up.written \in Nat
  BY <1>1 DEF IInv, UploadInv, Uploads
<1>a. Len(up.parts) \in Nat /\ \A i \in 1 .. Len(up.parts) : up.parts[i] \in Nat
  BY <1>2, PartIs
<1>3. CASE PartWritten
  <2> DEFINE more == up.parts[up.written + 1]
             next == up.written + 1
  <2>1. /\ next \in 1 .. Len(up.parts) /\ next \in Nat /\ next - 1 = up.written
        /\ next <= Len(up.parts) /\ (next # Len(up.parts) => next < Len(up.parts))
    BY <1>2, <1>a, NextPart
  <2>a. more \in Nat
    BY <1>a, <2>1
  <2>2. peer' = [peer EXCEPT !.body = @ + more]
    BY <1>3 DEF PartWritten
  <2>3. SamePeer /\ peer'.body = peer.body + more /\ peer'.continues = peer.continues
    <3> HIDE DEF more
    <3> QED
      BY <2>a, <2>2
  <2>4. PICK g : /\ Sums(g, up.parts) /\ peer.body = g[up.written]
                 /\ up.length = g[Len(up.parts)] + FileSize + TailSize
    BY <1>2 DEF Written
  <2>5. peer'.body = g[next]
    BY <2>1, <2>3, <2>4 DEF Sums
  <2>6. CASE next = Len(up.parts)
    <3>1. /\ op' = Idle /\ hist' = [hist EXCEPT !.call = "upload", !.ec = "none"]
          /\ up' = [up EXCEPT !.pc = "file", !.written = next]
      BY <1>3, <2>6 DEF PartWritten
    <3>2. /\ op' \in Operations /\ op'.pc = "idle" /\ op'.call = "open"
      BY <3>1, IdleIs
    <3>3. /\ hist' \in Histories /\ hist'.call = "upload" /\ hist'.followed = hist.followed
          /\ hist'.closed = hist.closed /\ hist'.opens = hist.opens
          /\ hist'.closes = hist.closes
      BY <3>1 DEF Histories, Codes
    <3>4. Inv'
      BY <1>1, <2>3, <3>2, <3>3, RestKeeps DEF Resting
    <3>5. CountInv'
      BY <1>1, <2>3, <3>3 DEF IInv, CountInv, Bounded
    <3> HIDE DEF next
    <3>6. /\ up' \in Uploads /\ up'.pc = "file" /\ up'.parts = up.parts
          /\ up'.written = next /\ up'.length = up.length
      BY <2>1, <3>1 DEF Uploads, UploadPcs
    <3>7. peer'.body + FileSize + TailSize = up'.length
      BY <2>4, <2>5, <2>6, <3>6
    <3>8. UploadInv'
      BY <2>1, <3>2, <3>6, <3>7 DEF UploadInv
    <3> QED
      BY <3>4, <3>5, <3>8 DEF IInv
  <2>7. CASE next # Len(up.parts)
    <3>1. /\ op' = [op EXCEPT !.live = IsOpen(st)] /\ hist' = hist
          /\ up' = [up EXCEPT !.written = next]
      BY <1>3, <2>7 DEF PartWritten
    <3>2. /\ op' \in Operations /\ op'.pc = "upload" /\ op'.call = "open"
      BY <1>1, <3>1 DEF Operations, Inv, Place, Resting
    <3>4. Inv'
      BY <1>1, <2>3, <3>1, <3>2, RestKeeps DEF Resting
    <3>5. CountInv'
      BY <1>1, <2>3, <3>1 DEF IInv, CountInv, Bounded
    <3>a. next < Len(up.parts)
      BY <2>1, <2>7
    <3> HIDE DEF next
    <3>6. /\ up' \in Uploads /\ up'.pc = "parts" /\ up'.parts = up.parts
          /\ up'.written = next /\ up'.length = up.length
      BY <1>1, <2>1, <3>1 DEF Uploads, UploadPcs
    <3>7. Written(up, peer.body)'
      BY <2>4, <2>5, <3>6 DEF Written
    <3>8. UploadInv'
      BY <3>a, <2>1, <3>2, <3>6, <3>7 DEF UploadInv
    <3> QED
      BY <3>4, <3>5, <3>8 DEF IInv
  <2> QED
    BY <2>6, <2>7
<1>4. ASSUME NEW ec \in {"lost", "aborted"}, PartFailed(ec)
      PROVE  IInv'
  <2>1. /\ op' = Idle /\ hist' = [hist EXCEPT !.call = "upload", !.ec = ec]
        /\ up' = [up EXCEPT !.pc = "done"] /\ peer' = peer
    BY <1>4 DEF PartFailed
  <2>2. /\ op' \in Operations /\ op'.pc = "idle" /\ op'.call = "open"
    BY <2>1, IdleIs
  <2>3. /\ hist' \in Histories /\ hist'.call = "upload" /\ hist'.followed = hist.followed
        /\ hist'.closed = hist.closed /\ hist'.opens = hist.opens
        /\ hist'.closes = hist.closes
    BY <2>1 DEF Histories, Codes
  <2>4. Inv'
    BY <1>1, <2>1, <2>2, <2>3, RestKeeps DEF Resting
  <2>5. CountInv'
    BY <1>1, <2>1, <2>3 DEF IInv, CountInv
  <2>6. up' \in Uploads /\ up'.pc = "done" /\ up'.parts = up.parts /\ up'.written = up.written
    BY <2>1 DEF Uploads, UploadPcs
  <2>a. up.written <= Len(up.parts)
    BY DEF IInv, UploadInv
  <2>7. UploadInv'
    BY <2>a, <2>2, <2>6 DEF UploadInv
  <2> QED
    BY <2>4, <2>5, <2>7 DEF IInv
<1> QED
  BY <1>3, <1>4 DEF WritePart, HandlePart, Outcomes

(* The answer to the last write is there, and the header is received. *)
LEMMA TailKeeps ==
  ASSUME IInv, HandleTail
  PROVE  IInv'
<1> USE UploadKnown DEF At
<1>1. op.pc = "tail" /\ up.pc = "receiving" /\ UNCHANGED <<setup, up>>
        /\ peer.body + TailSize = up.length
  BY DEF HandleTail, IInv, UploadInv
<1>2. op.pc \in HandlerPcs /\ op.pc \notin Resting
  BY <1>1 DEF HandlerPcs, Resting
<1>3. CASE Await("status", st) /\ peer' = [peer EXCEPT !.body = @ + TailSize]
  <2>1. SamePeer /\ peer'.body = peer.body + TailSize /\ peer'.continues = peer.continues
    BY <1>3
  <2>2. Through(peer') /\ peer' \in Peers /\ Kept(st)
    BY <2>1, Known DEF SamePeer, Through, Tunnelled
  <2>3. MayWait("status", st, peer')
    BY DEF MayWait, BlockingProxyPcs, ProxyPcs
  <2>4. "status" \in Standing \ Connecting
    BY DEF Standing, Connecting
  <2>5. Inv'
    BY <1>1, <1>2, <1>3, <2>2, <2>3, <2>4, Continues
  <2>6. HistKept /\ op'.pc = "status"
    BY <1>3 DEF Await, Operations, HistKept
  <2>7. CountInv'
    BY <1>1, <2>1, <2>6 DEF IInv, CountInv, HistKept, Bounded
  <2>8. Ends(up, peer.body, hist.followed)'
    BY <1>1, <2>1 DEF Ends
  <2>9. UploadInv'
    BY <1>1, <2>6, <2>8 DEF IInv, UploadInv
  <2> QED
    BY <2>5, <2>7, <2>9 DEF IInv
<1>4. ASSUME NEW ec \in {"lost", "aborted"}, Done(ec, st), UNCHANGED peer
      PROVE  IInv'
  <2>1. Inv'
    BY <1>1, <1>2, <1>4, Fails DEF Failures, Codes
  <2>2. op'.pc = "idle" /\ hist'.ec = ec /\ HistKept
    BY <1>4, IdleIs DEF Done, Histories, HistKept
  <2>3. CountInv'
    BY <1>1, <1>4, <2>2 DEF IInv, CountInv, HistKept
  <2>4. UploadInv'
    BY <1>1, <2>2 DEF IInv, UploadInv
  <2> QED
    BY <2>1, <2>3, <2>4 DEF IInv
<1> QED
  BY <1>3, <1>4 DEF HandleTail, Outcomes

-----------------------------------------------------------------------------
(* What the caller does. *)
LEMMA CallIs ==
  ASSUME Inv, NEW scheme \in Schemes, Begin(scheme, st, NewCall("open")),
         hist.opens < MaxOpens, hist.closes <= MaxCloses
  PROVE  /\ op'.pc \notin {"upload", "tail"} /\ peer'.body = 0 /\ Bounded(peer')
         /\ hist'.opens <= MaxOpens /\ hist'.closes <= MaxCloses
<1> DEFINE h == NewCall("open")
<1>1. /\ h \in Histories /\ h.opens = hist.opens + 1 /\ h.closes = hist.closes
  BY NewCallIs
<1>2. hist \in Histories /\ MaxOpens \in Nat /\ MaxContinues \in Nat
  BY Known, BoundsAssumption
<1> HIDE DEF h
<1>3. Begin(scheme, st, h)
  BY DEF h
<1>4. op'.pc \notin {"upload", "tail"}
  BY <1>1, <1>3, BeginDoes, Known DEF Inv
<1>5. peer' = NewPeer /\ (hist' = h \/ \E ec : hist' = [h EXCEPT !.ec = ec])
  BY <1>3 DEF Begin, SyncOpen, AsyncOpen
<1>6. peer'.body = 0 /\ Bounded(peer')
  BY <1>2, <1>5 DEF NewPeer, Bounded
<1>7. hist'.opens = h.opens /\ hist'.closes = h.closes
  BY <1>1, <1>5 DEF Histories
<1> QED
  BY <1>1, <1>2, <1>4, <1>6, <1>7 DEF Histories

(* The caller opens the stream. *)
LEMMA CallerOpens ==
  ASSUME IInv, up.pc = "no", NEW scheme \in Schemes, Open(scheme), UNCHANGED up
  PROVE  IInv'
<1>1. /\ op.pc = "idle" /\ hist.opens < MaxOpens /\ UNCHANGED setup
      /\ Begin(scheme, st, NewCall("open"))
  BY DEF Open, At
<1>2. Inv'
  BY <1>1, OpenKeeps DEF IInv
<1>3. /\ op'.pc \notin {"upload", "tail"} /\ Bounded(peer')
      /\ hist'.opens <= MaxOpens /\ hist'.closes <= MaxCloses
  BY <1>1, CallIs DEF IInv, CountInv
<1>4. CountInv'
  BY <1>1, <1>3 DEF IInv, CountInv, Bounded
<1>5. UploadInv'
  BY <1>3 DEF IInv, UploadInv, At
<1> QED
  BY <1>2, <1>4, <1>5 DEF IInv

(* The caller closes the stream. *)
LEMMA CallerCloses ==
  ASSUME IInv, CloseIdle \/ Close, UNCHANGED up
  PROVE  IInv'
<1>1. Inv' /\ UNCHANGED <<setup, op, peer>>
  BY CloseIdleKeeps, CloseKeeps DEF IInv, CloseIdle, Close
<1>2. /\ hist'.opens = hist.opens /\ hist'.closes <= MaxCloses
      /\ hist'.followed = hist.followed /\ hist'.ec = hist.ec
  <2>1. CASE CloseIdle
    BY <2>1 DEF CloseIdle, IInv, CountInv
  <2>2. CASE Close
    <3> DEFINE where == IF At("header") /\ st.status_code = 302 THEN "redirected" ELSE op.pc
               n == hist.closes + 1
    <3>1. hist' = [hist EXCEPT !.closes = n, !.closed = where] /\ hist.closes < MaxCloses
      BY <2>2 DEF Close
    <3>a. hist.closes \in Nat /\ MaxCloses \in Nat
      BY UploadKnown, BoundsAssumption DEF Histories
    <3>2. n <= MaxCloses
      BY <3>1, <3>a
    <3> HIDE DEF where, n
    <3> QED
      BY <3>1, <3>2, UploadKnown DEF Histories
  <2> QED
    BY <2>1, <2>2
<1>3. CountInv'
  BY <1>1, <1>2 DEF IInv, CountInv, Bounded
<1>4. UploadInv'
  BY <1>1, <1>2 DEF IInv, UploadInv, At
<1> QED
  BY <1>1, <1>3, <1>4 DEF IInv

(* The caller begins an upload: what is announced is what will be written. *)
LEMMA CallerUploads ==
  ASSUME IInv, NEW scheme \in Schemes, NEW form \in Forms, UploadOpen(scheme, form)
  PROVE  IInv'
<1>0. 0 <= MaxRedirects /\ MaxOpens \in Nat
  BY BoundsAssumption
<1>a. \A k \in Nat : k < MaxOpens => k + 1 <= MaxOpens
  BY <1>0
<1>b. \A k \in Nat : k + FileSize + TailSize \in Nat
  BY FormsAssumption DEF TailSize, Boundary
<1>c. \A k \in Nat : k > 0 => 0 <= k /\ 0 < k
  OBVIOUS
<1> USE UploadKnown DEF At
<1>1. op.pc = "idle" /\ up.pc = "no" /\ hist.opens < MaxOpens /\ UNCHANGED setup
        /\ up.written = 0
  BY DEF UploadOpen, IInv, UploadInv
<1>2. CASE /\ hist' = [NewCall("open") EXCEPT !.call = "upload", !.ec = "no_such_file"]
           /\ up' = [up EXCEPT !.pc = "done"]
           /\ UNCHANGED <<st, op, peer>>
  <2> DEFINE h == NewCall("open")
  <2>1. /\ h \in Histories /\ h.followed = 0 /\ h.closed = "no"
        /\ h.opens = hist.opens + 1 /\ h.closes = hist.closes
    BY NewCallIs
  <2> HIDE DEF h
  <2>2. /\ hist' \in Histories /\ hist'.call = "upload" /\ hist'.followed = 0
        /\ hist'.closed = "no" /\ hist'.opens = hist.opens + 1 /\ hist'.closes = hist.closes
    BY <1>2, <2>1 DEF h, Histories, Codes
  <2>b. op.call = "open"
    BY <1>1 DEF Inv, Place, Resting
  <2>4. Inv'
    BY <1>1, <1>2, <2>2, <1>0, <2>b, RestKeeps DEF Resting
  <2>c. hist.opens \in Nat
    BY DEF Histories
  <2>5. hist'.opens <= MaxOpens
    BY <1>1, <1>a, <2>2, <2>c
  <2>6. CountInv'
    BY <1>1, <1>2, <2>2, <2>5 DEF IInv, CountInv
  <2>7. up' \in Uploads /\ up'.pc = "done" /\ up'.parts = up.parts /\ up'.written = up.written
    BY <1>2 DEF Uploads, UploadPcs
  <2>8. UploadInv'
    BY <1>1, <1>2, <2>7 DEF IInv, UploadInv
  <2> QED
    BY <2>4, <2>6, <2>8 DEF IInv
<1>3. CASE /\ Begin(scheme, st, NewCall("open"))
           /\ up' = [up EXCEPT !.pc = "opening", !.parts = PartsOf(form),
                               !.length = ContentLength(form)]
  <2>1. Inv'
    BY <1>1, <1>3, OpenKeeps
  <2>2. /\ op'.pc \notin {"upload", "tail"} /\ Bounded(peer') /\ peer'.body = 0
        /\ hist'.opens <= MaxOpens /\ hist'.closes <= MaxCloses
    BY <1>1, <1>3, CallIs DEF IInv, CountInv
  <2>3. CountInv'
    BY <1>1, <2>2 DEF IInv, CountInv, Bounded
  <2> DEFINE parts == PartsOf(form)
             length == ContentLength(form)
  <2>4. form \in Seq(Nat)
    BY FormsAssumption
  <2>5. PICK n \in Nat : /\ Amounts(parts, n) /\ Len(parts) > 0
                         /\ length = n + FileSize + TailSize
    BY <2>4, LengthIsOfParts
  <2>6. up' = [up EXCEPT !.pc = "opening", !.parts = parts, !.length = length]
    BY <1>3
  <2> HIDE DEF parts, length
  <2>a. parts \in Seq(Nat)
    BY <2>5 DEF Amounts
  <2>b. length \in Nat
    BY <1>b, <2>5
  <2>7. parts \in Seq(Nat) /\ length \in Nat
    BY <2>a, <2>b
  <2>8. /\ up' \in Uploads /\ up'.pc = "opening" /\ up'.parts = parts
        /\ up'.length = length /\ up'.written = 0
    BY <1>1, <2>6, <2>7 DEF Uploads, UploadPcs
  <2>9. Written(up, peer.body)'
    <3>1. PICK g : Sums(g, parts) /\ g[Len(parts)] = n
      BY <2>5 DEF Amounts
    <3>2. g[0] = 0
      BY <3>1 DEF Sums
    <3> QED
      BY <2>2, <2>5, <2>8, <3>1, <3>2 DEF Written
  <2>10. 0 <= Len(parts) /\ 0 < Len(parts)
    BY <1>c, <2>5, <2>7, PartIs
  <2>11. UploadInv'
    BY <2>2, <2>8, <2>9, <2>10 DEF UploadInv
  <2> QED
    BY <2>1, <2>3, <2>11 DEF IInv
<1> QED
  BY <1>2, <1>3 DEF UploadOpen

(* The caller writes the file. *)
LEMMA CallerWritesFile ==
  ASSUME IInv, WriteFile
  PROVE  IInv'
<1> USE UploadKnown DEF At
<1>1. op.pc = "idle" /\ up.pc = "file" /\ UNCHANGED <<setup, st, op, hist>>
  BY DEF WriteFile
<1>2. op.call = "open"
  BY <1>1 DEF Inv, Place, Resting
<1>3. peer.body + FileSize + TailSize = up.length /\ up.written <= Len(up.parts)
  BY <1>1 DEF IInv, UploadInv
<1>4. CASE peer' = [peer EXCEPT !.body = @ + FileSize] /\ up' = [up EXCEPT !.pc = "tail"]
  <2>1. SamePeer /\ peer'.body = peer.body + FileSize /\ peer'.continues = peer.continues
    BY <1>4
  <2>2. Inv'
    BY <1>1, <1>2, <2>1, RestKeeps DEF Resting
  <2>3. CountInv'
    BY <1>1, <2>1 DEF IInv, CountInv, Bounded
  <2>4. /\ up' \in Uploads /\ up'.pc = "tail" /\ up'.parts = up.parts
        /\ up'.written = up.written /\ up'.length = up.length
    BY <1>4 DEF Uploads, UploadPcs
  <2>5. peer'.body + TailSize = up'.length
    BY <1>3, <2>1, <2>4
  <2>6. UploadInv'
    BY <1>1, <1>3, <2>4, <2>5 DEF UploadInv
  <2> QED
    BY <2>2, <2>3, <2>6 DEF IInv
<1>5. CASE up' = [up EXCEPT !.pc = "done"] /\ UNCHANGED peer
  <2>1. Inv'
    BY <1>1, <1>2, <1>5, RestKeeps DEF Resting
  <2>2. CountInv'
    BY <1>1, <1>5 DEF IInv, CountInv
  <2>3. up' \in Uploads /\ up'.pc = "done" /\ up'.parts = up.parts /\ up'.written = up.written
    BY <1>5 DEF Uploads, UploadPcs
  <2>4. UploadInv'
    BY <1>1, <1>3, <2>3 DEF UploadInv
  <2> QED
    BY <2>1, <2>2, <2>4 DEF IInv
<1> QED
  BY <1>4, <1>5 DEF WriteFile

(* A receive_header begins: blocking, or after the last write. *)
LEMMA ReceiveKeeps ==
  ASSUME IInv, op.pc = "idle", up.pc = "tail", UNCHANGED <<setup, st>>,
         hist' = NewCall("receive"), peer' \in Peers, peer'.sent = peer.sent,
         peer'.granted = peer.granted, peer'.tls = peer.tls,
         peer.lost => peer'.lost, peer'.continues = peer.continues,
         op' \in Operations,
         \/ Sync /\ op'.pc = "s_status"
         \/ ~Sync /\ op'.pc = "tail" /\ op'.call = "open"
  PROVE  Inv' /\ CountInv'
<1>1. Inv
  BY DEF IInv
<1>2. /\ hist' \in Histories /\ hist'.call = "receive" /\ hist'.ec = "none"
      /\ hist'.followed = 0 /\ hist'.inherited = st.redirects /\ hist'.closed = "no"
      /\ hist'.closes = hist.closes /\ hist'.opens = hist.opens
  BY <1>1, NewCallIs
<1>3. Members'
  BY <1>1, <1>2 DEF Inv, Members
<1>4. Place'
  BY <1>2 DEF Place, BlockingPcs, BlockingProxyPcs, HandlerPcs, ProxyPcs, Resting, At, Sync
<1>5. TunnelInv'
  <2>1. Through(peer)'
    BY <1>1 DEF Inv, TunnelInv, Through, Tunnelled, ViaProxy, Sync
  <2>2. (st.url = "https" => st.sock = "tls")'
    BY <1>1 DEF Inv, TunnelInv
  <2> QED
    BY <2>1, <2>2 DEF TunnelInv, MayWait, BlockingProxyPcs, ProxyPcs
<1>6. ResultInv'
  <2>1. 0 <= MaxRedirects /\ st.redirects = 0 + st.redirects
    BY <1>1, Known, BoundsAssumption DEF StreamMembers
  <2>2. (Finished("open") \/ Finished("receive") => Truth(hist.ec, st, peer))'
    BY DEF Finished, At
  <2> QED
    BY <1>2, <2>1, <2>2 DEF ResultInv
<1>7. CloseInv'
  BY <1>2 DEF CloseInv, CloseStops, Finished, StandsOpen, HasSocket, StaysStopped,
              Stoppable
<1>8. CountInv'
  BY <1>2 DEF IInv, CountInv, Bounded
<1> QED
  BY <1>3, <1>4, <1>5, <1>6, <1>7, <1>8 DEF Inv

(* write_tail(). *)
LEMMA CallerWritesTail ==
  ASSUME IInv, WriteTail
  PROVE  IInv'
<1>0. peer.body \in Nat /\ peer.body + TailSize \in Nat
  <2>1. peer.body \in Nat /\ TailSize \in Nat
    BY UploadKnown
  <2> QED
    BY <2>1
<1> USE UploadKnown DEF At
<1>1. PICK torn \in IF IsOpen(st) THEN BOOLEAN ELSE {TRUE} :
        /\ peer' = [peer EXCEPT !.body = IF torn THEN @ ELSE @ + TailSize,
                                !.lost = @ \/ ~IsOpen(st)]
        /\ up' = [up EXCEPT !.pc = "receiving", !.torn = torn]
  BY DEF WriteTail
<1>2. /\ op.pc = "idle" /\ up.pc = "tail" /\ UNCHANGED <<setup, st>> /\ Sync
      /\ hist' = NewCall("receive")
      /\ op' = [Idle EXCEPT !.pc = "s_status", !.call = "receive"]
  BY DEF WriteTail
<1>3. torn \in BOOLEAN
  OBVIOUS
<1> DEFINE body == IF torn THEN peer.body ELSE peer.body + TailSize
           lost == peer.lost \/ ~IsOpen(st)
<1>a. lost \in BOOLEAN /\ (peer.lost => lost)
  BY DEF Peers
<1>b. body \in Nat
  BY <1>0, <1>3
<1>4. body \in Nat /\ lost \in BOOLEAN /\ (peer.lost => lost)
  BY <1>a, <1>b
<1>5. peer' = [peer EXCEPT !.body = body, !.lost = lost]
  BY <1>1
<1> HIDE DEF body, lost
<1>6. /\ peer' \in Peers /\ peer'.sent = peer.sent /\ peer'.granted = peer.granted
      /\ peer'.tls = peer.tls /\ peer'.lost = lost /\ peer'.continues = peer.continues
      /\ peer'.body = body
  BY <1>4, <1>5 DEF Peers
<1>7. op' \in Operations /\ op'.pc = "s_status"
  BY <1>2, IdleIs DEF Operations, Pcs, BlockingPcs
<1>8. Inv' /\ CountInv'
  BY <1>2, <1>4, <1>6, <1>7, ReceiveKeeps
<1>9. /\ up' \in Uploads /\ up'.pc = "receiving" /\ up'.parts = up.parts
      /\ up'.written = up.written /\ up'.length = up.length /\ (up'.torn <=> torn)
  BY <1>1, <1>3 DEF Uploads, UploadPcs
<1>10. up.written <= Len(up.parts) /\ peer.body + TailSize = up.length
  BY <1>2 DEF IInv, UploadInv
<1>11. Ends(up, peer.body, hist.followed)'
  BY <1>6, <1>9, <1>10 DEF Ends, body
<1>12. UploadInv'
  BY <1>7, <1>9, <1>10, <1>11 DEF UploadInv
<1> QED
  BY <1>8, <1>12 DEF IInv

(* async_write_tail(). *)
LEMMA CallerStartsTail ==
  ASSUME IInv, AsyncWriteTail
  PROVE  IInv'
<1> USE UploadKnown DEF At
<1>1. /\ op.pc = "idle" /\ up.pc = "tail" /\ UNCHANGED <<setup, st, peer>> /\ ~Sync
      /\ hist' = NewCall("receive")
      /\ op' = [Idle EXCEPT !.pc = "tail", !.live = IsOpen(st)]
      /\ up' = [up EXCEPT !.pc = "receiving"]
  BY DEF AsyncWriteTail
<1>2. op' \in Operations /\ op'.pc = "tail" /\ op'.call = "open"
  BY <1>1, IdleIs DEF Operations, Pcs, HandlerPcs
<1>3. Inv' /\ CountInv'
  BY <1>1, <1>2, ReceiveKeeps
<1>4. /\ up' \in Uploads /\ up'.pc = "receiving" /\ up'.parts = up.parts
      /\ up'.written = up.written /\ up'.length = up.length
  BY <1>1 DEF Uploads, UploadPcs
<1>5. up.written <= Len(up.parts) /\ peer.body + TailSize = up.length
  BY <1>1 DEF IInv, UploadInv
<1>6. UploadInv'
  BY <1>1, <1>2, <1>4, <1>5 DEF UploadInv
<1> QED
  BY <1>3, <1>6 DEF IInv

-----------------------------------------------------------------------------
(* The invariant holds at first. *)
LEMMA InitIInv == Init => IInv
<1> SUFFICES ASSUME Init
             PROVE  IInv
  OBVIOUS
<1>1. /\ setup \in Setups /\ setup \in Setup
      /\ st = NewStream /\ op = Idle /\ peer = NewPeer /\ hist = NewHistory /\ up = NewUpload
  BY SetupsAssumption DEF Init, StreamInit
<1>2. /\ MaxRedirects \in Nat /\ MaxContinues \in Nat /\ MaxOpens \in Nat /\ MaxCloses \in Nat
      /\ 0 \in 0 .. MaxRedirects
  BY BoundsAssumption
<1>3. st \in StreamMembers
  BY <1>1, <1>2 DEF NewStream, StreamMembers, SocksPlaces
<1>4. op \in Operations /\ op.pc = "idle" /\ op.call = "open"
  BY <1>1, IdleIs
<1>5. peer \in Peers /\ peer.sent = {} /\ peer.continues = 0
  BY <1>1 DEF NewPeer, Peers
<1>6. /\ hist \in Histories /\ hist.call = "none" /\ hist.followed = 0 /\ hist.closed = "no"
      /\ hist.opens = 0 /\ hist.closes = 0
  BY <1>1 DEF NewHistory, Histories, Codes
<1>7. Members
  BY <1>1, <1>3, <1>4, <1>5, <1>6 DEF Members
<1>8. Place
  BY <1>4 DEF Place, BlockingPcs, BlockingProxyPcs, HandlerPcs, ProxyPcs, At
<1>9. TunnelInv
  BY <1>1, <1>4, <1>5 DEF TunnelInv, Through, MayWait, BlockingProxyPcs, ProxyPcs, NewStream
<1>10. ResultInv
  BY <1>2, <1>4, <1>6 DEF ResultInv, Finished, Resting
<1>11. CloseInv
  BY <1>4, <1>6 DEF CloseInv, CloseStops, Finished, StandsOpen, HasSocket, StaysStopped,
                    Stoppable
<1>12. CountInv
  BY <1>1, <1>2, <1>5, <1>6 DEF CountInv, Bounded
<1>13. UploadInv
  <2>1. /\ up \in Uploads /\ up.pc = "no" /\ up.written = 0 /\ Len(up.parts) = 0
    BY <1>1 DEF NewUpload, Uploads, UploadPcs
  <2> QED
    BY <1>4, <2>1 DEF UploadInv, At
<1> QED
  BY <1>7, <1>8, <1>9, <1>10, <1>11, <1>12, <1>13 DEF IInv, Inv

(* Every step keeps it. *)
LEMMA NextIInv == IInv /\ [Next]_vars => IInv'
<1> SUFFICES ASSUME IInv, [Next]_vars
             PROVE  IInv'
  OBVIOUS
<1>1. CASE StreamActs
  BY <1>1, StreamKeeps DEF StreamActs
<1>2. CASE EndlessRead /\ UNCHANGED up
  BY <1>2, StreamKeeps
<1>3. CASE UploadStep
  BY <1>3, OpenedKeeps, PartKeeps, TailKeeps DEF UploadStep
<1>4. CASE CallerStep
  <2>1. ASSUME up.pc = "no", NEW scheme \in Schemes, Open(scheme), UNCHANGED up
        PROVE  IInv'
    BY <2>1, CallerOpens
  <2>2. CASE (CloseIdle \/ Close) /\ UNCHANGED up
    BY <2>2, CallerCloses
  <2>3. ASSUME NEW scheme \in Schemes, NEW form \in Forms, UploadOpen(scheme, form)
        PROVE  IInv'
    BY <2>3, CallerUploads
  <2> QED
    BY <1>4, <2>1, <2>2, <2>3, CallerWritesFile, CallerWritesTail, CallerStartsTail
       DEF CallerStep
<1>5. CASE UNCHANGED vars
  BY <1>5 DEF vars, IInv, Inv, Members, Place, TunnelInv, ResultInv, CloseInv, UploadInv,
     CountInv, At, Sync, Through, Tunnelled, ViaProxy, MayWait, Finished, Truth, CloseStops,
     StandsOpen, HasSocket, StaysStopped, Stoppable, Second, Stopped, IsOpen, Bounded, Written,
     Ends
<1> QED
  BY <1>1, <1>2, <1>3, <1>4, <1>5 DEF Next

(* The invariant of an http_stream with its callers: its members and the   *)
(* places of an operation fit each other, a request is behind a tunnel, every *)
(* result is true, what close() stopped stays stopped, and an upload has   *)
(* sent so far what it has announced.                                      *)
THEOREM StreamInvariant == Spec => []IInv
<1>1. Init => IInv
  BY InitIInv
<1>2. IInv /\ [Next]_vars => IInv'
  BY NextIInv
<1> QED
  BY <1>1, <1>2, PTL DEF Spec

(* request: a request is only written over the connection that was asked   *)
(* for, granted by the proxy and encrypted for an https url.               *)
THEOREM RequestsGoThrough == Spec => []RequestThroughTunnel
<1>1. IInv => RequestThroughTunnel
  BY DEF IInv, Inv, TunnelInv, Through, Tunnelled, RequestThroughTunnel
<1> QED
  BY <1>1, StreamInvariant, PTL

(* The result of open and receive_header is what happened. *)
THEOREM ResultsAreTrue == Spec => []ResultIsTrue
<1>1. IInv => ResultIsTrue
  BY DEF IInv, Inv, ResultInv, Truth, ResultIsTrue
<1> QED
  BY <1>1, StreamInvariant, PTL

(* close() ends an asynchronous open whose connection stands. *)
THEOREM ClosesStop == Spec => []CloseStops
<1>1. IInv => CloseStops
  BY DEF IInv, Inv, CloseInv
<1> QED
  BY <1>1, StreamInvariant, PTL

(* An upload that succeeds has sent what it announced. *)
THEOREM UploadsAreWhole == Spec => []UploadIsWhole
<1>1. IInv => UploadIsWhole
  BY DEF IInv, UploadInv, Ends, UploadIsWhole, At
<1> QED
  BY <1>1, StreamInvariant, PTL

(* The members, the counts and the upload have their types. *)
THEOREM StreamTypeCorrect == Spec => []TypeOK
<1>1. ASSUME IInv
      PROVE  TypeOK
  <2>1. setup \in Setups /\ hist.opens <= MaxOpens /\ hist.closes <= MaxCloses
          /\ peer.continues <= MaxContinues /\ up \in Uploads /\ up.written <= Len(up.parts)
    BY <1>1 DEF IInv, CountInv, UploadInv, Bounded
  <2>2. st \in StreamMembers /\ op \in Operations /\ peer \in Peers /\ hist \in Histories
    BY <1>1, UploadKnown
  <2>3. /\ st.sock \in {"none", "plain", "tls"} /\ st.redirects \in 0 .. MaxRedirects
        /\ st.location \in Locations \cup {"none"} /\ st.status_code \in Statuses \cup {0}
    BY <2>2 DEF StreamMembers
  <2>4. op.endpoints \in 0 .. MaxEndpoints /\ op.live \in BOOLEAN
    BY <2>2 DEF Operations
  <2>5. peer.continues \in 0 .. MaxContinues /\ peer.body \in Nat
    BY <2>1, <2>2, BoundsAssumption DEF Peers
  <2>6. hist.opens \in 0 .. MaxOpens /\ hist.closes \in 0 .. MaxCloses
    BY <2>1, <2>2, BoundsAssumption DEF Histories
  <2>7. up.pc \in UploadPcs /\ up.parts \in Seq(Nat) /\ up.written \in Nat
    BY <2>1 DEF Uploads
  <2>8. Len(up.parts) \in Nat
    BY <2>7, PartIs
  <2>9. up.written \in 0 .. Len(up.parts)
    BY <2>1, <2>7, <2>8
  <2> QED
    BY <2>1, <2>3, <2>4, <2>5, <2>6, <2>7, <2>9 DEF TypeOK, UploadPcs
<1> QED
  BY <1>1, StreamInvariant, PTL
=============================================================================
