--------------------------- MODULE ProxyHandshake ---------------------------
(***************************************************************************)
(* From the name of a proxy to a connection through it: socks4 and socks5, *)
(* and the CONNECT request for an https url behind an http proxy.  Each of *)
(* them exists twice, as a blocking call and as a chain of handlers, and   *)
(* ends at "request" (asynchronous) or "s_request" (blocking).             *)
(***************************************************************************)
EXTENDS HttpConnection

(* What a proxy may answer.  A "name" is followed by more to read, a       *)
(* "short name" has less than the three bytes that are taken off it.       *)
SocksMethods  == {"none", "password", "other", "bad version"}
Socks5Replies == {"ipv4", "name", "short name", "ipv6", "refused", "bad version"}
Socks4Replies == {"granted", "refused"}
Statuses      == {100, 200, 302, 404}
Locations     == Schemes \cup {"bad"}

(* A reply that grants the connection. *)
Grants(reply) == reply \in {"ipv4", "name", "short name", "granted"}

(* The error that a refusal is reported as. *)
Refusal(reply) ==
  IF reply = "ipv6" THEN "address_family_not_supported"
  ELSE IF reply = "bad version" THEN "socks_unsupported_version"
  ELSE "socks_general_failure"

-----------------------------------------------------------------------------
(* socks_proxy_connect and socks_proxy_handshake: blocking. *)

(* Resolve the proxy and try its addresses, each on a new socket. *)
SocksProxyResolve ==
  /\ At("s_socks_resolve")
  /\ \E n \in Resolutions :
       IF n = 0 THEN Done("host_not_found", st) ELSE AwaitConnect("s_socks_connect", n - 1)
  /\ UNCHANGED <<setup, peer>>

SocksProxyConnect ==
  /\ At("s_socks_connect")
  /\ \/ Await(IF setup.proxy = "socks4" THEN "s_socks4" ELSE "s_socks_version", st)
     \/ op.endpoints > 0 /\ AwaitConnect("s_socks_connect", op.endpoints - 1)
     \/ op.endpoints = 0 /\ Done("refused", st)
  /\ UNCHANGED <<setup, peer>>

(* The greeting and its answer.  Any method but the two known ones is      *)
(* taken for the answer to a user name.                                    *)
SocksVersion ==
  /\ At("s_socks_version")
  /\ \/ Done("lost", st) /\ UNCHANGED peer
     \/ \E method \in SocksMethods :
          /\ Send("greeting")
          /\ CASE method = "bad version" -> Done("socks_unsupported_version", st)
               [] method = "none"        -> Await("s_socks_request", st)
               [] method = "other"       -> Done("socks_unsupported_authentication_version", st)
               [] method = "password"    ->
                    IF setup.username THEN Await("s_socks_auth", st)
                    ELSE Done("socks_username_required", st)
  /\ UNCHANGED setup

SocksAuth ==
  /\ At("s_socks_auth")
  /\ \/ Done("lost", st) /\ UNCHANGED peer
     \/ \E ec \in {"none", "socks_unsupported_authentication_version",
                   "socks_authentication_error"} :
          /\ Send("userinfo")
          /\ IF ec = "none" THEN Await("s_socks_request", st) ELSE Done(ec, st)
  /\ UNCHANGED setup

(* After the handshake: TLS for an https url, then the request. *)
SyncTunnelReady(s) ==
  Await(IF s.protocol = "https" THEN "s_handshake" ELSE "s_request", s)

(* The reply is looked at whether or not it was read: when it was not, the *)
(* bytes are those the buffer held before.  The error of the second read   *)
(* is dropped too; of a short name it asks for more than a buffer holds.   *)
SocksReply(reply) ==
  CASE reply \in {"ipv4", "name", "granted"} -> SyncTunnelReady(st)
    [] reply = "short name" -> Done("length_error", st)
    [] OTHER -> Done(Refusal(reply), st)

SocksProxyHandshake ==
  /\ At("s_socks_request") \/ At("s_socks4")
  /\ \/ Done("lost", st) /\ UNCHANGED peer
     \/ At("s_socks4") /\ Done("host_not_found", st) /\ UNCHANGED peer
     \/ \E reply \in IF At("s_socks4") THEN Socks4Replies ELSE Socks5Replies,
           lost \in BOOLEAN :
          /\ SocksReply(reply)
          /\ peer' = [peer EXCEPT !.sent = @ \cup {"connect"}, !.lost = lost,
                                  !.granted = Grants(reply) /\ ~lost]
  /\ UNCHANGED setup

SyncHandshake ==
  /\ At("s_handshake")
  /\ \/ Done("lost", st) /\ UNCHANGED peer
     \/ ~peer.lost /\ Await("s_request", st) /\ peer' = [peer EXCEPT !.tls = TRUE]
  /\ UNCHANGED setup

-----------------------------------------------------------------------------
(* async_request, which every asynchronous handshake ends with. *)
WriteRequest(s) == Await("request", s)
AsyncRequest(s) ==
  IF IsOpen(s) THEN WriteRequest(s) ELSE Done("network_reset", s)

-----------------------------------------------------------------------------
(* async_socks_proxy_connect, whose first step is "socks_resolve", and its  *)
(* handlers.                                                               *)

(* The host of a socks4 request is known. *)
Socks4HostResolved ==
  /\ Await("socks_process", [st EXCEPT !.proxy_status = "socks_send_version"])
  /\ Send("connect")

(* Of the proxy, and for socks4 of the host.  A resolver knows nothing of  *)
(* a close.                                                                *)
AsyncSocksProxyResolve ==
  /\ At("socks_resolve")
  /\ \E n \in Resolutions :
       IF n = 0 THEN Done("host_not_found", st) /\ UNCHANGED peer
       ELSE IF st.proxy_status = "socks_proxy_resolve"
       THEN /\ st' = [SetOpen(st, TRUE) EXCEPT !.proxy_status = "socks_connect_proxy"]
            /\ op' = [op EXCEPT !.pc = "socks_connect", !.live = TRUE, !.endpoints = n - 1]
            /\ UNCHANGED <<peer, hist>>
       ELSE Socks4HostResolved
  /\ UNCHANGED setup

(* An attempt that failed, for whatever reason, is followed by the next. *)
HandleConnectSocks ==
  /\ At("socks_connect")
  /\ \E ec \in ConnectOutcomes :
       IF ec # "ok"
       THEN /\ IF op.endpoints = 0 THEN Done(ec, st)
               ELSE AwaitConnect("socks_connect", op.endpoints - 1)
            /\ UNCHANGED peer
       ELSE IF setup.proxy = "socks5"
       THEN /\ Await("socks_process", [st EXCEPT !.proxy_status = "socks_send_version"])
            /\ Send("greeting")
       ELSE /\ Await("socks_resolve", [st EXCEPT !.proxy_status = "socks4_resolve_host"])
            /\ UNCHANGED peer
  /\ UNCHANGED setup

(* handle_socks_process: a step it takes in state status when the write or *)
(* the read before succeeded.                                              *)
InProcess(status) == At("socks_process") /\ st.proxy_status = status
Process(status) == InProcess(status) /\ "ok" \in ReadOutcomes
Enter(status) == Await("socks_process", [st EXCEPT !.proxy_status = status])

ProcessError ==
  /\ At("socks_process")
  /\ \E ec \in ReadOutcomes \ {"ok"} : Done(ec, st)
  /\ UNCHANGED <<setup, peer>>

VersionSent ==
  /\ Process("socks_send_version")
  /\ Enter(IF setup.proxy = "socks4" THEN "socks4_response" ELSE "socks5_response_version")
  /\ UNCHANGED <<setup, peer>>

(* socks5_connect_request, which its callers enter at once. *)
SendConnectRequest ==
  /\ Enter("socks5_connect_response")
  /\ Send("connect")

(* For a method that is not known nothing is started and nobody called. *)
ResponseVersion ==
  /\ Process("socks5_response_version")
  /\ \E method \in SocksMethods :
       \/ /\ method = "bad version"
          /\ Done("socks_unsupported_version", st) /\ UNCHANGED peer
       \/ /\ method = "password" /\ ~setup.username
          /\ Done("socks_username_required", st) /\ UNCHANGED peer
       \/ /\ method = "password" /\ setup.username
          /\ Enter("socks5_send_userinfo") /\ Send("userinfo")
       \/ method = "none" /\ SendConnectRequest
       \/ method = "other" /\ Await("forgotten", st) /\ UNCHANGED peer
  /\ UNCHANGED setup

UserinfoSent ==
  /\ Process("socks5_send_userinfo")
  /\ Enter("socks5_auth_status")
  /\ UNCHANGED <<setup, peer>>

AuthStatus ==
  /\ Process("socks5_auth_status")
  /\ \/ SendConnectRequest
     \/ /\ \E ec \in {"socks_unsupported_authentication_version",
                      "socks_authentication_error"} : Done(ec, st)
        /\ UNCHANGED peer
  /\ UNCHANGED setup

ConnectSent ==
  /\ Process("socks5_connect_response")
  /\ Enter("socks5_result")
  /\ UNCHANGED <<setup, peer>>

(* TLS for an https url, then the request.  close() clears m_protocol. *)
AsyncTunnelReady ==
  IF st.protocol = "https" THEN Enter("ssl_handshake") ELSE AsyncRequest(st)

Granted == peer' = [peer EXCEPT !.granted = TRUE]

Socks5Result ==
  /\ Process("socks5_result")
  /\ \E reply \in Socks5Replies :
       \/ reply = "ipv4" /\ AsyncTunnelReady /\ Granted
       \/ reply = "name" /\ Enter("socks5_read_domainname") /\ Granted
       \/ reply = "short name" /\ Await("endless_read", st) /\ Granted
       \/ /\ ~Grants(reply)
          /\ Done(IF reply = "bad version" THEN "socks_general_failure" ELSE Refusal(reply), st)
          /\ UNCHANGED peer
  /\ UNCHANGED setup

ReadDomainname ==
  /\ Process("socks5_read_domainname")
  /\ AsyncTunnelReady
  /\ UNCHANGED <<setup, peer>>

(* Mutant of Socks4Response: the reply is not looked at. *)
Socks4ResponseAny ==
  /\ Process("socks4_response")
  /\ \E reply \in Socks4Replies :
       AsyncTunnelReady /\ peer' = [peer EXCEPT !.granted = Grants(reply)]
  /\ UNCHANGED setup

Socks4Response ==
  /\ Process("socks4_response")
  /\ \E reply \in Socks4Replies :
       IF Grants(reply) THEN AsyncTunnelReady /\ Granted
       ELSE Done(Refusal(reply), st) /\ UNCHANGED peer
  /\ UNCHANGED setup

SslHandshake ==
  /\ Process("ssl_handshake")
  /\ AsyncRequest(st)
  /\ peer' = [peer EXCEPT !.tls = TRUE]
  /\ UNCHANGED setup

-----------------------------------------------------------------------------
(* https_proxy_connect: blocking. *)

HttpsProxyResolve ==
  /\ At("s_https_resolve")
  /\ \E n \in Resolutions :
       IF n = 0 THEN Done("host_not_found", st) ELSE AwaitConnect("s_https_connect", n - 1)
  /\ UNCHANGED <<setup, peer>>

HttpsProxyConnect ==
  /\ At("s_https_connect")
  /\ \/ Await("s_https_status", st)
     \/ op.endpoints > 0 /\ AwaitConnect("s_https_connect", op.endpoints - 1)
     \/ op.endpoints = 0 /\ Done("refused", st)
  /\ UNCHANGED <<setup, peer>>

(* The status line of the answer to CONNECT.  The empty line after a 100,  *)
(* which comes with it, is taken for the next status line: the code is set *)
(* to 0 and the line is malformed.                                         *)
HttpsProxyStatus ==
  /\ At("s_https_status")
  /\ \/ Done("lost", st) /\ UNCHANGED peer
     \/ \E status \in Statuses :
          /\ peer' = [peer EXCEPT !.sent = @ \cup {"connect"},
                                  !.odd = IF status = 100 THEN @ \cup {"continue"} ELSE @]
          /\ IF status = 100
             THEN Done("malformed_status_line", [st EXCEPT !.status_code = 0])
             ELSE Await("s_https_header", [st EXCEPT !.status_code = status])
     \/ Done("malformed_status_line", [st EXCEPT !.status_code = 0]) /\ peer' = [peer EXCEPT !.odd = @ \cup {"status"}]
  /\ UNCHANGED setup

(* The header, up to an empty line that follows another: an answer without *)
(* any field has none.                                                     *)
HttpsProxyHeader ==
  /\ At("s_https_header")
  /\ \/ \E ec \in {"lost", "malformed_response_headers"} : Done(ec, st) /\ UNCHANGED peer
     \/ \E location \in Locations \cup {st.location} :
          /\ st.status_code = 302
          /\ Done("302", [st EXCEPT !.location = location]) /\ UNCHANGED peer
     \/ st.status_code = 404 /\ Done("404", st) /\ UNCHANGED peer
     \/ st.status_code = 200 /\ Await("s_handshake", st) /\ Granted
     \/ Await("endless_read", st) /\ peer' = [peer EXCEPT !.odd = @ \cup {"no fields"}]
  /\ UNCHANGED setup

-----------------------------------------------------------------------------
(* async_https_proxy_connect and its handlers. *)

AsyncHttpsProxyResolve ==
  /\ At("https_resolve")
  /\ \E n \in Resolutions :
       IF n = 0 THEN Done("host_not_found", st) ELSE AwaitConnect("https_connect", n - 1)
  /\ UNCHANGED <<setup, peer>>

HandleConnectHttpsProxy ==
  /\ At("https_connect")
  /\ \E ec \in ConnectOutcomes :
       IF ec = "ok" THEN Await("https_request", st) /\ Send("connect")
       ELSE /\ IF op.endpoints = 0 THEN Done(ec, st)
               ELSE AwaitConnect("https_connect", op.endpoints - 1)
            /\ UNCHANGED peer
  /\ UNCHANGED setup

HandleHttpsProxyRequest ==
  /\ At("https_request")
  /\ \E ec \in Outcomes :
       IF ec = "ok" THEN Await("https_status", st) ELSE Done(ec, st)
  /\ UNCHANGED <<setup, peer>>

HandleHttpsProxyStatus ==
  /\ At("https_status")
  /\ \/ \E ec \in ReadOutcomes \ {"ok"} : Done(ec, st) /\ UNCHANGED peer
     \/ /\ "ok" \in ReadOutcomes
        /\ \/ \E status \in Statuses :
                /\ peer' = [peer EXCEPT !.odd = IF status = 100 THEN @ \cup {"continue"} ELSE @]
                /\ IF status = 100
                   THEN Done("malformed_status_line", [st EXCEPT !.status_code = 0])
                   ELSE Await("https_header", [st EXCEPT !.status_code = status])
           \/ /\ Done("malformed_status_line", [st EXCEPT !.status_code = 0])
              /\ peer' = [peer EXCEPT !.odd = @ \cup {"status"}]
  /\ UNCHANGED setup

HandleHttpsProxyHeader ==
  /\ At("https_header")
  /\ \/ \E ec \in ReadOutcomes \ {"ok"} : Done(ec, st) /\ UNCHANGED peer
     \/ /\ "ok" \in ReadOutcomes
        /\ \/ Done("malformed_response_headers", st) /\ UNCHANGED peer
           \/ \E location \in Locations \cup {st.location} :
                /\ st.status_code = 302
                /\ Done("302", [st EXCEPT !.location = location]) /\ UNCHANGED peer
           \/ st.status_code = 404 /\ Done("404", st) /\ UNCHANGED peer
           \/ st.status_code = 200 /\ Await("https_handshake", st) /\ Granted
           \/ Await("endless_read", st) /\ peer' = [peer EXCEPT !.odd = @ \cup {"no fields"}]
  /\ UNCHANGED setup

HandleHttpsProxyHandshake ==
  /\ At("https_handshake")
  /\ \E ec \in ReadOutcomes :
       IF ec = "ok" THEN AsyncRequest(st) /\ peer' = [peer EXCEPT !.tls = TRUE]
       ELSE Done(ec, st) /\ UNCHANGED peer
  /\ UNCHANGED setup

-----------------------------------------------------------------------------
(* A read of more than the peer has to send: only the end of the           *)
(* connection ends it.                                                     *)
EndlessRead ==
  /\ At("endless_read")
  /\ \E ec \in Outcomes \ {"ok"} : Done(ec, st)
  /\ UNCHANGED <<setup, peer>>

SyncProxyStep ==
  \/ SocksProxyResolve \/ SocksProxyConnect \/ SocksVersion \/ SocksAuth
  \/ SocksProxyHandshake \/ SyncHandshake
  \/ HttpsProxyResolve \/ HttpsProxyConnect \/ HttpsProxyStatus \/ HttpsProxyHeader

SocksStep ==
  \/ AsyncSocksProxyResolve \/ HandleConnectSocks \/ ProcessError \/ VersionSent
  \/ ResponseVersion \/ UserinfoSent \/ AuthStatus \/ ConnectSent \/ Socks5Result
  \/ ReadDomainname \/ Socks4Response \/ SslHandshake

HttpsProxyStep ==
  \/ AsyncHttpsProxyResolve \/ HandleConnectHttpsProxy \/ HandleHttpsProxyRequest
  \/ HandleHttpsProxyStatus \/ HandleHttpsProxyHeader \/ HandleHttpsProxyHandshake

ProxyStep == SyncProxyStep \/ SocksStep \/ HttpsProxyStep
=============================================================================
