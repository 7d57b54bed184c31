------------------------------- MODULE MCWire -------------------------------
(***************************************************************************)
(* The three readers that put together what arrives in pieces, on small    *)
(* instances: WebSocket and Socks5 read a stream, the console of           *)
(* AuditChain a file that grows.  A behaviour is one of one of them.       *)
(***************************************************************************)
EXTENDS WebSocket, MCSocks5, MCAuditChain

VARIABLE side

UpTo3 == 0..3
Bits == INSTANCE Bitwise
XorOf(a, b) == Bits!^^(a, b)
ThreeLengths == {<<>>, <<2, 3, 1>>, <<3, 1, 2, 3, 0>>}
OneMask == {<<1, 2>>}

wireVars == <<side, wsVars, socksVars, vars>>

WireInit ==
  /\ side \in {"websocket", "socks", "log"}
  /\ WsInit /\ SocksInit /\ Init
  /\ side # "socks" => body = <<>> /\ ~chunked

Socks(A) == side = "socks" /\ A /\ UNCHANGED <<side, wsVars, vars>>
Log(A) == side = "log" /\ A /\ UNCHANGED <<side, wsVars, socksVars>>

WireNext ==
  \/ side = "websocket" /\ WsNext /\ UNCHANGED <<side, socksVars, vars>>
  \/ Socks(SocksNext)
  \/ Log(Next)

(* A timer that is set fires unless it is cleared first; AuditChain's      *)
(* fairness is the one it states.                                          *)
WireSpec ==
  /\ WireInit /\ [][WireNext]_wireVars
  /\ WF_wireVars(Socks(HandshakeTimeout)) /\ WF_wireVars(Socks(RequestTimeout))
  /\ WF_wireVars(Log(Stat)) /\ WF_wireVars(Log(ReadFresh))

(* Every request over SOCKS is resolved or rejected in the end, whatever   *)
(* the proxy and the server do not say, because the timer of each phase is *)
(* set when the phase begins (socks5.js:13, 67).                           *)
SocksSettles == side = "socks" => RequestSettles

(* Every line of the log comes to be shown.                                *)
LogCatchesUp == side = "log" => ConsoleCatchesUp
=============================================================================
