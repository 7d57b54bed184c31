------------------------------- MODULE Socks5 -------------------------------
(***************************************************************************)
(* One request of the client in src/transport/socks5.js: the handshake     *)
(* with Tor's SOCKS proxy, then an HTTP exchange through the tunnel.  The  *)
(* proxy and the server behind it are external; what they send is a        *)
(* sequence of bytes that TCP cuts where it likes, and that may end        *)
(* anywhere or break off with an error.                                    *)
(*                                                                         *)
(* A byte is a token.  A character of the body is one byte, or two, Lead   *)
(* and Trail, that decode to Wide.  The status line and headers are one    *)
(* token, and so is the empty line after them.  Hex digits are in lower    *)
(* case, and no body has the other signs that parseInt takes: "+", "-",    *)
(* "0x" and blanks that are no part of a line break.                       *)
(***************************************************************************)
EXTENDS Naturals, Sequences, SequencesExt

CONSTANTS
  Bodies,        \* what the server may answer: the chunks of a body
  SizeLine(_),   \* how it writes the size of a chunk
  ReplyTail      \* how many bytes a SOCKS reply has after its code

VARIABLES
  stage,       \* of the handshake
  toProxy,     \* what the client has written: "greeting", "request", "http"
  arriving,    \* bytes under way to the client
  raw,         \* what request() has collected
  sock,        \* "open" or "destroyed"
  timers,      \* those that are set: connect()'s "handshake", "request"
  body,        \* the chunks the server answers with
  chunked,     \* whether it frames them
  ended,       \* the other end has ended the stream; early if it was cut
  outcome      \* of the promise: how it is settled, and the body

server == <<body, chunked>>
socksVars == <<stage, toProxy, arriving, raw, sock, timers, server, ended, outcome>>

Pending == [is |-> "pending", body |-> <<>>]
Rejects == [is |-> "rejected", body |-> <<>>]
Resolves(text) == [is |-> "resolved", body |-> text]

-----------------------------------------------------------------------------
(* raw.toString(): bytes to characters.  A byte of a wide character that   *)
(* has lost the other one is Broken, U+FFFD.                               *)

CR == "CR"
LF == "LF"
Lead == "lead"
Trail == "trail"
Wide == "wide"
Broken == "broken"

OneByteEach(s) == \A i \in DOMAIN s : s[i] \notin {Lead, Trail}

PairAt(s, i) == i \in 1..(Len(s) - 1) /\ s[i] = Lead /\ s[i + 1] = Trail

(* The characters that start with the i-th byte: one, or none.             *)
CharsAt(s, i) ==
  IF s[i] \notin {Lead, Trail} THEN <<s[i]>>
  ELSE IF PairAt(s, i) THEN <<Wide>>
  ELSE IF PairAt(s, i - 1) THEN <<>> ELSE <<Broken>>

Decoded(s) == FlattenSeq([i \in 1..Len(s) |-> CharsAt(s, i)])

-----------------------------------------------------------------------------
(* dechunk(): lines with a size, each followed by as many characters and   *)
(* another line break; 0, or what is no number, ends the body.             *)

HexDigits == <<"0", "1", "2", "3", "4", "5", "6", "7",
               "8", "9", "a", "b", "c", "d", "e", "f">>
IsDigit(t) == \E n \in 1..16 : HexDigits[n] = t
Digit(t) == (CHOOSE n \in 1..16 : HexDigits[n] = t) - 1

(* parseInt(line.trim(), 16): blanks, then digits as far as they go; here  *)
(* 0 stands for NaN too.                                                   *)
InNumber(line, k) ==
  \E h \in 0..(k - 1) : /\ \A g \in 1..h : line[g] \in {CR, LF}
                        /\ \A g \in (h + 1)..k : IsDigit(line[g])

SizeOf(line) ==
  LET upTo[k \in 0..Len(line)] ==
        IF k = 0 THEN 0
        ELSE IF InNumber(line, k) THEN (16 * upTo[k - 1]) + Digit(line[k])
        ELSE upTo[k - 1]
  IN upTo[Len(line)]

(* s.indexOf('\r\n', i), or 0.                                             *)
LineBreaks(s, i) == {j \in i..(Len(s) - 1) : s[j] = CR /\ s[j + 1] = LF}
LineEnd(s, i) == IF LineBreaks(s, i) = {} THEN 0
                 ELSE CHOOSE j \in LineBreaks(s, i) : \A k \in LineBreaks(s, i) : j <= k

SizeAt(s, i) == IF LineEnd(s, i) = 0 THEN 0 ELSE SizeOf(SubSeq(s, i, LineEnd(s, i) - 1))

Least(m, n) == IF m <= n THEN m ELSE n

(* faulty variant: the line break after a chunk is not skipped             *)
NextChunkNear(s, at, size) == Least(at + size, Len(s) + 1)

(* Where the next chunk starts, after one of this size at that place.      *)
NextChunk(s, at, size) == Least(at + size + 2, Len(s) + 1)

Slice(s, from, to) == SubSeq(s, from, Least(to, Len(s)))

Dechunk(s) ==
  LET from[i \in 1..(Len(s) + 1)] ==
        LET at == LineEnd(s, i) + 2
        IN IF SizeAt(s, i) = 0 THEN <<>>
           ELSE Slice(s, at, at + SizeAt(s, i) - 1)
                  \o from[NextChunk(s, at, SizeAt(s, i))]
  IN from[1]

(* The text after the first empty line; the header says whether it is      *)
(* framed.                                                                 *)
HeadEnd(s) == SelectInSeq(s, LAMBDA t : t = "emptyLine")
BodyOf(s) == LET text == SubSeq(s, HeadEnd(s) + 1, Len(s))
             IN IF Contains(SubSeq(s, 1, HeadEnd(s)), "chunkedHead")
                THEN Dechunk(text) ELSE text

-----------------------------------------------------------------------------
(* What the server sends.                                                  *)

Chunk(c) == SizeLine(Len(c)) \o <<CR, LF>> \o c \o <<CR, LF>>
Plain(b) == FlattenSeq(b)
Chunks(b) == FlattenSeq([i \in DOMAIN b |-> Chunk(b[i])]) \o <<"0", CR, LF, CR, LF>>

HttpReply ==
  <<IF chunked THEN "chunkedHead" ELSE "head", "emptyLine">>
    \o (IF chunked THEN Chunks(body) ELSE Plain(body))

(* A size line is the number of bytes in hex digits.                       *)
ASSUME Socks5Assumption ==
  /\ ReplyTail \in Nat
  /\ \A b \in Bodies :
       /\ b \in Seq(Seq(STRING))
       /\ \A i \in DOMAIN b :
            /\ Len(b[i]) > 0
            /\ SizeLine(Len(b[i])) \in Seq(STRING)
            /\ \A j \in DOMAIN SizeLine(Len(b[i])) : IsDigit(SizeLine(Len(b[i]))[j])
            /\ SizeOf(SizeLine(Len(b[i]))) = Len(b[i])

-----------------------------------------------------------------------------
SocksInit ==
  /\ stage = 0 /\ toProxy = <<"greeting">> /\ arriving = <<>> /\ raw = <<>>
  /\ sock = "open" /\ timers = {"handshake"}
  /\ body \in Bodies /\ chunked \in BOOLEAN
  /\ ended = "no" /\ outcome = Pending

Open == outcome = Pending

(* The proxy answers the greeting, and then the request, with yes or no.   *)
ProxyAnswers ==
  /\ ended = "no" /\ toProxy # <<>>
  /\ \/ /\ toProxy = <<"greeting">>
        /\ \E ok \in {"00", "FF"} : arriving' = arriving \o <<"05", ok>>
     \/ /\ toProxy = <<"request">>
        /\ \E code \in {"00", "04"} :
             arriving' = arriving \o <<"05", code>> \o [i \in 1..ReplyTail |-> "00"]
  /\ toProxy' = <<>>
  /\ UNCHANGED <<stage, raw, sock, timers, server, ended, outcome>>

(* The server behind it answers and ends the stream ("Connection: close"). *)
ServerAnswers ==
  /\ ended = "no" /\ toProxy = <<"http">>
  /\ arriving' = arriving \o HttpReply
  /\ toProxy' = <<>> /\ ended' = "done"
  /\ UNCHANGED <<stage, raw, sock, timers, server, outcome>>

(* A circuit that breaks cuts off what has not arrived.                    *)
Cut ==
  /\ ended \in {"no", "done"} /\ Open
  /\ \E n \in 0..Len(arriving) : arriving' = SubSeq(arriving, 1, n)
  /\ ended' = "early"
  /\ UNCHANGED <<stage, toProxy, raw, sock, timers, server, outcome>>

Take(n) == arriving' = SubSeq(arriving, n + 1, Len(arriving))

(* d[0] and d[1] of a chunk; of a chunk of one byte d[1] is undefined.     *)
Accepts(d) == Len(d) >= 2 /\ d[1] = "05" /\ d[2] = "00"

(* faulty variants: no timer for the exchange, or both                     *)
NoRequestTimer(set) == set \ {"handshake"}
HandshakeTimerKept(set) == set \cup {"request"}

(* clearTimeout() in connect(), setTimeout() in request(), which goes on   *)
(* before the next event: its await has nothing else to wait for.          *)
HandOver(set) == (set \ {"handshake"}) \cup {"request"}

(* fail(): its timer stays set.                                            *)
Fail == sock' = "destroyed" /\ outcome' = Rejects

(* socket.on('data') of connect().                                         *)
HandshakeData ==
  /\ Open /\ sock = "open" /\ stage \in {0, 1}
  /\ \E n \in 1..Len(arriving) :
       /\ Take(n)
       /\ IF Accepts(SubSeq(arriving, 1, n))
          THEN /\ stage' = stage + 1
               /\ toProxy' = <<IF stage = 0 THEN "request" ELSE "http">>
               /\ timers' = IF stage = 0 THEN timers ELSE HandOver(timers)
               /\ UNCHANGED <<sock, outcome>>
          ELSE Fail /\ UNCHANGED <<stage, toProxy, timers>>
  /\ UNCHANGED <<raw, server, ended>>

(* socket.on('data') of request(): it collects.                            *)
ResponseData ==
  /\ Open /\ sock = "open" /\ stage = 2
  /\ \E n \in 1..Len(arriving) :
       /\ Take(n)
       /\ raw' = raw \o SubSeq(arriving, 1, n)
  /\ UNCHANGED <<stage, toProxy, sock, timers, server, ended, outcome>>

(* socket.on('end') of request(); connect() has none.                      *)
OnEnd ==
  /\ Open /\ sock = "open" /\ stage = 2 /\ ended # "no" /\ arriving = <<>>
  /\ timers' = timers \ {"request"}
  /\ outcome' = LET text == Decoded(raw)
                IN IF HeadEnd(text) = 0 THEN Rejects ELSE Resolves(BodyOf(text))
  /\ UNCHANGED <<stage, toProxy, arriving, raw, sock, server, ended>>

(* socket.on('error') of a refused or broken connection, which destroys    *)
(* the socket: connect()'s is fail(), request()'s clears its timer too.    *)
SocketError ==
  /\ Open /\ sock = "open"
  /\ Fail
  /\ timers' = IF stage = 2 THEN timers \ {"request"} ELSE timers
  /\ UNCHANGED <<stage, toProxy, arriving, raw, server, ended>>

(* A timer calls its promise's reject(), which only the first call heeds;  *)
(* after the handshake connect()'s promise is settled.                     *)
HandshakeTimeout ==
  /\ "handshake" \in timers
  /\ timers' = timers \ {"handshake"}
  /\ sock' = "destroyed"
  /\ outcome' = IF Open /\ stage < 2 THEN Rejects ELSE outcome
  /\ UNCHANGED <<stage, toProxy, arriving, raw, server, ended>>

RequestTimeout ==
  /\ "request" \in timers
  /\ timers' = timers \ {"request"}
  /\ sock' = "destroyed"
  /\ outcome' = IF Open THEN Rejects ELSE outcome
  /\ UNCHANGED <<stage, toProxy, arriving, raw, server, ended>>

SocksNext == ProxyAnswers \/ ServerAnswers \/ Cut \/ HandshakeData \/ ResponseData
               \/ OnEnd \/ SocketError \/ HandshakeTimeout \/ RequestTimeout

SocksSpec == SocksInit /\ [][SocksNext]_socksVars

-----------------------------------------------------------------------------
(* A request that resolves has gone through a tunnel to the host, and its  *)
(* body is what the server sent, whichever bytes were left over from the   *)
(* handshake and wherever the chunks were cut, also inside a character; or *)
(* the beginning of it, if the stream ended early (socks5.js:18-94).  Of a *)
(* framed body this is claimed only where every character is one byte: the *)
(* sizes count bytes, and dechunk() counts characters.                     *)
ResponseIntact ==
  outcome.is = "resolved" =>
    /\ stage = 2 /\ toProxy # <<"http">>
    /\ (chunked => OneByteEach(Plain(body))) =>
         \E n \in 0..Len(Plain(body)) :
           /\ outcome.body = Decoded(SubSeq(Plain(body), 1, n))
           /\ ended = "done" => n = Len(Plain(body))

(* An open request has its socket and exactly the timer of the phase it is *)
(* in: none is missing when a proxy or a circuit falls silent, and none of *)
(* the handshake is left to destroy the tunnel during the exchange.  One   *)
(* that has resolved leaves no timer (socks5.js:13, 39, 67, 70, 72).       *)
OneTimerWaits ==
  /\ Open => sock = "open" /\ timers = {IF stage < 2 THEN "handshake" ELSE "request"}
  /\ outcome.is = "resolved" => timers = {}

(* No promise is left open by a proxy that says nothing or a stream that   *)
(* stops (socks5.js:13, 67).                                               *)
RequestSettles == <>~Open
=============================================================================
