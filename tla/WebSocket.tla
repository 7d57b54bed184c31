----------------------------- MODULE WebSocket -----------------------------
(***************************************************************************)
(* The relay's and the console's WebSocket server                          *)
(* (src/transport/websocket.js): frames from one client arrive as bytes    *)
(* that TCP cuts where it likes, and are put together again from a buffer. *)
(*                                                                         *)
(* Lengths are scaled: 126, the value that announces a longer field, is    *)
(* Ext; the two fields have MidDigits and LongDigits digits, not 2 and 8,  *)
(* of base Base, not 256; the second is for lengths from MidLimit on, not  *)
(* 65536; the flag that says "masked" is worth Flag, not 128; a mask has   *)
(* MaskSize bytes, not 4.  The client is external: it is Node's, which     *)
(* masks every frame and never splits a message.                           *)
(***************************************************************************)
EXTENDS Naturals, Sequences, SequencesExt

CONSTANTS
  Byte,         \* what payloads and masks are made of
  Xor(_, _),    \* of two bytes, bit by bit
  Ext, Base, MidDigits, LongDigits, MidLimit, Flag, MaskSize,
  Payloads,     \* what a client's frame may carry
  Masks,        \* the masks a client may pick
  MaxFrames     \* frames the client sends

-----------------------------------------------------------------------------
(* Numbers in big-endian digits.                                           *)

(* n without its last digits, after each of k divisions.                   *)
Shifted(n, k) == LET left[j \in 0..k] == IF j = 0 THEN n ELSE left[j - 1] \div Base
                 IN left

Digits(n, k) == [i \in 1..k |-> Shifted(n, k)[k - i] % Base]
Number(s) == LET upTo[i \in 0..Len(s)] == IF i = 0 THEN 0 ELSE (upTo[i - 1] * Base) + s[i]
             IN upTo[Len(s)]

(* k digits are enough for n.                                              *)
Fits(n, k) == Shifted(n, k)[k] = 0

ASSUME WebSocketAssumption ==
  /\ Byte \subseteq Nat
  /\ \A a, b \in Byte : Xor(a, b) \in Byte /\ Xor(Xor(a, b), b) = a
  /\ Base \in Nat \ {0} /\ Ext \in Nat \ {0} /\ Flag \in Nat /\ Flag > Ext + 1
  /\ MidDigits \in Nat \ {0} /\ LongDigits \in Nat \ {0} /\ MaskSize \in Nat \ {0}
  /\ MidLimit \in Nat /\ MidLimit >= Ext
  /\ \A n \in 0..(MidLimit - 1) : Fits(n, MidDigits)
  /\ \A m \in Masks : m \in Seq(Byte) /\ Len(m) = MaskSize
  /\ \A p \in Payloads : p \in Seq(Byte) /\ Fits(Len(p), LongDigits)

Text == 1
Bye == 8
Ping == 9
Pong == 10

VARIABLES
  sent,     \* the frames the client has sent, oldest first
  wire,     \* their bytes that have not arrived
  buf,      \* bytes that have arrived and not been used
  got,      \* messages handed to the handlers
  back,     \* the bytes written to the client
  closed    \* the handlers of 'close' have been called

wsVars == <<sent, wire, buf, got, back, closed>>

-----------------------------------------------------------------------------
(* The two bytes of a head, and the longer length when there is one.       *)
Head2(opcode, flag, len) ==
  IF len < Ext THEN <<opcode, flag + len>>
  ELSE IF len < MidLimit
  THEN <<opcode, flag + Ext>> \o Digits(len, MidDigits)
  ELSE <<opcode, flag + Ext + 1>> \o Digits(len, LongDigits)

(* frame(): what the server writes.                                        *)
Frame(payload, opcode) == Head2(opcode, 0, Len(payload)) \o payload

Masked(payload, mask) ==
  [i \in DOMAIN payload |-> Xor(payload[i], mask[((i - 1) % MaskSize) + 1])]

(* What the client writes.                                                 *)
ClientFrame(payload, opcode, mask) ==
  Head2(opcode, Flag, Len(payload)) \o mask \o Masked(payload, mask)

-----------------------------------------------------------------------------
(* One turn of the loop over the bytes b from offset i on.                 *)

LenDigits(b, i) ==
  LET short == b[i + 2] % Flag IN
  IF short = Ext THEN MidDigits ELSE IF short = Ext + 1 THEN LongDigits ELSE 0

MaskBytes(b, i) == IF b[i + 2] >= Flag THEN MaskSize ELSE 0

HeadSize(b, i) == 2 + LenDigits(b, i) + MaskBytes(b, i)

PayloadLen(b, i) ==
  IF LenDigits(b, i) = 0 THEN b[i + 2] % Flag
  ELSE Number(SubSeq(b, i + 3, i + 2 + LenDigits(b, i)))

(* No early return is taken: the frame is complete.                        *)
Complete(b, i) ==
  /\ Len(b) - i >= 2 /\ Len(b) - i >= HeadSize(b, i)
  /\ Len(b) - i >= HeadSize(b, i) + PayloadLen(b, i)

Unmask(payload, mask) == Masked(payload, mask)

FrameAt(b, i) ==
  LET off == i + HeadSize(b, i)
      payload == SubSeq(b, off + 1, off + PayloadLen(b, i))
  IN [opcode |-> b[i + 1],
      payload |-> IF MaskBytes(b, i) = 0 THEN payload
                  ELSE Unmask(payload, SubSeq(b, off - MaskSize + 1, off))]

Step(b, i) == HeadSize(b, i) + PayloadLen(b, i)

(* faulty variant: one turn for each chunk                                 *)
LoopOnce(b) ==
  IF Complete(b, 0) THEN [frames |-> <<FrameAt(b, 0)>>, at |-> Step(b, 0)]
  ELSE [frames |-> <<>>, at |-> 0]

(* All the turns: the frames used, up to a closing one, and where the      *)
(* buffer starts then.                                                     *)
Loop(b) ==
  LET from[i \in 0..Len(b)] ==
        IF ~Complete(b, i) THEN [frames |-> <<>>, at |-> i]
        ELSE IF FrameAt(b, i).opcode = Bye
        THEN [frames |-> <<FrameAt(b, i)>>, at |-> i + Step(b, i)]
        ELSE LET rest == from[i + Step(b, i)]
             IN [frames |-> <<FrameAt(b, i)>> \o rest.frames, at |-> rest.at]
  IN from[0]

(* What frames with an opcode carry.                                       *)
PayloadsOf(frames, opcode) ==
  FlattenSeq([i \in DOMAIN frames |->
                IF frames[i].opcode = opcode THEN <<frames[i].payload>> ELSE <<>>])

(* faulty variant: the pong of a ping is empty                             *)
ReplyEmpty(f) == IF f.opcode = Ping THEN Frame(<<>>, Pong)
                 ELSE IF f.opcode = Bye THEN Frame(<<>>, Bye) ELSE <<>>

(* The answer to a frame: a pong with the same payload, or a closing frame.*)
Reply(f) == IF f.opcode = Ping THEN Frame(f.payload, Pong)
            ELSE IF f.opcode = Bye THEN Frame(<<>>, Bye) ELSE <<>>

Replies(frames) == FlattenSeq([i \in DOMAIN frames |-> Reply(frames[i])])

-----------------------------------------------------------------------------
WsInit ==
  /\ sent = <<>> /\ wire = <<>> /\ buf = <<>>
  /\ got = <<>> /\ back = <<>> /\ closed = FALSE

(* The client sends a message, a ping, a pong of its own, or its last      *)
(* frame.                                                                  *)
ClientSends ==
  /\ Len(sent) < MaxFrames
  /\ \A i \in DOMAIN sent : sent[i].opcode # Bye
  /\ ~closed
  /\ \E p \in Payloads, m \in Masks, o \in {Text, Ping, Pong, Bye} :
       /\ o = Bye => p = <<>>
       /\ sent' = Append(sent, [opcode |-> o, payload |-> p])
       /\ wire' = wire \o ClientFrame(p, o, m)
  /\ UNCHANGED <<buf, got, back, closed>>

(* socket.on('data'), with however many bytes TCP has put into a chunk.    *)
OnData ==
  /\ \E n \in 1..Len(wire) : \E r \in {Loop(buf \o SubSeq(wire, 1, n))} :
       /\ wire' = SubSeq(wire, n + 1, Len(wire))
       /\ buf' = SubSeq(buf \o SubSeq(wire, 1, n), r.at + 1, Len(buf) + n)
       /\ got' = got \o PayloadsOf(r.frames, Text)
       /\ back' = back \o Replies(r.frames)
       /\ closed' = (closed \/ \E i \in DOMAIN r.frames : r.frames[i].opcode = Bye)
  /\ UNCHANGED sent

(* The connection breaks: what is under way is lost.                       *)
OnError ==
  /\ ~closed
  /\ closed' = TRUE /\ wire' = <<>>
  /\ UNCHANGED <<sent, buf, got, back>>

WsNext == ClientSends \/ OnData \/ OnError

WsSpec == WsInit /\ [][WsNext]_wsVars

-----------------------------------------------------------------------------
(* Wherever TCP cuts the stream, and whatever frames are between them, the *)
(* relay is handed the client's messages whole, in order and once, and has *)
(* all of them when every byte has arrived (websocket.js:28-50).           *)
MessagesIntact ==
  LET texts == PayloadsOf(sent, Text) IN
  /\ IsPrefix(got, texts)
  /\ wire = <<>> /\ ~closed => got = texts /\ buf = <<>>

(* What was written, read as frames, is a pong for each ping with the      *)
(* ping's payload, in order, and nothing after a closing frame             *)
(* (websocket.js:9-22, 46-47).                                             *)
PingsAnswered ==
  LET written == Loop(back)
      pings == PayloadsOf(sent, Ping)
  IN /\ written.at = Len(back)
     /\ IsPrefix(PayloadsOf(written.frames, Pong), pings)
     /\ wire = <<>> /\ ~closed => /\ PayloadsOf(written.frames, Pong) = pings
                                  /\ Len(written.frames) = Len(pings)
=============================================================================
