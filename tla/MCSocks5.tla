------------------------------ MODULE MCSocks5 ------------------------------
(***************************************************************************)
(* Instances of Socks5 for TLC, and what socks5.js says of dechunk().      *)
(***************************************************************************)
EXTENDS Socks5

\* chunks with digits and line breaks in them, of more than 15 bytes, and with
\* wide characters, also one that two chunks share
SomeBodies ==
  {<<>>, <<<<"x", CR, LF, "1">>, <<"2">>>>, <<[i \in 1..17 |-> "x"]>>,
   <<<<Lead, Trail>>>>, <<<<"x", Lead>>, <<Trail, "y">>>>}

\* (n).toString(16), for up to two digits
HexLine(n) == IF n < 16 THEN <<HexDigits[n + 1]>>
              ELSE <<HexDigits[(n \div 16) + 1], HexDigits[(n % 16) + 1]>>

(***************************************************************************)
(* "Decode HTTP/1.1 chunked transfer encoding" (socks5.js:48): the body of *)
(* a response that has arrived whole is what the server sent, framed or    *)
(* not.                                                                    *)
(***************************************************************************)
WholeBody == outcome.is = "resolved" /\ ended = "done" => outcome.body = Decoded(Plain(body))
=============================================================================
