--------------------------- MODULE SecureService ---------------------------
(***************************************************************************)
(* What a client and the enforcement point in front of a service promise   *)
(* together, without sessions, datagrams or timers: a request is served    *)
(* only if its sender made it, and only at a moment at which the roster    *)
(* permits that sender to reach that port; what a client takes for an      *)
(* answer to its request comes from having been served.                    *)
(***************************************************************************)
EXTENDS Naturals

CONSTANTS Client, Port

VARIABLES
  permitted,   \* <<client, port>> pairs that the roster in force lets through
  requests,    \* [call, client, port] requests sent
  served,      \* those of them the service has got
  answered     \* calls whose client has an answer

ssVars == <<permitted, requests, served, answered>>

Requests == [call: Nat, client: Client, port: Port]

SSInit ==
  /\ permitted \subseteq Client \X Port
  /\ requests = {} /\ served = {} /\ answered = {}

\* the officers change the roster, or a lease runs out
Permit ==
  /\ permitted' \subseteq Client \X Port
  /\ UNCHANGED <<requests, served, answered>>

\* a call number is used for one request
Request ==
  /\ requests \subseteq requests' /\ requests' \subseteq Requests
  /\ \A q, r \in requests' : q.call = r.call => q = r
  /\ UNCHANGED <<permitted, served, answered>>

Serve ==
  /\ \E r \in requests : /\ <<r.client, r.port>> \in permitted
                         /\ served' = served \cup {r}
  /\ UNCHANGED <<permitted, requests, answered>>

Answer ==
  /\ \E r \in served : answered' = answered \cup {r.call}
  /\ UNCHANGED <<permitted, requests, served>>

SSNext == Permit \/ Request \/ Serve \/ Answer

SSSpec == SSInit /\ [][SSNext]_ssVars
=============================================================================
