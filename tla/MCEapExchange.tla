--------------------------- MODULE MCEapExchange ----------------------------
(* A handshake in small: flights of more than one fragment both ways, one   *)
(* that just fits, one a single octet over, and an empty last flight.       *)
EXTENDS EapExchange

MCFromServer == <<<<>>, <<1, 2, 3, 4, 5>>, <<6, 7>>, <<8, 9, 10>>>>
MCFromClient == <<<<21, 22, 23>>, <<24, 25, 26, 27>>, <<28>>, <<>>>>

\* The handshake takes four fragments and Phase 2 two: met exactly, and passed by
\* one in either phase.
MCRoundLimits ==
    {[handshake |-> 4, phase2 |-> 2], [handshake |-> 3, phase2 |-> 2],
     [handshake |-> 4, phase2 |-> 1]}

MCOctet == 1..10 \cup 21..28

\* What a client of this exchange can be handed.
MCFragments ==
    {Ack} \cup UNION {LET P == Pieces(MCFromServer[n], ServerChunk)
                      IN  {P[k] : k \in DOMAIN P} : n \in DOMAIN MCFromServer}
=============================================================================
