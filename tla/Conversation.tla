---------------------------- MODULE Conversation ----------------------------
(***************************************************************************)
(* What the fragmentation layer promises to the TLS engines above it: the  *)
(* two sides take turns, and each receives the other's messages whole, in  *)
(* order, exactly once.  The server speaks first (its Start), the client   *)
(* answers each message with one of its own.                               *)
(***************************************************************************)
EXTENDS Naturals, Sequences

CONSTANTS FromServer,  \* the server's messages, in order, as many as the client's
          FromClient   \* the client's answers to them

VARIABLES clientGot, serverGot   \* the messages each side has received

vars == <<clientGot, serverGot>>

Init == clientGot = <<>> /\ serverGot = <<>>

ClientHears ==
    /\ Len(clientGot) = Len(serverGot)
    /\ Len(clientGot) < Len(FromServer)
    /\ clientGot' = Append(clientGot, FromServer[Len(clientGot) + 1])
    /\ UNCHANGED serverGot

ServerHears ==
    /\ Len(serverGot) < Len(clientGot)
    /\ serverGot' = Append(serverGot, FromClient[Len(serverGot) + 1])
    /\ UNCHANGED clientGot

Next == ClientHears \/ ServerHears

Spec == Init /\ [][Next]_vars /\ WF_vars(Next)
=============================================================================
