---------------------------- MODULE EapExchange -----------------------------
(***************************************************************************)
(* The lock-step EAP exchange that carries TLS messages too large for one  *)
(* packet: the client half is TeapDriver's fragmentation (driver.rs) over  *)
(* fragment and Reassembler (crates/teap/src/outer.rs); the inner method   *)
(* (inner_tls.rs) has the same half, without a limit on rounds of its own, *)
(* inside EAP-Payload TLVs.                                                *)
(*                                                                         *)
(* External: a server that fragments and acknowledges as RFC 7170 says and *)
(* repeats a request until it is answered, a link that loses packets but   *)
(* keeps their order, and EAPHost, which answers a repeated request with   *)
(* the response it already has instead of calling the method again.        *)
(***************************************************************************)
EXTENDS Reassembler, FiniteSets

CONSTANTS FromServer,   \* the server's messages; the first is its Start
          FromClient,   \* the client's flights, one in answer to each
          MaxFragment,  \* the client's max_fragment
          ServerChunk,  \* the server's
          HandshakeMessages,  \* how many of its messages are the handshake's
          RoundLimits,  \* limits on rounds to try: of the handshake and of Phase 2
          MaxLosses,    \* how many packets the link may lose
          MaxInFlight   \* how many packets are in flight before a repeat is held back

ASSUME ScriptAssumption ==
    /\ FromServer \in Seq(Seq(Octet)) /\ FromClient \in Seq(Seq(Octet))
    /\ Len(FromServer) = Len(FromClient) /\ FromServer # <<>>
    /\ FromServer[1] = <<>> /\ \A n \in 2..Len(FromServer) : FromServer[n] # <<>>
ASSUME SizeAssumption == MaxFragment \in Nat /\ ServerChunk \in Nat \ {0}
ASSUME RoundsAssumption ==
    /\ HandshakeMessages \in Nat \ {0}
    /\ RoundLimits \subseteq [handshake : Nat, phase2 : Nat] /\ RoundLimits # {}
ASSUME LinkAssumption == MaxLosses \in Nat /\ MaxInFlight \in Nat \ {0}

Piece(more, total, data) == [more |-> more, total |-> total, data |-> data]

\* fragment: one piece without L or M, or several of which the first carries
\* the total and all but the last carry M.
Pieces(message, max) ==
    LET chunk == IF max > 1 THEN max ELSE 1
        n     == (Len(message) + chunk - 1) \div chunk
    IN  IF Len(message) <= chunk THEN <<Piece(FALSE, NoTotal, message)>>
        ELSE [k \in 1..n |->
                Piece(k < n, IF k = 1 THEN Len(message) ELSE NoTotal,
                      SubSeq(message, (k - 1) * chunk + 1,
                             IF k < n THEN k * chunk ELSE Len(message)))]

Ack == Piece(FALSE, NoTotal, <<>>)

VARIABLES outQueue,   \* client: fragments of the current flight not yet sent
          lastId,     \* client: last_id
          rounds,     \* client: rounds
          limits,     \* client: MAX_HANDSHAKE_ROUNDS and MAX_PHASE2_ROUNDS, both 64
                      \*   in the program; chosen once, so that one server keeps to
                      \*   them and oversteps them
          clientGot,  \* client: the messages handed to the TLS engine
          hostId,     \* EAPHost: the request it answered last
          hostReply,  \* EAPHost: the response it has for it
          serverId,   \* server: the request it awaits the response to
          current,    \* server: that request
          unsent,     \* server: the pieces of its message that follow
          heard,      \* server: the data of the client flight so far
          serverGot,  \* server: the flights received whole
          requests,   \* the link, towards the client
          responses,  \* the link, towards the server
          losses      \* packets lost so far

rx     == vars
client == <<rx, outQueue, lastId, rounds, limits, clientGot, hostId, hostReply>>
server == <<serverId, current, unsent, heard, serverGot>>
link   == <<requests, responses, losses>>
exchange == <<client, server, link>>

Packet(id, piece) == [id |-> id, piece |-> piece]
Start == [Ack EXCEPT !.total = 0]    \* the S bit, told apart by its total

ExchangeInit ==
    /\ Init
    /\ outQueue = <<>> /\ lastId = 0 /\ rounds = 0 /\ clientGot = <<>>
    /\ limits \in RoundLimits
    /\ hostId = 0 /\ hostReply = Ack
    /\ serverId = 1 /\ current = Start /\ unsent = <<>>
    /\ heard = <<>> /\ serverGot = <<>>
    /\ requests = <<Packet(1, Start)>> /\ responses = <<>>
    /\ losses = 0

-----------------------------------------------------------------------------
(* The client: one call of TeapDriver::step for the request p.              *)

\* No start, no data, no more-fragments.
IsAck(piece) == piece # Start /\ ~piece.more /\ piece.data = <<>>

MutDrains(piece) == IsAck(piece) /\ Len(outQueue) > 1

\* A bare ACK while fragments are queued.
Drains(piece) == IsAck(piece) /\ outQueue # <<>>

Replies(id, piece) ==
    /\ lastId' = id
    /\ hostId' = id
    /\ hostReply' = piece
    /\ responses' = Append(responses, Packet(id, piece))

\* next_out_fragment.
NextOutFragment(p) ==
    /\ Drains(p.piece)
    /\ outQueue' = Tail(outQueue)
    /\ Replies(p.id, Head(outQueue))
    /\ UNCHANGED <<rx, rounds, clientGot>>

\* send_tls_message: the flight that answers the n-th message of the server.
Send(p, n) ==
    LET pieces == Pieces(FromClient[n], MaxFragment)
    IN  outQueue' = Tail(pieces) /\ Replies(p.id, Head(pieces))

TakeStart(p) ==
    /\ p.piece = Start /\ clientGot = <<>>
    /\ clientGot' = <<FromServer[1]>>
    /\ Send(p, 1)
    /\ UNCHANGED <<rx, rounds>>

\* The limit on rounds of the phase the tunnel is in.
Limit == IF Len(clientGot) < HandshakeMessages THEN limits.handshake ELSE limits.phase2

\* on_handshake and on_phase2 count every request that comes to them, before
\* they look into it, and fail past the limit.
Counts(p) == ~Drains(p.piece) /\ p.piece # Start

MutCountRound == rounds' = rounds + 1

\* start_phase2, with the last message of the handshake, starts the count anew.
CountRound ==
    rounds' = IF result'.tag = "Complete" /\ Len(clientGot') = HandshakeMessages
              THEN 0 ELSE rounds + 1

TakeFragment(p) ==
    /\ Counts(p) /\ rounds < Limit
    /\ Push(p.piece)
    /\ CASE result'.tag = "More" ->
              Replies(p.id, Ack) /\ UNCHANGED <<outQueue, clientGot>>
         [] result'.tag = "Complete" ->
              /\ clientGot' = Append(clientGot, result'.message)
              /\ Send(p, Len(clientGot'))
         [] result'.tag = "Error" ->
              /\ lastId' = p.id
              /\ UNCHANGED <<outQueue, clientGot, hostId, hostReply, responses>>
    /\ CountRound

StopAtLimit(p) ==
    /\ Counts(p) /\ rounds >= Limit
    /\ rounds' = rounds + 1
    /\ lastId' = p.id
    /\ UNCHANGED <<rx, outQueue, clientGot, hostId, hostReply, responses>>

\* The method has failed: PeerSession ends the session at its first error.
Stopped == result.tag = "Error" \/ rounds > Limit

\* A request EAPHost has not answered goes to the method, unless that failed.
ClientReceives ==
    /\ requests # <<>>
    /\ ~Stopped
    /\ Head(requests).id # hostId
    /\ LET p == Head(requests) IN
         NextOutFragment(p) \/ TakeStart(p) \/ TakeFragment(p) \/ StopAtLimit(p)
    /\ requests' = Tail(requests)
    /\ UNCHANGED <<limits, server, losses>>

\* EAPHost: a repeated request is answered again from what it kept.
HostRepeats ==
    /\ requests # <<>>
    /\ Head(requests).id = hostId
    /\ requests' = Tail(requests)
    /\ responses' = Append(responses, Packet(hostId, hostReply))
    /\ UNCHANGED <<client, server, losses>>

-----------------------------------------------------------------------------
(* The server and the link (external).                                      *)

Asks(piece) ==
    /\ serverId' = serverId + 1
    /\ current' = piece
    /\ requests' = Append(requests, Packet(serverId + 1, piece))

\* While it is sending, any response asks for the next piece; otherwise a
\* piece with M is acknowledged, and one without ends the client's flight.
ServerReceives ==
    /\ responses # <<>>
    /\ LET r == Head(responses) IN
         IF r.id # serverId THEN UNCHANGED <<server, requests>>
         ELSE IF unsent # <<>> THEN
                /\ Asks(Head(unsent))
                /\ unsent' = Tail(unsent)
                /\ UNCHANGED <<heard, serverGot>>
         ELSE IF r.piece.more THEN
                /\ Asks(Ack)
                /\ heard' = heard \o r.piece.data
                /\ UNCHANGED <<unsent, serverGot>>
         ELSE
                /\ serverGot' = Append(serverGot, heard \o r.piece.data)
                /\ heard' = <<>>
                /\ IF Len(serverGot') < Len(FromServer)
                   THEN LET pieces == Pieces(FromServer[Len(serverGot') + 1], ServerChunk)
                        IN  Asks(Head(pieces)) /\ unsent' = Tail(pieces)
                   ELSE /\ serverId' = serverId + 1    \* EAP-Success
                        /\ UNCHANGED <<current, unsent, requests>>
    /\ responses' = Tail(responses)
    /\ UNCHANGED <<client, losses>>

Done == Len(serverGot) = Len(FromServer)

\* The server's timer: the request is repeated, lost or only slow.
Retransmit ==
    /\ ~Done
    /\ Len(requests) + Len(responses) < MaxInFlight
    /\ requests' = Append(requests, Packet(serverId, current))
    /\ UNCHANGED <<client, server, responses, losses>>

Lose ==
    /\ losses < MaxLosses
    /\ losses' = losses + 1
    /\ \/ requests # <<>> /\ requests' = Tail(requests) /\ UNCHANGED responses
       \/ responses # <<>> /\ responses' = Tail(responses) /\ UNCHANGED requests
    /\ UNCHANGED <<client, server>>

ExchangeNext == ClientReceives \/ HostRepeats \/ ServerReceives \/ Retransmit \/ Lose

\* EAPHost delivers what arrives, the server reads what arrives and repeats a
\* request for as long as it has no answer.
ExchangeSpec ==
    /\ ExchangeInit /\ [][ExchangeNext]_exchange
    /\ WF_exchange(ClientReceives) /\ WF_exchange(HostRepeats)
    /\ WF_exchange(ServerReceives) /\ WF_exchange(Retransmit)

\* A flight is not replaced before its last fragment has gone out: the fragment
\* the server is waiting for is never dropped from the queue.
FlightsGoOutWhole ==
    [][Len(clientGot') > Len(clientGot) => outQueue = <<>>]_exchange

\* The first message that counts in the phase of the n-th: its Start does not.
FirstOfPhase(n) == IF n <= HandshakeMessages THEN 2 ELSE HandshakeMessages + 1

PiecesOf(m) == {m} \X (1..Len(Pieces(FromServer[m], ServerChunk)))

\* The pieces that count towards the limit when the client has taken k of the
\* n-th message: those of the messages before it in its phase, and these.
Counted(n, k) ==
    (UNION {PiecesOf(m) : m \in FirstOfPhase(n)..(n - 1)}) \cup ({n} \X (1..k))

\* The client stops only for a server that has overstepped a limit: a message is
\* too long or in too many fragments, or as many fragments of one phase as it
\* allows have come before.  No repetition, no acknowledgement of the client's
\* own fragments and nothing of another phase or message counts towards one.
NoFalseAlarm ==
    /\ result.tag = "Error" =>
          \E n \in 2..Len(FromServer) :
             \/ Len(FromServer[n]) > MaxTotal
             \/ Len(Pieces(FromServer[n], ServerChunk)) > MaxFragments
    /\ rounds > Limit => Cardinality(Counted(Len(clientGot) + 1, fragments)) = Limit

Abstract == INSTANCE Conversation

\* Through fragmentation, loss and retransmission, both sides receive each
\* other's messages whole, in order, exactly once; also when the client stops.
TakesTurns == Abstract!Init /\ [][Abstract!Next]_(Abstract!vars)

\* The server meets every limit of the client: octets and fragments with each of
\* its messages, and rounds with all that counts up to it in its phase.
WithinLimits ==
    \A n \in 2..Len(FromServer) :
        LET k == Len(Pieces(FromServer[n], ServerChunk)) IN
        /\ Len(FromServer[n]) <= MaxTotal
        /\ k <= MaxFragments
        /\ Cardinality(Counted(n, k))
             <= IF n <= HandshakeMessages THEN limits.handshake ELSE limits.phase2

\* And in the end all of them, if the server keeps within the client's limits.
CarriesConversation ==
    TakesTurns /\ (WithinLimits => WF_(Abstract!vars)(Abstract!Next))
=============================================================================
