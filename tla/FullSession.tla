---------------------------- MODULE FullSession -----------------------------
(***************************************************************************)
(* PeerSession with a peer: either whatever a network may send it, or the  *)
(* test server (crates/teap-test-harness) in the lock-step loop of         *)
(* crates/supplicant/tests/full_session.rs.                                *)
(*                                                                         *)
(* The server answers each response by its own phase and looks at little   *)
(* else: it checks no identifier, ignores the client's TLVs once the inner *)
(* method is over, and panics where it cannot go on.  It takes no          *)
(* fragments, so its clients have room for a flight in one packet.  The    *)
(* two ends of a completed inner handshake export the same key.            *)
(***************************************************************************)
EXTENDS PeerSession

VARIABLES opposite,       \* "Anything" or "Server"
          asked,          \* TeapServer.identity
          trusted,        \* the client's roots hold the server's certificate
          certified,      \* the server's roots hold the client's certificate
          exported,       \* what the inner connection exports at both ends
          serverPhase,    \* TeapServer.phase
          awaits,         \* the flight the TLS server of that phase waits for
          inbound         \* the packet on its way to the client

config   == <<opposite, asked, trusted, certified, exported>>
server   == <<serverPhase, awaits, inbound>>
fullVars == <<vars, config, server>>

ServerPhases == {"OuterHs", "InnerHs", "AfterCommit", "AwaitClientCb",
                 "AwaitClientResult", "Done", "Panicked"}

NoBinding == [form |-> "Absent", chain |-> <<>>]
NoTlvs    == [framed |-> TRUE, idt |-> "Absent", eap |-> FALSE, ir |-> "Absent",
              top |-> NoBinding, nested |-> NoBinding, result |-> "Absent", mat |-> "Absent"]

\* A packet of the server: what it is, its TLVs, and what its EAP-Payload holds.
Packet(kind, tlvs, payload) == [kind |-> kind, tlvs |-> tlvs, payload |-> payload]
Nothing         == Packet("None", NoTlvs, "None")
Plain(kind)     == Packet(kind, NoTlvs, "None")
Payload(tlvs, p) == Packet("Tlvs", [tlvs EXCEPT !.eap = TRUE], p)

FullInit ==
    /\ Init
    /\ opposite \in {"Anything", "Server"}
    /\ IF opposite = "Server"
       THEN /\ asked \in {"Machine", "User"} /\ exported \in Keys
            /\ trusted \in BOOLEAN /\ certified \in BOOLEAN
            /\ inbound = Plain("Start")
       ELSE /\ asked = identity /\ exported = NoKey
            /\ trusted = FALSE /\ certified = FALSE
            /\ inbound = Nothing
    /\ serverPhase = "OuterHs"
    /\ awaits = "Hello"

-----------------------------------------------------------------------------
(* The client, by the packet it is handed.                                  *)

\* The inner method and the payload the server put into the TLVs.
InnerReceives ==
    \/ inbound.payload = "Start" /\ Inner!Start
    \/ inbound.payload = "Flight" /\ Inner!HandshakeDone
    \/ inbound.payload = "Commit" /\ Inner!Commit("records") /\ step'.imsk = exported

ReceivesTlvs == \E x \in Inner!Steps \cup {[tag |-> "NotRun", imsk |-> NoKey]} :
    /\ Driver!Phase2(inbound.tlvs, x)
    /\ IF x.tag = "NotRun" THEN UNCHANGED inner ELSE InnerReceives /\ step' = x

\* One flight of the server completes the client's side of the handshake.  A
\* packet the driver would refuse for another reason, as over its limit on
\* rounds, leaves the exchange stuck here.
Receives ==
    \/ inbound.kind = "Start" /\ Driver!Start /\ UNCHANGED inner
    \/ inbound.kind = "Flight" /\ trusted /\ Driver!HandshakeDone /\ UNCHANGED inner
    \/ inbound.kind = "Flight" /\ ~trusted /\ Driver!BadRound /\ UNCHANGED inner
    \/ inbound.kind = "Tlvs" /\ ReceivesTlvs
    \/ inbound.kind = "Success" /\ Driver!EapSuccess /\ UNCHANGED inner

\* Every flight fits its packet; only a certificate that is not trusted errs.
Fits == /\ outQueue' = 0 /\ innerQueue' = 0
        /\ out'.kind = "Error" => inbound.kind = "Flight" /\ ~trusted

Client ==
    /\ opposite = "Server" /\ inbound # Nothing
    /\ Handles(Receives) /\ Fits
    /\ inbound' = Nothing
    /\ UNCHANGED <<config, serverPhase, awaits>>

-----------------------------------------------------------------------------
(* TeapServer::handle, by its phases.                                       *)

Handle(in, next, packet) ==
    /\ opposite = "Server" /\ serverPhase = in
    /\ pendingResponse /\ pendingResponse' = FALSE
    /\ serverPhase' = next
    /\ inbound' = packet
    /\ UNCHANGED <<driver, inner, result, closed, action, config>>

\* The TLS server, outer or inner, is still handshaking after this flight.
HelloCame    == awaits = "Hello" /\ awaits' = "Finished"
FinishedCame == awaits = "Finished" /\ awaits' = "Hello"

OuterHello == HelloCame /\ Handle("OuterHs", "OuterHs", Plain("Flight"))

OuterFinished ==
    /\ FinishedCame
    /\ Handle("OuterHs", "InnerHs", Payload([NoTlvs EXCEPT !.idt = asked], "Start"))

Answers == "EapPayload" \in reply.sent

InnerHello ==
    /\ Answers /\ HelloCame
    /\ Handle("InnerHs", "InnerHs", Payload(NoTlvs, "Flight"))

InnerFinished ==
    /\ Answers /\ certified /\ FinishedCame
    /\ Handle("InnerHs", "AfterCommit", Payload(NoTlvs, "Commit"))

\* `expect("inner EAP-Payload")`, and the unwrap of a refused certificate.
Panic ==
    /\ ~Answers \/ (awaits = "Finished" /\ ~certified)
    /\ Handle("InnerHs", "Panicked", Nothing)
    /\ UNCHANGED awaits

\* From here on the client's TLVs are read and dropped.
Binding == [form |-> "Request", chain |-> <<exported>>]

SealsBinding ==
    /\ Handle("AfterCommit", "AwaitClientCb",
              Packet("Tlvs", [NoTlvs EXCEPT !.ir = "Success", !.nested = Binding], "None"))
    /\ UNCHANGED awaits

SendsResult ==
    /\ Handle("AwaitClientCb", "AwaitClientResult",
              Packet("Tlvs", [NoTlvs EXCEPT !.result = "Success"], "None"))
    /\ UNCHANGED awaits

SendsSuccess ==
    /\ Handle("AwaitClientResult", "Done", Plain("Success"))
    /\ UNCHANGED awaits

Server == \/ OuterHello \/ OuterFinished \/ InnerHello \/ InnerFinished
          \/ Panic \/ SealsBinding \/ SendsResult \/ SendsSuccess

-----------------------------------------------------------------------------
Anything == opposite = "Anything" /\ Next /\ UNCHANGED <<config, server>>

\* The test returns, or fails, when the session is over.
Over == opposite = "Server" /\ (closed \/ serverPhase = "Panicked") /\ UNCHANGED fullVars

FullNext == Anything \/ Client \/ Server \/ Over

\* One thread runs client and server in turn.
FullSpec == FullInit /\ [][FullNext]_fullVars /\ WF_fullVars(Client \/ Server)

\* A client that reports success was met by a server that has finished, which
\* asked for the identity it authenticated, and the two hold the same keys.
BothEndsAgree ==
    opposite = "Server" /\ result.verdict = "granted" =>
        /\ serverPhase = "Done" /\ asked = identity /\ trusted /\ certified
        /\ result.msk = <<exported>>

\* "session did not converge" is never reached: client and server that suit one
\* another get through both handshakes, the binding and the results, within
\* the client's limits on rounds.
SessionCompletes ==
    opposite = "Server" /\ asked = identity /\ trusted /\ certified
        ~> result.verdict = "granted"
=============================================================================
