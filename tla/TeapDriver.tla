----------------------------- MODULE TeapDriver -----------------------------
(***************************************************************************)
(* The outer driver of one TEAP session (crates/supplicant/src/driver.rs): *)
(* it takes one inbound EAP packet at a time through Start, the TLS        *)
(* handshake and Phase 2, fragments what it sends, and holds the session's *)
(* outcome back until the server's EAP-Success confirms it.                *)
(*                                                                         *)
(* Of a packet only what the driver branches on is kept.  The Reassembler  *)
(* is represented by what a push returns (module Reassembler has the       *)
(* rest), rustls by whether the handshake is over and with which           *)
(* parameters, and an outbound flight by the number of its fragments.      *)
(***************************************************************************)
EXTENDS TeapSession

CONSTANTS HandshakeRounds,  \* MAX_HANDSHAKE_ROUNDS, 64 in the program
          Phase2Rounds,     \* MAX_PHASE2_ROUNDS, 64 in the program
          MaxCount,         \* usize::MAX, where the round counter saturates
          MaxPieces         \* the most fragments a flight is cut into

ASSUME RoundAssumption ==
    /\ HandshakeRounds \in Nat /\ Phase2Rounds \in Nat /\ MaxCount \in Nat
    /\ HandshakeRounds < MaxCount /\ Phase2Rounds < MaxCount
ASSUME PieceAssumption == MaxPieces \in Nat \ {0}

VARIABLES phase,     \* phase
          tunnel,    \* tunnel: the TLS connection and its `established` gate
          outQueue,  \* out_queue: fragments of our flight not yet sent
          pending,   \* pending: the outcome awaiting EAP-Success
          rounds,    \* rounds
          out,       \* what the last step returned
          told       \* history: a step has returned Finished

session    == vars
driver     == <<phase, tunnel, outQueue, pending, rounds>>
driverVars == <<session, driver, out, told>>

Phases   == {"ExpectStart", "Handshake", "Phase2", "Terminated"}
Verdicts == {"none", "granted", "denied"}
Outcomes == [verdict : Verdicts, msk : Seq(Keys)]

NoOutcome == [verdict |-> "none", msk |-> <<>>]
Denied    == [verdict |-> "denied", msk |-> <<>>]
Return(kind, outcome) == [kind |-> kind, outcome |-> outcome]
Respond == Return("Respond", NoOutcome)
Error   == Return("Error", NoOutcome)

DriverInit ==
    /\ Init
    /\ phase = "ExpectStart"
    /\ tunnel = "Handshaking"
    /\ outQueue = 0
    /\ pending = NoOutcome
    /\ rounds = 0
    /\ out = Return("Idle", NoOutcome)
    /\ told = FALSE

\* send_tls_message: the first fragment goes out now, the rest replaces
\* whatever was queued; a frame too large for an EAP packet is an error.
Emit == /\ outQueue' \in 0..(MaxPieces - 1)
        /\ out' \in {Respond, Error}

-----------------------------------------------------------------------------
(* step: packets that end the exchange, and packets refused outright.       *)

\* Not an EAP packet, not from a server, not TEAP, or no TEAP header.
Undecodable ==
    /\ out' = Error
    /\ UNCHANGED <<session, driver, told>>

MutEapFailure ==
    /\ phase' = "Terminated"
    /\ out' = Return("Finished", Denied)
    /\ told' = TRUE
    /\ UNCHANGED <<session, tunnel, outQueue, pending, rounds>>

\* "EAP-Failure is authoritative": it discards a pending success.
EapFailure ==
    /\ phase' = "Terminated"
    /\ pending' = NoOutcome
    /\ out' = Return("Finished", Denied)
    /\ told' = TRUE
    /\ UNCHANGED <<session, tunnel, outQueue, rounds>>

EapSuccess ==
    /\ phase' = "Terminated"
    /\ pending' = NoOutcome
    /\ IF pending = NoOutcome THEN out' = Error /\ UNCHANGED told
                              ELSE out' = Return("Finished", pending) /\ told' = TRUE
    /\ UNCHANGED <<session, tunnel, outQueue, rounds>>

-----------------------------------------------------------------------------
(* on_request.                                                              *)

\* A bare ACK while fragments are queued, in whatever phase.
AckDrains ==
    /\ outQueue > 0
    /\ outQueue' = outQueue - 1
    /\ out' = Respond
    /\ UNCHANGED <<session, phase, tunnel, pending, rounds, told>>

Start ==
    /\ phase = "ExpectStart"
    /\ phase' = "Handshake"
    /\ Emit
    /\ UNCHANGED <<session, tunnel, pending, rounds, told>>

\* Anything but a Start first, or anything after the terminal state.
OutOfPhase ==
    /\ phase \in {"ExpectStart", "Terminated"}
    /\ out' = Error
    /\ UNCHANGED <<session, driver, told>>

Limit(p) == IF p = "Handshake" THEN HandshakeRounds ELSE Phase2Rounds

\* saturating_add(1), before the limit is looked at.
Counted == IF rounds < MaxCount THEN rounds + 1 ELSE rounds

MutOverLimit == phase = "Handshake" /\ Counted > Limit(phase)

OverLimit == Counted > Limit(phase)

RoundLimit ==
    /\ phase \in {"Handshake", "Phase2"}
    /\ OverLimit
    /\ rounds' = Counted
    /\ out' = Error
    /\ UNCHANGED <<session, phase, tunnel, outQueue, pending, told>>

\* A packet of phase p that the round limit lets through.
Round(p) == phase = p /\ ~OverLimit

\* push returned None: "need more fragments - acknowledge".
NeedMore ==
    /\ Round("Handshake") \/ Round("Phase2")
    /\ rounds' = Counted
    /\ out' = Respond
    /\ UNCHANGED <<session, phase, tunnel, outQueue, pending, told>>

\* push, the TLS engine or the TLV reader refused the packet.
BadRound ==
    /\ Round("Handshake") \/ Round("Phase2")
    /\ rounds' = Counted
    /\ out' = Error
    /\ UNCHANGED <<session, phase, tunnel, outQueue, pending, told>>

-----------------------------------------------------------------------------
(* on_handshake with a complete TLS message.                                *)

HandshakeFlight ==
    /\ Round("Handshake")
    /\ tunnel = "Handshaking"
    /\ rounds' = Counted
    /\ Emit
    /\ UNCHANGED <<session, phase, tunnel, pending, told>>

\* The message ends the handshake (or a retry finds it ended) in tunnel state t.
Completes(t) ==
    /\ Round("Handshake")
    /\ tunnel \in {"Handshaking", t}
    /\ tunnel' = t

MutEntersPhase2 == \E t \in {"Up", "NotFips"} : Completes(t)

\* finish_handshake has verified the negotiated parameters.
EntersPhase2 == Completes("Up")

MutHandshakeDone ==
    /\ EntersPhase2
    /\ phase' = "Phase2"
    /\ rounds' = Counted
    /\ Emit
    /\ UNCHANGED <<session, pending, told>>

\* "reuse the counter to bound Phase-2 rounds too."
HandshakeDone ==
    /\ EntersPhase2
    /\ phase' = "Phase2"
    /\ rounds' = 0
    /\ Emit
    /\ UNCHANGED <<session, pending, told>>

\* The parameters are not allowed, or start_phase2 fails on an open tunnel.
HandshakeRefused ==
    /\ \E t \in {"NotFips", "Up"} : Completes(t)
    /\ rounds' = Counted
    /\ out' = Error
    /\ UNCHANGED <<session, phase, outQueue, pending, told>>

-----------------------------------------------------------------------------
(* on_phase2 with a complete, decrypted list of TLVs.                       *)

SessionSteps(m, x) ==
    /\ Round("Phase2")
    /\ rounds' = Counted
    /\ Step(m, x)

Phase2Continues(m, x) ==
    /\ SessionSteps(m, x)
    /\ reply'.kind = "Continue"
    /\ Emit
    /\ UNCHANGED <<phase, tunnel, pending, told>>

OutcomeOf(r) == IF r.kind = "Granted" THEN [verdict |-> "granted", msk |-> r.msk]
                                      ELSE Denied

MutPhase2Done(m, x) ==
    /\ SessionSteps(m, x)
    /\ reply'.kind \in {"Granted", "Denied"}
    /\ phase' = "Terminated"
    /\ out' = Return("Finished", OutcomeOf(reply'))
    /\ told' = TRUE
    /\ UNCHANGED <<tunnel, outQueue, pending>>

\* "The server confirms with EAP-Success": until then the outcome is pending.
Phase2Done(m, x) ==
    /\ SessionSteps(m, x)
    /\ reply'.kind \in {"Granted", "Denied"}
    /\ phase' = "Terminated"
    /\ pending' = OutcomeOf(reply')
    /\ Emit
    /\ UNCHANGED <<tunnel, told>>

\* The session returned an error, or its answer could not be encrypted.
Phase2Fails(m, x) ==
    /\ SessionSteps(m, x)
    /\ out' = Error
    /\ UNCHANGED <<phase, tunnel, outQueue, pending, told>>

\* After a verdict that could not be encrypted, Phase 2 goes on without one.
SessionOver ==
    /\ Round("Phase2")
    /\ rounds' = Counted
    /\ AlreadyTerminated
    /\ out' = Error
    /\ UNCHANGED <<phase, tunnel, outQueue, pending, told>>

\* The steps in which the session processes no TLV.
Outer ==
    \/ Undecodable \/ EapFailure \/ EapSuccess
    \/ AckDrains \/ Start \/ OutOfPhase \/ RoundLimit \/ NeedMore \/ BadRound
    \/ HandshakeFlight \/ HandshakeDone \/ HandshakeRefused
    \/ SessionOver

Phase2(m, x) == Phase2Continues(m, x) \/ Phase2Done(m, x) \/ Phase2Fails(m, x)

\* Any caller: step may be called again whatever it returned.
DriverNext == Outer \/ \E m \in Messages, x \in InnerSteps : Phase2(m, x)

DriverSpec == DriverInit /\ [][DriverNext]_driverVars

-----------------------------------------------------------------------------
DriverTypeOK ==
    /\ TypeOK
    /\ phase \in Phases
    /\ tunnel \in {"Handshaking", "NotFips", "Up"}
    /\ outQueue \in 0..(MaxPieces - 1)
    /\ pending \in Outcomes
    /\ rounds \in 0..MaxCount
    /\ out \in [kind : {"Idle", "Respond", "Finished", "Error"}, outcome : Outcomes]
    /\ told \in BOOLEAN

Granted == out.kind = "Finished" /\ out.outcome.verdict = "granted"

\* The network's word is final: once a step has returned Finished, whether for
\* an EAP-Failure or for the confirmed outcome, no later step returns success,
\* even to a caller that goes on feeding it packets.
NoGrantAfterVerdict == [][told => ~Granted']_driverVars

\* A success is reported only for a session that granted, over a tunnel whose
\* parameters passed the FIPS check, with the keys of the chain whose
\* Crypto-Binding was verified.  As for GrantIsBound, the session must not have
\* been fed on after an error of its own.
GrantIsConfirmed ==
    Granted /\ ~erred =>
        verdict = "granted" /\ bound # <<>> /\ out.outcome.msk = bound /\ tunnel = "Up"

\* A server cannot keep the client answering for ever: every answer moves on
\* to a later phase, or uses up one of the phase's rounds, or sends one of the
\* flight's remaining fragments.
Stage(p) == CASE p = "ExpectStart" -> 0 [] p = "Handshake" -> 1
              [] p = "Phase2" -> 2      [] p = "Terminated" -> 3

AnswersUseUpTheSession ==
    [][out'.kind = "Respond" =>
          \/ Stage(phase') > Stage(phase)
          \/ phase' = phase /\ rounds' > rounds /\ rounds' <= Limit(phase)
          \/ phase' = phase /\ rounds' = rounds /\ outQueue' < outQueue]_driverVars
=============================================================================
