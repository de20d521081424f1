---------------------------- MODULE PeerSession -----------------------------
(***************************************************************************)
(* One EAPHost peer-method session (crates/eaphost/src/session.rs) over    *)
(* the driver that crates/supplicant/src/builder.rs assembles: the outer   *)
(* TeapDriver, the TeapSession it runs in Phase 2, and the EapTlsInner     *)
(* that the TeapSession hands the EAP-Payload TLVs to.                     *)
(***************************************************************************)
EXTENDS Naturals, Sequences

CONSTANTS Keys, NoKey, Messages, HandshakeRounds, Phase2Rounds, MaxCount, MaxPieces

ASSUME KeyAssumption   == NoKey \notin Keys
ASSUME PieceAssumption == MaxPieces \in Nat \ {0}
ASSUME RoundAssumption ==
    /\ HandshakeRounds \in Nat /\ Phase2Rounds \in Nat /\ MaxCount \in Nat
    /\ HandshakeRounds < MaxCount /\ Phase2Rounds < MaxCount

VARIABLES identity, holdsMat, imsk, simck, cmk, presentedMat, terminated,
          reply, bound, mats, erred, verdict,
          phase, tunnel, outQueue, pending, rounds, out, told,
          innerState, started, innerTunnel, innerQueue, step, committed

Driver == INSTANCE TeapDriver
Inner  == INSTANCE InnerTls

ASSUME MessageAssumption == \A m \in Messages : m \in Driver!MessageType

VARIABLES pendingResponse,  \* pending_response is Some
          result,           \* result
          closed,           \* PeerSession.terminated
          action            \* what the last call returned

driver == <<identity, holdsMat, imsk, simck, cmk, presentedMat, terminated,
            reply, bound, mats, erred, verdict,
            phase, tunnel, outQueue, pending, rounds, out, told>>
inner  == <<innerState, started, innerTunnel, innerQueue, step, committed>>
peer   == <<pendingResponse, result, closed, action>>
vars   == <<driver, inner, peer>>

Init ==
    /\ Driver!DriverInit
    /\ Inner!Init
    /\ pendingResponse = FALSE
    /\ result = Driver!NoOutcome
    /\ closed = FALSE
    /\ action = "Idle"

-----------------------------------------------------------------------------
\* driver.step over the assembled driver: the inner method runs when, and only
\* when, the session hands it an EAP-Payload, and its answer is what the
\* session then sees.
TlvStep(m, x) ==
    /\ Driver!Phase2(m, x)
    /\ IF x.tag = "NotRun" THEN UNCHANGED inner ELSE Inner!Process /\ step' = x

DriverStep ==
    \/ Driver!Outer /\ UNCHANGED inner
    \/ \E m \in Messages, x \in Inner!Steps \cup {[tag |-> "NotRun", imsk |-> NoKey]} :
          TlvStep(m, x)

Answered ==
    /\ out'.kind = "Respond"
    /\ pendingResponse' = TRUE
    /\ action' = "Respond"
    /\ UNCHANGED <<result, closed>>

\* finish; the driver attaches no packet to a Finished, so one that was not
\* fetched stays queued.
Concluded(outcome) ==
    /\ result' = outcome
    /\ closed' = TRUE
    /\ action' = "Finished"
    /\ UNCHANGED pendingResponse

MutOpen == out.kind # "Finished"

Open == ~closed

\* process, where the driver takes `dstep`: its error fails closed.
Handles(dstep) ==
    /\ Open
    /\ dstep
    /\ \/ Answered
       \/ out'.kind = "Finished" /\ Concluded(out'.outcome)
       \/ out'.kind = "Error" /\ Concluded(Driver!Denied)

Process == Handles(DriverStep)

\* "Report terminal, do nothing."
ProcessLate ==
    /\ closed
    /\ action' = "Finished"
    /\ UNCHANGED <<driver, inner, pendingResponse, result, closed>>

TakeResponse ==
    /\ pendingResponse
    /\ pendingResponse' = FALSE
    /\ UNCHANGED <<driver, inner, result, closed, action>>

Next == Process \/ ProcessLate \/ TakeResponse

Spec == Init /\ [][Next]_vars

-----------------------------------------------------------------------------
TypeOK ==
    /\ Driver!DriverTypeOK
    /\ Inner!TypeOK
    /\ pendingResponse \in BOOLEAN
    /\ result \in Driver!Outcomes
    /\ closed \in BOOLEAN
    /\ action \in {"Idle", "Respond", "Finished"}

\* Access is granted only on the whole chain of evidence: an outer tunnel and
\* an inner handshake that both passed the FIPS check, an inner commitment, and
\* a Crypto-Binding proving that the server's end of the inner handshake is the
\* far end of this tunnel; the keys handed to EAPHost come from that chain.
ResultIsEarned ==
    result.verdict = "granted" =>
        /\ tunnel = "Up" /\ innerTunnel = "Up" /\ committed
        /\ bound = <<imsk>> /\ result.msk = bound
        /\ phase = "Terminated" /\ pending = Driver!NoOutcome

\* The verdict EAPHost can read never changes once it is there, whatever the
\* host or the network goes on sending.
ResultIsFinal == [][result # Driver!NoOutcome => result' = result]_vars

\* What EAPHost is told about a session is one abstract authentication.
Verdict == IF result = Driver!NoOutcome THEN "pending" ELSE result.verdict

Abstract == INSTANCE Authentication
                WITH evidence <- Driver!Evidence, verdict <- Verdict

\* Every step of the assembled session is a step of the abstract authentication:
\* its evidence only grows, and the verdict that EAPHost can read is final,
\* whatever the host or the network goes on sending.
ImplementsAuthentication == Abstract!Spec
=============================================================================
