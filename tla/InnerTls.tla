------------------------------ MODULE InnerTls ------------------------------
(***************************************************************************)
(* The inner EAP-TLS method (crates/supplicant/src/inner_tls.rs): a second *)
(* TLS handshake, carried in EAP-Payload TLVs, that authenticates the      *)
(* machine or the user and exports the IMSK.  One call of `process` takes  *)
(* one inner EAP packet; any error in it fails the method for good.        *)
(*                                                                         *)
(* As in TeapDriver, a push into the Reassembler is represented by what it *)
(* returns and rustls by the state of its handshake.                       *)
(***************************************************************************)
EXTENDS Naturals

CONSTANTS Keys,       \* the IMSKs a completed handshake may export
          NoKey,
          MaxPieces   \* the most fragments a flight is cut into

VARIABLES innerState,  \* state
          started,     \* started
          innerTunnel, \* tunnel: the handshake and its `established` gate
          innerQueue,  \* out_queue: fragments of our flight not yet sent
          step,        \* what the last process returned
          committed    \* history: a non-empty message followed the handshake

vars == <<innerState, started, innerTunnel, innerQueue, step, committed>>

States == {"Handshake", "AwaitCommitment", "Done", "Failed"}
Steps  == [tag : {"Idle", "Respond", "Failed"}, imsk : {NoKey}]
            \cup [tag : {"Done"}, imsk : Keys]

Return(tag) == [tag |-> tag, imsk |-> NoKey]

Init ==
    /\ innerState = "Handshake"
    /\ started = FALSE
    /\ innerTunnel = "Handshaking"
    /\ innerQueue = 0
    /\ step = Return("Idle")
    /\ committed = FALSE

-----------------------------------------------------------------------------
(* try_process, by its exits.                                               *)

Alive == innerState \in {"Handshake", "AwaitCommitment"}

\* A bare ACK while fragments of our flight are queued.
AckDrains ==
    /\ Alive /\ innerQueue > 0
    /\ innerQueue' = innerQueue - 1
    /\ step' = Return("Respond")
    /\ UNCHANGED <<innerState, started, innerTunnel, committed>>

\* send_tls: the first fragment goes out, the rest replaces the queue.
Emit == innerQueue' \in 0..(MaxPieces - 1) /\ step' = Return("Respond")

Start ==
    /\ Alive /\ innerState = "Handshake" /\ ~started
    /\ started' = TRUE
    /\ Emit
    /\ UNCHANGED <<innerState, innerTunnel, committed>>

\* push returned None, in either state that reads messages.
NeedMore ==
    /\ Alive /\ started
    /\ step' = Return("Respond")
    /\ UNCHANGED <<innerState, started, innerTunnel, innerQueue, committed>>

Flight ==
    /\ Alive /\ innerState = "Handshake" /\ started
    /\ innerTunnel = "Handshaking"
    /\ Emit
    /\ UNCHANGED <<innerState, started, innerTunnel, committed>>

\* finish_handshake has verified the negotiated parameters.
HandshakeDone ==
    /\ Alive /\ innerState = "Handshake" /\ started
    /\ innerTunnel' = "Up"
    /\ innerState' = "AwaitCommitment"
    /\ Emit
    /\ UNCHANGED <<started, committed>>

MutNonEmpty(records) == TRUE

\* "Reject an empty frame so completion cannot be forced by a content-free
\* M=0 message."
NonEmpty(records) == records = "records"

Commit(records) ==
    /\ Alive /\ innerState = "AwaitCommitment"
    /\ NonEmpty(records)
    /\ innerState' = "Done"
    /\ step' \in [tag : {"Done"}, imsk : Keys]
    /\ committed' = (records = "records")
    /\ UNCHANGED <<started, innerTunnel, innerQueue>>

\* An Err of try_process, which process turns into Failed: a packet that is no
\* EAP-TLS request or comes too late, a first packet without Start, a
\* reassembly or TLS error, an empty commitment.
Fail ==
    /\ innerState' = "Failed"
    /\ step' = Return("Failed")
    /\ UNCHANGED <<started, innerTunnel, innerQueue, committed>>

\* An Err further on: the parameters are not allowed, or the first fragment of
\* the next flight is too large for an EAP packet.
FailLate ==
    /\ Alive /\ innerState = "Handshake"
    /\ started' = TRUE
    /\ \/ innerTunnel' \in {innerTunnel, "Up"} /\ innerQueue' \in 0..(MaxPieces - 1)
       \/ innerTunnel' = "NotFips" /\ UNCHANGED innerQueue
    /\ started \/ innerTunnel' = innerTunnel
    /\ innerState' = "Failed"
    /\ step' = Return("Failed")
    /\ UNCHANGED committed

Process ==
    \/ AckDrains \/ Start \/ NeedMore \/ Flight \/ HandshakeDone
    \/ \E records \in {"empty", "records"} : Commit(records)
    \/ Fail \/ FailLate

Next == Process

Spec == Init /\ [][Next]_vars

-----------------------------------------------------------------------------
TypeOK ==
    /\ innerState \in States
    /\ started \in BOOLEAN /\ committed \in BOOLEAN
    /\ innerTunnel \in {"Handshaking", "NotFips", "Up"}
    /\ innerQueue \in 0..(MaxPieces - 1)
    /\ step \in Steps
=============================================================================
