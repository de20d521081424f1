---------------------------- MODULE TeapSession -----------------------------
(***************************************************************************)
(* The Phase-2 state machine of one TEAP session (crates/teap/src/         *)
(* session.rs): it is handed the decrypted TLVs of one inbound message at  *)
(* a time and answers with TLVs, a verdict, or a decode error.             *)
(*                                                                         *)
(* A message is a record of what `step` can tell apart about its TLVs; the *)
(* inner EAP-TLS method is the InnerMethod trait, so the result of running *)
(* it is an input of the step.  A key is the IMSK the method exported; a   *)
(* key chain <<k1, ..., kj>> stands for S-IMCK[j] and for the CMK and MSK  *)
(* derived from it, and a Crypto-Binding carries the chain its sender      *)
(* computed the MAC under.                                                 *)
(***************************************************************************)
EXTENDS Naturals, Sequences

CONSTANTS Keys,      \* the IMSKs an inner method may export
          NoKey,     \* no IMSK captured yet
          Messages   \* the inbound messages considered

Identities == {"Machine", "User"}
Statuses   == {"Absent", "Undecodable", "Success", "Failure"}
Forms      == {"Absent", "Undecodable", "BadFields", "BadMac", "Request"}
Bindings   == [form : Forms, chain : Seq(Keys)]
InnerSteps == [tag : {"NotRun", "Respond", "Failed", "BadLength"}, imsk : {NoKey}]
                \cup [tag : {"Done"}, imsk : Keys]

\* framed: no critical TLV is duplicated or lacks its Mandatory bit; eap: an
\* EAP-Payload TLV is present; top, nested: the Crypto-Binding at top level and
\* inside the Intermediate-Result; mat: the first vendor TLV find_mat stops at.
MessageType == [framed : BOOLEAN, idt : Identities \cup {"Absent", "Undecodable"},
                eap : BOOLEAN, ir : Statuses, top : Bindings, nested : Bindings,
                result : Statuses, mat : {"Absent", "Undecodable", "Ours"}]

ASSUME KeyAssumption     == NoKey \notin Keys
ASSUME MessageAssumption == \A m \in Messages : m \in MessageType

Tlvs    == {"Mat", "EapPayload", "IntermediateResult", "ResultSuccess", "ResultFailure"}
Reasons == {"MalformedMessage", "IdentityMismatch", "BadImsk", "InnerFailed",
            "MissingCryptoBinding", "BadCryptoBindingFields", "CryptoBinding",
            "ServerFailure"}
Replies == [kind : {"Idle", "Error", "Continue", "Denied", "Granted"},
            sent : SUBSET Tlvs, reason : Reasons \cup {"None"},
            msk : Seq(Keys), mat : BOOLEAN]

VARIABLES identity,      \* cfg.identity
          holdsMat,      \* cfg.mat_to_present is Some
          imsk,          \* the captured inner key
          simck,         \* ks: the keys absorbed so far, in order
          cmk,           \* the chain CMK was derived from, <<>> for None
          presentedMat,  \* presented_mat
          terminated,    \* terminated
          reply,         \* what the last step returned
          bound,         \* history: the chain of the last verified Crypto-Binding
          mats,          \* history: how many replies carried the MAT
          erred,         \* history: step has returned an error before any verdict
          verdict        \* history: the outcome of the last Done

code    == <<identity, holdsMat, imsk, simck, cmk, presentedMat, terminated>>
history == <<bound, mats, erred, verdict>>
vars    == <<code, reply, history>>

Answer(kind, sent, reason) ==
    [kind |-> kind, sent |-> sent, reason |-> reason, msk |-> <<>>, mat |-> FALSE]

Init ==
    /\ identity \in Identities
    /\ holdsMat \in BOOLEAN
    /\ imsk = NoKey
    /\ simck = <<>>
    /\ cmk = <<>>
    /\ presentedMat = FALSE
    /\ terminated = FALSE
    /\ reply = Answer("Idle", {}, "None")
    /\ bound = <<>>
    /\ mats = 0
    /\ erred = FALSE
    /\ verdict = "pending"

-----------------------------------------------------------------------------
(* The sections of `step`, in the order the code runs them.  Each predicate *)
(* holds of a message m and inner result x that get as far as the section. *)

AtPayload(m) == m.framed /\ m.idt \in {"Absent", identity}

MarksPresented(m) == AtPayload(m) /\ m.idt = "User"

MutPresentsMat(m) == MarksPresented(m) /\ holdsMat

PresentsMat(m) == MarksPresented(m) /\ ~presentedMat /\ holdsMat

AtIntermediate(m, x) == AtPayload(m) /\ x.tag \in {"NotRun", "Respond", "Done"}

ImskAfter(m, x) == IF AtPayload(m) /\ x.tag = "Done" THEN x.imsk ELSE imsk

MutAtInnerSuccess(m, x) == AtIntermediate(m, x) /\ m.ir = "Success"

AtInnerSuccess(m, x) ==
    AtIntermediate(m, x) /\ m.ir = "Success" /\ ImskAfter(m, x) # NoKey

MutAbsorbs(m, x) == AtInnerSuccess(m, x)

\* "Absorb exactly once": before the Crypto-Binding is looked for.
Absorbs(m, x) == AtInnerSuccess(m, x) /\ cmk = <<>>

SimckAfter(m, x) == IF Absorbs(m, x) THEN Append(simck, ImskAfter(m, x)) ELSE simck

CmkAfter(m, x) == IF Absorbs(m, x) THEN SimckAfter(m, x) ELSE cmk

\* find_crypto_binding: the top-level TLV, else the one nested in the result.
Binding(m) == IF m.top.form # "Absent" THEN m.top ELSE m.nested

MutVerifies(m, x) == Binding(m).form = "Request"

\* cryptobind::verify: the MAC was computed under our chain.
Verifies(m, x) ==
    Binding(m).form = "Request" /\ Binding(m).chain = CmkAfter(m, x)

Binds(m, x) == AtInnerSuccess(m, x) /\ Verifies(m, x)

AtResult(m, x) == AtIntermediate(m, x) /\ (m.ir = "Absent" \/ Binds(m, x))

MutAccepts(m, x) == AtResult(m, x) /\ m.result = "Success"

\* A success Result is honoured once there is a CMK.
Accepts(m, x) == AtResult(m, x) /\ m.result = "Success" /\ CmkAfter(m, x) # <<>>

KeepsMat(m) == identity = "Machine" /\ m.mat = "Ours"

\* The exits through fail_step, each with its FailReason.
Rejects(m, x, reason) ==
    \/ reason = "MalformedMessage" /\ ~m.framed
    \/ reason = "IdentityMismatch" /\ m.framed /\ m.idt \in Identities \ {identity}
    \/ reason = "BadImsk" /\ AtPayload(m) /\ x.tag = "BadLength"
    \/ /\ reason = "InnerFailed"
       /\ \/ AtPayload(m) /\ x.tag = "Failed"
          \/ AtIntermediate(m, x) /\ m.ir = "Failure"
          \/ AtIntermediate(m, x) /\ m.ir = "Success" /\ ImskAfter(m, x) = NoKey
    \/ /\ reason = "MissingCryptoBinding"
       /\ \/ AtInnerSuccess(m, x) /\ Binding(m).form = "Absent"
          \/ AtResult(m, x) /\ m.result = "Success" /\ CmkAfter(m, x) = <<>>
    \/ /\ reason = "BadCryptoBindingFields"
       /\ AtInnerSuccess(m, x) /\ Binding(m).form = "BadFields"
    \/ /\ reason = "CryptoBinding"
       /\ AtInnerSuccess(m, x) /\ Binding(m).form \in {"BadMac", "Request"}
       /\ ~Verifies(m, x)
    \/ reason = "ServerFailure" /\ AtResult(m, x) /\ m.result = "Failure"

\* The exits through `?`: an error, no TLV sent and `terminated` not set.
Undecoded(m, x) ==
    \/ m.framed /\ m.idt = "Undecodable"
    \/ AtIntermediate(m, x) /\ m.ir = "Undecodable"
    \/ AtInnerSuccess(m, x) /\ Binding(m).form = "Undecodable"
    \/ AtResult(m, x) /\ m.result = "Undecodable"
    \/ Accepts(m, x) /\ identity = "Machine" /\ m.mat = "Undecodable"

\* What the sections before the exit have pushed to `out`.
Pushed(m, x) ==
    {t \in Tlvs : \/ t = "Mat" /\ PresentsMat(m)
                  \/ t = "EapPayload" /\ AtPayload(m) /\ x.tag = "Respond"
                  \/ t = "IntermediateResult" /\ Binds(m, x)}

-----------------------------------------------------------------------------
(* One call of `step` that finds the session alive: what the sections it    *)
(* reached leave behind, whatever its exit.                                 *)

\* The MAT counts as presented when a reply carries it; an error drops it.
MatsAfter(m, x) == IF PresentsMat(m) /\ ~Undecoded(m, x) THEN mats + 1 ELSE mats

\* The inner method runs exactly when section 2 is reached and finds a payload.
Runs(m, x) == x.tag # "NotRun" <=> AtPayload(m) /\ m.eap

Sections(m, x) ==
    /\ imsk' = ImskAfter(m, x)
    /\ simck' = SimckAfter(m, x)
    /\ cmk' = CmkAfter(m, x)
    /\ presentedMat' = (presentedMat \/ MarksPresented(m))
    /\ bound' = IF Binds(m, x) THEN Binding(m).chain ELSE bound
    /\ mats' = MatsAfter(m, x)
    /\ UNCHANGED <<identity, holdsMat>>

\* A malformed body: the caller gets an error and the session stays open.
DecodeError(m, x) ==
    /\ Undecoded(m, x)
    /\ Sections(m, x)
    /\ reply' = Answer("Error", {}, "None")
    /\ erred' = TRUE
    /\ UNCHANGED <<terminated, verdict>>

\* fail_step.
Fail(m, x) == \E reason \in Reasons :
    /\ Rejects(m, x, reason)
    /\ Sections(m, x)
    /\ reply' = Answer("Denied", Pushed(m, x) \cup {"ResultFailure"}, reason)
    /\ terminated' = TRUE
    /\ verdict' = "denied"
    /\ UNCHANGED erred

MutAccept(m, x) ==
    /\ Accepts(m, x) /\ ~Undecoded(m, x)
    /\ Sections(m, x)
    /\ reply' = [kind |-> "Granted", sent |-> Pushed(m, x) \cup {"ResultSuccess"},
                 reason |-> "None", msk |-> simck', mat |-> KeepsMat(m)]
    /\ verdict' = "granted"
    /\ UNCHANGED <<terminated, erred>>

\* handle_result with Success: keys are exported from the chain.
Accept(m, x) ==
    /\ Accepts(m, x) /\ ~Undecoded(m, x)
    /\ Sections(m, x)
    /\ reply' = [kind |-> "Granted", sent |-> Pushed(m, x) \cup {"ResultSuccess"},
                 reason |-> "None", msk |-> simck', mat |-> KeepsMat(m)]
    /\ terminated' = TRUE
    /\ verdict' = "granted"
    /\ UNCHANGED erred

Continue(m, x) ==
    /\ AtResult(m, x) /\ m.result = "Absent"
    /\ Sections(m, x)
    /\ reply' = Answer("Continue", Pushed(m, x), "None")
    /\ UNCHANGED <<terminated, erred, verdict>>

AlreadyTerminated ==
    /\ terminated
    /\ reply' = Answer("Error", {}, "None")
    /\ UNCHANGED <<code, history>>

Step(m, x) ==
    /\ ~terminated
    /\ Runs(m, x)
    /\ DecodeError(m, x) \/ Fail(m, x) \/ Accept(m, x) \/ Continue(m, x)

\* Any caller: `step` may be called again whatever it returned.
Next == \/ \E m \in Messages, x \in InnerSteps : Step(m, x)
        \/ AlreadyTerminated

Spec == Init /\ [][Next]_vars

-----------------------------------------------------------------------------
TypeOK ==
    /\ identity \in Identities
    /\ holdsMat \in BOOLEAN
    /\ imsk \in Keys \cup {NoKey}
    /\ simck \in Seq(Keys) /\ cmk \in Seq(Keys) /\ bound \in Seq(Keys)
    /\ presentedMat \in BOOLEAN /\ terminated \in BOOLEAN /\ erred \in BOOLEAN
    /\ reply \in Replies
    /\ mats \in Nat
    /\ verdict \in {"pending", "granted", "denied"}

\* The keys of a granted session come from exactly the key chain under which a
\* server Crypto-Binding Request was verified (session.rs "fail-closed" header):
\* never before a verification, and never from a chain that moved on since.
\* It takes a caller that stops at an error, as PeerSession does: an error
\* between the two leaves the chain derived and unverified.
GrantIsBound ==
    reply.kind = "Granted" /\ ~erred => bound # <<>> /\ reply.msk = bound

\* Our own Binding Response (the Intermediate-Result we send) is only ever
\* sealed under a chain the server has proved in that same message.
AnswerIsBound == "IntermediateResult" \in reply.sent => bound = cmk /\ cmk # <<>>

\* The inner key is folded into the chain once: whatever the server repeats,
\* CMK[1] of the session stays what it was first derived as, and no later
\* inner key moves the chain the exported keys are derived from.
ChainIsFixed == [][cmk # <<>> => cmk' = cmk /\ simck' = simck]_vars

\* The MAT goes out at most once in a session, and only in a user session
\* that holds one, whatever Identity-Type requests the server repeats.
MatOnce == mats <= 1 /\ (mats = 1 => identity = "User" /\ holdsMat)

\* The Result TLV is the last thing a session sends: once it has granted or
\* denied, whatever its caller feeds it, no further TLV leaves and no second
\* Result contradicts the first.
VerdictIsLast == [][verdict # "pending" => reply'.sent = {} /\ verdict' = verdict]_vars

\* What makes the properties above inductive: the chain and the CMK move
\* together, a verified binding is a binding to the current chain, a captured
\* key precedes the chain, and a chain that was not verified has ended the
\* session one way or the other.
ChainInv == /\ simck = cmk
            /\ bound # <<>> => bound = cmk
            /\ cmk # <<>> => imsk # NoKey
            /\ cmk # <<>> /\ bound = <<>> => terminated \/ erred
            /\ ~terminated => verdict = "pending"
            /\ terminated => verdict # "pending"
MatInv   == mats # 0 => mats = 1 /\ presentedMat /\ identity = "User" /\ holdsMat
IInv     == TypeOK /\ ChainInv /\ MatInv /\ AnswerIsBound

\* A session is one attempt of the abstract authentication: an error before
\* its verdict denies it, as PeerSession makes of any error.
Evidence == {e \in {"inner", "binding"} :
               (e = "inner" /\ imsk # NoKey) \/ (e = "binding" /\ bound # <<>>)}

Verdict == IF erred THEN "denied" ELSE verdict

Abstract == INSTANCE Authentication WITH evidence <- Evidence, verdict <- Verdict

\* Every step of a session is a step of the abstract authentication:
\* evidence only grows, the verdict is final, and no grant without both parts.
ImplementsAuthentication == Abstract!Spec
=============================================================================
