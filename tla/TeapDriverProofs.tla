-------------------------- MODULE TeapDriverProofs --------------------------
(***************************************************************************)
(* Theorems about TeapSession, for every set of keys and messages, and     *)
(* about TeapDriver, for every limit on rounds and every size of a flight. *)
(***************************************************************************)
EXTENDS TeapDriver, TLAPS

-----------------------------------------------------------------------------
(* The Phase-2 session, whoever drives it.                                  *)

\* The lemmas about one call of `step` are for every message there can be, so
\* that whoever drives the session can cite them.

\* The sections of one step preserve the type of everything they assign.
LEMMA SectionsType ==
    ASSUME TypeOK, NEW m \in MessageType, NEW x \in InnerSteps, Sections(m, x)
    PROVE  /\ imsk' \in Keys \cup {NoKey}
           /\ simck' \in Seq(Keys) /\ cmk' \in Seq(Keys) /\ bound' \in Seq(Keys)
           /\ presentedMat' \in BOOLEAN /\ mats' \in Nat
           /\ identity' \in Identities /\ holdsMat' \in BOOLEAN
<1>1. imsk' \in Keys \cup {NoKey}
  BY DEF TypeOK, Sections, ImskAfter, InnerSteps
<1>2. simck' \in Seq(Keys) /\ cmk' \in Seq(Keys)
  <2>1. CASE Absorbs(m, x)
    <3>1. ImskAfter(m, x) \in Keys
      BY <1>1, <2>1 DEF Absorbs, AtInnerSuccess, Sections
    <3>2. Append(simck, ImskAfter(m, x)) \in Seq(Keys)
      BY <3>1 DEF TypeOK
    <3> QED
      BY <2>1, <3>2 DEF Sections, SimckAfter, CmkAfter
  <2>2. CASE ~Absorbs(m, x)
    BY <2>2 DEF Sections, SimckAfter, CmkAfter, TypeOK
  <2> QED
    BY <2>1, <2>2
<1>3. bound' \in Seq(Keys)
  <2>1. Binding(m).chain \in Seq(Keys)
    BY DEF Binding, MessageType, Bindings
  <2> QED
    BY <2>1 DEF Sections, TypeOK
<1>4. mats' \in Nat
  BY DEF Sections, MatsAfter, TypeOK
<1> QED
  BY <1>1, <1>2, <1>3, <1>4 DEF Sections, TypeOK, MarksPresented, AtPayload

\* A Request that verified carries the chain our CMK was derived from.
LEMMA BindsChain ==
    ASSUME TypeOK, NEW m \in MessageType, NEW x \in InnerSteps, Sections(m, x), Binds(m, x)
    PROVE  bound' = cmk' /\ cmk' # <<>>
<1>1. bound' = cmk'
  BY DEF Sections, Binds, Verifies
<1>2. cmk' # <<>>
  <2>1. CASE cmk = <<>>
    <3>1. Absorbs(m, x)
      BY <2>1 DEF Binds, Absorbs
    <3>2. ImskAfter(m, x) \in Keys
      BY <3>1, SectionsType DEF Absorbs, AtInnerSuccess, Sections
    <3>3. Append(simck, ImskAfter(m, x)) # <<>>
      BY <3>2 DEF TypeOK
    <3> QED
      BY <3>1, <3>3 DEF Sections, CmkAfter, SimckAfter
  <2>2. CASE cmk # <<>>
    BY <2>2 DEF Sections, CmkAfter, Absorbs
  <2> QED
    BY <2>1, <2>2
<1> QED
  BY <1>1, <1>2

\* What every step keeps of the chain, whichever exit it takes.
LEMMA SectionsChain ==
    ASSUME TypeOK, ChainInv, NEW m \in MessageType, NEW x \in InnerSteps, Sections(m, x)
    PROVE  /\ simck' = cmk'
           /\ bound' # <<>> => bound' = cmk'
           /\ cmk' # <<>> => imsk' # NoKey
           /\ cmk # <<>> => cmk' = cmk
           /\ ~AtInnerSuccess(m, x) => cmk' = cmk /\ bound' = bound
<1>1. simck' = cmk'
  BY DEF Sections, SimckAfter, CmkAfter, ChainInv
<1>2. cmk # <<>> => cmk' = cmk
  BY DEF Sections, CmkAfter, Absorbs
<1>3. bound' # <<>> => bound' = cmk'
  <2>1. CASE Binds(m, x)
    BY <2>1, BindsChain
  <2>2. CASE ~Binds(m, x)
    BY <2>2, <1>2 DEF Sections, ChainInv
  <2> QED
    BY <2>1, <2>2
<1>4. cmk' # <<>> => imsk' # NoKey
  <2>1. imsk # NoKey => imsk' # NoKey
    BY KeyAssumption DEF Sections, ImskAfter, InnerSteps
  <2>2. CASE Absorbs(m, x)
    BY <2>2 DEF Absorbs, AtInnerSuccess, Sections
  <2>3. CASE ~Absorbs(m, x)
    BY <2>1, <2>3 DEF Sections, CmkAfter, ChainInv
  <2> QED
    BY <2>2, <2>3
<1>5. ~AtInnerSuccess(m, x) => cmk' = cmk /\ bound' = bound
  BY DEF Sections, CmkAfter, Absorbs, Binds
<1> QED
  BY <1>1, <1>2, <1>3, <1>4, <1>5

\* The MAT leaves only in the step that first marks it presented.
LEMMA SectionsMat ==
    ASSUME TypeOK, MatInv, NEW m \in MessageType, NEW x \in InnerSteps, Sections(m, x)
    PROVE  MatInv'
<1>1. CASE PresentsMat(m) /\ ~Undecoded(m, x)
  <2>1. mats = 0
    BY <1>1 DEF PresentsMat, MatInv
  <2>2. mats' = 1
    BY <1>1, <2>1 DEF Sections, MatsAfter
  <2>3. presentedMat'
    BY <1>1 DEF Sections, PresentsMat
  <2>4. identity' = "User" /\ holdsMat'
    BY <1>1 DEF Sections, PresentsMat, MarksPresented, AtPayload
  <2> QED
    BY <2>2, <2>3, <2>4 DEF MatInv
<1>2. CASE ~(PresentsMat(m) /\ ~Undecoded(m, x))
  BY <1>2 DEF Sections, MatsAfter, MatInv
<1> QED
  BY <1>1, <1>2

\* A reply that carries our Binding Response was made under a verified chain.
LEMMA PushedIsBound ==
    ASSUME TypeOK, NEW m \in MessageType, NEW x \in InnerSteps, Sections(m, x),
           "IntermediateResult" \in Pushed(m, x)
    PROVE  bound' = cmk' /\ cmk' # <<>>
<1>1. Binds(m, x)
  BY DEF Pushed
<1> QED
  BY <1>1, BindsChain

\* An exit that leaves the session open and reports no error has a CMK only if
\* the message, or one before it, verified a Crypto-Binding.
LEMMA OpenIsBound ==
    ASSUME TypeOK, ChainInv, NEW m \in MessageType, NEW x \in InnerSteps, Sections(m, x),
           AtResult(m, x), ~terminated, ~erred, cmk' # <<>>
    PROVE  bound' # <<>>
<1>1. CASE Binds(m, x)
  BY <1>1, BindsChain
<1>2. CASE m.ir = "Absent"
  <2>1. cmk' = cmk /\ bound' = bound
    BY <1>2, SectionsChain DEF AtInnerSuccess
  <2> QED
    BY <2>1 DEF ChainInv
<1> QED
  BY <1>1, <1>2 DEF AtResult

LEMMA InitInv == Init => IInv
<1> SUFFICES ASSUME Init PROVE IInv
  OBVIOUS
<1>1. reply \in Replies
  BY DEF Init, Answer, Replies
<1>2. <<>> \in Seq(Keys)
  OBVIOUS
<1>3. TypeOK
  BY <1>1, <1>2 DEF Init, TypeOK
<1> QED
  BY <1>3 DEF IInv, Init, ChainInv, MatInv, AnswerIsBound, Answer

LEMMA PushedType == ASSUME NEW m, NEW x PROVE Pushed(m, x) \in SUBSET Tlvs
  BY DEF Pushed

\* The invariant through each exit of `step`.
LEMMA StepInv ==
    ASSUME IInv, NEW m \in MessageType, NEW x \in InnerSteps, Step(m, x)
    PROVE  IInv'
<1> USE DEF IInv
<1>1. Sections(m, x)
  BY DEF Step, DecodeError, Fail, Accept, Continue
<1>2. MatInv'
  BY <1>1, SectionsMat
<1>3. /\ simck' = cmk'
      /\ bound' # <<>> => bound' = cmk'
      /\ cmk' # <<>> => imsk' # NoKey
  BY <1>1, SectionsChain
<1>4. CASE DecodeError(m, x)
  <2>1. reply' \in Replies /\ reply'.sent = {}
    BY <1>4 DEF DecodeError, Answer, Replies
  <2>2. TypeOK'
    BY <1>1, <1>4, <2>1, SectionsType DEF TypeOK, DecodeError
  <2>3. ChainInv'
    BY <1>3, <1>4 DEF ChainInv, DecodeError
  <2> QED
    BY <1>2, <2>1, <2>2, <2>3 DEF AnswerIsBound
<1>5. CASE Fail(m, x)
  <2>1. PICK r \in Reasons :
          reply' = Answer("Denied", Pushed(m, x) \cup {"ResultFailure"}, r)
    BY <1>5 DEF Fail
  <2>2. reply' \in Replies
    BY <2>1, PushedType DEF Answer, Replies, Tlvs
  <2>3. TypeOK'
    BY <1>1, <1>5, <2>2, SectionsType DEF TypeOK, Fail
  <2>4. ChainInv'
    BY <1>3, <1>5 DEF ChainInv, Fail
  <2>5. AnswerIsBound'
    BY <1>1, <2>1, PushedIsBound DEF AnswerIsBound, Answer
  <2> QED
    BY <1>2, <2>2, <2>3, <2>4, <2>5
<1>6. CASE Accept(m, x)
  <2>1. reply' = [kind |-> "Granted", sent |-> Pushed(m, x) \cup {"ResultSuccess"},
                  reason |-> "None", msk |-> simck', mat |-> KeepsMat(m)]
    BY <1>6 DEF Accept
  <2>2. simck' \in Seq(Keys) /\ KeepsMat(m) \in BOOLEAN
    BY <1>1, SectionsType DEF KeepsMat
  <2>3. reply' \in Replies
    BY <2>1, <2>2, PushedType DEF Replies, Tlvs
  <2>4. TypeOK'
    BY <1>1, <1>6, <2>3, SectionsType DEF TypeOK, Accept
  <2>5. ChainInv'
    BY <1>3, <1>6 DEF ChainInv, Accept
  <2>6. AnswerIsBound'
    BY <1>1, <2>1, PushedIsBound DEF AnswerIsBound
  <2> QED
    BY <1>2, <2>4, <2>5, <2>6
<1>7. CASE Continue(m, x)
  <2>1. reply' = Answer("Continue", Pushed(m, x), "None")
    BY <1>7 DEF Continue
  <2>2. reply' \in Replies
    BY <2>1, PushedType DEF Answer, Replies
  <2>3. TypeOK'
    BY <1>1, <1>7, <2>2, SectionsType DEF TypeOK, Continue
  <2>4. ChainInv'
    <3>1. cmk' # <<>> /\ bound' = <<>> => terminated' \/ erred'
      BY <1>1, <1>7, OpenIsBound DEF Continue, Step
    <3>2. ~terminated' /\ verdict' = "pending"
      BY <1>7 DEF Continue, Step, ChainInv
    <3> QED
      BY <1>3, <3>1, <3>2 DEF ChainInv
  <2>5. AnswerIsBound'
    BY <1>1, <2>1, PushedIsBound DEF AnswerIsBound, Answer
  <2> QED
    BY <1>2, <2>2, <2>3, <2>4, <2>5
<1> QED
  BY <1>4, <1>5, <1>6, <1>7 DEF Step

LEMMA NextInv == IInv /\ [Next]_vars => IInv'
<1> SUFFICES ASSUME IInv, [Next]_vars PROVE IInv'
  OBVIOUS
<1>1. CASE \E m \in Messages, x \in InnerSteps : Step(m, x)
  BY <1>1, StepInv, MessageAssumption
<1>2. CASE AlreadyTerminated
  <2>1. reply' \in Replies /\ reply'.sent = {}
    BY <1>2 DEF AlreadyTerminated, Answer, Replies
  <2>2. TypeOK'
    BY <1>2, <2>1 DEF IInv, TypeOK, AlreadyTerminated, code, history
  <2> QED
    BY <1>2, <2>1, <2>2
    DEF IInv, ChainInv, MatInv, AnswerIsBound, AlreadyTerminated,
        code, history
<1>3. CASE UNCHANGED vars
  BY <1>3 DEF vars, code, history, IInv, TypeOK, ChainInv, MatInv, AnswerIsBound
<1> QED
  BY <1>1, <1>2, <1>3 DEF Next

\* The inductive invariant holds of a session whoever drives it.
THEOREM Invariance == Spec => []IInv
<1> QED
  BY InitInv, NextInv, PTL DEF Spec

\* Every variable keeps its type.
THEOREM TypeCorrect == Spec => []TypeOK
<1>1. IInv => TypeOK
  BY DEF IInv
<1> QED
  BY <1>1, Invariance, PTL

\* Our Binding Response is only ever sealed under a chain the server proved.
THEOREM AnswersAreBound == Spec => []AnswerIsBound
<1>1. IInv => AnswerIsBound
  BY DEF IInv
<1> QED
  BY <1>1, Invariance, PTL

\* The MAT goes out at most once, from a user session that holds one.
THEOREM MatGoesOutOnce == Spec => []MatOnce
<1>1. IInv => MatOnce
  BY DEF IInv, MatInv, MatOnce
<1> QED
  BY <1>1, Invariance, PTL

\* The key chain never moves once CMK[1] has been derived.
THEOREM ChainStaysFixed == Spec => ChainIsFixed
<1>1. IInv /\ [Next]_vars => [cmk # <<>> => cmk' = cmk /\ simck' = simck]_vars
  <2> SUFFICES ASSUME IInv, Next, cmk # <<>> PROVE cmk' = cmk /\ simck' = simck
    OBVIOUS
  <2>1. CASE \E m \in Messages, x \in InnerSteps : Step(m, x)
    <3>1. PICK m \in Messages, x \in InnerSteps : Step(m, x)
      BY <2>1
    <3>2. Sections(m, x)
      BY <3>1 DEF Step, DecodeError, Fail, Accept, Continue
    <3> QED
      BY <3>2, SectionsChain, MessageAssumption DEF IInv, ChainInv
  <2>2. CASE AlreadyTerminated
    BY <2>2 DEF AlreadyTerminated, code
  <2> QED
    BY <2>1, <2>2 DEF Next
<1> QED
  BY <1>1, Invariance, PTL DEF Spec, ChainIsFixed

\* Nothing is sent after the verdict, and no other verdict follows it.
THEOREM VerdictStaysLast == Spec => VerdictIsLast
<1>1. IInv /\ [Next]_vars
        => [verdict # "pending" => reply'.sent = {} /\ verdict' = verdict]_vars
  <2> SUFFICES ASSUME IInv, Next, verdict # "pending"
               PROVE  reply'.sent = {} /\ verdict' = verdict
    OBVIOUS
  <2>1. terminated
    BY DEF IInv, ChainInv
  <2>2. AlreadyTerminated
    BY <2>1 DEF Next, Step
  <2> QED
    BY <2>2 DEF AlreadyTerminated, Answer, history
<1> QED
  BY <1>1, Invariance, PTL DEF Spec, VerdictIsLast

-----------------------------------------------------------------------------
(* Grants and the abstract authentication.                                  *)

\* Whatever a grant returns rests on a chain verified before it.
LEMMA AcceptIsBound ==
    ASSUME IInv, ~erred, ~terminated, NEW m \in MessageType, NEW x \in InnerSteps,
           Accept(m, x)
    PROVE  bound' # <<>> /\ reply'.msk = bound' /\ imsk' # NoKey
<1>1. Sections(m, x) /\ AtResult(m, x) /\ reply'.msk = simck'
  BY DEF Accept, Accepts
<1>2. cmk' # <<>>
  BY <1>1 DEF Accept, Accepts, Sections
<1>3. bound' # <<>>
  BY <1>1, <1>2, OpenIsBound DEF IInv
<1> QED
  BY <1>1, <1>2, <1>3, SectionsChain DEF IInv

\* The keys of a granted session come from exactly the chain under which a
\* server Crypto-Binding was verified.
THEOREM GrantsAreBound == Spec => []GrantIsBound
<1>1. Init => GrantIsBound
  BY DEF Init, GrantIsBound, Answer
<1>2. IInv /\ GrantIsBound /\ [Next]_vars => GrantIsBound'
  <2> SUFFICES ASSUME IInv, GrantIsBound, [Next]_vars PROVE GrantIsBound'
    OBVIOUS
  <2>1. ASSUME Next, NEW m \in MessageType, NEW x \in InnerSteps, Step(m, x)
        PROVE  GrantIsBound'
    <3>1. CASE Accept(m, x)
      <4>1. erred' = erred
        BY <3>1 DEF Accept
      <4>2. ~erred => bound' # <<>> /\ reply'.msk = bound'
        BY <2>1, <3>1, AcceptIsBound DEF Step
      <4> QED
        BY <4>1, <4>2 DEF GrantIsBound
    <3>2. CASE DecodeError(m, x) \/ Fail(m, x) \/ Continue(m, x)
      BY <3>2 DEF GrantIsBound, DecodeError, Fail, Continue, Answer
    <3> QED
      BY <2>1, <3>1, <3>2 DEF Step
  <2>2. CASE AlreadyTerminated
    BY <2>2 DEF AlreadyTerminated, Answer, GrantIsBound
  <2>3. CASE UNCHANGED vars
    BY <2>3 DEF vars, history, GrantIsBound
  <2> QED
    BY <2>1, <2>2, <2>3, MessageAssumption DEF Next
<1> QED
  BY <1>1, <1>2, Invariance, PTL DEF Spec

\* What one call leaves of the evidence, whatever its exit.
LEMMA EvidenceGrows ==
    ASSUME IInv, NEW m \in MessageType, NEW x \in InnerSteps, Sections(m, x)
    PROVE  /\ Evidence \subseteq Evidence'
           /\ Abstract!Coherent(Evidence')
<1>1. imsk # NoKey => imsk' # NoKey
  BY KeyAssumption DEF Sections, ImskAfter, InnerSteps
<1>2. bound # <<>> => bound' # <<>>
  BY BindsChain DEF IInv, Sections
<1>3. bound' # <<>> => imsk' # NoKey
  BY SectionsChain DEF IInv
<1> QED
  BY <1>1, <1>2, <1>3 DEF Evidence, Abstract!Coherent

\* A session implements the abstract authentication: initial states map to
\* initial states, a call to one step of progress, a call after an error to one
\* of a denied attempt running on, and a call after the verdict to a stutter.
THEOREM SessionImplementsAuthentication == Spec => ImplementsAuthentication
<1>1. Init => Abstract!Init
  BY DEF Init, Abstract!Init, Evidence, Verdict
<1>2. IInv /\ [Next]_vars => [Abstract!Next]_<<Evidence, Verdict>>
  <2> SUFFICES ASSUME IInv, [Next]_vars
               PROVE  [Abstract!Next]_<<Evidence, Verdict>>
    OBVIOUS
  <2>1. ASSUME NEW m \in MessageType, NEW x \in InnerSteps, Step(m, x)
        PROVE  Abstract!Next
    <3>1. ~terminated /\ verdict = "pending" /\ Sections(m, x)
      BY <2>1 DEF Step, DecodeError, Fail, Accept, Continue, IInv, ChainInv
    <3>2. Evidence' \in SUBSET Abstract!Evidence
      BY DEF Evidence, Abstract!Evidence
    <3>3. CASE erred
      <4>1. erred'
        BY <2>1, <3>3 DEF Step, DecodeError, Fail, Accept, Continue
      <4>2. Verdict = "denied" /\ Verdict' = "denied"
        BY <3>3, <4>1 DEF Verdict
      <4> QED
        BY <3>1, <3>2, <4>2, EvidenceGrows DEF Abstract!Next, Abstract!RunOn
    <3>4. CASE ~erred
      <4>1. Verdict = "pending"
        BY <3>1, <3>4 DEF Verdict
      <4>2. \/ Verdict' \in {"pending", "denied"}
            \/ Verdict' = "granted" /\ Evidence' = Abstract!Evidence
        <5>1. CASE Accept(m, x)
          <6>1. Verdict' = "granted"
            BY <3>4, <5>1 DEF Accept, Verdict
          <6>2. bound' # <<>> /\ imsk' # NoKey
            BY <3>1, <3>4, <5>1, AcceptIsBound
          <6> QED
            BY <6>1, <6>2 DEF Evidence, Abstract!Evidence
        <5>2. CASE DecodeError(m, x)
          BY <5>2 DEF DecodeError, Verdict
        <5>3. CASE Fail(m, x)
          BY <3>4, <5>3 DEF Fail, Verdict
        <5>4. CASE Continue(m, x)
          BY <3>1, <3>4, <5>4 DEF Continue, Verdict
        <5> QED
          BY <2>1, <5>1, <5>2, <5>3, <5>4 DEF Step
      <4> QED
        BY <3>1, <3>2, <4>1, <4>2, EvidenceGrows DEF Abstract!Next, Abstract!Progress
    <3> QED
      BY <3>3, <3>4
  <2>2. CASE AlreadyTerminated
    BY <2>2 DEF AlreadyTerminated, code, history, Evidence, Verdict
  <2>3. CASE UNCHANGED vars
    BY <2>3 DEF vars, code, history, Evidence, Verdict
  <2> QED
    BY <2>1, <2>2, <2>3, MessageAssumption DEF Next
<1> QED
  BY <1>1, <1>2, Invariance, PTL
  DEF Spec, ImplementsAuthentication, Abstract!Spec, Abstract!vars

-----------------------------------------------------------------------------
(* The session as the driver sees it, which is one caller among others.     *)

\* What a call to the session returns of a grant: the keys of a verified chain,
\* unless the session had been fed on after an error.
GrantsKeys == reply.kind = "Granted" =>
    /\ verdict = "granted"
    /\ ~erred => bound # <<>> /\ reply.msk = bound

\* One call keeps the session's invariant, and a grant of it has keys.
LEMMA SessionStep ==
    ASSUME IInv, NEW m \in MessageType, NEW x \in InnerSteps, Step(m, x)
    PROVE  IInv' /\ GrantsKeys'
<1>1. IInv'
  BY StepInv
<1>2. CASE Accept(m, x)
  <2>1. verdict' = "granted" /\ erred' = erred
    BY <1>2 DEF Accept
  <2>2. ~terminated
    BY DEF Step
  <2>3. ~erred => bound' # <<>> /\ reply'.msk = bound'
    BY <1>2, <2>2, AcceptIsBound
  <2> QED
    BY <1>1, <2>1, <2>3 DEF GrantsKeys
<1>3. CASE ~Accept(m, x)
  <2>1. reply'.kind # "Granted"
    BY <1>3 DEF Step, DecodeError, Fail, Continue, Answer
  <2> QED
    BY <1>1, <2>1 DEF GrantsKeys
<1> QED
  BY <1>2, <1>3

\* What a call may move, of what those above the driver go by: the inner key is
\* captured from the inner method that ran, the chain is that one key, and a
\* Crypto-Binding once verified stays verified.
LEMMA SessionMoves ==
    ASSUME IInv, NEW m \in MessageType, NEW x \in InnerSteps,
           Step(m, x)
    PROVE  /\ identity' = identity
           /\ imsk' = IF x.tag = "Done" THEN x.imsk ELSE imsk
           /\ cmk' = cmk \/ (cmk = <<>> /\ cmk' = <<imsk'>>)
           /\ bound # <<>> => bound' # <<>>
           /\ erred' = erred \/ reply'.kind = "Error"
           /\ x.tag # "NotRun" => m.idt \in {"Absent", identity}
<1>1. Sections(m, x) /\ Runs(m, x)
  BY DEF Step, DecodeError, Fail, Accept, Continue
<1>2. x.tag # "NotRun" => m.idt \in {"Absent", identity}
  BY <1>1 DEF Runs, AtPayload
<1>3. identity' = identity /\ imsk' = IF x.tag = "Done" THEN x.imsk ELSE imsk
  BY <1>1 DEF Sections, ImskAfter, Runs
<1>4. cmk' = cmk \/ (cmk = <<>> /\ cmk' = <<imsk'>>)
  <2>1. simck = cmk
    BY DEF IInv, ChainInv
  <2>2. CASE Absorbs(m, x)
    <3>1. cmk = <<>> /\ cmk' = Append(<<>>, imsk')
      BY <1>1, <2>1, <2>2
      DEF Absorbs, Sections, CmkAfter, SimckAfter
    <3> QED
      BY <3>1
  <2>3. CASE ~Absorbs(m, x)
    BY <1>1, <2>3 DEF Sections, CmkAfter
  <2> QED
    BY <2>2, <2>3
<1>5. bound # <<>> => bound' # <<>>
  <2>1. Evidence \subseteq Evidence'
    BY <1>1, EvidenceGrows
  <2> QED
    BY <2>1 DEF Evidence
<1>6. erred' = erred \/ reply'.kind = "Error"
  BY DEF Step, DecodeError, Fail, Accept, Continue, Answer
<1> QED
  BY <1>2, <1>3, <1>4, <1>5, <1>6

\* Two steps of the driver that run no section of the session.
LEMMA SessionStays ==
    ASSUME IInv, UNCHANGED session \/ AlreadyTerminated
    PROVE  IInv'
  BY NextInv DEF session, Next

-----------------------------------------------------------------------------
(* The inductive invariant.                                                 *)

\* An outcome that may be reported: a success only after the session granted,
\* over a tunnel that passed the FIPS check, with the keys it verified.
Confirmed(outcome) == outcome.verdict = "granted" =>
    /\ phase = "Terminated" /\ tunnel = "Up" /\ verdict = "granted"
    /\ ~erred => bound # <<>> /\ outcome.msk = bound

\* Phase 2 runs in a tunnel whose parameters were verified.
TunnelInv == phase = "Phase2" => tunnel = "Up"

\* An outcome is pending only when the session has nothing more to say.
PendingInv == /\ pending # NoOutcome => phase = "Terminated" /\ pending.verdict # "none"
              /\ Confirmed(pending)

\* What was reported is confirmed, and leaves nothing behind to report.
ReportInv == /\ out.kind = "Finished" =>
                    told /\ Confirmed(out.outcome) /\ out.outcome.verdict # "none"
             /\ told => phase = "Terminated" /\ pending = NoOutcome

DriverInv == DriverTypeOK /\ IInv /\ TunnelInv /\ PendingInv /\ ReportInv

LEMMA Constants ==
    /\ NoOutcome \in Outcomes /\ Denied \in Outcomes
    /\ \A outcome \in Outcomes : outcome.verdict # "granted" => Confirmed(outcome)
  BY DEF NoOutcome, Denied, Outcomes, Verdicts, Confirmed

LEMMA ReturnType ==
    ASSUME NEW kind \in {"Idle", "Respond", "Finished", "Error"}, NEW o \in Outcomes
    PROVE  /\ Return(kind, o) \in [kind : {"Idle", "Respond", "Finished", "Error"},
                                   outcome : Outcomes]
           /\ Return(kind, o).kind = kind /\ Return(kind, o).outcome = o
  BY DEF Return

\* Emit answers or errs, and queues what a flight leaves.
LEMMA Emits ==
    ASSUME Emit
    PROVE  /\ outQueue' \in 0..(MaxPieces - 1)
           /\ out' \in [kind : {"Respond", "Error"}, outcome : {NoOutcome}]
  BY DEF Emit, Respond, Error, Return

LEMMA DriverInitInv == DriverInit => DriverInv
<1> SUFFICES ASSUME DriverInit PROVE DriverInv
  OBVIOUS
<1>1. IInv
  BY InitInv DEF DriverInit
<1>2. out.kind = "Idle" /\ out.outcome = NoOutcome /\ pending = NoOutcome
  BY DEF DriverInit, Return
<1>3. DriverTypeOK
  <2>1. 0 \in 0..(MaxPieces - 1) /\ 0 \in 0..MaxCount
    BY PieceAssumption, RoundAssumption
  <2>2. TypeOK
    BY <1>1 DEF IInv
  <2> QED
    BY <2>1, <2>2, Constants, ReturnType DEF DriverInit, DriverTypeOK, Phases
<1>4. TunnelInv /\ ReportInv
  BY <1>2 DEF DriverInit, TunnelInv, ReportInv
<1>5. PendingInv
  BY <1>2 DEF PendingInv, Confirmed, NoOutcome
<1> QED
  BY <1>1, <1>3, <1>4, <1>5 DEF DriverInv

\* The round counter, which saturates.
LEMMA CountedType == ASSUME DriverTypeOK PROVE Counted \in 0..MaxCount
  BY RoundAssumption DEF DriverTypeOK, Counted

\* What a step outside of Phase 2 may touch: it leaves the session and the
\* verdict it reached alone, and keeps whatever is pending or drops it.
LEMMA OuterInv == ASSUME DriverInv, Outer PROVE DriverInv'
<1> USE DEF DriverInv
<1>1. IInv'
  BY SessionStays DEF Outer, Undecodable, EapFailure, EapSuccess, AckDrains, Start,
     OutOfPhase, RoundLimit, NeedMore, BadRound, HandshakeFlight, HandshakeDone,
     HandshakeRefused, EntersPhase2, Completes, SessionOver, driver
<1>2. verdict' = verdict /\ erred' = erred /\ bound' = bound
  BY DEF Outer, Undecodable, EapFailure, EapSuccess, AckDrains, Start,
     OutOfPhase, RoundLimit, NeedMore, BadRound, HandshakeFlight, HandshakeDone,
     HandshakeRefused, SessionOver, session, vars, AlreadyTerminated, history
<1>3. TypeOK'
  BY <1>1 DEF IInv
<1>4. ASSUME NEW o \in Outcomes, Confirmed(o),
             phase' = "Terminated" \/ phase' = phase, tunnel' = tunnel
      PROVE  Confirmed(o)'
  BY <1>2, <1>4 DEF Confirmed
<1>5. Error.kind = "Error" /\ Respond.kind = "Respond"
      /\ Error \in [kind : {"Idle", "Respond", "Finished", "Error"}, outcome : Outcomes]
      /\ Respond \in [kind : {"Idle", "Respond", "Finished", "Error"}, outcome : Outcomes]
  BY Constants, ReturnType DEF Error, Respond
<1>6. CASE Undecodable \/ OutOfPhase
  <2>1. UNCHANGED <<phase, tunnel, outQueue, pending, rounds, told>> /\ out' = Error
    BY <1>6 DEF Undecodable, OutOfPhase, driver
  <2>2. DriverTypeOK'
    BY <1>3, <1>5, <2>1 DEF DriverTypeOK
  <2>3. TunnelInv' /\ PendingInv' /\ ReportInv'
    BY <1>2, <1>5, <2>1 DEF TunnelInv, PendingInv, ReportInv, Confirmed
  <2> QED
    BY <1>1, <2>2, <2>3
<1>7. CASE EapFailure
  <2>1. /\ phase' = "Terminated" /\ pending' = NoOutcome /\ told' = TRUE
        /\ out'.kind = "Finished" /\ out'.outcome = Denied
        /\ out' \in [kind : {"Idle", "Respond", "Finished", "Error"}, outcome : Outcomes]
        /\ UNCHANGED <<tunnel, outQueue, rounds>>
    BY <1>7, Constants, ReturnType DEF EapFailure
  <2>2. DriverTypeOK'
    BY <1>3, <2>1, Constants DEF DriverTypeOK, Phases
  <2>3. TunnelInv' /\ PendingInv' /\ ReportInv'
    BY <2>1 DEF TunnelInv, PendingInv, ReportInv, Confirmed, NoOutcome, Denied
  <2> QED
    BY <1>1, <2>2, <2>3
<1>8. CASE EapSuccess
  <2>1. /\ phase' = "Terminated" /\ pending' = NoOutcome
        /\ UNCHANGED <<tunnel, outQueue, rounds>>
    BY <1>8 DEF EapSuccess
  <2>2. PICK p \in Outcomes : p = pending
    BY DEF DriverTypeOK
  <2>3. Confirmed(p)'
    <3>1. Confirmed(p)
      BY <2>2 DEF PendingInv
    <3> QED
      BY <1>4, <2>1, <3>1
  <2>4. CASE pending = NoOutcome
    <3>1. out' = Error /\ told' = told
      BY <1>8, <2>4 DEF EapSuccess
    <3>2. DriverTypeOK'
      BY <1>3, <1>5, <2>1, <3>1, Constants DEF DriverTypeOK, Phases
    <3>3. TunnelInv' /\ PendingInv' /\ ReportInv'
      BY <1>5, <2>1, <3>1 DEF TunnelInv, PendingInv, ReportInv, Confirmed, NoOutcome
    <3> QED
      BY <1>1, <3>2, <3>3
  <2>5. CASE pending # NoOutcome
    <3>1. /\ out'.kind = "Finished" /\ out'.outcome = p /\ told' = TRUE
          /\ out' \in [kind : {"Idle", "Respond", "Finished", "Error"}, outcome : Outcomes]
      BY <1>8, <2>2, <2>5, ReturnType DEF EapSuccess
    <3>2. DriverTypeOK'
      BY <1>3, <2>1, <3>1, Constants DEF DriverTypeOK, Phases
    <3>3. TunnelInv' /\ PendingInv'
      BY <2>1 DEF TunnelInv, PendingInv, Confirmed, NoOutcome
    <3>4. ReportInv'
      BY <2>1, <2>2, <2>5, <2>3, <3>1 DEF PendingInv, ReportInv, Confirmed
    <3> QED
      BY <1>1, <3>2, <3>3, <3>4
  <2> QED
    BY <2>4, <2>5
<1>9. CASE AckDrains \/ RoundLimit \/ NeedMore \/ BadRound \/ SessionOver \/ HandshakeFlight
  <2>1. UNCHANGED <<phase, tunnel, pending, told>>
    BY <1>9 DEF AckDrains, RoundLimit, NeedMore, BadRound, SessionOver, HandshakeFlight
  <2>2. out'.kind # "Finished"
        /\ out' \in [kind : {"Idle", "Respond", "Finished", "Error"}, outcome : Outcomes]
    BY <1>5, <1>9, Emits, Constants
    DEF AckDrains, RoundLimit, NeedMore, BadRound, SessionOver, HandshakeFlight
  <2>3. outQueue' \in 0..(MaxPieces - 1)
    BY <1>9, Emits, PieceAssumption
    DEF AckDrains, RoundLimit, NeedMore, BadRound, SessionOver, HandshakeFlight, DriverTypeOK
  <2>4. rounds' \in 0..MaxCount
    BY <1>9, CountedType
    DEF AckDrains, RoundLimit, NeedMore, BadRound, SessionOver, HandshakeFlight, DriverTypeOK
  <2>5. DriverTypeOK'
    BY <1>3, <2>1, <2>2, <2>3, <2>4 DEF DriverTypeOK
  <2>6. TunnelInv' /\ PendingInv' /\ ReportInv'
    BY <1>2, <2>1, <2>2 DEF TunnelInv, PendingInv, ReportInv, Confirmed
  <2> QED
    BY <1>1, <2>5, <2>6
<1>10. CASE Start \/ HandshakeDone \/ HandshakeRefused
  <2>1. phase \in {"ExpectStart", "Handshake"} /\ UNCHANGED <<pending, told>>
    BY <1>10 DEF Start, HandshakeDone, HandshakeRefused, EntersPhase2, Completes, Round
  <2>2. pending = NoOutcome /\ ~told
    BY <2>1 DEF PendingInv, ReportInv
  <2>3. phase' \in Phases /\ TunnelInv' /\ tunnel' \in {"Handshaking", "NotFips", "Up"}
    BY <1>10, <2>1
    DEF Start, HandshakeDone, HandshakeRefused, EntersPhase2, Completes, TunnelInv,
        DriverTypeOK, Phases
  <2>4. out'.kind # "Finished"
        /\ out' \in [kind : {"Idle", "Respond", "Finished", "Error"}, outcome : Outcomes]
    BY <1>5, <1>10, Emits, Constants DEF Start, HandshakeDone, HandshakeRefused
  <2>5. outQueue' \in 0..(MaxPieces - 1)
    BY <1>10, Emits DEF Start, HandshakeDone, HandshakeRefused, DriverTypeOK
  <2>6. rounds' \in 0..MaxCount
    BY <1>10, CountedType, RoundAssumption DEF Start, HandshakeDone, HandshakeRefused, DriverTypeOK
  <2>7. DriverTypeOK'
    BY <1>3, <2>1, <2>3, <2>4, <2>5, <2>6 DEF DriverTypeOK
  <2>8. PendingInv' /\ ReportInv'
    BY <2>1, <2>2, <2>4 DEF PendingInv, ReportInv, Confirmed, NoOutcome
  <2> QED
    BY <1>1, <2>3, <2>7, <2>8
<1> QED
  BY <1>6, <1>7, <1>8, <1>9, <1>10 DEF Outer

\* A step that hands the session a message, whatever the message.
LEMMA Phase2Inv ==
    ASSUME DriverInv, NEW m \in MessageType, NEW x \in InnerSteps,
           Phase2(m, x)
    PROVE  DriverInv'
<1> USE DEF DriverInv
<1>1. phase = "Phase2" /\ tunnel = "Up" /\ Step(m, x) /\ rounds' = Counted
  BY DEF Phase2, Phase2Continues, Phase2Done, Phase2Fails, SessionSteps, Round, TunnelInv
<1>2. pending = NoOutcome /\ ~told
  BY <1>1 DEF PendingInv, ReportInv
<1>3. IInv' /\ GrantsKeys'
  BY <1>1, SessionStep
<1>4. TypeOK'
  BY <1>3 DEF IInv
<1>5. /\ tunnel' = tunnel /\ told' = told
      /\ out'.kind # "Finished"
      /\ out' \in [kind : {"Idle", "Respond", "Finished", "Error"}, outcome : Outcomes]
      /\ outQueue' \in 0..(MaxPieces - 1) /\ rounds' \in 0..MaxCount
  <2>1. Error \in [kind : {"Idle", "Respond", "Finished", "Error"}, outcome : Outcomes]
        /\ Error.kind = "Error"
    BY Constants, ReturnType DEF Error
  <2> QED
    BY <1>1, <2>1, CountedType, Emits, Constants
    DEF Phase2, Phase2Continues, Phase2Done, Phase2Fails, DriverTypeOK
<1>6. CASE Phase2Done(m, x)
  <2>1. phase' = "Terminated" /\ pending' = OutcomeOf(reply)'
    BY <1>6 DEF Phase2Done
  <2>2. reply'.msk \in Seq(Keys)
    BY <1>4 DEF TypeOK, Replies
  <2>3. pending' \in Outcomes /\ pending'.verdict # "none"
    BY <2>1, <2>2 DEF OutcomeOf, Denied, Outcomes, Verdicts
  <2>4. Confirmed(pending)'
    BY <1>1, <1>3, <1>5, <2>1 DEF Confirmed, OutcomeOf, GrantsKeys, Denied
  <2>5. DriverTypeOK'
    BY <1>4, <1>5, <2>1, <2>3 DEF DriverTypeOK, Phases
  <2> QED
    BY <1>2, <1>3, <1>5, <2>1, <2>3, <2>4, <2>5 DEF TunnelInv, PendingInv, ReportInv
<1>7. CASE Phase2Continues(m, x) \/ Phase2Fails(m, x)
  <2>1. phase' = phase /\ pending' = pending
    BY <1>7 DEF Phase2Continues, Phase2Fails
  <2>2. DriverTypeOK'
    BY <1>4, <1>5, <2>1 DEF DriverTypeOK
  <2>3. TunnelInv' /\ PendingInv' /\ ReportInv'
    BY <1>1, <1>2, <1>5, <2>1 DEF TunnelInv, PendingInv, ReportInv, Confirmed, NoOutcome
  <2> QED
    BY <1>3, <2>2, <2>3
<1> QED
  BY <1>6, <1>7 DEF Phase2

LEMMA StutterInv == DriverInv /\ UNCHANGED driverVars => DriverInv'
<1> SUFFICES ASSUME DriverInv, UNCHANGED driverVars PROVE DriverInv'
  OBVIOUS
<1>1. UNCHANGED session /\ UNCHANGED driver /\ out' = out /\ told' = told
  BY DEF driverVars
<1>2. IInv'
  BY <1>1, SessionStays DEF DriverInv
<1>3. DriverTypeOK'
  BY <1>1, <1>2 DEF driver, DriverInv, DriverTypeOK, IInv
<1> QED
  BY <1>1, <1>2, <1>3
  DEF driver, session, vars, code, history, DriverInv, TunnelInv, PendingInv, ReportInv, Confirmed

LEMMA DriverNextInv == DriverInv /\ [DriverNext]_driverVars => DriverInv'
<1> SUFFICES ASSUME DriverInv, DriverNext PROVE DriverInv'
  BY StutterInv
<1>1. CASE Outer
  BY <1>1, OuterInv
<1>2. ASSUME NEW m \in Messages, NEW x \in InnerSteps, Phase2(m, x)
      PROVE  DriverInv'
  BY <1>2, Phase2Inv, MessageAssumption
<1> QED
  BY <1>1, <1>2 DEF DriverNext

-----------------------------------------------------------------------------
\* The inductive invariant holds of a driver whoever calls it, and in whatever
\* order packets come.
THEOREM DriverInvariance == DriverSpec => []DriverInv
<1> QED
  BY DriverInitInv, DriverNextInv, PTL DEF DriverSpec

\* A success that is reported was granted by the session, over a tunnel that
\* passed the FIPS check, with the keys of the chain the server proved.
THEOREM GrantsAreConfirmed == DriverSpec => []GrantIsConfirmed
<1>1. DriverInv => GrantIsConfirmed
  BY DEF DriverInv, ReportInv, Confirmed, Granted, GrantIsConfirmed
<1> QED
  BY <1>1, DriverInvariance, PTL

\* Once a step has returned Finished, no later step returns success.
THEOREM TheVerdictIsFinal == DriverSpec => NoGrantAfterVerdict
<1>1. DriverInv /\ [DriverNext]_driverVars => [told => ~Granted']_driverVars
  <2> SUFFICES ASSUME DriverInv, DriverNext, told PROVE ~Granted'
    OBVIOUS
  <2>1. phase = "Terminated" /\ pending = NoOutcome
    BY DEF DriverInv, ReportInv
  <2>2. CASE Outer
    <3>1. CASE EapFailure
      <4>1. out' = Return("Finished", Denied)
        BY <3>1 DEF EapFailure
      <4> QED
        BY <4>1 DEF Return, Denied, Granted
    <3>2. CASE Undecodable \/ OutOfPhase \/ RoundLimit \/ BadRound \/ HandshakeRefused
               \/ SessionOver \/ NeedMore \/ AckDrains \/ EapSuccess
      <4>1. out' = Error \/ out' = Respond
        BY <2>1, <3>2
        DEF Undecodable, OutOfPhase, RoundLimit, BadRound, HandshakeRefused, SessionOver,
            NeedMore, AckDrains, EapSuccess
      <4> QED
        BY <4>1 DEF Return, Error, Respond, Granted
    <3>3. CASE Start \/ HandshakeFlight \/ HandshakeDone
      BY <2>1, <3>3
      DEF Start, HandshakeFlight, HandshakeDone, EntersPhase2, Completes, Round
    <3> QED
      BY <2>2, <3>1, <3>2, <3>3 DEF Outer
  <2>3. CASE ~Outer
    BY <2>1, <2>3
    DEF DriverNext, Phase2, Phase2Continues, Phase2Done, Phase2Fails, SessionSteps, Round
  <2> QED
    BY <2>2, <2>3
<1> QED
  BY <1>1, DriverInvariance, PTL DEF DriverSpec, NoGrantAfterVerdict

\* Every answer moves the exchange on: to a later phase, through one of the
\* phase's rounds, or through the fragments of a flight.
THEOREM AnswersUseUp == DriverSpec => AnswersUseUpTheSession
<1> DEFINE Used == \/ Stage(phase') > Stage(phase)
                   \/ phase' = phase /\ rounds' > rounds /\ rounds' <= Limit(phase)
                   \/ phase' = phase /\ rounds' = rounds /\ outQueue' < outQueue
<1>1. DriverInv /\ [DriverNext]_driverVars => [out'.kind = "Respond" => Used]_driverVars
  <2> SUFFICES ASSUME DriverInv, DriverNext, out'.kind = "Respond" PROVE Used
    OBVIOUS
  <2>1. rounds \in Nat /\ outQueue \in Nat /\ phase \in Phases
    BY PieceAssumption, RoundAssumption DEF DriverInv, DriverTypeOK
  <2>2. ASSUME phase \in {"Handshake", "Phase2"}, ~OverLimit, rounds' = Counted,
               phase' = phase
        PROVE  Used
    BY <2>1, <2>2, RoundAssumption DEF OverLimit, Counted, Limit
  <2>3. CASE AckDrains
    BY <2>1, <2>3 DEF AckDrains
  <2>4. CASE Start \/ HandshakeDone
    BY <2>4 DEF Start, HandshakeDone, EntersPhase2, Completes, Round, Stage
  <2>5. CASE NeedMore \/ HandshakeFlight
    BY <2>2, <2>5 DEF NeedMore, HandshakeFlight, Round
  <2>6. CASE Undecodable \/ EapFailure \/ EapSuccess \/ OutOfPhase \/ RoundLimit
             \/ BadRound \/ HandshakeRefused \/ SessionOver
    BY <2>6
    DEF Undecodable, EapFailure, EapSuccess, OutOfPhase, RoundLimit, BadRound,
        HandshakeRefused, SessionOver, Error, Return
  <2>7. CASE ~Outer
    <3>1. PICK m \in Messages, x \in InnerSteps : Phase2(m, x)
      BY <2>7 DEF DriverNext
    <3>2. CASE Phase2Continues(m, x)
      BY <2>2, <3>2 DEF Phase2Continues, SessionSteps, Round
    <3>3. CASE Phase2Done(m, x)
      BY <3>3 DEF Phase2Done, SessionSteps, Round, Stage
    <3>4. CASE Phase2Fails(m, x)
      BY <3>4 DEF Phase2Fails, Error, Return
    <3> QED
      BY <3>1, <3>2, <3>3, <3>4 DEF Phase2
  <2> QED
    BY <2>3, <2>4, <2>5, <2>6, <2>7 DEF Outer
<1> QED
  BY <1>1, DriverInvariance, PTL DEF DriverSpec, AnswersUseUpTheSession
=============================================================================
