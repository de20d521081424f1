------------------------- MODULE PeerSessionProofs --------------------------
(***************************************************************************)
(* Theorems about FullSession, and with it PeerSession: a session of the   *)
(* assembled supplicant, against any network and against the test server.  *)
(***************************************************************************)
EXTENDS FullSession, TLAPS

-----------------------------------------------------------------------------
(* The driver, of which this session is one caller among others.            *)

Below == INSTANCE TeapDriverProofs

\* PeerSession and the driver's proofs instantiate one and the same driver.
LEMMA SameMessages ==
    /\ Driver!MessageType = Below!MessageType
    /\ Driver!InnerSteps = Below!InnerSteps
  BY DEF
     Driver!MessageType, Below!MessageType, Driver!Bindings, Below!Bindings,
     Driver!Forms, Below!Forms, Driver!Statuses, Below!Statuses, Driver!InnerSteps,
     Below!InnerSteps, Driver!Identities, Below!Identities

LEMMA SameOuter == ASSUME Driver!Outer PROVE Below!Outer
  BY DEF
     Driver!Outer, Below!Outer, Driver!Undecodable, Below!Undecodable,
     Driver!EapFailure, Below!EapFailure, Driver!EapSuccess, Below!EapSuccess,
     Driver!AckDrains, Below!AckDrains, Driver!Start, Below!Start, Driver!OutOfPhase,
     Below!OutOfPhase, Driver!RoundLimit, Below!RoundLimit, Driver!NeedMore,
     Below!NeedMore, Driver!BadRound, Below!BadRound, Driver!HandshakeFlight,
     Below!HandshakeFlight, Driver!HandshakeDone, Below!HandshakeDone,
     Driver!HandshakeRefused, Below!HandshakeRefused, Driver!EntersPhase2,
     Below!EntersPhase2, Driver!Completes, Below!Completes, Driver!SessionOver,
     Below!SessionOver, Driver!AlreadyTerminated, Below!AlreadyTerminated,
     Driver!Answer, Below!Answer, Driver!code, Below!code, Driver!history,
     Below!history, Driver!vars, Below!vars, Driver!session, Below!session,
     Driver!driver, Below!driver, Driver!Round, Below!Round, Driver!OverLimit,
     Below!OverLimit, Driver!Counted, Below!Counted, Driver!Limit, Below!Limit,
     Driver!Emit, Below!Emit, Driver!Respond, Below!Respond, Driver!Error, Below!Error,
     Driver!Denied, Below!Denied, Driver!NoOutcome, Below!NoOutcome, Driver!Return,
     Below!Return

LEMMA SameInit == Driver!DriverInit => Below!DriverInit
  BY DEF Driver!DriverInit, Below!DriverInit, Driver!Init, Below!Init,
         Driver!Answer, Below!Answer, Driver!Identities,
         Below!Identities, Driver!NoOutcome, Below!NoOutcome, Driver!Return,
         Below!Return

LEMMA SamePhase2 == ASSUME NEW m, NEW x, Driver!Phase2(m, x) PROVE Below!Phase2(m, x)
  BY DEF
     Driver!Phase2, Below!Phase2, Driver!Phase2Continues, Below!Phase2Continues,
     Driver!Phase2Done, Below!Phase2Done, Driver!Phase2Fails, Below!Phase2Fails,
     Driver!SessionSteps, Below!SessionSteps, Driver!OutcomeOf, Below!OutcomeOf,
     Driver!Round, Below!Round, Driver!OverLimit, Below!OverLimit, Driver!Counted,
     Below!Counted, Driver!Limit, Below!Limit, Driver!Emit, Below!Emit, Driver!Respond,
     Below!Respond, Driver!Error, Below!Error, Driver!Denied, Below!Denied,
     Driver!NoOutcome, Below!NoOutcome, Driver!Return, Below!Return, Driver!Step,
     Below!Step, Driver!DecodeError, Below!DecodeError, Driver!Fail, Below!Fail,
     Driver!Accept, Below!Accept, Driver!Continue, Below!Continue, Driver!Sections,
     Below!Sections, Driver!Runs, Below!Runs, Driver!MatsAfter, Below!MatsAfter,
     Driver!Pushed, Below!Pushed, Driver!Undecoded, Below!Undecoded, Driver!Rejects,
     Below!Rejects, Driver!KeepsMat, Below!KeepsMat, Driver!Accepts, Below!Accepts,
     Driver!AtResult, Below!AtResult, Driver!Binds, Below!Binds, Driver!Verifies,
     Below!Verifies, Driver!Binding, Below!Binding, Driver!CmkAfter, Below!CmkAfter,
     Driver!SimckAfter, Below!SimckAfter, Driver!Absorbs, Below!Absorbs,
     Driver!AtInnerSuccess, Below!AtInnerSuccess, Driver!ImskAfter, Below!ImskAfter,
     Driver!AtIntermediate, Below!AtIntermediate, Driver!PresentsMat, Below!PresentsMat,
     Driver!MarksPresented, Below!MarksPresented, Driver!AtPayload, Below!AtPayload,
     Driver!Answer, Below!Answer, Driver!Reasons, Below!Reasons, Driver!Tlvs,
     Below!Tlvs, Driver!Identities, Below!Identities

LEMMA Assumptions ==
    /\ NoKey \notin Keys /\ MaxPieces \in Nat \ {0}
    /\ \A m \in Messages : m \in Below!MessageType
  BY KeyAssumption, PieceAssumption, MessageAssumption, SameMessages

\* What one step of the driver may do, as far as the session above it goes by:
\* it keeps its own invariant and what has been verified, and a session that
\* errs makes it return an error.
DriverMoves ==
    /\ Below!DriverInv'
    /\ identity' = identity
    /\ cmk' = cmk \/ (cmk = <<>> /\ cmk' = <<imsk'>>)
    /\ imsk # NoKey => imsk' # NoKey
    /\ bound # <<>> => bound' # <<>>
    /\ erred' = erred \/ out'.kind = "Error"

LEMMA OuterMoves ==
    ASSUME Below!DriverInv, Driver!Outer
    PROVE  DriverMoves /\ imsk' = imsk /\ cmk' = cmk /\ bound' = bound /\ erred' = erred
<1>1. Below!Outer
  BY SameOuter
<1>2. Below!DriverInv'
  BY <1>1, Assumptions, RoundAssumption, Below!OuterInv
<1>3. /\ identity' = identity /\ imsk' = imsk /\ cmk' = cmk
      /\ bound' = bound /\ erred' = erred
  BY DEF Driver!Outer, Driver!Undecodable, Driver!EapFailure, Driver!EapSuccess,
     Driver!AckDrains, Driver!Start, Driver!OutOfPhase, Driver!RoundLimit,
     Driver!NeedMore, Driver!BadRound, Driver!HandshakeFlight, Driver!HandshakeDone,
     Driver!HandshakeRefused, Driver!SessionOver, Driver!session, Driver!vars,
     Driver!AlreadyTerminated, Driver!code, Driver!history
<1> QED
  BY <1>2, <1>3 DEF DriverMoves

LEMMA Phase2Moves ==
    ASSUME Below!DriverInv, NEW m \in Driver!MessageType,
           NEW x \in Driver!InnerSteps, Driver!Phase2(m, x)
    PROVE  /\ DriverMoves
           /\ imsk' = IF x.tag = "Done" THEN x.imsk ELSE imsk
           /\ x.tag # "NotRun" => m.idt \in {"Absent", identity}
           /\ out'.kind # "Finished" /\ tunnel' = tunnel
<1>1. /\ m \in Below!MessageType /\ x \in Below!InnerSteps
      /\ Below!Phase2(m, x)
  BY SameMessages, SamePhase2
<1>2. Below!DriverInv'
  BY <1>1, Assumptions, RoundAssumption, Below!Phase2Inv
<1>3. Below!IInv /\ Below!Step(m, x)
  BY <1>1 DEF Below!DriverInv, Below!Phase2, Below!Phase2Continues, Below!Phase2Done,
              Below!Phase2Fails, Below!SessionSteps
<1>4. /\ identity' = identity
      /\ imsk' = IF x.tag = "Done" THEN x.imsk ELSE imsk
      /\ cmk' = cmk \/ (cmk = <<>> /\ cmk' = <<imsk'>>)
      /\ bound # <<>> => bound' # <<>>
      /\ erred' = erred \/ reply'.kind = "Error"
      /\ x.tag # "NotRun" => m.idt \in {"Absent", identity}
  BY <1>1, <1>3, Assumptions, RoundAssumption, Below!SessionMoves
<1>7. imsk # NoKey => imsk' # NoKey
  BY <1>4, KeyAssumption DEF Driver!InnerSteps
<1>5. CASE Below!Phase2Fails(m, x)
  <2>1. out'.kind = "Error" /\ tunnel' = tunnel
    BY <1>5 DEF Below!Phase2Fails, Below!Error, Below!Return
  <2> QED
    BY <1>2, <1>4, <1>7, <2>1 DEF DriverMoves
<1>6. CASE Below!Phase2Continues(m, x) \/ Below!Phase2Done(m, x)
  <2>1. reply'.kind # "Error" /\ out'.kind # "Finished" /\ tunnel' = tunnel
    BY <1>6 DEF Below!Phase2Continues, Below!Phase2Done, Below!Emit, Below!Error,
                Below!Respond, Below!Return
  <2> QED
    BY <1>2, <1>4, <1>7, <2>1 DEF DriverMoves
<1> QED
  BY <1>1, <1>5, <1>6 DEF Below!Phase2

-----------------------------------------------------------------------------
(* The inner method.                                                        *)

\* The method is past its handshake only over parameters that passed the FIPS
\* check, and done only on a commitment.
InnerInv == /\ innerState \in {"AwaitCommitment", "Done"} => started /\ innerTunnel = "Up"
            /\ innerState = "Done" => committed

\* A method that is over returns no second key.
LEMMA InnerMoves ==
    ASSUME Inner!TypeOK, InnerInv, Inner!Process
    PROVE  /\ Inner!TypeOK' /\ InnerInv'
           /\ step'.tag # "Idle"
           /\ step'.tag = "Done" => innerState' = "Done"
           /\ innerState \in {"Done", "Failed"} =>
                 /\ innerState' = "Failed" /\ step'.tag = "Failed"
                 /\ UNCHANGED <<started, innerTunnel, committed>>
<1> USE DEF Inner!TypeOK, InnerInv
<1>1. CASE Inner!AckDrains
  BY <1>1, PieceAssumption
  DEF Inner!AckDrains, Inner!Alive, Inner!Return, Inner!Steps, Inner!States
<1>6. CASE Inner!Start \/ Inner!Flight
  <2>1. /\ innerState = "Handshake" /\ innerState' = innerState /\ started' \in BOOLEAN
        /\ UNCHANGED <<innerTunnel, committed>>
    BY <1>6 DEF Inner!Start, Inner!Flight
  <2>2. innerQueue' \in 0..(MaxPieces - 1) /\ step' = Inner!Return("Respond")
    BY <1>6 DEF Inner!Start, Inner!Flight, Inner!Emit
  <2> QED
    BY <2>1, <2>2 DEF Inner!Return, Inner!Steps, Inner!States
<1>7. CASE Inner!NeedMore
  BY <1>7 DEF Inner!NeedMore, Inner!Alive, Inner!Return, Inner!Steps, Inner!States
<1>2. CASE Inner!HandshakeDone
  BY <1>2 DEF Inner!HandshakeDone, Inner!Emit, Inner!Alive, Inner!Return, Inner!Steps,
              Inner!States
<1>3. CASE \E records \in {"empty", "records"} : Inner!Commit(records)
  <2>1. PICK records \in {"empty", "records"} : Inner!Commit(records)
    BY <1>3
  <2>2. /\ innerState = "AwaitCommitment" /\ innerState' = "Done" /\ committed' = TRUE
        /\ UNCHANGED <<started, innerTunnel, innerQueue>>
    BY <2>1 DEF Inner!Commit, Inner!NonEmpty
  <2>3. step' \in Inner!Steps /\ step'.tag = "Done"
    BY <2>1 DEF Inner!Commit, Inner!Steps
  <2> QED
    BY <2>2, <2>3 DEF Inner!States
<1>4. CASE Inner!Fail
  BY <1>4 DEF Inner!Fail, Inner!Return, Inner!Steps, Inner!States
<1>5. CASE Inner!FailLate
  BY <1>5 DEF Inner!FailLate, Inner!Alive, Inner!Return, Inner!Steps, Inner!States
<1> QED
  BY <1>1, <1>2, <1>3, <1>4, <1>5, <1>6, <1>7 DEF Inner!Process

-----------------------------------------------------------------------------
(* The inductive invariant of one session.                                  *)

\* A session that is open has concluded nothing and met no error.
OpenInv == ~closed => result = Driver!NoOutcome /\ ~erred

\* The inner key comes from an inner method that has run its whole course, and
\* the chain holds no other key.
KeyInv == /\ imsk # NoKey => /\ innerState \in {"Done", "Failed"} /\ started
                             /\ innerTunnel = "Up" /\ committed
          /\ cmk # <<>> => cmk = <<imsk>>

\* What EAPHost can read of a success.
ResultInv == result.verdict = "granted" =>
    /\ ~erred /\ verdict = "granted" /\ tunnel = "Up"
    /\ phase = "Terminated" /\ pending = Driver!NoOutcome
    /\ bound # <<>> /\ result.msk = bound

PeerTypeOK == /\ Inner!TypeOK
              /\ pendingResponse \in BOOLEAN /\ closed \in BOOLEAN
              /\ result \in Driver!Outcomes
              /\ action \in {"Idle", "Respond", "Finished"}

PeerInv == Below!DriverInv /\ PeerTypeOK /\ OpenInv /\ InnerInv /\ KeyInv /\ ResultInv

\* What the invariant says of the session below, through the instances.
LEMMA Chain ==
    ASSUME Below!DriverInv
    PROVE  /\ bound # <<>> => bound = cmk
           /\ cmk # <<>> => imsk # NoKey
           /\ imsk \in Keys \cup {NoKey} /\ identity \in {"Machine", "User"}
  BY DEF Below!DriverInv, Below!IInv, Below!ChainInv, Below!TypeOK,
         Below!Identities

LEMMA SameTypes ==
    /\ Below!DriverTypeOK => Driver!DriverTypeOK
    /\ Below!Outcomes = Driver!Outcomes /\ Below!NoOutcome = Driver!NoOutcome
    /\ Below!Denied = Driver!Denied
  BY DEF Below!DriverTypeOK, Driver!DriverTypeOK, Below!TypeOK, Driver!TypeOK,
         Below!Phases, Driver!Phases, Below!Outcomes, Driver!Outcomes, Below!Verdicts,
         Driver!Verdicts, Below!Identities, Driver!Identities,
         Below!Replies, Driver!Replies, Below!Reasons,
         Driver!Reasons, Below!Tlvs, Driver!Tlvs,
         Below!NoOutcome, Driver!NoOutcome, Below!Denied, Driver!Denied

LEMMA TypesImplied == PeerInv => TypeOK
<1> SUFFICES ASSUME PeerInv PROVE TypeOK
  OBVIOUS
<1>1. Driver!DriverTypeOK
  BY SameTypes DEF PeerInv, Below!DriverInv
<1> QED
  BY <1>1 DEF PeerInv, PeerTypeOK, TypeOK

LEMMA InitPeerInv == Init => PeerInv
<1> SUFFICES ASSUME Init PROVE PeerInv
  OBVIOUS
<1>1. Below!DriverInv
  <2>1. Below!DriverInit
    BY SameInit DEF Init
  <2> QED
    BY <2>1, Assumptions, RoundAssumption, Below!DriverInitInv
<1>2. /\ imsk = NoKey /\ cmk = <<>> /\ ~erred
  BY DEF Init, Driver!DriverInit, Driver!Init
<1>3. result = Driver!NoOutcome /\ result.verdict = "none" /\ result \in Driver!Outcomes
  BY DEF Init, Driver!NoOutcome, Driver!Outcomes, Driver!Verdicts
<1>4. Inner!TypeOK /\ InnerInv
  <2>1. 0 \in 0..(MaxPieces - 1)
    BY PieceAssumption
  <2> QED
    BY <2>1
    DEF Init, Inner!Init, Inner!TypeOK, InnerInv, Inner!States, Inner!Steps,
        Inner!Return
<1> QED
  BY <1>1, <1>2, <1>3, <1>4 DEF Init, PeerInv, PeerTypeOK, OpenInv, KeyInv, ResultInv

-----------------------------------------------------------------------------
(* One call of process.                                                     *)

InnerResults == Inner!Steps \cup {[tag |-> "NotRun", imsk |-> NoKey]}

\* What the driver may be handed: any packet at all, or TLVs of any kind.
AnyStep ==
    \/ Driver!Outer /\ UNCHANGED inner
    \/ \E m \in Driver!MessageType, x \in InnerResults : TlvStep(m, x)

\* An inner method that runs returns what a session may be handed.
LEMMA TlvMoves ==
    ASSUME PeerInv, NEW m \in Driver!MessageType, NEW x \in InnerResults,
           TlvStep(m, x)
    PROVE  /\ x \in Driver!InnerSteps
           /\ Driver!Phase2(m, x)
           /\ Inner!TypeOK' /\ InnerInv' /\ KeyInv'
           /\ DriverMoves /\ out'.kind # "Finished"
<1> USE DEF PeerInv
<1>1. Driver!Phase2(m, x)
  BY DEF TlvStep
<1>2. CASE x.tag = "NotRun"
  <2>1. UNCHANGED inner /\ x \in Driver!InnerSteps
    BY <1>2 DEF TlvStep, InnerResults, Inner!Steps, Driver!InnerSteps
  <2>2. DriverMoves /\ out'.kind # "Finished" /\ imsk' = imsk
    BY <1>1, <1>2, <2>1, Phase2Moves
  <2>3. Inner!TypeOK' /\ InnerInv'
    BY <2>1 DEF inner, PeerTypeOK, Inner!TypeOK, InnerInv
  <2>4. KeyInv'
    BY <2>1, <2>2 DEF inner, KeyInv, DriverMoves
  <2> QED
    BY <1>1, <2>1, <2>2, <2>3, <2>4
<1>3. CASE x.tag # "NotRun"
  <2>1. Inner!Process /\ step' = x
    BY <1>3 DEF TlvStep
  <2>2. /\ Inner!TypeOK' /\ InnerInv' /\ x.tag # "Idle"
        /\ x.tag = "Done" => innerState' = "Done"
        /\ innerState \in {"Done", "Failed"} =>
              /\ innerState' = "Failed" /\ x.tag = "Failed"
              /\ UNCHANGED <<started, innerTunnel, committed>>
    BY <2>1, InnerMoves DEF PeerTypeOK
  <2>3. x \in Driver!InnerSteps
    BY <1>3, <2>2 DEF InnerResults, Inner!Steps, Driver!InnerSteps
  <2>4. /\ DriverMoves /\ out'.kind # "Finished"
        /\ imsk' = IF x.tag = "Done" THEN x.imsk ELSE imsk
    BY <1>1, <2>3, Phase2Moves
  <2>5. KeyInv'
    <3>1. CASE x.tag = "Done"
      <4>1. imsk = NoKey /\ cmk = <<>>
        BY <2>2, <3>1, Chain DEF KeyInv
      <4>2. innerState' = "Done" /\ started' /\ innerTunnel' = "Up" /\ committed'
        BY <2>2, <3>1 DEF InnerInv
      <4> QED
        BY <2>4, <4>1, <4>2 DEF KeyInv, DriverMoves
    <3>2. CASE x.tag # "Done"
      BY <2>2, <2>4, <3>2 DEF KeyInv, DriverMoves
    <3> QED
      BY <3>1, <3>2
  <2> QED
    BY <1>1, <2>2, <2>3, <2>4, <2>5
<1> QED
  BY <1>2, <1>3

LEMMA AnyStepMoves ==
    ASSUME PeerInv, AnyStep
    PROVE  /\ DriverMoves /\ Inner!TypeOK' /\ InnerInv' /\ KeyInv'
           /\ out'.kind = "Finished" => erred' = erred
<1> USE DEF PeerInv
<1>1. CASE Driver!Outer /\ UNCHANGED inner
  <2>1. DriverMoves /\ imsk' = imsk /\ cmk' = cmk /\ erred' = erred
    BY <1>1, OuterMoves
  <2>2. Inner!TypeOK' /\ InnerInv'
    BY <1>1 DEF inner, PeerTypeOK, Inner!TypeOK, InnerInv
  <2>3. KeyInv'
    BY <1>1, <2>1 DEF inner, KeyInv
  <2> QED
    BY <2>1, <2>2, <2>3
<1>2. ASSUME NEW m \in Driver!MessageType, NEW x \in InnerResults, TlvStep(m, x)
      PROVE  /\ DriverMoves /\ Inner!TypeOK' /\ InnerInv' /\ KeyInv'
             /\ out'.kind # "Finished"
  BY <1>2, TlvMoves
<1> QED
  BY <1>1, <1>2 DEF AnyStep

\* process is left by one of three exits, whatever the driver was handed.
LEMMA ProcessInv ==
    ASSUME PeerInv, Handles(AnyStep)
    PROVE  PeerInv'
<1> USE DEF PeerInv
<1>1. AnyStep /\ ~closed
  BY DEF Handles, Open
<1>2. DriverMoves /\ Inner!TypeOK' /\ InnerInv' /\ KeyInv'
  BY <1>1, AnyStepMoves
<1>3. result = Driver!NoOutcome /\ ~erred
  BY <1>1 DEF OpenInv
<1>4. Below!DriverInv'
  BY <1>2 DEF DriverMoves
<1>5. CASE Answered
  <2>1. /\ pendingResponse' = TRUE /\ action' = "Respond"
        /\ result' = Driver!NoOutcome /\ closed' = closed /\ ~erred'
    BY <1>2, <1>3, <1>5 DEF Answered, DriverMoves
  <2>2. PeerTypeOK'
    <3>1. closed' \in BOOLEAN /\ result' \in Driver!Outcomes
      BY <1>3, <2>1 DEF PeerTypeOK
    <3> QED
      BY <1>2, <2>1, <3>1 DEF PeerTypeOK
  <2>3. OpenInv' /\ ResultInv'
    BY <2>1 DEF OpenInv, ResultInv, Driver!NoOutcome
  <2> QED
    BY <1>2, <1>4, <2>2, <2>3
<1>6. CASE out'.kind = "Finished" /\ Concluded(out'.outcome)
  <2>1. /\ pendingResponse' = pendingResponse /\ action' = "Finished"
        /\ result' = out'.outcome /\ closed' = TRUE
    BY <1>6 DEF Concluded
  <2>2. Below!DriverTypeOK' /\ Below!ReportInv'
    BY <1>4 DEF Below!DriverInv
  <2>3. /\ result' \in Driver!Outcomes
        /\ phase' = "Terminated" /\ pending' = Driver!NoOutcome
        /\ result'.verdict = "granted" =>
              /\ tunnel' = "Up" /\ verdict' = "granted"
              /\ ~erred' => bound' # <<>> /\ result'.msk = bound'
    BY <1>6, <2>1, <2>2, SameTypes DEF Below!DriverTypeOK, Below!ReportInv, Below!Confirmed
  <2>4. ~erred'
    BY <1>1, <1>3, <1>6, AnyStepMoves
  <2>5. PeerTypeOK'
    BY <1>2, <2>1, <2>3 DEF PeerTypeOK
  <2>6. OpenInv' /\ ResultInv'
    BY <2>1, <2>3, <2>4 DEF OpenInv, ResultInv
  <2> QED
    BY <1>2, <1>4, <2>5, <2>6
<1>7. CASE out'.kind = "Error" /\ Concluded(Driver!Denied)
  <2>1. /\ pendingResponse' = pendingResponse /\ action' = "Finished"
        /\ result' = Driver!Denied /\ closed' = TRUE
    BY <1>7 DEF Concluded
  <2>2. Driver!Denied.verdict = "denied" /\ Driver!Denied \in Driver!Outcomes
    BY DEF Driver!Denied, Driver!Outcomes, Driver!Verdicts
  <2>3. PeerTypeOK'
    BY <1>2, <2>1, <2>2 DEF PeerTypeOK
  <2>4. OpenInv' /\ ResultInv'
    BY <2>1, <2>2 DEF OpenInv, ResultInv
  <2> QED
    BY <1>2, <1>4, <2>3, <2>4
<1> QED
  BY <1>5, <1>6, <1>7 DEF Handles

\* A step that leaves driver, method, result and session as they are.
LEMMA RestInv ==
    ASSUME PeerInv, UNCHANGED <<driver, inner, result, closed>>,
           pendingResponse' \in BOOLEAN, action' \in {"Idle", "Respond", "Finished"}
    PROVE  PeerInv'
<1> USE DEF PeerInv
<1>1. Below!DriverInv'
  <2>1. UNCHANGED Below!driverVars
    BY DEF driver, Below!driverVars, Below!session, Below!vars, Below!code, Below!history,
           Below!driver
  <2> QED
    BY <2>1, Assumptions, RoundAssumption, Below!StutterInv
<1>2. PeerTypeOK' /\ InnerInv'
  BY DEF inner, PeerTypeOK, Inner!TypeOK, InnerInv
<1>3. OpenInv' /\ KeyInv' /\ ResultInv'
  BY DEF inner, driver, OpenInv, KeyInv, ResultInv
<1> QED
  BY <1>1, <1>2, <1>3

-----------------------------------------------------------------------------
(* One call of process is a step of the abstract authentication.            *)

AbstractStep == [Abstract!Next]_<<Driver!Evidence, Verdict>>

LEMMA EarnedFollows == PeerInv => ResultIsEarned
<1> SUFFICES ASSUME PeerInv, result.verdict = "granted" PROVE ResultIsEarned
  BY DEF ResultIsEarned
<1>1. bound = cmk /\ cmk # <<>> /\ imsk # NoKey
  BY Chain DEF PeerInv, ResultInv
<1> QED
  BY <1>1 DEF PeerInv, ResultInv, KeyInv, ResultIsEarned

LEMMA RestAbstract ==
    ASSUME UNCHANGED <<driver, result>> PROVE AbstractStep
  BY DEF driver, AbstractStep, Driver!Evidence, Verdict

LEMMA ProcessAbstract ==
    ASSUME PeerInv, Handles(AnyStep)
    PROVE  AbstractStep
<1>1. PeerInv' /\ DriverMoves /\ ~closed
  BY ProcessInv, AnyStepMoves DEF Handles, Open
<1>2. Verdict = "pending"
  BY <1>1 DEF PeerInv, OpenInv, Verdict
<1>3. /\ bound' # <<>> => imsk' # NoKey
      /\ imsk # NoKey => imsk' # NoKey
      /\ bound # <<>> => bound' # <<>>
  BY <1>1
  DEF PeerInv, DriverMoves, Below!DriverInv, Below!IInv, Below!ChainInv
<1>4. /\ Driver!Evidence' \in SUBSET Abstract!Evidence
      /\ Driver!Evidence \subseteq Driver!Evidence'
      /\ Abstract!Coherent(Driver!Evidence')
  BY <1>3 DEF Driver!Evidence, Abstract!Evidence, Abstract!Coherent
<1>5. \/ Verdict' \in {"pending", "denied"}
      \/ Verdict' = "granted" /\ Driver!Evidence' = Abstract!Evidence
  <2>1. CASE Answered
    BY <1>1, <2>1 DEF Answered, PeerInv, OpenInv, Verdict
  <2>2. CASE out'.kind = "Error" /\ Concluded(Driver!Denied)
    BY <2>2 DEF Concluded, Verdict, Driver!Denied, Driver!NoOutcome
  <2>3. CASE out'.kind = "Finished" /\ Concluded(out'.outcome)
    <3>1. result' = out'.outcome /\ result' \in Driver!Outcomes
      BY <1>1, <2>3 DEF Concluded, PeerInv, PeerTypeOK
    <3>2. result'.verdict # "none"
      BY <1>1, <2>3, <3>1 DEF PeerInv, Below!DriverInv, Below!ReportInv
    <3>3. Verdict' = result'.verdict /\ Verdict' \in {"granted", "denied"}
      BY <3>1, <3>2 DEF Verdict, Driver!NoOutcome, Driver!Outcomes, Driver!Verdicts
    <3>4. Verdict' = "granted" => bound' # <<>> /\ imsk' # NoKey
      BY <1>1, <1>3, <3>3 DEF PeerInv, ResultInv
    <3> QED
      BY <3>3, <3>4 DEF Driver!Evidence, Abstract!Evidence
  <2> QED
    BY <2>1, <2>2, <2>3 DEF Handles
<1> QED
  BY <1>2, <1>4, <1>5 DEF AbstractStep, Abstract!Next, Abstract!Progress

-----------------------------------------------------------------------------
(* The session with its peer.                                               *)

FullTypeOK == opposite = "Server" =>
    /\ asked \in {"Machine", "User"} /\ exported \in Keys
    /\ inbound.tlvs \in Driver!MessageType

\* What a packet of the server says of the server that sent it.
InboundInv == opposite = "Server" =>
    /\ inbound.kind = "Success" => serverPhase = "Done"
    /\ inbound.payload = "Start" => inbound.tlvs.idt = asked
    /\ inbound.payload = "Commit" => certified

\* What a client that got this far says of the server it got there with.
AgreeInv == opposite = "Server" =>
    /\ tunnel = "Up" => trusted
    /\ started => asked = identity
    /\ imsk # NoKey => certified /\ imsk = exported
    /\ result.verdict = "granted" => serverPhase = "Done"

FullInv == PeerInv /\ FullTypeOK /\ InboundInv /\ AgreeInv

\* The server's packets are messages the session may be handed.
LEMMA PacketTypes ==
    /\ NoTlvs \in Driver!MessageType
    /\ \A t \in Driver!MessageType : \A p :
          Payload(t, p).tlvs \in Driver!MessageType
    /\ \A i \in {"Machine", "User"} :
          [NoTlvs EXCEPT !.idt = i] \in Driver!MessageType
    /\ \A k \in Keys : [NoTlvs EXCEPT !.ir = "Success",
                          !.nested = [form |-> "Request", chain |-> <<k>>]]
                       \in Driver!MessageType
    /\ [NoTlvs EXCEPT !.result = "Success"] \in Driver!MessageType
<1> USE DEF Driver!MessageType, Driver!Identities,
            Driver!Statuses, Driver!Bindings, Driver!Forms
<1>1. NoBinding \in Driver!Bindings
  BY DEF NoBinding
<1>2. NoTlvs \in Driver!MessageType
  BY <1>1 DEF NoTlvs
<1>3. \A t \in Driver!MessageType : \A p :
        Payload(t, p).tlvs \in Driver!MessageType
  BY DEF Payload, Packet
<1>4. ASSUME NEW k \in Keys
      PROVE  [form |-> "Request", chain |-> <<k>>] \in Driver!Bindings
  OBVIOUS
<1> QED
  BY <1>2, <1>3, <1>4, ZenonT(60)

LEMMA InitFullInv == FullInit => FullInv
<1> SUFFICES ASSUME FullInit PROVE FullInv
  OBVIOUS
<1>1. PeerInv
  BY InitPeerInv DEF FullInit
<1>2. FullTypeOK
  <2>1. Plain("Start").tlvs = NoTlvs
    BY DEF Plain, Packet
  <2> QED
    BY <2>1, PacketTypes DEF FullInit, FullTypeOK
<1>3. InboundInv
  BY DEF FullInit, InboundInv, Plain, Packet
<1>4. AgreeInv
  <2>1. tunnel = "Handshaking" /\ ~started /\ imsk = NoKey /\ result.verdict = "none"
    BY DEF FullInit, Init, Driver!DriverInit, Driver!Init, Inner!Init, Driver!NoOutcome
  <2> QED
    BY <2>1 DEF AgreeInv
<1> QED
  BY <1>1, <1>2, <1>3, <1>4 DEF FullInv

\* Whatever Receives does is something a driver may be handed.
LEMMA ReceivesIsAnyStep ==
    ASSUME FullInv, opposite = "Server", Receives
    PROVE  AnyStep
<1>1. CASE ReceivesTlvs
  <2>1. PICK x \in InnerResults :
           /\ Driver!Phase2(inbound.tlvs, x)
           /\ IF x.tag = "NotRun" THEN UNCHANGED inner ELSE InnerReceives /\ step' = x
    BY <1>1 DEF ReceivesTlvs, InnerResults
  <2>2. InnerReceives => Inner!Process
    BY DEF InnerReceives, Inner!Process
  <2>3. TlvStep(inbound.tlvs, x)
    BY <2>1, <2>2 DEF TlvStep
  <2>4. inbound.tlvs \in Driver!MessageType
    BY DEF FullInv, FullTypeOK
  <2> QED
    BY <2>3, <2>4 DEF AnyStep
<1>2. CASE ~ReceivesTlvs
  BY <1>2 DEF Receives, AnyStep, Driver!Outer
<1> QED
  BY <1>1, <1>2

LEMMA NextIsAnyStep == ASSUME DriverStep PROVE AnyStep
  BY MessageAssumption DEF DriverStep, AnyStep, InnerResults

\* The server's claims through one packet that the client handles.
LEMMA ClientInv == ASSUME FullInv, Client PROVE FullInv' /\ AbstractStep
<1> USE DEF FullInv
<1>1. /\ opposite = "Server" /\ Handles(Receives) /\ inbound' = Nothing
      /\ UNCHANGED <<opposite, asked, trusted, certified, exported, serverPhase>>
  BY DEF Client, config
<1>2. AnyStep /\ Receives /\ Handles(AnyStep)
  BY <1>1, ReceivesIsAnyStep DEF Handles
<1>3. PeerInv' /\ AbstractStep /\ DriverMoves
  BY <1>2, ProcessInv, ProcessAbstract, AnyStepMoves
<1>4. FullTypeOK' /\ InboundInv'
  BY <1>1, PacketTypes DEF FullTypeOK, InboundInv, Nothing, Packet
<1>5. /\ tunnel' = "Up" => trusted
      /\ started' => asked = identity
      /\ imsk' # NoKey => certified /\ imsk' = exported
      /\ out'.kind = "Finished" => serverPhase = "Done"
  <2>1. CASE ReceivesTlvs
    <3>1. PICK x \in InnerResults :
             /\ Driver!Phase2(inbound.tlvs, x)
             /\ IF x.tag = "NotRun" THEN UNCHANGED inner ELSE InnerReceives /\ step' = x
      BY <2>1 DEF ReceivesTlvs, InnerResults
    <3>2. inbound.tlvs \in Driver!MessageType
      BY <1>1 DEF FullTypeOK
    <3>3. TlvStep(inbound.tlvs, x)
      BY <3>1 DEF TlvStep, InnerReceives, Inner!Process
    <3>4. x \in Driver!InnerSteps /\ out'.kind # "Finished"
      BY <3>2, <3>3, TlvMoves
    <3>5. /\ imsk' = IF x.tag = "Done" THEN x.imsk ELSE imsk
          /\ x.tag # "NotRun" => inbound.tlvs.idt \in {"Absent", identity}
          /\ tunnel' = tunnel
      BY <3>1, <3>2, <3>4, Phase2Moves DEF PeerInv
    <3>6. CASE x.tag = "NotRun"
      BY <1>1, <3>1, <3>4, <3>5, <3>6 DEF inner, AgreeInv
    <3>7. CASE x.tag # "NotRun" /\ inbound.payload = "Start" /\ Inner!Start
      <4>1. inbound.tlvs.idt = asked /\ asked \in {"Machine", "User"}
        BY <1>1, <3>7 DEF InboundInv, FullTypeOK
      <4>2. asked = identity
        BY <3>5, <3>7, <4>1
      <4>3. x.tag = "Respond"
        BY <3>1, <3>7 DEF Inner!Start, Inner!Emit, Inner!Return
      <4> QED
        BY <1>1, <3>4, <3>5, <4>2, <4>3 DEF AgreeInv
    <3>8. CASE x.tag # "NotRun" /\ inbound.payload = "Flight" /\ Inner!HandshakeDone
      <4>1. x.tag = "Respond" /\ started' = started
        BY <3>1, <3>8 DEF Inner!HandshakeDone, Inner!Emit, Inner!Return
      <4> QED
        BY <1>1, <3>4, <3>5, <4>1 DEF AgreeInv
    <3>9. CASE /\ x.tag # "NotRun" /\ inbound.payload = "Commit"
               /\ Inner!Commit("records") /\ step'.imsk = exported
      <4>1. x.imsk = exported /\ started' = started
        BY <3>1, <3>9 DEF Inner!Commit
      <4>2. certified
        BY <1>1, <3>9 DEF InboundInv
      <4> QED
        BY <1>1, <3>4, <3>5, <4>1, <4>2 DEF AgreeInv
    <3> QED
      BY <3>1, <3>6, <3>7, <3>8, <3>9 DEF InnerReceives
  <2>2. CASE inbound.kind = "Success" /\ Driver!EapSuccess /\ UNCHANGED inner
    <3>1. tunnel' = tunnel /\ imsk' = imsk
      BY <2>2
      DEF Driver!EapSuccess, Driver!session, Driver!vars, Driver!code, Driver!history
    <3> QED
      BY <1>1, <2>2, <3>1 DEF inner, AgreeInv, InboundInv
  <2>3. CASE inbound.kind = "Flight" /\ trusted /\ Driver!HandshakeDone /\ UNCHANGED inner
    <3>1. imsk' = imsk /\ out'.kind # "Finished"
      BY <2>3
      DEF Driver!HandshakeDone, Driver!session, Driver!vars, Driver!code, Driver!Emit,
          Driver!Respond, Driver!Error, Driver!Return
    <3> QED
      BY <1>1, <2>3, <3>1 DEF inner, AgreeInv
  <2>4. CASE (Driver!Start \/ Driver!BadRound) /\ UNCHANGED inner
    <3>1. imsk' = imsk /\ tunnel' = tunnel /\ out'.kind # "Finished"
      BY <2>4
      DEF Driver!Start, Driver!BadRound, Driver!session, Driver!vars, Driver!code,
          Driver!Emit, Driver!Respond, Driver!Error, Driver!Return
    <3> QED
      BY <1>1, <2>4, <3>1 DEF inner, AgreeInv
  <2> QED
    BY <1>2, <2>1, <2>2, <2>3, <2>4 DEF Receives
<1>6. result'.verdict = "granted" => serverPhase = "Done"
  <2>1. result.verdict # "granted"
    BY <1>1 DEF PeerInv, OpenInv, Handles, Open, Driver!NoOutcome
  <2>2. CASE Answered
    BY <2>1, <2>2 DEF Answered
  <2>3. CASE out'.kind = "Finished" /\ Concluded(out'.outcome)
    BY <1>5, <2>3
  <2>4. CASE out'.kind = "Error" /\ Concluded(Driver!Denied)
    BY <2>4 DEF Concluded, Driver!Denied
  <2> QED
    BY <1>1, <2>2, <2>3, <2>4 DEF Handles
<1>7. AgreeInv'
  BY <1>1, <1>3, <1>5, <1>6 DEF AgreeInv, DriverMoves
<1> QED
  BY <1>3, <1>4, <1>7

\* One answer of the server.
LEMMA ServerInv == ASSUME FullInv, Server PROVE FullInv' /\ AbstractStep
<1> USE DEF FullInv
<1>1. /\ opposite = "Server" /\ pendingResponse' = FALSE
      /\ UNCHANGED <<driver, inner, result, closed, action, config>>
  BY DEF Server, OuterHello, OuterFinished, InnerHello, InnerFinished, Panic,
         SealsBinding, SendsResult, SendsSuccess, Handle
<1>2. PeerInv' /\ AbstractStep
  BY <1>1, RestInv, RestAbstract DEF PeerInv, PeerTypeOK
<1>3. asked \in {"Machine", "User"} /\ exported \in Keys
  BY <1>1 DEF FullTypeOK
<1>4. FullTypeOK' /\ InboundInv'
  <2>1. CASE OuterHello \/ SendsSuccess \/ Panic
    <3>1. inbound'.tlvs = NoTlvs /\ inbound'.payload = "None"
          /\ (inbound'.kind = "Success" => serverPhase' = "Done")
      BY <2>1 DEF OuterHello, SendsSuccess, Panic, Handle, Plain, Nothing, Packet
    <3> QED
      BY <1>1, <1>3, <3>1, PacketTypes DEF config, FullTypeOK, InboundInv
  <2>2. CASE OuterFinished
    <3>1. inbound' = Payload([NoTlvs EXCEPT !.idt = asked], "Start")
      BY <2>2 DEF OuterFinished, Handle
    <3>2. /\ inbound'.tlvs.idt = asked /\ inbound'.payload = "Start"
          /\ inbound'.kind = "Tlvs"
      BY <3>1 DEF Payload, Packet, NoTlvs
    <3>3. inbound'.tlvs \in Driver!MessageType
      BY <1>3, <3>1, PacketTypes
    <3> QED
      BY <1>1, <1>3, <3>2, <3>3 DEF config, FullTypeOK, InboundInv
  <2>3. CASE InnerHello \/ InnerFinished
    <3>1. \/ inbound' = Payload(NoTlvs, "Flight")
          \/ certified /\ inbound' = Payload(NoTlvs, "Commit")
      BY <2>3 DEF InnerHello, InnerFinished, Handle
    <3>2. /\ inbound'.payload = "Flight" \/ (certified /\ inbound'.payload = "Commit")
          /\ inbound'.kind = "Tlvs"
      BY <3>1 DEF Payload, Packet
    <3>3. inbound'.tlvs \in Driver!MessageType
      BY <3>1, PacketTypes
    <3> QED
      BY <1>1, <1>3, <3>2, <3>3 DEF config, FullTypeOK, InboundInv
  <2>4. CASE SealsBinding \/ SendsResult
    <3>1. /\ inbound'.payload = "None" /\ inbound'.kind = "Tlvs"
          /\ \/ inbound'.tlvs = [NoTlvs EXCEPT !.ir = "Success", !.nested = Binding]
             \/ inbound'.tlvs = [NoTlvs EXCEPT !.result = "Success"]
      BY <2>4 DEF SealsBinding, SendsResult, Handle, Packet
    <3>2. inbound'.tlvs \in Driver!MessageType
      BY <1>3, <3>1, PacketTypes DEF Binding
    <3> QED
      BY <1>1, <1>3, <3>1, <3>2 DEF config, FullTypeOK, InboundInv
  <2> QED
    BY <2>1, <2>2, <2>3, <2>4 DEF Server
<1>5. serverPhase = "Done" => serverPhase' = "Done"
  BY DEF Server, OuterHello, OuterFinished, InnerHello, InnerFinished, Panic,
         SealsBinding, SendsResult, SendsSuccess, Handle
<1>6. AgreeInv'
  BY <1>1, <1>5 DEF config, driver, inner, AgreeInv
<1> QED
  BY <1>2, <1>4, <1>6

\* One step of a session that anything may be sent to.
LEMMA AnythingInv == ASSUME FullInv, Anything PROVE FullInv' /\ AbstractStep
<1> USE DEF FullInv
<1>1. opposite' = "Anything" /\ Next
  BY DEF Anything, config
<1>2. FullTypeOK' /\ InboundInv' /\ AgreeInv'
  BY <1>1 DEF FullTypeOK, InboundInv, AgreeInv
<1>3. CASE Process
  <2>1. Handles(AnyStep)
    BY <1>3, NextIsAnyStep DEF Process, Handles
  <2> QED
    BY <1>2, <2>1, ProcessInv, ProcessAbstract
<1>4. CASE ProcessLate \/ TakeResponse
  BY <1>2, <1>4, RestInv, RestAbstract DEF ProcessLate, TakeResponse, PeerInv, PeerTypeOK
<1> QED
  BY <1>1, <1>3, <1>4 DEF Next

LEMMA FullNextInv == FullInv /\ [FullNext]_fullVars => FullInv' /\ AbstractStep
<1> SUFFICES ASSUME FullInv, [FullNext]_fullVars PROVE FullInv' /\ AbstractStep
  OBVIOUS
<1>1. CASE UNCHANGED fullVars
  <2>1. PeerInv' /\ AbstractStep
    BY <1>1, RestInv, RestAbstract DEF fullVars, vars, peer, FullInv, PeerInv, PeerTypeOK
  <2>2. FullTypeOK' /\ InboundInv' /\ AgreeInv'
    BY <1>1
    DEF fullVars, vars, driver, inner, peer, config, server, FullInv, FullTypeOK,
        InboundInv, AgreeInv
  <2> QED
    BY <2>1, <2>2 DEF FullInv
<1> QED
  BY <1>1, ClientInv, ServerInv, AnythingInv DEF FullNext, Over

-----------------------------------------------------------------------------
\* The inductive invariant holds of a session whatever its peer sends.
THEOREM Invariance == FullSpec => []FullInv
<1> QED
  BY InitFullInv, FullNextInv, PTL DEF FullSpec

\* Every variable of a session keeps its type.
THEOREM TypeCorrect == FullSpec => []TypeOK
<1>1. FullInv => TypeOK
  BY TypesImplied DEF FullInv
<1> QED
  BY <1>1, Invariance, PTL

\* Access is granted only on the whole chain of evidence, and the keys EAPHost
\* gets come from it.
THEOREM ResultsAreEarned == FullSpec => []ResultIsEarned
<1>1. FullInv => ResultIsEarned
  BY EarnedFollows DEF FullInv
<1> QED
  BY <1>1, Invariance, PTL

\* The verdict EAPHost can read never changes once it is there.
THEOREM ResultsAreFinal == FullSpec => ResultIsFinal
<1>1. FullInv /\ [FullNext]_fullVars => [result # Driver!NoOutcome => result' = result]_vars
  <2> SUFFICES ASSUME FullInv, FullNext, result # Driver!NoOutcome PROVE result' = result
    BY DEF fullVars
  <2>1. closed
    BY DEF FullInv, PeerInv, OpenInv
  <2> QED
    BY <2>1
    DEF FullNext, Anything, Next, Process, ProcessLate, TakeResponse, Client, Handles,
        Open, Server, OuterHello, OuterFinished, InnerHello, InnerFinished, Panic,
        SealsBinding, SendsResult, SendsSuccess, Handle, Over, fullVars, vars, peer
<1> QED
  BY <1>1, Invariance, PTL DEF FullSpec, ResultIsFinal

\* A client that reports success met a server that has finished, asked for that
\* identity, was trusted and trusted the client, and holds the same keys.
THEOREM TheEndsAgree == FullSpec => []BothEndsAgree
<1>1. FullInv => BothEndsAgree
  <2> SUFFICES ASSUME FullInv, opposite = "Server", result.verdict = "granted"
               PROVE  BothEndsAgree
    BY DEF BothEndsAgree
  <2>1. /\ tunnel = "Up" /\ bound # <<>> /\ result.msk = bound
    BY DEF FullInv, PeerInv, ResultInv
  <2>2. bound = cmk /\ cmk = <<imsk>> /\ imsk # NoKey
    BY <2>1, Chain DEF FullInv, PeerInv, KeyInv
  <2>3. started
    BY <2>2 DEF FullInv, PeerInv, KeyInv
  <2> QED
    BY <2>1, <2>2, <2>3 DEF FullInv, AgreeInv, BothEndsAgree
<1> QED
  BY <1>1, Invariance, PTL

\* A session of the assembled supplicant implements the abstract authentication:
\* one call of process is one step of it, and every other step a stutter.
THEOREM PeerImplementsAuthentication == FullSpec => ImplementsAuthentication
<1>1. FullInit => Abstract!Init
  BY DEF FullInit, Init, Driver!DriverInit, Driver!Init, Abstract!Init, Verdict,
         Driver!Evidence
<1>2. FullInv /\ [FullNext]_fullVars => [Abstract!Next]_<<Driver!Evidence, Verdict>>
  BY FullNextInv DEF AbstractStep
<1> QED
  BY <1>1, <1>2, Invariance, PTL
  DEF FullSpec, ImplementsAuthentication, Abstract!Spec, Abstract!vars
=============================================================================
