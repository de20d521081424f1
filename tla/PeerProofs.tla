----------------------------- MODULE PeerProofs -----------------------------
(***************************************************************************)
(* Theorems about Peer, for every set of threads and number of sessions.   *)
(***************************************************************************)
EXTENDS Peer, TLAPS

Beginning == {"begin_meta", "begin_publish"}
Handling  == {"process_tunnel", "process_publish"}
Labels    == {"idle", "result_publish", "end_meta"} \cup Beginning \cup Handling

Verdicts  == {"none", "granted", "denied"}
Sessions  == [verdict : Verdicts, up : BOOLEAN, response : BOOLEAN]
Progress  == {"Connecting", "InnerInProgress"}
Outcomes  == {"Authenticated", "Failed"}

TypeOK ==
    /\ next \in 1..(MaxHandle + 1)
    /\ live \subseteq Handles
    /\ session \in [Handles -> Sessions]
    /\ meta \subseteq Handles
    /\ shown \in [handle : Handles \cup {Unknown},
                   state : {"none", "NoResult"} \cup Progress \cup Outcomes]
    /\ pc \in [Threads -> Labels]
    /\ arg \in [Threads -> Handles \cup {Unknown}]
    /\ local \in [Threads -> Verdicts \cup Progress]
    /\ returned \subseteq Handles
    /\ promised \subseteq returned
    /\ told \subseteq returned
    /\ ended \subseteq returned
    /\ late \subseteq Threads

\* Who may know a handle: one not yet handed out is known to nobody, one whose
\* BeginSession has not returned to the single thread inside that call, which
\* alone can add its metadata; every other call is about a returned handle.
HandlesInv ==
    /\ \A h \in returned \cup live : h < next
    /\ \A t \in Threads : pc[t] \in Beginning =>
          /\ arg[t] \in live \ returned
          /\ pc[t] = "begin_publish" => arg[t] \in meta
          /\ \A u \in Threads : pc[u] \in Beginning /\ arg[u] = arg[t] => u = t
    /\ \A t \in Threads : pc[t] \notin Beginning \cup {"idle"} => arg[t] \in returned

\* A session that is open has its metadata; one that is gone has it only while
\* the call that will drop it is still to get there.
MetaInv ==
    /\ returned \cap live \subseteq meta
    /\ \A h \in (returned \cap meta) \ live :
          \E t \in Threads : pc[t] = "end_meta" /\ arg[t] = h
    /\ \A t \in Threads : pc[t] = "end_meta" => arg[t] \notin live
    /\ ended \cap meta = {}

\* Whoever has seen a verdict, a thread between its two locks, the host or the
\* tray, has seen that of a session that keeps it.
TruthInv ==
    /\ \A h \in told : session[h].verdict = "granted"
    /\ shown.state \in Outcomes =>
          /\ shown.handle \in returned
          /\ shown.state = TerminalStatus(session[shown.handle].verdict)
    /\ \A t \in Threads :
          /\ pc[t] = "result_publish" =>
                local[t] \in Verdicts /\ local[t] \in {"none", session[arg[t]].verdict}
          /\ pc[t] = "process_publish" => local[t] \in Progress

\* A session whose response can be fetched has it in the buffer.
ResponseInv == \A h \in promised : session[h].response

\* A call that began after the tray was shown a session's verdict will publish
\* no progress of that session, and that it has no result only once it is gone.
LateInv ==
    shown.state \in Outcomes =>
        \A t \in Threads \ late : arg[t] = shown.handle =>
            /\ pc[t] \notin Handling
            /\ pc[t] = "result_publish" /\ local[t] = "none" => arg[t] \notin live

IInv == TypeOK /\ HandlesInv /\ MetaInv /\ TruthInv /\ ResponseInv /\ LateInv

\* The sets of labels and values are finite and spelt out: the provers may look
\* into them anywhere.
USE DEF Handles, Unknown, Fresh, Labels, Beginning, Handling,
        Verdicts, Sessions, Progress, Outcomes

\* A new handle is above every handle in use, so no call is about it yet.
LEMMA BeginSessionInv ==
    ASSUME IInv, NEW t \in Threads, BeginSession(t)
    PROVE  IInv'
<1> USE DEF IInv, BeginSession, Call, host, Goto
<1>1. TypeOK'
  BY HandleAssumption DEF TypeOK, HandlesInv
<1>2. HandlesInv'
  BY DEF TypeOK, HandlesInv
<1>3. MetaInv'
  BY DEF TypeOK, HandlesInv, MetaInv
<1>4. TruthInv'
  BY DEF TypeOK, HandlesInv, TruthInv
<1>5. ResponseInv'
  BY DEF TypeOK, HandlesInv, ResponseInv
<1>6. LateInv'
  BY DEF TypeOK, HandlesInv, TruthInv, LateInv
<1> QED
  BY <1>1, <1>2, <1>3, <1>4, <1>5, <1>6

\* The metadata added is of a handle only this thread knows.
LEMMA BeginMetaInv ==
    ASSUME IInv, NEW t \in Threads, BeginMeta(t)
    PROVE  IInv'
<1> USE DEF IInv, BeginMeta, At, Inside, registry, host, Goto
<1>1. TypeOK'
  <2>1. pc' \in [Threads -> Labels]
    BY DEF TypeOK
  <2>2. meta' \subseteq Handles
    <3>1. arg[t] \in Handles
      BY DEF TypeOK, HandlesInv
    <3> QED
      BY <3>1 DEF TypeOK
  <2> QED
    BY <2>1, <2>2 DEF TypeOK
<1>2. HandlesInv'
  <2>1. \A u \in Threads : pc'[u] \in Beginning =>
          pc[u] \in Beginning /\ (u # t => pc'[u] = pc[u])
    BY DEF TypeOK
  <2> QED
    BY <2>1 DEF TypeOK, HandlesInv
<1>3. MetaInv'
  <2>1. (returned \cap live)' \subseteq meta'
    BY DEF TypeOK, HandlesInv, MetaInv
  <2>2. \A g \in ((returned \cap meta) \ live)' :
          \E u \in Threads : pc'[u] = "end_meta" /\ arg'[u] = g
    <3> TAKE g \in ((returned \cap meta) \ live)'
    <3>1. PICK u \in Threads : pc[u] = "end_meta" /\ arg[u] = g
      BY DEF TypeOK, HandlesInv, MetaInv
    <3>2. u # t
      BY <3>1
    <3> QED
      BY <3>1, <3>2 DEF TypeOK
  <2>3. \A u \in Threads : pc'[u] = "end_meta" => arg'[u] \notin live'
    BY DEF TypeOK, MetaInv
  <2>4. (ended \cap meta)' = {}
    <3>1. arg[t] \notin ended
      BY DEF TypeOK, HandlesInv
    <3> QED
      BY <3>1 DEF MetaInv
  <2> QED
    BY <2>1, <2>2, <2>3, <2>4 DEF MetaInv
<1>4. TruthInv'
  BY DEF TypeOK, HandlesInv, TruthInv
<1>5. ResponseInv'
  BY DEF TypeOK, HandlesInv, ResponseInv
<1>6. LateInv'
  BY DEF TypeOK, HandlesInv, TruthInv, LateInv
<1> QED
  BY <1>1, <1>2, <1>3, <1>4, <1>5, <1>6

\* The handle is handed out with its session open and its metadata there.
LEMMA BeginPublishInv ==
    ASSUME IInv, NEW t \in Threads, BeginPublish(t)
    PROVE  IInv'
<1> USE DEF IInv, BeginPublish, At, Publish, Return, registry, Goto
<1>1. TypeOK'
  <2>1. pc' \in [Threads -> Labels] /\ arg' \in [Threads -> Handles \cup {Unknown}]
    BY DEF TypeOK
  <2>2. local' \in [Threads -> Verdicts \cup Progress]
    BY DEF TypeOK
  <2>3. shown' \in [handle : Handles \cup {Unknown},
                     state : {"none", "NoResult"} \cup Progress \cup Outcomes]
    BY DEF TypeOK
  <2>4. returned' \subseteq Handles /\ returned \subseteq returned'
    BY ZenonT(60) DEF TypeOK, HandlesInv
  <2>5. late' \subseteq Threads
    BY DEF TypeOK
  <2> QED
    BY <2>1, <2>2, <2>3, <2>4, <2>5 DEF TypeOK
<1>2. HandlesInv'
  BY DEF TypeOK, HandlesInv
<1>3. MetaInv'
  <2>1. (returned \cap live)' \subseteq meta'
    <3>1. arg[t] \in meta
      BY DEF HandlesInv
    <3> QED
      BY <3>1 DEF MetaInv
  <2>2. \A g \in ((returned \cap meta) \ live)' :
          \E u \in Threads : pc'[u] = "end_meta" /\ arg'[u] = g
    <3> TAKE g \in ((returned \cap meta) \ live)'
    <3>1. PICK u \in Threads : pc[u] = "end_meta" /\ arg[u] = g
      BY DEF TypeOK, HandlesInv, MetaInv
    <3>2. u # t
      BY <3>1
    <3> QED
      BY <3>1, <3>2 DEF TypeOK
  <2>3. \A u \in Threads : pc'[u] = "end_meta" => arg'[u] \notin live'
    BY DEF TypeOK, MetaInv
  <2>4. (ended \cap meta)' = {}
    BY DEF TypeOK, HandlesInv, MetaInv
  <2> QED
    BY <2>1, <2>2, <2>3, <2>4 DEF MetaInv
<1>4. TruthInv'
  BY DEF TypeOK, HandlesInv, TruthInv
<1>5. ResponseInv'
  BY DEF TypeOK, HandlesInv, ResponseInv
<1>6. LateInv'
  BY DEF TypeOK, HandlesInv, TruthInv, LateInv
<1> QED
  BY <1>1, <1>2, <1>3, <1>4, <1>5, <1>6

\* What the second registry lock reads decides no more than a progress state.
LEMMA ProcessTunnelInv ==
    ASSUME IInv, NEW t \in Threads, ProcessTunnel(t)
    PROVE  IInv'
<1> USE DEF IInv, ProcessTunnel, At, Inside, registry, host, Goto
<1>1. TypeOK'
  BY DEF TypeOK, HandlesInv
<1>2. HandlesInv'
  BY DEF TypeOK, HandlesInv
<1>3. MetaInv'
  BY DEF TypeOK, HandlesInv, MetaInv
<1>4. TruthInv'
  BY DEF TypeOK, HandlesInv, TruthInv
<1>5. ResponseInv'
  BY DEF TypeOK, HandlesInv, ResponseInv
<1>6. LateInv'
  BY DEF TypeOK, HandlesInv, TruthInv, LateInv
<1> QED
  BY <1>1, <1>2, <1>3, <1>4, <1>5, <1>6

\* A late progress state says nothing of a verdict.
LEMMA ProcessPublishInv ==
    ASSUME IInv, NEW t \in Threads, ProcessPublish(t)
    PROVE  IInv'
<1> USE DEF IInv, ProcessPublish, At, Publish, Return, registry, host, Goto
<1>1. TypeOK'
  BY DEF TypeOK, HandlesInv, TruthInv
<1>2. HandlesInv'
  BY DEF TypeOK, HandlesInv
<1>3. MetaInv'
  BY DEF TypeOK, HandlesInv, MetaInv
<1>4. TruthInv'
  BY DEF TypeOK, HandlesInv, TruthInv
<1>5. ResponseInv'
  BY DEF TypeOK, HandlesInv, ResponseInv
<1>6. LateInv'
  BY DEF TypeOK, HandlesInv, TruthInv, LateInv
<1> QED
  BY <1>1, <1>2, <1>3, <1>4, <1>5, <1>6

\* Under the contract the session is still open, so its result does reach the tray.
LEMMA ResultPublishInv ==
    ASSUME IInv, NEW t \in Threads, ResultPublish(t)
    PROVE  IInv'
<1> USE DEF IInv, ResultPublish, At, Publish, Return, TerminalStatus,
            registry, Goto
<1>1. TypeOK'
  <2>1. pc' \in [Threads -> Labels] /\ arg' \in [Threads -> Handles \cup {Unknown}]
    BY DEF TypeOK
  <2>2. local' \in [Threads -> Verdicts \cup Progress]
    BY DEF TypeOK
  <2>3. TerminalStatus(local[t]) \in {"NoResult"} \cup Outcomes
    BY DEF TruthInv
  <2>4. shown' \in [handle : Handles \cup {Unknown},
                     state : {"none", "NoResult"} \cup Progress \cup Outcomes]
    <3> DEFINE new == [handle |-> arg[t], state |-> TerminalStatus(local[t])]
    <3>1. arg[t] \in Handles \cup {Unknown}
      BY DEF TypeOK
    <3>2. new \in [handle : Handles \cup {Unknown},
                    state : {"none", "NoResult"} \cup Progress \cup Outcomes]
      BY <2>3, <3>1
    <3>3. shown' \in {shown, new}
      OBVIOUS
    <3> QED
      BY <3>2, <3>3 DEF TypeOK
  <2>5. arg[t] \in returned
    BY DEF HandlesInv
  <2>6. told' \subseteq returned
    BY <2>5 DEF TypeOK
  <2>7. late' \subseteq Threads
    BY DEF TypeOK, Others
  <2> QED
    BY <2>1, <2>2, <2>4, <2>6, <2>7 DEF TypeOK
<1>2. HandlesInv'
  BY DEF TypeOK, HandlesInv
<1>3. MetaInv'
  BY DEF TypeOK, HandlesInv, MetaInv
<1>4. TruthInv'
  BY DEF TypeOK, HandlesInv, TruthInv
<1>5. ResponseInv'
  BY DEF TypeOK, HandlesInv, ResponseInv
<1>6. LateInv'
  <2>1. \A u \in Threads \ {t} : pc'[u] = pc[u] /\ arg'[u] = arg[u] /\ local'[u] = local[u]
    BY DEF TypeOK
  <2>2. pc'[t] = "idle"
    BY DEF TypeOK
  <2>3. CASE shown' = shown
    BY <2>1, <2>2, <2>3 DEF LateInv
  <2>4. CASE shown' # shown
    <3>1. shown'.handle = arg[t]
      BY <2>4
    <3>2. \A u \in Threads \ {t} : arg'[u] = shown'.handle => u \in late'
      BY <2>1, <2>4, <3>1 DEF Others
    <3> QED
      BY <2>2, <3>2 DEF LateInv
  <2> QED
    BY <2>3, <2>4
<1> QED
  BY <1>1, <1>2, <1>3, <1>4, <1>5, <1>6

\* The metadata goes after the session: nothing open loses it.
LEMMA EndMetaInv ==
    ASSUME IInv, NEW t \in Threads, EndMeta(t)
    PROVE  IInv'
<1> USE DEF IInv, EndMeta, At, DropMeta, Return, registry, Goto
<1>1. TypeOK'
  <2>1. pc' \in [Threads -> Labels] /\ arg' \in [Threads -> Handles \cup {Unknown}]
    BY DEF TypeOK
  <2>2. local' \in [Threads -> Verdicts \cup Progress]
    BY DEF TypeOK
  <2>3. meta' \subseteq Handles /\ ended' \subseteq returned /\ late' \subseteq Threads
    BY ZenonT(60) DEF TypeOK, HandlesInv
  <2> QED
    BY <2>1, <2>2, <2>3 DEF TypeOK
<1>2. HandlesInv'
  BY DEF TypeOK, HandlesInv
<1>3. MetaInv'
  <2>1. (returned \cap live)' \subseteq meta'
    <3>1. arg[t] \notin live /\ returned \cap live \subseteq meta
      BY DEF MetaInv
    <3> QED
      BY <3>1
  <2>2. \A g \in ((returned \cap meta) \ live)' :
          \E u \in Threads : pc'[u] = "end_meta" /\ arg'[u] = g
    <3> TAKE g \in ((returned \cap meta) \ live)'
    <3>1. PICK u \in Threads : pc[u] = "end_meta" /\ arg[u] = g
      BY DEF TypeOK, HandlesInv, MetaInv
    <3>2. g # arg[t]
      OBVIOUS
    <3>3. u # t
      BY <3>1, <3>2
    <3> QED
      BY <3>1, <3>3 DEF TypeOK
  <2>3. \A u \in Threads : pc'[u] = "end_meta" => arg'[u] \notin live'
    BY DEF TypeOK, MetaInv
  <2>4. (ended \cap meta)' = {}
    BY DEF TypeOK, HandlesInv, MetaInv
  <2> QED
    BY <2>1, <2>2, <2>3, <2>4 DEF MetaInv
<1>4. TruthInv'
  BY DEF TypeOK, HandlesInv, TruthInv
<1>5. ResponseInv'
  BY DEF TypeOK, HandlesInv, ResponseInv
<1>6. LateInv'
  BY DEF TypeOK, HandlesInv, TruthInv, LateInv
<1> QED
  BY <1>1, <1>2, <1>3, <1>4, <1>5, <1>6

\* The answer is in the buffer when the host is told to fetch it.
LEMMA ProcessRespondsInv ==
    ASSUME IInv, NEW t \in Threads, NEW h \in returned,
           ProcessResponds(t, h)
    PROVE  IInv'
<1> USE DEF IInv, ProcessResponds, Call, Goto
<1>1. TypeOK'
  <2>1. PICK up \in {session[h].up, TRUE} :
          session' = [session EXCEPT ![h].up = up, ![h].response = TRUE]
    BY DEF Responds, Answers
  <2>2. h \in Handles /\ session[h] \in Sessions /\ up \in BOOLEAN
    <3>1. h \in Handles /\ session[h] \in Sessions
      BY DEF TypeOK
    <3>2. session[h].up \in BOOLEAN
      BY <3>1
    <3> QED
      BY <3>1, <3>2
  <2>3. session' \in [Handles -> Sessions]
    <3>1. [session[h] EXCEPT !.up = up, !.response = TRUE] \in Sessions
      BY <2>2
    <3>2. session' = [session EXCEPT ![h] = [session[h] EXCEPT !.up = up, !.response = TRUE]]
      BY <2>1
    <3> QED
      BY <2>2, <3>1, <3>2 DEF TypeOK
  <2> QED
    BY <2>3 DEF TypeOK, HandlesInv
<1>2. HandlesInv'
  <2>1. /\ pc \in [Threads -> Labels] /\ pc' = [pc EXCEPT ![t] = "process_tunnel"]
        /\ arg \in [Threads -> Handles \cup {Unknown}] /\ arg' = [arg EXCEPT ![t] = h]
    BY DEF TypeOK
  <2>2. \A u \in Threads \ {t} : pc'[u] = pc[u] /\ arg'[u] = arg[u]
    BY <2>1
  <2>3. pc'[t] = "process_tunnel" /\ arg'[t] \in returned
    BY <2>1
  <2> QED
    BY <2>2, <2>3 DEF HandlesInv
<1>3. MetaInv'
  BY DEF TypeOK, HandlesInv, MetaInv
<1>4. TruthInv'
  <2>1. \A g \in Handles : session'[g].verdict = session[g].verdict
    BY DEF Responds, Answers, TypeOK
  <2>2. \A u \in Threads \ {t} : pc'[u] = pc[u] /\ arg'[u] = arg[u] /\ local'[u] = local[u]
    BY DEF TypeOK
  <2>3. pc'[t] = "process_tunnel"
    BY DEF TypeOK
  <2> QED
    BY <2>1, <2>2, <2>3 DEF TypeOK, HandlesInv, TruthInv
<1>5. ResponseInv'
  <2>1. h \in Handles
    BY DEF TypeOK
  <2>2. session'[h].response
    BY <2>1 DEF Responds, Answers, TypeOK
  <2>3. \A g \in Handles \ {h} : session'[g] = session[g]
    BY DEF Responds, Answers, TypeOK
  <2> QED
    BY <2>2, <2>3 DEF TypeOK, ResponseInv
<1>6. LateInv'
  <2>1. \A u \in Threads \ {t} : pc'[u] = pc[u] /\ arg'[u] = arg[u] /\ local'[u] = local[u]
    BY DEF TypeOK
  <2>2. arg'[t] = h
    BY DEF TypeOK
  <2>3. session[h].verdict = "none"
    BY DEF Responds
  <2>4. shown.state \in Outcomes => shown.handle # h
    BY <2>3 DEF TruthInv, TerminalStatus
  <2> QED
    BY <2>1, <2>2, <2>4 DEF LateInv
<1> QED
  BY <1>1, <1>2, <1>3, <1>4, <1>5, <1>6

\* A verdict, once given, stays.
LEMMA ProcessFinishesInv ==
    ASSUME IInv, NEW t \in Threads, NEW h \in returned,
           ProcessFinishes(t, h)
    PROVE  IInv'
<1> USE DEF IInv, ProcessFinishes, Atomic
<1>0. /\ session' \in [Handles -> Sessions]
      /\ \A g \in Handles :
            /\ session'[g].response = session[g].response
            /\ session[g].verdict # "none" => session'[g].verdict = session[g].verdict
  <2>1. CASE session[h].verdict # "none"
    BY <2>1 DEF Finishes, TypeOK
  <2>2. CASE session[h].verdict = "none"
    <3>1. PICK v \in {"granted", "denied"}, up \in {session[h].up, TRUE} :
            session' = [session EXCEPT ![h].verdict = v, ![h].up = up]
      BY <2>2 DEF Finishes
    <3>2. h \in Handles /\ up \in BOOLEAN /\ v \in Verdicts /\ session[h] \in Sessions
      BY <3>1 DEF TypeOK
    <3>3. [session[h] EXCEPT !.verdict = v, !.up = up] \in Sessions
      BY <3>1, <3>2 DEF TypeOK
    <3>4. session' = [session EXCEPT ![h] = [session[h] EXCEPT !.verdict = v, !.up = up]]
      BY <3>1, <3>2, ZenonT(60) DEF TypeOK
    <3> QED
      BY <2>2, <3>1, <3>2, <3>3, <3>4 DEF TypeOK
  <2> QED
    BY <2>1, <2>2
<1>1. TypeOK'
  BY <1>0 DEF TypeOK, HandlesInv
<1>2. HandlesInv'
  BY DEF TypeOK, HandlesInv
<1>3. MetaInv'
  BY DEF TypeOK, HandlesInv, MetaInv
<1>4. TruthInv'
  <2>1. \A g \in told : session'[g].verdict = "granted"
    BY <1>0 DEF TypeOK, TruthInv
  <2>2. shown.state \in Outcomes =>
          /\ shown.handle \in returned
          /\ session[shown.handle].verdict # "none"
    BY DEF TruthInv, TerminalStatus
  <2>3. shown.state \in Outcomes =>
          shown.state = TerminalStatus(session'[shown.handle].verdict)
    BY <1>0, <2>2 DEF TypeOK, TruthInv
  <2>4. \A u \in Threads : pc[u] = "result_publish" =>
          local[u] \in {"none", session'[arg[u]].verdict}
    <3> SUFFICES ASSUME NEW u \in Threads, pc[u] = "result_publish", local[u] # "none"
                 PROVE  local[u] = session'[arg[u]].verdict
      OBVIOUS
    <3>1. local[u] = session[arg[u]].verdict /\ arg[u] \in Handles
      BY DEF TypeOK, HandlesInv, TruthInv
    <3> QED
      BY <1>0, <3>1
  <2> QED
    BY <2>1, <2>2, <2>3, <2>4 DEF TruthInv
<1>5. ResponseInv'
  BY <1>0 DEF TypeOK, HandlesInv, ResponseInv
<1>6. LateInv'
  BY DEF TypeOK, HandlesInv, TruthInv, LateInv
<1> QED
  BY <1>1, <1>2, <1>3, <1>4, <1>5, <1>6

\* The response is consumed in the step after which none is promised.
LEMMA GetResponseInv ==
    ASSUME IInv, NEW t \in Threads, NEW h \in returned, NEW fits \in BOOLEAN,
           GetResponse(t, h, fits)
    PROVE  IInv'
<1> USE DEF IInv, GetResponse, Atomic
<1>0. /\ session' \in [Handles -> Sessions]
      /\ \A g \in Handles : session'[g].verdict = session[g].verdict
      /\ \A g \in promised' : g \in promised /\ session'[g].response = session[g].response
  <2>1. h \in Handles /\ session[h] \in Sessions
    BY DEF TypeOK
  <2>2. session' = [session EXCEPT ![h].response = ~fits]
    BY DEF Keeps
  <2>3. [session[h] EXCEPT !.response = ~fits] \in Sessions
    BY <2>1
  <2>4. session' = [session EXCEPT ![h] = [session[h] EXCEPT !.response = ~fits]]
    BY <2>1, <2>2 DEF TypeOK
  <2>5. session' \in [Handles -> Sessions]
    BY <2>1, <2>3, <2>4 DEF TypeOK
  <2>6. \A g \in Handles : session'[g].verdict = session[g].verdict
    BY <2>1, <2>4 DEF TypeOK
  <2>7. \A g \in Handles \ {h} : session'[g] = session[g]
    BY <2>4 DEF TypeOK
  <2>8. session'[h].response = ~fits
    BY <2>1, <2>4 DEF TypeOK
  <2>9. \A g \in promised' : g \in promised /\ session'[g].response = session[g].response
    <3>1. CASE fits
      BY <2>7, <3>1 DEF TypeOK
    <3>2. CASE ~fits
      BY <2>7, <2>8, <3>2 DEF TypeOK
    <3> QED
      BY <3>1, <3>2
  <2> QED
    BY <2>5, <2>6, <2>9
<1>1. TypeOK'
  BY <1>0 DEF TypeOK
<1>2. HandlesInv'
  BY DEF TypeOK, HandlesInv
<1>3. MetaInv'
  BY DEF TypeOK, HandlesInv, MetaInv
<1>4. TruthInv'
  BY <1>0 DEF TypeOK, HandlesInv, TruthInv
<1>5. ResponseInv'
  BY <1>0 DEF TypeOK, ResponseInv
<1>6. LateInv'
  BY DEF TypeOK, HandlesInv, TruthInv, LateInv
<1> QED
  BY <1>1, <1>2, <1>3, <1>4, <1>5, <1>6

\* What the thread takes to its second lock is the session's verdict.
LEMMA GetResultInv ==
    ASSUME IInv, NEW t \in Threads, NEW h \in returned,
           GetResult(t, h)
    PROVE  IInv'
<1> USE DEF IInv, GetResult, Call, ResultOf, registry, host, Goto
<1>1. TypeOK'
  BY DEF TypeOK, HandlesInv
<1>2. HandlesInv'
  BY DEF TypeOK, HandlesInv
<1>3. MetaInv'
  BY DEF TypeOK, HandlesInv, MetaInv
<1>4. TruthInv'
  BY DEF TypeOK, HandlesInv, TruthInv
<1>5. ResponseInv'
  BY DEF TypeOK, HandlesInv, ResponseInv
<1>6. LateInv'
  <2>1. \A u \in Threads \ {t} : pc'[u] = pc[u] /\ arg'[u] = arg[u] /\ local'[u] = local[u]
    BY DEF TypeOK
  <2>2. pc'[t] = "result_publish" /\ arg'[t] = h /\ local'[t] = ResultOf(h)
    BY DEF TypeOK
  <2>3. shown.state \in Outcomes => session[shown.handle].verdict # "none"
    BY DEF TruthInv, TerminalStatus
  <2> QED
    BY <2>1, <2>2, <2>3 DEF LateInv
<1> QED
  BY <1>1, <1>2, <1>3, <1>4, <1>5, <1>6

\* The session goes, and this thread is the one that will drop its metadata.
LEMMA EndSessionInv ==
    ASSUME IInv, NEW t \in Threads, NEW h \in returned,
           EndSession(t, h)
    PROVE  IInv'
<1> USE DEF IInv, EndSession, Call, Goto
<1>1. TypeOK'
  BY DEF TypeOK, HandlesInv
<1>2. HandlesInv'
  BY DEF TypeOK, HandlesInv
<1>3. MetaInv'
  BY DEF TypeOK, HandlesInv, MetaInv
<1>4. TruthInv'
  BY DEF TypeOK, HandlesInv, TruthInv
<1>5. ResponseInv'
  BY DEF TypeOK, HandlesInv, ResponseInv
<1>6. LateInv'
  BY DEF TypeOK, HandlesInv, TruthInv, LateInv
<1> QED
  BY <1>1, <1>2, <1>3, <1>4, <1>5, <1>6

\* A refused call changes nothing.
LEMMA RefusedInv ==
    ASSUME IInv, NEW t \in Threads, NEW h \in returned,
           Refused(t, h)
    PROVE  IInv'
<1> USE DEF IInv, Refused, Atomic, registry, host
<1>1. TypeOK'
  BY DEF TypeOK, HandlesInv
<1>2. HandlesInv'
  BY DEF TypeOK, HandlesInv
<1>3. MetaInv'
  BY DEF TypeOK, HandlesInv, MetaInv
<1>4. TruthInv'
  BY DEF TypeOK, HandlesInv, TruthInv
<1>5. ResponseInv'
  BY DEF TypeOK, HandlesInv, ResponseInv
<1>6. LateInv'
  BY DEF TypeOK, HandlesInv, TruthInv, LateInv
<1> QED
  BY <1>1, <1>2, <1>3, <1>4, <1>5, <1>6

\* No session and no thread in a call.
LEMMA InitInv == Init => IInv
BY HandleAssumption DEF Init, Nothing, IInv, TypeOK, HandlesInv, MetaInv, TruthInv,
   ResponseInv, LateInv

\* The invariant is kept by every step of every host.
LEMMA NextInv == IInv /\ [Next]_vars => IInv'
<1> SUFFICES ASSUME IInv, [Next]_vars PROVE IInv'
  OBVIOUS
<1>1. CASE UNCHANGED vars
  BY <1>1 DEF vars, registry, host, IInv, TypeOK, HandlesInv, MetaInv, TruthInv,
              ResponseInv, LateInv
<1>2. ASSUME NEW t \in Threads, BeginSession(t) \/ Resume(t)
      PROVE  IInv'
  BY <1>2, BeginSessionInv, BeginMetaInv, BeginPublishInv, ProcessTunnelInv,
     ProcessPublishInv, ResultPublishInv, EndMetaInv DEF Resume
<1>3. ASSUME NEW t \in Threads, NEW h \in returned, Calls(t, h)
      PROVE  IInv'
  BY <1>3, ProcessRespondsInv, ProcessFinishesInv, GetResponseInv, GetResultInv,
     EndSessionInv, RefusedInv DEF Calls
<1> QED
  BY <1>1, <1>2, <1>3 DEF Next

\* The invariant holds of every reachable state.
THEOREM Invariance == Spec => []IInv
BY InitInv, NextInv, PTL DEF Spec

-----------------------------------------------------------------------------
\* Whatever the threads do, neither the host nor the tray is told that a session
\* authenticated that was not granted.
THEOREM NoFalseSuccess == Spec => []SuccessIsTrue
<1>1. IInv => SuccessIsTrue
  BY DEF IInv, TypeOK, TruthInv, TerminalStatus, SuccessIsTrue
<1> QED
  BY Invariance, <1>1, PTL

\* A session no call is busy with has its metadata exactly while it is open.
THEOREM MetaLifetime == Spec => []MetaFollowsSession
<1>1. IInv => MetaFollowsSession
  BY DEF IInv, MetaInv, MetaFollowsSession, Busy
<1> QED
  BY Invariance, <1>1, PTL

\* Nothing is published for a session without metadata.
LEMMA WithoutMeta ==
    ASSUME NEW h, NEW g, g \notin meta, NEW state, Publish(h, state),
           shown'.handle = g
    PROVE  shown' = shown
<1>1. CASE h \in meta
  BY <1>1 DEF Publish
<1> QED
  BY <1>1 DEF Publish

\* The calls that publish nothing.
LEMMA CallsShowNothing ==
    ASSUME NEW t \in Threads, NEW h \in returned, Calls(t, h)
    PROVE  shown' = shown
BY DEF Calls, ProcessResponds, ProcessFinishes, GetResponse, GetResult, EndSession, Refused

\* Nothing is published for a session whose EndSession has returned.
THEOREM NoLatePublication == Spec => NothingAfterEnd
<1>1. IInv /\ [Next]_vars => [\A h \in ended : shown'.handle = h => shown' = shown]_vars
  <2> SUFFICES ASSUME IInv, Next, NEW h \in ended, shown'.handle = h
               PROVE  shown' = shown
    OBVIOUS
  <2>1. h \notin meta
    BY DEF IInv, MetaInv
  <2>2. ASSUME NEW t \in Threads, NEW state, Publish(arg[t], state)
        PROVE  shown' = shown
    BY <2>1, <2>2, WithoutMeta
  <2>3. ASSUME NEW t \in Threads, BeginSession(t) \/ Resume(t)
        PROVE  shown' = shown
    BY <2>2, <2>3 DEF Resume, BeginSession, BeginMeta, BeginPublish, ProcessTunnel,
                      ProcessPublish, ResultPublish, EndMeta, host, registry
  <2> QED
    BY <2>3, CallsShowNothing DEF Next
<1> QED
  BY Invariance, <1>1, PTL DEF Spec, NothingAfterEnd

\* A response a packet produced stays in the buffer until a call takes it.
THEOREM ResponseKept == Spec => []ResponseIsThere
<1>1. IInv => ResponseIsThere
  BY DEF IInv, ResponseInv, ResponseIsThere
<1> QED
  BY Invariance, <1>1, PTL

\* The tray goes on showing the verdict of a session: of that session it shows
\* something else only through a call that was under way when the verdict was
\* shown, or once the session has been removed.
THEOREM VerdictKept == Spec => VerdictStaysShown
<1> DEFINE Replaced == \/ shown' = shown
                       \/ \E t \in late : arg[t] = shown.handle /\ pc'[t] # pc[t]
                       \/ shown.handle \notin live /\ shown'.state = "NoResult"
<1>1. IInv /\ [Next]_vars
        => [shown.state \in Outcomes /\ shown'.handle = shown.handle => Replaced]_vars
  <2> SUFFICES ASSUME IInv, Next, shown.state \in Outcomes, shown'.handle = shown.handle
               PROVE  Replaced
    OBVIOUS
  <2> USE DEF IInv
  <2>1. ASSUME NEW t \in Threads, NEW state, Publish(arg[t], state), shown' # shown
        PROVE  arg[t] = shown.handle /\ shown' = [handle |-> arg[t], state |-> state]
    BY <2>1 DEF Publish
  <2>2. ASSUME NEW t \in Threads, BeginPublish(t) PROVE Replaced
    <3>1. arg[t] \notin returned /\ shown.handle \in returned
      BY <2>2 DEF BeginPublish, At, HandlesInv, TruthInv
    <3> QED
      BY <2>1, <2>2, <3>1 DEF BeginPublish
  <2>3. ASSUME NEW t \in Threads, ProcessPublish(t), shown' # shown PROVE Replaced
    <3>1. arg[t] = shown.handle /\ pc[t] = "process_publish"
      BY <2>1, <2>3 DEF ProcessPublish, At
    <3>2. t \in late
      BY <2>3, <3>1 DEF LateInv
    <3>3. pc'[t] = "idle"
      BY <2>3 DEF ProcessPublish, Return, Goto, TypeOK
    <3> QED
      BY <3>1, <3>2, <3>3
  <2>4. ASSUME NEW t \in Threads, ResultPublish(t), shown' # shown PROVE Replaced
    <3>1. /\ arg[t] = shown.handle /\ pc[t] = "result_publish"
          /\ shown' = [handle |-> arg[t], state |-> TerminalStatus(local[t])]
      BY <2>1, <2>4 DEF ResultPublish, At
    <3>2. shown = [handle |-> arg[t], state |-> TerminalStatus(session[arg[t]].verdict)]
      BY <3>1 DEF TypeOK, TruthInv
    <3>3. local[t] = "none"
      BY <2>4, <3>1, <3>2 DEF TruthInv
    <3>4. shown'.state = "NoResult"
      BY <3>1, <3>3 DEF TerminalStatus
    <3>5. pc'[t] = "idle"
      BY <2>4 DEF ResultPublish, Return, Goto, TypeOK
    <3>6. CASE t \in late
      BY <3>1, <3>5, <3>6
    <3>7. CASE t \notin late
      BY <3>1, <3>3, <3>4, <3>7 DEF LateInv
    <3> QED
      BY <3>6, <3>7
  <2>5. ASSUME NEW t \in Threads, BeginSession(t) \/ Resume(t) PROVE Replaced
    BY <2>2, <2>3, <2>4, <2>5 DEF Resume, BeginSession, BeginMeta, ProcessTunnel, EndMeta,
                                  host, registry
  <2> QED
    BY <2>5, CallsShowNothing DEF Next
<1> QED
  BY Invariance, <1>1, PTL DEF Spec, VerdictStaysShown, Outcomes
=============================================================================
