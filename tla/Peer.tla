-------------------------------- MODULE Peer --------------------------------
(***************************************************************************)
(* The EAPHost peer DLL: its entry points (crates/eaphost/src/peer.rs) as  *)
(* called by the host's threads, over the session registry                 *)
(* (session_registry.rs) and the status metadata.  An entry point takes    *)
(* several locks one after the other, so the calls of two threads          *)
(* interleave between them; each action below is one critical section.     *)
(*                                                                         *)
(* A session is represented by what this layer reads of it (PeerSession    *)
(* and the modules under it have the rest): its verdict, whether the       *)
(* tunnel counts as established, and whether a response is buffered.       *)
(***************************************************************************)
EXTENDS Naturals, FiniteSets

CONSTANTS Threads,   \* threads of the host process
          MaxHandle  \* how many sessions are ever begun

ASSUME HandleAssumption == MaxHandle \in Nat \ {0}

Handles  == 1..MaxHandle
Unknown  == 0    \* no session handle: 0 is never handed out

VARIABLES next,      \* Inner.next
          live,      \* the keys of Inner.sessions
          session,   \* the sessions, by handle
          meta,      \* the keys of status_meta
          shown,     \* the published snapshot: whose it is and what it says
          pc,        \* where each thread is
          arg,       \* the handle its call is about
          local,     \* what it has read and not yet used
          returned,  \* host: handles BeginSession has returned
          promised,  \* host: sessions with a response to fetch (action Send)
          told,      \* host: sessions whose last GetResult said success
          ended,     \* host: handles EndSession has returned for
          late       \* history: the calls that were under way when the tray
                     \*   was last shown a result of their session

registry == <<next, live, session>>
host     == <<returned, promised, told, ended>>
vars     == <<registry, meta, shown, pc, arg, local, host, late>>

Fresh    == [verdict |-> "none", up |-> FALSE, response |-> FALSE]

\* Nothing that this process has published: the file is absent, or an earlier
\* process's (StatusFile has those).
Nothing  == [handle |-> Unknown, state |-> "none"]

Init ==
    /\ next = 1
    /\ live = {}
    /\ session = [h \in Handles |-> Fresh]
    /\ meta = {}
    /\ shown = Nothing
    /\ pc = [t \in Threads |-> "idle"]
    /\ arg = [t \in Threads |-> Unknown]
    /\ local = [t \in Threads |-> "none"]
    /\ returned = {}
    /\ promised = {}
    /\ told = {}
    /\ ended = {}
    /\ late = {}

Goto(t, label) == pc' = [pc EXCEPT ![t] = label]
Call(t, h, l)  == /\ pc[t] = "idle"
                  /\ Goto(t, l)
                  /\ arg' = [arg EXCEPT ![t] = h]
                  /\ UNCHANGED late
Atomic(t)      == pc[t] = "idle" /\ UNCHANGED <<pc, arg, local, late>>
At(t, label)   == pc[t] = label
Inside(t, l)   == Goto(t, l) /\ UNCHANGED <<arg, late>>
\* The call returns and its frame is gone; those it overtakes are late.
Return(t, overtaken) ==
    /\ Goto(t, "idle")
    /\ arg' = [arg EXCEPT ![t] = Unknown]
    /\ local' = [local EXCEPT ![t] = "none"]
    /\ late' = (late \ {t}) \cup overtaken

MutPublish(h, state) == shown' \in {shown, [handle |-> h, state |-> state]}

\* publish_status, all of it holding the status_meta lock: a no-op without
\* metadata, else one snapshot.  It is not written if the directory cannot be
\* hardened, and nobody notices if the write itself fails.  (The file that the
\* first hardening removes is never one of this process: see StatusFile.)
Publish(h, state) ==
    IF h \in meta THEN shown' \in {shown, [handle |-> h, state |-> state]}
    ELSE UNCHANGED shown

-----------------------------------------------------------------------------
(* EapPeerBeginSession.                                                     *)

BeginSession(t) ==
    /\ next \in Handles
    /\ Call(t, next, "begin_meta")
    /\ next' = next + 1
    /\ live' = live \cup {next}
    /\ session' = [session EXCEPT ![next] = Fresh]
    /\ UNCHANGED <<meta, shown, local, host>>

BeginMeta(t) ==
    /\ At(t, "begin_meta")
    /\ meta' = meta \cup {arg[t]}
    /\ Inside(t, "begin_publish")
    /\ UNCHANGED <<registry, shown, local, host>>

BeginPublish(t) ==
    /\ At(t, "begin_publish")
    /\ Publish(arg[t], "Connecting")
    /\ Return(t, {})
    /\ returned' = returned \cup {arg[t]}
    /\ UNCHANGED <<registry, meta, promised, told, ended>>

-----------------------------------------------------------------------------
(* EapPeerProcessRequestPacket.                                             *)

\* PeerSession::process on a session that is live: it answers, or it ends.
Answers(h) == \E up \in {session[h].up, TRUE} :
    session' = [session EXCEPT ![h].up = up, ![h].response = TRUE]

MutResponds(h) == Answers(h)

\* A session that has its verdict answers nothing more.
Responds(h) == session[h].verdict = "none" /\ Answers(h)

Finishes(h) ==
    IF session[h].verdict # "none" THEN UNCHANGED session
    ELSE \E v \in {"granted", "denied"}, up \in {session[h].up, TRUE} :
            /\ v = "granted" => up
            /\ session' = [session EXCEPT ![h].verdict = v, ![h].up = up]

ProcessResponds(t, h) ==
    /\ Call(t, h, "process_tunnel") /\ h \in live
    /\ Responds(h)
    /\ promised' = promised \cup {h}
    /\ UNCHANGED <<next, live, meta, shown, local, returned, told, ended>>

\* The verdict itself is left for GetResult to publish.
ProcessFinishes(t, h) ==
    /\ Atomic(t) /\ h \in live
    /\ Finishes(h)
    /\ promised' = promised \ {h}
    /\ UNCHANGED <<next, live, meta, shown, returned, told, ended>>

\* A second registry lock: "outer handshaking, or the inner EAP-TLS".
ProcessTunnel(t) ==
    /\ At(t, "process_tunnel")
    /\ local' = [local EXCEPT ![t] =
          IF arg[t] \in live /\ session[arg[t]].up THEN "InnerInProgress" ELSE "Connecting"]
    /\ Inside(t, "process_publish")
    /\ UNCHANGED <<registry, meta, shown, host>>

ProcessPublish(t) ==
    /\ At(t, "process_publish")
    /\ Publish(arg[t], local[t])
    /\ Return(t, {})
    /\ UNCHANGED <<registry, meta, host>>

-----------------------------------------------------------------------------
(* EapPeerGetResponsePacket: fetch_response, under one lock.                *)

MutKeeps(fits) == FALSE

\* "Only consume it if it fits": a size probe leaves the response in place.
Keeps(fits) == ~fits

GetResponse(t, h, fits) ==
    /\ Atomic(t) /\ h \in live
    /\ session[h].response
    /\ session' = [session EXCEPT ![h].response = Keeps(fits)]
    /\ promised' = IF fits THEN promised \ {h} ELSE promised
    /\ UNCHANGED <<next, live, meta, shown, returned, told, ended>>

-----------------------------------------------------------------------------
(* EapPeerGetResult and EapPeerEndSession.                                  *)

ResultOf(h) == IF h \in live THEN session[h].verdict ELSE "none"

MutTerminalStatus(result) == IF result # "denied" THEN "Authenticated" ELSE "Failed"

\* terminal_status: an unfinished or unknown session counts as failed, and the
\* detail says that there is "no result".
TerminalStatus(result) ==
    CASE result = "granted" -> "Authenticated"
      [] result = "denied"  -> "Failed"
      [] result = "none"    -> "NoResult"

GetResult(t, h) ==
    /\ Call(t, h, "result_publish")
    /\ local' = [local EXCEPT ![t] = ResultOf(h)]
    /\ UNCHANGED <<registry, meta, shown, host>>

\* The other calls about the same session.
Others(t) == {u \in Threads \ {t} : arg[u] = arg[t]}

ResultPublish(t) ==
    /\ At(t, "result_publish")
    /\ Publish(arg[t], TerminalStatus(local[t]))
    /\ Return(t, IF shown' = shown THEN {} ELSE Others(t))
    /\ told' = IF local[t] = "granted" THEN told \cup {arg[t]} ELSE told \ {arg[t]}
    /\ UNCHANGED <<registry, meta, returned, promised, ended>>

EndSession(t, h) ==
    /\ Call(t, h, "end_meta")
    /\ live' = live \ {h}
    /\ promised' = promised \ {h}
    /\ UNCHANGED <<next, session, meta, shown, local, returned, told, ended>>

MutDropMeta(h) == meta

DropMeta(h) == meta \ {h}

EndMeta(t) ==
    /\ At(t, "end_meta")
    /\ meta' = DropMeta(arg[t])
    /\ Return(t, {})
    /\ ended' = ended \cup {arg[t]}
    /\ UNCHANGED <<registry, shown, returned, promised, told>>

\* An entry point handed an unknown handle, or nothing to fetch: E_FAIL.
Refused(t, h) ==
    /\ Atomic(t)
    /\ h \notin live \/ ~session[h].response
    /\ UNCHANGED <<registry, meta, shown, host>>

-----------------------------------------------------------------------------
(* The host.                                                                *)

Resume(t) == \/ BeginMeta(t) \/ BeginPublish(t) \/ ProcessTunnel(t)
             \/ ProcessPublish(t) \/ ResultPublish(t) \/ EndMeta(t)

Busy(h) == \E t \in Threads : pc[t] # "idle" /\ arg[t] = h

Calls(t, h) ==
    \/ ProcessResponds(t, h) \/ ProcessFinishes(t, h)
    \/ \E fits \in BOOLEAN : GetResponse(t, h, fits)
    \/ GetResult(t, h)
    \/ EndSession(t, h)
    \/ Refused(t, h)

\* Any host: its threads make any call, in any order, about any session that
\* BeginSession has told them of, ended ones included.
Next == \E t \in Threads :
           \/ BeginSession(t) \/ Resume(t)
           \/ \E h \in returned : Calls(t, h)

Spec == Init /\ [][Next]_vars

-----------------------------------------------------------------------------
\* Neither EAPHost nor the tray is ever told that a session authenticated
\* unless that session was granted: not after it ended, not for another
\* session's verdict, not for a result read while the session was changing.
SuccessIsTrue ==
    /\ \A h \in told : session[h].verdict = "granted"
    /\ shown.state = "Authenticated" => session[shown.handle].verdict = "granted"

\* A session's metadata lives exactly as long as the session, between calls:
\* none is left behind, and none is missing when its verdict is published.
MetaFollowsSession ==
    \A h \in returned : ~Busy(h) => (h \in meta <=> h \in live)

\* Once EndSession has returned, no thread can publish for that session: the
\* snapshot of a later session is not overwritten by a call that was late.
NothingAfterEnd ==
    [][\A h \in ended : shown'.handle = h => shown' = shown]_vars

\* A response a packet produced stays in the session's buffer until a call takes
\* it, however many size probes come first and whatever else other threads do.
ResponseIsThere ==
    \A h \in promised : session[h].response

\* The verdict of a session, once the tray is shown it, goes on being shown until
\* a later session takes its place: for any host, and with publishes that fail.
\* All that can replace it by another snapshot of the same session is a call that
\* was under way when it was published, or a result asked for while EndSession
\* is removing the session.
VerdictStaysShown ==
    [][shown.state \in {"Authenticated", "Failed"} /\ shown'.handle = shown.handle
         => \/ shown' = shown
            \/ \E t \in late : arg[t] = shown.handle /\ pc'[t] # pc[t]
            \/ shown.handle \notin live /\ shown'.state = "NoResult"]_vars
=============================================================================
