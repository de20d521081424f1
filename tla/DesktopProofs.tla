---------------------------- MODULE DesktopProofs ---------------------------
(***************************************************************************)
(* Theorems about the tray and the status window, for every number of      *)
(* publishes, clicks and views, and whatever the certificate stores hold.  *)
(***************************************************************************)
EXTENDS Desktop, TLAPS

-----------------------------------------------------------------------------
(* The tray.                                                                *)

IconType == [state : States \cup {Idle, None}, handle : MadeIcons, built : BOOLEAN]

\* The one generated icon alive is the one in use; before the first is built
\* it is the stock one.
IconInv == /\ icon \in IconType
           /\ IconsAreFreed
           /\ ~icon.built => icon.handle = Stock

\* The tray remembers what the file holds unless there is news, and no toast
\* precedes the start.
NewsInv == /\ ~news => lastState = file
           /\ phase = "new" => popped = "no"

TrayInv == file \in States \cup {None} /\ IconInv /\ NewsInv

LEMMA ShowIconInv ==
    ASSUME IconInv, NEW r \in States \cup {None}, NEW h \in MadeIcons, ShowIcon(r, h)
    PROVE  IconInv'
<1>1. CASE UpToDate(r)
  BY <1>1 DEF ShowIcon, IconInv, IconsAreFreed
<1>2. CASE ~UpToDate(r)
  <2>1. /\ h \notin alive /\ icon' = [state |-> r, handle |-> h, built |-> TRUE]
        /\ alive' = (alive \cup ({h} \ {Stock}))
                       \ (IF icon.built THEN Freed(icon.handle) ELSE {})
    BY <1>2 DEF ShowIcon
  <2>2. icon' \in IconType /\ icon'.handle = h /\ icon'.built
    BY <2>1 DEF IconType
  <2>3. CASE icon.built
    <3>1. alive' = {h} \ {Stock}
      BY <2>1, <2>3 DEF Freed, IconInv, IconsAreFreed
    <3> QED
      BY <2>2, <3>1 DEF IconInv, IconsAreFreed
  <2>4. CASE ~icon.built
    <3>1. alive' = {h} \ {Stock}
      BY <2>1, <2>4 DEF IconInv, IconsAreFreed
    <3> QED
      BY <2>2, <3>1 DEF IconInv, IconsAreFreed
  <2> QED
    BY <2>3, <2>4
<1> QED
  BY <1>1, <1>2

LEMMA ReadsType == TrayInv => Reads \subseteq States \cup {None}
  BY DEF TrayInv, Reads

\* One step of the tray, of its user, or of the DLL that publishes.
LEMMA TrayStep == ASSUME TrayInv, Next PROVE TrayInv'
<1> USE DEF TrayInv
<1>1. ASSUME NEW r \in Reads, NEW h \in MadeIcons, StartUp(r, h) PROVE TrayInv'
  <2>1. IconInv'
    BY <1>1, ReadsType, ShowIconInv DEF StartUp
  <2> QED
    BY <1>1, <2>1 DEF StartUp, Seed, Reads, NewsInv
<1>2. ASSUME NEW r \in Reads, NEW h \in MadeIcons, NEW created \in BOOLEAN,
             Poll(r, h, created)
      PROVE  TrayInv'
  <2>1. IconInv' /\ file' = file /\ phase' = phase /\ phase = "running"
    BY <1>2, ReadsType, ShowIconInv DEF Poll
  <2>2. ~news' => lastState' = file
    <3>1. CASE r = None
      BY <1>2, <3>1 DEF Poll, Changed, NewsInv
    <3>2. CASE r # None
      BY <1>2, <3>2 DEF Poll, Changed, Reads
    <3> QED
      BY <3>1, <3>2
  <2> QED
    BY <2>1, <2>2 DEF NewsInv
<1>3. CASE Exit
  <2>1. icon' = NoIcon /\ alive' = {} /\ phase' = "ended" /\ file' = file
        /\ UNCHANGED <<lastState, news>>
    BY <1>3 DEF Exit, Freed, IconInv, IconsAreFreed
  <2>2. NoIcon \in IconType /\ NoIcon.handle = Stock
    BY DEF NoIcon, IconType, MadeIcons
  <2> QED
    BY <2>1, <2>2 DEF IconInv, IconsAreFreed, NewsInv
<1>4. CASE \/ Tick \/ OpenStatusWindow \/ CloseStatusWindow
           \/ \E r \in Reads, created \in BOOLEAN : Click(r, created)
  <2>1. UNCHANGED <<file, phase, icon, alive, lastState, news>>
        /\ (popped' = "no" \/ phase = "running")
    BY <1>4 DEF Tick, OpenStatusWindow, CloseStatusWindow, Click, ui
  <2> QED
    BY <2>1 DEF IconInv, IconsAreFreed, NewsInv
<1>5. ASSUME NEW state \in States, Publish(state) PROVE TrayInv'
  <2>1. /\ file' = state /\ popped' = "no" /\ news'
        /\ UNCHANGED <<phase, icon, alive, lastState>>
    BY <1>5 DEF Publish, ui
  <2> QED
    BY <2>1 DEF IconInv, IconsAreFreed, NewsInv
<1> QED
  BY <1>1, <1>2, <1>3, <1>4, <1>5 DEF Next

-----------------------------------------------------------------------------
(* The status window.                                                       *)

\* A certificate that is shown, written or being written is the identity's.
Of(i, cert) == cert = Window!Unread \/ cert.store = i

\* What the job has found lies in the store of its identity.
JobInv == /\ job = [stage |-> job.stage, identity |-> job.identity,
                    cert |-> job.cert, found |-> job.found]
          /\ job.stage # "none" \/ job.found # Window!Unread
                => job.identity \in Window!Identities
          /\ Of(job.identity, job.found)

\* A temporary file of an identity holds a certificate of that identity.
TempInv == /\ temp = [n \in Window!Names |-> temp[n]]
           /\ \A i \in Window!Identities : Of(i, temp[i])

\* A viewer reads its own identity's file.
ViewerInv == \A v \in viewers :
    /\ v = [id |-> v.id, identity |-> v.identity, file |-> v.file, shows |-> v.shows]
    /\ v.identity \in Window!Identities /\ v.file = v.identity
    /\ Of(v.identity, v.shows)

WindowInv == JobInv /\ TempInv /\ ViewerInv

LEMMA WindowStep == ASSUME WindowInv, Window!WinNext PROVE WindowInv'
<1> USE DEF WindowInv
<1>1. CASE Window!Refresh
  BY <1>1 DEF Window!Refresh, JobInv, TempInv, ViewerInv
<1>2. ASSUME NEW i \in Window!Identities, Window!View(i) PROVE WindowInv'
  <2>1. PICK r : job' = IF r.there
                        THEN [stage |-> "print", identity |-> i, cert |-> r.certs[i],
                              found |-> Window!Unread]
                        ELSE Window!NoJob
    BY <1>2 DEF Window!View
  <2>2. JobInv'
    BY <2>1 DEF JobInv, Window!NoJob, Of
  <2> QED
    BY <1>2, <2>2 DEF Window!View, TempInv, ViewerInv
<1>3. CASE Window!FindsByPrint \/ Window!FindsBySubject
  <2>1. PICK c \in Stored :
           /\ c.store = job.identity /\ job.stage # "none"
           /\ job' = [job EXCEPT !.found = c]
           /\ temp' = [temp EXCEPT ![Window!TempName(job.identity)] = Window!Unread]
           /\ viewers' = viewers
    BY <1>3 DEF Window!FindsByPrint, Window!FindsBySubject, Window!Finds, Window!ByPrint,
                Window!BySubject, Window!InStore
  <2>2. job.identity \in Window!Identities
    BY <2>1 DEF JobInv
  <2>3. JobInv'
    BY <2>1, <2>2 DEF JobInv, Of
  <2>4. TempInv'
    BY <2>1, <2>2 DEF TempInv, Of, Window!TempName
  <2> QED
    BY <2>1, <2>3, <2>4 DEF ViewerInv
<1>4. CASE Window!Opens
  <2>1. /\ job.identity \in Window!Identities /\ Of(job.identity, job.found)
        /\ temp' = [temp EXCEPT ![job.identity] = job.found]
        /\ viewers' = viewers \cup {[id |-> views, identity |-> job.identity,
                                     file |-> job.identity, shows |-> Window!Unread]}
        /\ job' = Window!NoJob
    BY <1>4 DEF Window!Opens, Window!TempName, JobInv
  <2>2. JobInv'
    BY <2>1 DEF JobInv, Window!NoJob, Of
  <2>3. TempInv'
    BY <2>1 DEF TempInv, Of
  <2>4. ViewerInv'
    BY <2>1 DEF ViewerInv, Of
  <2> QED
    BY <2>2, <2>3, <2>4
<1>5. CASE Window!GoesOn
  <2>1. JobInv'
    BY <1>5 DEF Window!GoesOn, JobInv, Window!NoJob, Of
  <2> QED
    BY <1>5, <2>1 DEF Window!GoesOn, TempInv, ViewerInv
<1>6. CASE Window!ViewerReads
  <2>1. PICK v \in viewers :
           viewers' = (viewers \ {v}) \cup {[v EXCEPT !.shows = temp[v.file]]}
    BY <1>6 DEF Window!ViewerReads
  <2>2. v.identity \in Window!Identities /\ v.file = v.identity
    BY DEF ViewerInv
  <2>3. [v EXCEPT !.shows = temp[v.file]]
          = [id |-> v.id, identity |-> v.identity, file |-> v.file, shows |-> temp[v.file]]
    BY DEF ViewerInv
  <2>4. Of(v.identity, temp[v.file])
    BY <2>2 DEF TempInv
  <2>5. ViewerInv'
    BY <2>1, <2>2, <2>3, <2>4 DEF ViewerInv, Of
  <2> QED
    BY <1>6, <2>5 DEF Window!ViewerReads, JobInv, TempInv
<1>7. CASE \E i \in Window!Identities : Window!Republished(i)
  BY <1>7 DEF Window!Republished, JobInv, TempInv, ViewerInv
<1> QED
  BY <1>1, <1>2, <1>3, <1>4, <1>5, <1>6, <1>7 DEF Window!WinNext

-----------------------------------------------------------------------------
(* The two programs.                                                        *)

DesktopInv == TrayInv /\ WindowInv

LEMMA InitInv == DesktopInit => DesktopInv
<1> SUFFICES ASSUME DesktopInit PROVE DesktopInv
  OBVIOUS
<1>1. TrayInv
  <2>1. NoIcon \in IconType /\ NoIcon.handle = Stock
    BY DEF NoIcon, IconType, MadeIcons
  <2> QED
    BY <2>1 DEF DesktopInit, Init, TrayInv, IconInv, NewsInv, IconsAreFreed
<1>2. WindowInv
  <2>1. job = Window!NoJob /\ viewers = {} /\ temp = [n \in Window!Names |-> Window!Unread]
    BY DEF DesktopInit, Window!Init
  <2>2. JobInv /\ ViewerInv
    BY <2>1 DEF JobInv, ViewerInv, Window!NoJob, Of
  <2>3. TempInv
    BY <2>1 DEF TempInv, Of, Window!Names
  <2> QED
    BY <2>2, <2>3 DEF WindowInv
<1> QED
  BY <1>1, <1>2 DEF DesktopInv

LEMMA NextInv == DesktopInv /\ [DesktopNext]_desktopVars => DesktopInv'
<1> SUFFICES ASSUME DesktopInv, [DesktopNext]_desktopVars PROVE DesktopInv'
  OBVIOUS
<1>1. UNCHANGED vars => TrayInv'
  BY DEF DesktopInv, vars, ui, TrayInv, IconInv, IconsAreFreed, NewsInv
<1>2. UNCHANGED windowVars => WindowInv'
  BY DEF DesktopInv, windowVars, WindowInv, JobInv, TempInv, ViewerInv
<1>3. CASE TrayRuns
  BY <1>2, <1>3, TrayStep DEF TrayRuns, DesktopInv
<1>4. CASE WindowRuns
  BY <1>1, <1>4, WindowStep DEF WindowRuns, DesktopInv
<1>5. CASE UNCHANGED desktopVars
  BY <1>1, <1>2, <1>5 DEF desktopVars, DesktopInv
<1> QED
  BY <1>3, <1>4, <1>5 DEF DesktopNext

\* The inductive invariant holds of both programs.
THEOREM Invariance == DesktopSpec => []DesktopInv
<1> QED
  BY InitInv, NextInv, PTL DEF DesktopSpec

\* GDI handles do not leak, and the icon in use is never a destroyed one.
THEOREM IconsStayFreed == DesktopSpec => []IconsAreFreed
<1>1. DesktopInv => IconsAreFreed
  BY DEF DesktopInv, TrayInv, IconInv
<1> QED
  BY <1>1, Invariance, PTL

\* A viewer shows a certificate of the identity it was opened for, or an
\* unfinished file, whenever it gets to it.
THEOREM ViewersKeepToTheirs == DesktopSpec => []ViewersShowTheirs
<1>1. DesktopInv => ViewersShowTheirs
  BY DEF DesktopInv, WindowInv, ViewerInv, Of, ViewersShowTheirs, Window!ViewersShowTheirs
<1> QED
  BY <1>1, Invariance, PTL

\* A poll pops a toast only for what was written since startup or a poll last
\* read the file, and shows what the file holds.
THEOREM ToastsStayChanges == DesktopSpec => ToastsAreChanges
<1>1. DesktopInv /\ [DesktopNext]_desktopVars
        => [popped' = "change" => news /\ toast'.state = file]_vars
  <2> SUFFICES ASSUME DesktopInv, Next, popped' = "change"
               PROVE  news /\ toast'.state = file
    BY DEF DesktopNext, TrayRuns, WindowRuns, desktopVars
  <2>1. PICK r \in Reads, h \in MadeIcons, created \in BOOLEAN : Poll(r, h, created)
    <3>1. ~\E r \in Reads, h \in MadeIcons : StartUp(r, h)
      BY DEF StartUp, DesktopInv, TrayInv, NewsInv
    <3>2. ~\E r \in Reads, created \in BOOLEAN : Click(r, created)
      BY DEF Click
    <3>3. ~(Tick \/ OpenStatusWindow \/ Exit \/ CloseStatusWindow)
      BY DEF Tick, OpenStatusWindow, Exit, CloseStatusWindow
    <3>4. ~\E state \in States : Publish(state)
      BY DEF Publish
    <3> QED
      BY <3>1, <3>2, <3>3, <3>4 DEF Next
  <2>2. Changed(r) /\ r # None /\ window' /\ Notify(r, created)
    BY <2>1 DEF Poll
  <2>3. toast' = Raise(r) /\ r = file
    BY <2>2 DEF Notify, Reads
  <2> QED
    BY <2>2, <2>3 DEF Changed, Raise, DesktopInv, TrayInv, NewsInv
<1> QED
  BY <1>1, Invariance, PTL DEF DesktopSpec, ToastsAreChanges
=============================================================================
