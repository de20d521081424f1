-------------------------------- MODULE Tray --------------------------------
(***************************************************************************)
(* The tray application (crates/usg-tray/src/tray.rs, toast.rs): it polls  *)
(* the status file, keeps an icon that shows the last state read, pops a   *)
(* toast on a change, and opens the status window.  Everything runs on one *)
(* thread, so each message is handled in one step; the file is written by  *)
(* other processes in between, and any read of it may miss (usg_status     *)
(* read_status returns None for a file it cannot open or parse).           *)
(***************************************************************************)
EXTENDS Naturals, FiniteSets

CONSTANTS AutoHideTicks,  \* AUTO_HIDE_TICKS, 133 in the program
          MaxPublishes,   \* how often the status file is written
          MaxClicks       \* how often the user clicks the icon

ASSUME TrayAssumption ==
    AutoHideTicks \in Nat /\ MaxPublishes \in Nat /\ MaxClicks \in Nat

Idle   == "Idle"
States == {"Connecting", "InnerInProgress", "Authenticated", "Failed"}
None   == "None"   \* no status: Option::None

\* Icon handles: the shared stock icon, and those GDI+ makes.  Two of the
\* latter are alive at most, while one replaces the other; a third would leak.
Stock   == 0
Handles == 1..3

VARIABLES file,       \* the state in the published snapshot
          phase,      \* of the process: "new", "running", "ended"
          lastState,  \* LAST_STATE
          icon,       \* CURRENT_ICON: the state it was built for and its handle
          alive,      \* the generated icons not yet destroyed
          window,     \* the toast window exists
          toast,      \* Ctx: state and ticks; visible and armed are the window's
          children,   \* status windows that are running, started by this tray
          child,      \* STATUS_WIN
          popped,     \* history: why the last message popped a toast, if it did
          news,       \* history: the file was written since it was last read
          publishes, clicks

ui     == <<lastState, icon, alive, window, toast>>
status == <<children, child>>
counts == <<publishes, clicks>>
vars   == <<file, phase, ui, status, popped, news, counts>>

\* Of the reads, those of startup and polls count for news.  The read of a click
\* does not: it shows the state on demand, and leaves LAST_STATE alone.

NoIcon == [state |-> None, handle |-> Stock, built |-> FALSE]
Hidden == [state |-> Idle, ticks |-> 0, visible |-> FALSE, armed |-> FALSE]

Init ==
    /\ file \in States \cup {None}
    /\ phase = "new"
    /\ lastState = None
    /\ icon = NoIcon
    /\ alive = {}
    /\ window = FALSE
    /\ toast = Hidden
    /\ children = {}
    /\ child = 0
    /\ popped = "no"
    /\ news = TRUE
    /\ publishes = 0
    /\ clicks = 0

\* read_status: the snapshot, or nothing.
Reads == {file, None}

-----------------------------------------------------------------------------
(* The icon.                                                                *)

MutFreed(old) == {}

\* The previous icon is destroyed once the new one is in hand; for the stock
\* icon, which is shared, that does nothing.
Freed(old) == {old} \ {Stock}

MutUpToDate(state) == icon.built

UpToDate(state) == icon.built /\ icon.state = state

\* build_icon: make_tray_icon's icon, or the stock one if GDI+ failed.
MadeIcons == Handles \cup {Stock}

\* icon_for: rebuilt only when the state it shows changes; h is what
\* build_icon returned.
ShowIcon(state, h) ==
    IF UpToDate(state)
    THEN UNCHANGED <<icon, alive>>
    ELSE /\ h \notin alive
         /\ icon' = [state |-> state, handle |-> h, built |-> TRUE]
         /\ alive' = (alive \cup ({h} \ {Stock}))
                        \ (IF icon.built THEN Freed(icon.handle) ELSE {})

-----------------------------------------------------------------------------
(* The toast.                                                               *)

Raise(state) == [state |-> state, ticks |-> 0, visible |-> TRUE, armed |-> TRUE]

\* notify: nothing if the window cannot be created, which is tried again.
Notify(state, created) ==
    /\ window' = (window \/ created)
    /\ toast' = IF window' THEN Raise(state) ELSE toast

Silent == UNCHANGED <<window, toast>>

Progress == {"Connecting", "InnerInProgress"}

MutExpired == toast.ticks >= AutoHideTicks /\ toast.state \notin Progress

Expired == toast.ticks >= AutoHideTicks

\* WM_TIMER of the toast window, in-progress toasts included.  The count goes
\* on to saturate; past the limit its value no longer matters.
Tick ==
    /\ phase = "running" /\ toast.armed
    /\ toast' = [toast EXCEPT !.ticks = IF @ > AutoHideTicks THEN @ ELSE @ + 1,
                             !.visible = ~Expired, !.armed = ~Expired]
    /\ popped' = "no"
    /\ UNCHANGED <<file, phase, lastState, icon, alive, window, status, news, counts>>

-----------------------------------------------------------------------------
(* The messages of the tray's own window.                                   *)

\* run seeds the last-seen state with what its one read returned.
Seed(r) == r

StartUp(r, h) ==
    /\ phase = "new"
    /\ phase' = "running"
    /\ ShowIcon(r, h)
    /\ lastState' = Seed(r)
    /\ news' = (r = None)
    /\ UNCHANGED <<file, window, toast, status, popped, counts>>

MutChanged(r) == r # lastState

\* "Don't let a transient missing-file read overwrite the last state".
Changed(r) == r # None /\ r # lastState

\* WM_TIMER: one read, for the icon and for the toast.
Poll(r, h, created) ==
    /\ phase = "running"
    /\ ShowIcon(r, h)
    /\ IF Changed(r)
       THEN /\ lastState' = r
            /\ IF r = None THEN Silent ELSE Notify(r, created)
            /\ popped' = IF r # None /\ window' THEN "change" ELSE "no"
       ELSE Silent /\ popped' = "no" /\ UNCHANGED lastState
    /\ news' = (r = None /\ news)
    /\ UNCHANGED <<file, phase, status, counts>>

\* WM_TRAY with a left click.
Click(r, created) ==
    /\ phase = "running" /\ clicks < MaxClicks
    /\ clicks' = clicks + 1
    /\ Notify(IF r = None THEN Idle ELSE r, created)
    /\ popped' = "click"
    /\ UNCHANGED <<file, phase, lastState, icon, alive, status, news, publishes>>

\* open_status_window: try_wait says that the one we started still runs.
Opens == child \notin children

OpenStatusWindow ==
    /\ phase = "running" /\ clicks < MaxClicks
    /\ clicks' = clicks + 1
    /\ IF Opens
       THEN \/ child' = clicks' /\ children' = children \cup {clicks'}
            \/ child' = 0 /\ UNCHANGED children    \* spawn failed, or no such file
       ELSE UNCHANGED status
    /\ popped' = "no"
    /\ UNCHANGED <<file, phase, ui, news, publishes>>

\* WM_COMMAND with ID_EXIT, up to the end of run.
Exit ==
    /\ phase = "running"
    /\ phase' = "ended"
    /\ alive' = alive \ Freed(icon.handle)
    /\ icon' = NoIcon
    /\ toast' = Hidden
    /\ popped' = "no"
    /\ UNCHANGED <<file, lastState, window, status, news, counts>>

-----------------------------------------------------------------------------
(* Around the tray: the DLL publishes, and the user closes a status window. *)

Publish(state) ==
    /\ publishes < MaxPublishes
    /\ publishes' = publishes + 1
    /\ file' = state
    /\ popped' = "no"
    /\ news' = TRUE
    /\ UNCHANGED <<phase, ui, status, clicks>>

CloseStatusWindow ==
    /\ \E c \in children : children' = children \ {c}
    /\ popped' = "no"
    /\ UNCHANGED <<file, phase, ui, child, news, counts>>

PollReads == \E h \in MadeIcons, created \in BOOLEAN : Poll(file, h, created)

Next ==
    \/ \E r \in Reads, h \in MadeIcons : StartUp(r, h)
    \/ \E r \in Reads, h \in MadeIcons, created \in BOOLEAN : Poll(r, h, created)
    \/ \E r \in Reads, created \in BOOLEAN : Click(r, created)
    \/ Tick \/ OpenStatusWindow \/ Exit \/ CloseStatusWindow
    \/ \E state \in States : Publish(state)

\* The two window timers keep firing while they are set, and a read of a file
\* that is there does not miss for ever.
Fairness == WF_vars(Tick) /\ WF_vars(PollReads)

Spec == Init /\ [][Next]_vars /\ Fairness

-----------------------------------------------------------------------------
\* No toast is popped twice for one change, however many reads have missed in
\* between (tray.rs:298-308): a poll pops one only for what was written to the
\* file since startup or a poll last read it, and shows what the file holds.  A
\* status from before the start (tray.rs:89-90) is announced only if the read at
\* startup has missed it: then it is news to the first poll that reads.
ToastsAreChanges ==
    [][popped' = "change" => news /\ toast'.state = file]_vars

\* GDI handles do not leak, and the icon in use is never a destroyed one.
IconsAreFreed == alive = {icon.handle} \ {Stock}

\* Every toast is dismissed, in whatever state it was raised, once it is no
\* longer raised anew.
ToastIsDismissed == toast.visible ~> ~toast.visible

\* The tray catches up: the change of state that was published last is noticed
\* for good, and the icon keeps coming back to it whatever reads miss.
CatchesUp ==
    /\ <>[](phase # "running" \/ file = None \/ lastState = file)
    /\ []<>(phase # "running" \/ icon.state = file)
=============================================================================
