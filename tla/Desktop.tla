------------------------------ MODULE Desktop -------------------------------
(***************************************************************************)
(* The two programs of a user's desktop, the tray and the status window.   *)
(* They share nothing but the file the DLL publishes, which each of them   *)
(* reads for itself, so the steps of one are explored without the other's. *)
(***************************************************************************)
EXTENDS Tray

CONSTANTS Stored, Published, MaxViews

VARIABLES snapshot, shown, job, temp, viewers, views

Window == INSTANCE StatusWindow

ASSUME StoreAssumption ==
    \A c \in Stored : c.store \in Window!Identities /\ c.print # Window!Empty
ASSUME ViewAssumption == MaxViews \in Nat

VARIABLE program   \* "Tray" or "Window"

windowVars  == <<snapshot, shown, job, temp, viewers, views>>
desktopVars == <<vars, windowVars, program>>

\* The window is another process: it starts with the file as it is.
DesktopInit ==
    /\ program \in {"Tray", "Window"}
    /\ IF program = "Tray"
       THEN /\ Init
            /\ snapshot = Window!NoStatus /\ shown = Window!NoStatus
            /\ job = Window!NoJob /\ viewers = {} /\ views = 0
            /\ temp = [n \in Window!Names |-> Window!Unread]
       ELSE /\ Init /\ file = None
            /\ Window!Init

TrayRuns   == program = "Tray" /\ Next /\ UNCHANGED <<windowVars, program>>
WindowRuns == program = "Window" /\ Window!WinNext /\ UNCHANGED <<vars, program>>

DesktopNext == TrayRuns \/ WindowRuns

DesktopSpec == DesktopInit /\ [][DesktopNext]_desktopVars /\ Fairness

\* The window's property, and with it the temporary files, as in StatusWindow.
ViewersShowTheirs == Window!ViewersShowTheirs
=============================================================================
