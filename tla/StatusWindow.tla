---------------------------- MODULE StatusWindow ----------------------------
(***************************************************************************)
(* The status window (crates/usg-status-window): it polls the published    *)
(* snapshot, and its two "View" buttons look an identity's certificate up  *)
(* in that identity's Windows store, write it to a temporary file and have *)
(* the shell open that file.  The viewer is a process of its own, which    *)
(* reads the file when it gets to it.                                      *)
(*                                                                         *)
(* A certificate is known by its store, subject and thumbprint, where the  *)
(* subject stands for its common name.  A subject search takes the first   *)
(* certificate the store lists, and stores list theirs in any order.       *)
(***************************************************************************)
EXTENDS Naturals

CONSTANTS Stored,     \* what the two stores hold: records of store, subject, print
          Published,  \* the subjects and thumbprints a snapshot may carry
          MaxViews    \* how often "View" is clicked

Empty      == ""
Identities == {"Machine", "User"}

NoCert   == [subject |-> Empty, print |-> Empty]
Unread   == [store |-> Empty, subject |-> Empty, print |-> Empty]
NoStatus == [there |-> FALSE, certs |-> [i \in Identities |-> NoCert]]

VARIABLES snapshot,  \* the published status, as far as the certificates go
          shown,     \* what the window was last set to
          job,       \* the View in progress: identity, what was published for it,
                     \*   how far it has got, and the certificate being written
          temp,      \* the temporary files; Unread for none, or none written yet
          viewers,   \* the viewers: whom for, which file, and what they show
          views      \* views begun

NoJob == [stage |-> "none", identity |-> Empty, cert |-> NoCert, found |-> Unread]

MutTempName(i) == "view"

\* "The filename is per-identity."
TempName(i) == i

Names == Identities \cup {"view"}

Init ==
    /\ snapshot \in {NoStatus} \cup [there : {TRUE}, certs : [Identities -> Published]]
    /\ \E r \in {snapshot, NoStatus} : shown = r
    /\ job = NoJob
    /\ temp = [n \in Names |-> Unread]
    /\ viewers = {}
    /\ views = 0

-----------------------------------------------------------------------------
\* read_status, which may miss.
Reads == {snapshot, NoStatus}

\* The 750 ms timer.  The window's thread handles a click to its end first.
Refresh ==
    /\ job = NoJob
    /\ \E r \in Reads : shown' = r
    /\ UNCHANGED <<snapshot, job, temp, viewers, views>>

\* has_machine_cert, has_user_cert: the button is there for a shown subject.
HasButton(i) == shown.certs[i].subject # Empty

\* A click reads the status once more, and does nothing if that misses.
View(i) ==
    /\ job = NoJob /\ views < MaxViews
    /\ HasButton(i)
    /\ views' = views + 1
    /\ \E r \in Reads :
          job' = IF r.there
                 THEN [stage |-> "print", identity |-> i, cert |-> r.certs[i], found |-> Unread]
                 ELSE NoJob
    /\ UNCHANGED <<snapshot, shown, temp, viewers>>

InStore == {c \in Stored : c.store = job.identity}

ByPrint   == {c \in InStore : c.print = job.cert.print}
BySubject == {c \in InStore : job.cert.subject # Empty /\ c.subject = job.cert.subject}

\* `fs::write` creates or truncates the file before it fills it.
Finds(stage, certs) == \E c \in certs :
    /\ job.stage = stage /\ job.found = Unread
    /\ job' = [job EXCEPT !.found = c]
    /\ temp' = [temp EXCEPT ![TempName(job.identity)] = Unread]
    /\ UNCHANGED <<snapshot, shown, viewers, views>>

FindsByPrint   == Finds("print", ByPrint)
FindsBySubject == Finds("subject", BySubject)

\* The file is complete and handed to the shell.
Opens ==
    /\ job.found # Unread
    /\ temp' = [temp EXCEPT ![TempName(job.identity)] = job.found]
    /\ viewers' = viewers \cup {[id |-> views, identity |-> job.identity,
                                 file |-> TempName(job.identity), shows |-> Unread]}
    /\ job' = NoJob
    /\ UNCHANGED <<snapshot, shown, views>>

\* No match, a store that does not open, a certificate without its DER, or a
\* file that cannot be written: view tries the next way, the last of which is
\* the certificate manager.
GoesOn ==
    /\ job.stage \in {"print", "subject"}
    /\ job' = IF job.stage = "print" THEN [job EXCEPT !.stage = "subject", !.found = Unread]
                                     ELSE NoJob
    /\ UNCHANGED <<snapshot, shown, temp, viewers, views>>

-----------------------------------------------------------------------------
\* Around the window: the viewer gets to its file, and the DLL publishes.
ViewerReads ==
    /\ \E v \in viewers : v.shows = Unread /\
          viewers' = (viewers \ {v}) \cup {[v EXCEPT !.shows = temp[v.file]]}
    /\ UNCHANGED <<snapshot, shown, job, temp, views>>

Republished(i) ==
    /\ \E c \in Published : snapshot' = [there |-> TRUE, certs |-> [snapshot.certs EXCEPT ![i] = c]]
    /\ UNCHANGED <<shown, job, temp, viewers, views>>

WinNext ==
    \/ Refresh \/ FindsByPrint \/ FindsBySubject \/ Opens \/ GoesOn \/ ViewerReads
    \/ \E i \in Identities : View(i) \/ Republished(i)

-----------------------------------------------------------------------------
\* cert.rs, write_and_open: opening the computer's and the user's certificate
\* "in quick succession can't have one write overwrite the other's file before
\* its async viewer reads it".  Whenever a viewer gets to its file, and whatever
\* is clicked and published meanwhile, it shows a certificate of the identity
\* it was opened for, or an unfinished file.
ViewersShowTheirs ==
    \A v \in viewers : v.shows = Unread \/ v.shows.store = v.identity
=============================================================================
