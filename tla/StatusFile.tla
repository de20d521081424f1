----------------------------- MODULE StatusFile -----------------------------
(***************************************************************************)
(* The status file that publish_status (crates/eaphost/src/peer.rs) writes *)
(* through usg_status::write_status, by several processes that have the    *)
(* DLL loaded: the first-publish hardening of the directory, the merge of  *)
(* the two identities' certificates with what the process remembers and    *)
(* what the file says, and the staged write.  Inside one process publishes *)
(* are serialized by the status_meta lock; processes crash and restart.    *)
(***************************************************************************)
EXTENDS Naturals, FiniteSets

CONSTANTS Procs,     \* processes that publish, as their pids
          Subjects,  \* certificate subjects, "" (no subject filter) possibly included
          Prints,    \* certificate thumbprints, never empty
          Creds,     \* the credentials sessions use: a set of certificates
          MaxSteps   \* how many publishes are begun in all

Empty == ""

Identities == {"Machine", "User"}
Cert       == [subject : Subjects \cup {Empty}, print : Prints \cup {Empty}]
NoCert     == [subject |-> Empty, print |-> Empty]
NoCerts    == [i \in Identities |-> NoCert]

ASSUME CredAssumption ==
    /\ Creds \subseteq Cert /\ Empty \notin Prints
    /\ \A c \in Creds : c.print # Empty
ASSUME StepAssumption == MaxSteps \in Nat

\* What a path holds: nothing, a file cut short by the writer, or a snapshot.
Missing   == [kind |-> "missing", by |-> Empty, certs |-> NoCerts]
Torn      == [kind |-> "torn", by |-> Empty, certs |-> NoCerts]
Snapshot(i, certs) == [kind |-> "snapshot", by |-> i, certs |-> certs]

VARIABLES secured,  \* SECURED, of each process
          memory,   \* last_certs, of each process
          pc,       \* where each process's publish is
          job,      \* the identity and credential it publishes
          staged,   \* what the staging files hold, by name
          file,     \* what the published path holds
          steps,    \* publishes begun
          known,    \* history: the identities whose certificate this process run
                    \*   has published, or read in the file
          filed     \* history: the identities the file has held a certificate of
vars == <<secured, memory, pc, job, staged, file, steps, known, filed>>

NoJob == [identity |-> Empty, cert |-> NoCert]

Names == Procs \cup {"shared"}

Init ==
    /\ secured = [p \in Procs |-> FALSE]
    /\ memory = [p \in Procs |-> NoCerts]
    /\ pc = [p \in Procs |-> "idle"]
    /\ job = [p \in Procs |-> NoJob]
    /\ staged = [n \in Names |-> Missing]
    /\ file = Missing
    /\ steps = 0
    /\ known = [p \in Procs |-> {}]
    /\ filed = {}

Goto(p, label) == pc' = [pc EXCEPT ![p] = label]
GiveUp(p) == Goto(p, "idle") /\ job' = [job EXCEPT ![p] = NoJob]

-----------------------------------------------------------------------------
\* publish_status of a handle that has metadata.
Publish(p) ==
    /\ pc[p] = "idle" /\ steps < MaxSteps
    /\ \E i \in Identities, c \in Creds :
          job' = [job EXCEPT ![p] = [identity |-> i, cert |-> c]]
    /\ steps' = steps + 1
    /\ Goto(p, IF secured[p] THEN "merge" ELSE "secure")
    /\ UNCHANGED <<secured, memory, staged, file, known, filed>>

\* secure_status_dir, until it has succeeded once in the process: harden the
\* directory, then drop a file planted before.
Secure(p) ==
    /\ pc[p] = "secure"
    /\ secured' = [secured EXCEPT ![p] = TRUE]
    /\ file' = Missing
    /\ Goto(p, "merge")
    /\ UNCHANGED <<memory, job, staged, steps, known, filed>>

\* "Better no status": the directory could not be secured.
CannotSecure(p) ==
    /\ pc[p] = "secure"
    /\ GiveUp(p)
    /\ UNCHANGED <<secured, memory, staged, file, steps, known, filed>>

MutField(own, read) == read

\* One field of the other identity: refreshed from a non-empty published value.
Field(own, read) == IF read # Empty THEN read ELSE own

MutMergeCert(own, read) == [subject |-> Field(read.subject, own.subject),
                            print   |-> Field(own.print, read.print)]

MergeCert(own, read) == [subject |-> Field(own.subject, read.subject),
                         print   |-> Field(own.print, read.print)]

\* The certificates to publish: memory, refreshed from what was read (anything
\* but a snapshot reads as None), with the active identity's own on top.
Merged(p, read) ==
    [i \in Identities |->
        IF i = job[p].identity THEN job[p].cert
        ELSE IF read.kind = "snapshot" THEN MergeCert(memory[p][i], read.certs[i])
        ELSE memory[p][i]]

\* read_status, which may miss a file that is there ("briefly locked mid-rename").
Merge(p) ==
    /\ pc[p] = "merge"
    /\ \E read \in {file, Missing} :
          /\ memory' = [memory EXCEPT ![p] = Merged(p, read)]
          /\ known' = [known EXCEPT ![p] = @ \cup {job[p].identity}
                          \cup {i \in Identities : read.certs[i].print # Empty}]
    /\ Goto(p, "stage")
    /\ UNCHANGED <<secured, job, staged, file, steps, filed>>

MutTmp(p) == "shared"

\* unique_tmp: no two processes stage under one name.
Tmp(p) == p

\* write_status: the staging file is created and then filled.
Stage(p) ==
    /\ pc[p] = "stage"
    /\ staged' = [staged EXCEPT ![Tmp(p)] = Torn]
    /\ Goto(p, "fill")
    /\ UNCHANGED <<secured, memory, job, file, steps, known, filed>>

Fill(p) ==
    /\ pc[p] = "fill"
    /\ staged' = [staged EXCEPT ![Tmp(p)] = Snapshot(job[p].identity, memory[p])]
    /\ Goto(p, "rename")
    /\ UNCHANGED <<secured, memory, job, file, steps, known, filed>>

Renames(p) == pc[p] = "rename"

Rename(p) ==
    /\ Renames(p)
    /\ staged[Tmp(p)] # Missing
    /\ file' = staged[Tmp(p)]
    /\ staged' = [staged EXCEPT ![Tmp(p)] = Missing]
    /\ filed' = filed \cup {i \in Identities : file'.certs[i].print # Empty}
    /\ GiveUp(p)
    /\ UNCHANGED <<secured, memory, steps, known>>

\* The write or the rename fails: the error is ignored, the staging file stays.
WriteFails(p) ==
    /\ pc[p] \in {"stage", "fill", "rename"}
    /\ GiveUp(p)
    /\ UNCHANGED <<secured, memory, staged, file, steps, known, filed>>

\* The process dies and another takes its place: the statics are gone, the
\* files are not.
Restart(p) ==
    /\ secured[p] \/ pc[p] # "idle"
    /\ secured' = [secured EXCEPT ![p] = FALSE]
    /\ memory' = [memory EXCEPT ![p] = NoCerts]
    /\ known' = [known EXCEPT ![p] = {}]
    /\ GiveUp(p)
    /\ UNCHANGED <<staged, file, steps, filed>>

Next == \E p \in Procs :
    \/ Publish(p) \/ Secure(p) \/ CannotSecure(p) \/ Merge(p)
    \/ Stage(p) \/ Fill(p) \/ Rename(p) \/ WriteFails(p) \/ Restart(p)

Spec == Init /\ [][Next]_vars

-----------------------------------------------------------------------------
\* A poller never reads a half-written file, nor one another process is still
\* filling, at whatever point a writer stops or dies.
FileIsWhole == file.kind # "torn"

\* Once a process run knows an identity's certificate, from its own session or
\* from the file, no snapshot it publishes loses it, however many reads miss.
KnownCertKept ==
    [][\A p \in Procs :
          Renames(p) /\ ~Renames(p)' /\ file' # file
              => \A i \in known[p] : file'.certs[i].print # Empty]_vars

\* The certificate window looks a certificate up by thumbprint and else by
\* subject, so a snapshot's two fields should name one certificate.  Merging
\* field by field they do, unless that thumbprint is of a credential published
\* without a subject: then an older subject stands beside it.
CertsArePaired ==
    \A i \in Identities : LET c == file.certs[i] IN
        c \in Creds \cup {NoCert} \/ [c EXCEPT !.subject = Empty] \in Creds

\* peer.rs:110-112: the machine and user credentials "both survive across the
\* one-at-a-time machine/user sessions. The published status file is the
\* cross-process channel": a snapshot holds every identity's that an earlier
\* one held.
PublishedCertKept ==
    file.kind = "snapshot" => \A i \in filed : file.certs[i].print # Empty
=============================================================================
