-------------------------- MODULE MachineFilesProofs --------------------------
(***************************************************************************)
(* Theorems about the status file and the machine ticket, for every set of *)
(* processes, certificates and record sizes.                               *)
(***************************************************************************)
EXTENDS MachineFiles, SequenceTheorems, TLAPS

Job  == [identity : Identities, cert : Creds]
File == [kind : {"missing", "torn", "snapshot"}, by : Identities \cup {Empty},
         certs : [Identities -> Cert]]

TypeOK ==
    /\ secured \in [Procs -> BOOLEAN]
    /\ memory \in [Procs -> [Identities -> Cert]]
    /\ pc \in [Procs -> {"idle", "secure", "merge", "stage", "fill", "rename"}]
    /\ job \in [Procs -> Job \cup {NoJob}]
    /\ staged \in [Names -> File]
    /\ file \in File
    /\ steps \in Nat
    /\ known \in [Procs -> SUBSET Identities]
    /\ filed \subseteq Identities

\* What a process is publishing, and what its own staging file holds once it has
\* been filled: nobody else stages under that name.
StagingInv ==
    \A p \in Procs :
        /\ pc[p] # "idle" => job[p] \in Job
        /\ pc[p] = "rename" => staged[p] = Snapshot(job[p].identity, memory[p])

\* A poller finds nothing, or a snapshot.
WholeInv == file = Missing \/ file.kind = "snapshot"

\* The two fields of c are of one credential, or of a credential without subject
\* that stands beside an older subject.
Paired(c) == c \in Creds \cup {NoCert} \/ [c EXCEPT !.subject = Empty] \in Creds

PairedInv ==
    /\ \A p \in Procs, i \in Identities : Paired(memory[p][i])
    /\ \A n \in Names, i \in Identities : Paired(staged[n].certs[i])
    /\ \A i \in Identities : Paired(file.certs[i])

\* What a process run knows is in its memory, which every later merge keeps.
KnownInv == \A p \in Procs : \A i \in known[p] : memory[p][i].print # Empty

StatusInv == TypeOK /\ StagingInv /\ WholeInv /\ PairedInv /\ KnownInv

USE DEF Identities, Cert, NoCert, NoCerts, Job, NoJob, Names, Missing, Torn, Snapshot

\* Merging field by field keeps a pair a pair.
LEMMA MergePaired ==
    ASSUME NEW own \in Cert, NEW read \in Cert, Paired(own), Paired(read)
    PROVE  /\ MergeCert(own, read) \in Cert
           /\ Paired(MergeCert(own, read))
           /\ own.print # Empty \/ read.print # Empty => MergeCert(own, read).print # Empty
<1>1. MergeCert(own, read) \in Cert
  BY DEF MergeCert, Field
<1>2. CASE read.print = Empty
  <2>1. read = NoCert
    BY <1>2, CredAssumption DEF Paired
  <2>2. MergeCert(own, read) = own
    BY <2>1 DEF MergeCert, Field
  <2> QED
    BY <1>2, <2>2
<1>3. CASE read.print # Empty /\ read.subject = Empty
  <2>1. read \in Creds
    BY <1>3 DEF Paired
  <2>2. [MergeCert(own, read) EXCEPT !.subject = Empty] = read
    BY <1>3 DEF MergeCert, Field
  <2> QED
    BY <1>1, <1>3, <2>1, <2>2 DEF Paired, MergeCert, Field
<1>4. CASE read.print # Empty /\ read.subject # Empty
  <2>1. MergeCert(own, read) = read
    BY <1>4 DEF MergeCert, Field
  <2> QED
    BY <1>4, <2>1
<1> QED
  BY <1>2, <1>3, <1>4

\* What is published and remembered of a merge: every certificate paired, the
\* session's own in it, and none that memory or the file had is lost.
LEMMA MergedPaired ==
    ASSUME TypeOK, PairedInv, NEW p \in Procs, job[p] \in Job, NEW read \in {file, Missing}
    PROVE  /\ Merged(p, read) \in [Identities -> Cert]
           /\ \A i \in Identities :
                 /\ Paired(Merged(p, read)[i])
                 /\ i = job[p].identity \/ memory[p][i].print # Empty
                       \/ (read.kind = "snapshot" /\ read.certs[i].print # Empty)
                    => Merged(p, read)[i].print # Empty
<1> SUFFICES ASSUME NEW i \in Identities
             PROVE  /\ Merged(p, read)[i] \in Cert
                    /\ Paired(Merged(p, read)[i])
                    /\ i = job[p].identity \/ memory[p][i].print # Empty
                          \/ (read.kind = "snapshot" /\ read.certs[i].print # Empty)
                       => Merged(p, read)[i].print # Empty
  BY DEF Merged
<1>1. memory[p][i] \in Cert /\ Paired(memory[p][i])
  BY DEF TypeOK, PairedInv
<1>2. read.certs[i] \in Cert /\ Paired(read.certs[i])
  <2>1. CASE read = file
    BY <2>1 DEF TypeOK, PairedInv, File
  <2>2. CASE read = Missing
    BY <2>2 DEF Paired
  <2> QED
    BY <2>1, <2>2
<1>3. job[p].cert \in Creds /\ job[p].cert \in Cert /\ job[p].cert.print # Empty
  BY CredAssumption
<1>4. CASE i = job[p].identity
  BY <1>3, <1>4 DEF Merged, Paired
<1>5. CASE i # job[p].identity /\ read.kind = "snapshot"
  BY <1>1, <1>2, <1>5, MergePaired DEF Merged
<1>6. CASE i # job[p].identity /\ read.kind # "snapshot"
  BY <1>1, <1>6 DEF Merged
<1> QED
  BY <1>4, <1>5, <1>6

\* Nothing published, and nothing staged.
LEMMA StatusInitInv == Init => StatusInv
BY DEF Init, StatusInv, TypeOK, File, StagingInv, WholeInv, PairedInv, Paired, KnownInv

\* A step that only moves the process on.
LEMMA PublishInv ==
    ASSUME StatusInv, NEW p \in Procs, Publish(p)
    PROVE  StatusInv'
<1> USE DEF StatusInv, Publish, Goto
<1>1. TypeOK'
  BY DEF TypeOK
<1>2. StagingInv'
  BY DEF TypeOK, StagingInv
<1>3. WholeInv' /\ PairedInv' /\ KnownInv'
  BY DEF WholeInv, PairedInv, Paired, KnownInv
<1> QED
  BY <1>1, <1>2, <1>3

\* A step of p that leaves it with nothing to rename, and the others as they are,
\* disturbs nobody's staging.
LEMMA StagingKept ==
    ASSUME TypeOK, StagingInv, NEW p \in Procs, UNCHANGED staged,
           \A q \in Procs \ {p} : pc'[q] = pc[q] /\ job'[q] = job[q] /\ memory'[q] = memory[q],
           pc'[p] # "rename", pc'[p] # "idle" => job'[p] \in Job
    PROVE  StagingInv'
<1> SUFFICES ASSUME NEW q \in Procs
             PROVE  /\ pc'[q] # "idle" => job'[q] \in Job
                    /\ pc'[q] = "rename" => staged'[q] = Snapshot(job'[q].identity, memory'[q])
  BY DEF StagingInv
<1>1. CASE q = p
  BY <1>1
<1>2. CASE q # p
  BY <1>2 DEF StagingInv
<1> QED
  BY <1>1, <1>2

\* What giving up, and going on to another step, do to the process and to others.
LEMMA PcOfOne ==
    ASSUME TypeOK, NEW p \in Procs, NEW label, Goto(p, label)
    PROVE  pc'[p] = label /\ \A q \in Procs \ {p} : pc'[q] = pc[q]
BY DEF TypeOK, Goto

LEMMA JobOfOne ==
    ASSUME TypeOK, NEW p \in Procs, GiveUp(p)
    PROVE  \A q \in Procs \ {p} : job'[q] = job[q]
BY DEF TypeOK, GiveUp

\* The hardening of the directory leaves no file.
LEMMA SecureInv ==
    ASSUME StatusInv, NEW p \in Procs, Secure(p) \/ CannotSecure(p)
    PROVE  StatusInv'
<1> USE DEF StatusInv, Secure, CannotSecure, Goto, GiveUp
<1>0. file' \in {file, Missing} /\ UNCHANGED <<memory, staged, steps, known, filed>>
  OBVIOUS
<1>1. TypeOK'
  <2>1. Missing \in File
    BY DEF File
  <2> QED
    BY <1>0, <2>1 DEF TypeOK
<1>2. StagingInv'
  <2>1. CASE Secure(p)
    <3>1. Goto(p, "merge") /\ UNCHANGED <<memory, job, staged>>
      BY <2>1
    <3>2. pc[p] # "idle"
      BY <2>1
    <3>3. job'[p] \in Job
      BY <3>1, <3>2 DEF StagingInv
    <3> HIDE DEF Secure, CannotSecure, Goto, GiveUp, StatusInv
    <3> QED
      BY <3>1, <3>3, PcOfOne, StagingKept DEF StatusInv
  <2>2. CASE CannotSecure(p)
    <3>1. GiveUp(p) /\ Goto(p, "idle") /\ UNCHANGED <<memory, staged>>
      BY <2>2
    <3> HIDE DEF Secure, CannotSecure, Goto, GiveUp, StatusInv
    <3> QED
      BY <3>1, PcOfOne, JobOfOne, StagingKept DEF StatusInv
  <2> QED
    BY <2>1, <2>2
<1>3. WholeInv' /\ KnownInv'
  BY <1>0 DEF WholeInv, KnownInv
<1>4. PairedInv'
  <2>1. \A i \in Identities : Paired(file.certs[i]) /\ Paired(Missing.certs[i])
    BY DEF PairedInv, Paired
  <2>2. \A i \in Identities : Paired(file'.certs[i])
    BY <1>0, <2>1
  <2> QED
    BY <1>0, <2>2 DEF PairedInv, Paired
<1> QED
  BY <1>1, <1>2, <1>3, <1>4

\* The merge keeps what the process knew, and what it learns it remembers.
LEMMA MergeInv ==
    ASSUME StatusInv, NEW p \in Procs, Merge(p)
    PROVE  StatusInv'
<1> USE DEF StatusInv, Goto
<1>1. PICK read \in {file, Missing} :
        /\ memory' = [memory EXCEPT ![p] = Merged(p, read)]
        /\ known' = [known EXCEPT ![p] = known[p] \cup {job[p].identity}
                        \cup {i \in Identities : read.certs[i].print # Empty}]
  BY DEF Merge
<1>2. job[p] \in Job
  BY DEF Merge, StagingInv
<1>3. /\ Merged(p, read) \in [Identities -> Cert]
      /\ \A i \in Identities :
            /\ Paired(Merged(p, read)[i])
            /\ i = job[p].identity \/ memory[p][i].print # Empty
                  \/ (read.kind = "snapshot" /\ read.certs[i].print # Empty)
               => Merged(p, read)[i].print # Empty
  BY <1>2, MergedPaired
<1>4. TypeOK'
  BY <1>1, <1>2, <1>3 DEF Merge, TypeOK
<1>5. StagingInv'
  BY <1>1, <1>2 DEF Merge, TypeOK, StagingInv
<1>6. WholeInv' /\ PairedInv'
  BY <1>1, <1>3 DEF Merge, TypeOK, WholeInv, PairedInv, Paired
<1>7. KnownInv'
  <2> SUFFICES ASSUME NEW q \in Procs, NEW i \in known'[q]
               PROVE  memory'[q][i].print # Empty
    BY DEF KnownInv
  <2>1. CASE q # p
    BY <1>1, <2>1 DEF TypeOK, KnownInv
  <2>2. CASE q = p
    <3>1. i \in Identities
      BY <1>4 DEF TypeOK
    <3>2. i = job[p].identity \/ memory[p][i].print # Empty
            \/ (read.kind = "snapshot" /\ read.certs[i].print # Empty)
      BY <1>1, <2>2, <3>1 DEF TypeOK, KnownInv, WholeInv
    <3> QED
      BY <1>1, <1>3, <2>2, <3>1, <3>2 DEF TypeOK
  <2> QED
    BY <2>1, <2>2
<1> QED
  BY <1>4, <1>5, <1>6, <1>7

\* Staging writes under the process's own name only.
LEMMA StageInv ==
    ASSUME StatusInv, NEW p \in Procs, Stage(p) \/ Fill(p)
    PROVE  StatusInv'
<1> USE DEF StatusInv, Stage, Fill, Goto, Tmp
<1>1. job[p] \in Job
  BY DEF StagingInv
<1>0. PICK content \in {Torn, Snapshot(job[p].identity, memory[p])} :
        staged' = [staged EXCEPT ![p] = content]
  OBVIOUS
<1>2. TypeOK'
  <2>1. memory[p] \in [Identities -> Cert]
    BY DEF TypeOK
  <2>2. content \in File
    BY <1>1, <2>1 DEF File
  <2> QED
    BY <1>0, <2>2 DEF TypeOK
<1>3. StagingInv'
  BY <1>1 DEF TypeOK, StagingInv
<1>4. WholeInv' /\ KnownInv'
  BY DEF WholeInv, KnownInv
<1>5. PairedInv'
  <2>1. \A i \in Identities : Paired(content.certs[i])
    <3>1. content.certs \in {NoCerts, memory[p]}
      OBVIOUS
    <3>2. \A i \in Identities : Paired(NoCerts[i]) /\ Paired(memory[p][i])
      BY DEF PairedInv, Paired
    <3> QED
      BY <3>1, <3>2
  <2>2. \A n \in Names : staged'[n] = IF n = p THEN content ELSE staged[n]
    BY <1>0 DEF TypeOK
  <2> QED
    BY <2>1, <2>2 DEF PairedInv, Paired
<1> QED
  BY <1>2, <1>3, <1>4, <1>5

\* What is renamed is the snapshot this process has filled.
LEMMA RenameInv ==
    ASSUME StatusInv, NEW p \in Procs, Rename(p)
    PROVE  StatusInv' /\ file' = Snapshot(job[p].identity, memory[p])
<1> USE DEF StatusInv, Rename, Renames, Goto, GiveUp, Tmp
<1>1. file' = Snapshot(job[p].identity, memory[p])
  BY DEF StagingInv
<1>2. TypeOK'
  BY DEF TypeOK, File
<1>3. StagingInv'
  BY DEF TypeOK, StagingInv
<1>4. WholeInv' /\ KnownInv'
  BY <1>1 DEF WholeInv, KnownInv
<1>5. PairedInv'
  BY DEF TypeOK, PairedInv, Paired
<1> QED
  BY <1>1, <1>2, <1>3, <1>4, <1>5

\* A failed write and a crash leave the files as they are.
LEMMA StopInv ==
    ASSUME StatusInv, NEW p \in Procs, WriteFails(p) \/ Restart(p)
    PROVE  StatusInv'
<1> USE DEF StatusInv, WriteFails, Restart, Goto, GiveUp
<1>0. /\ \A q \in Procs : memory'[q] \in {memory[q], NoCerts}
      /\ memory' \in [Procs -> [Identities -> Cert]] /\ UNCHANGED <<staged, file>>
  <2>1. CASE WriteFails(p)
    BY <2>1 DEF TypeOK
  <2>2. CASE Restart(p)
    <3>1. NoCerts \in [Identities -> Cert] /\ memory' = [memory EXCEPT ![p] = NoCerts]
      BY <2>2
    <3> QED
      BY <2>2, <3>1 DEF TypeOK
  <2> QED
    BY <2>1, <2>2
<1>1. TypeOK'
  BY <1>0 DEF TypeOK
<1>2. StagingInv'
  <2>1. GiveUp(p) /\ Goto(p, "idle") /\ UNCHANGED staged
    OBVIOUS
  <2>2. \A q \in Procs \ {p} : memory'[q] = memory[q]
    BY DEF TypeOK
  <2> HIDE DEF WriteFails, Restart, Goto, GiveUp, StatusInv
  <2> QED
    BY <2>1, <2>2, PcOfOne, JobOfOne, StagingKept DEF StatusInv
<1>3. WholeInv'
  BY DEF WholeInv
<1>4. PairedInv'
  <2>1. \A i \in Identities : Paired(NoCerts[i])
    BY DEF Paired
  <2> QED
    BY <1>0, <2>1 DEF PairedInv, Paired
<1>5. KnownInv'
  BY DEF TypeOK, KnownInv
<1> QED
  BY <1>1, <1>2, <1>3, <1>4, <1>5

\* Every step of every process, and every stutter, preserves the invariant.
LEMMA StatusNextInv == StatusInv /\ [Next]_vars => StatusInv'
<1> SUFFICES ASSUME StatusInv, [Next]_vars PROVE StatusInv'
  OBVIOUS
<1>1. CASE UNCHANGED vars
  BY <1>1, ZenonT(60) DEF vars, StatusInv, TypeOK, StagingInv, WholeInv, PairedInv, Paired, KnownInv
<1>2. CASE Next
  BY <1>2, PublishInv, SecureInv, MergeInv, StageInv, RenameInv, StopInv DEF Next
<1> QED
  BY <1>1, <1>2

\* The invariant of the status file holds whatever the processes do.
THEOREM StatusInvariance == FilesSpec => []StatusInv
<1>1. FilesInit => StatusInv
  BY StatusInitInv DEF FilesInit
<1>2. StatusInv /\ [StatusStep \/ TicketStep]_filesVars => StatusInv'
  BY StatusNextInv DEF StatusStep, TicketStep, filesVars
<1> QED
  BY <1>1, <1>2, PTL DEF FilesSpec

\* A poller of the status never reads a half-written file.
THEOREM NeverTorn == FilesSpec => []FileIsWhole
<1>1. StatusInv => FileIsWhole
  BY DEF StatusInv, WholeInv, FileIsWhole
<1> QED
  BY StatusInvariance, <1>1, PTL

\* The certificate fields of the status name one certificate.
THEOREM AlwaysPaired == FilesSpec => []CertsArePaired
<1>1. StatusInv => CertsArePaired
  BY DEF StatusInv, PairedInv, Paired, CertsArePaired
<1> QED
  BY StatusInvariance, <1>1, PTL

\* No snapshot loses a certificate the process run that publishes it has known.
THEOREM NeverForgets == FilesSpec => KnownCertKept
<1>1. StatusInv /\ [Next]_vars =>
        [\A p \in Procs : Renames(p) /\ ~Renames(p)' /\ file' # file
             => \A i \in known[p] : file'.certs[i].print # Empty]_vars
  <2> SUFFICES ASSUME StatusInv, Next, NEW p \in Procs, Renames(p), ~Renames(p)',
                      file' # file, NEW i \in known[p]
               PROVE  file'.certs[i].print # Empty
    OBVIOUS
  <2>1. PICK q \in Procs : Rename(q) \/ Secure(q)
    BY DEF Next, Publish, CannotSecure, Merge, Stage, Fill, WriteFails, Restart
  <2>2. q = p
    BY <2>1 DEF StatusInv, TypeOK, Renames, Rename, Secure, GiveUp, Goto
  <2>3. file' = Snapshot(job[p].identity, memory[p])
    BY <2>1, <2>2, RenameInv DEF Renames, Secure
  <2>4. memory[p][i].print # Empty
    BY DEF StatusInv, KnownInv
  <2> QED
    BY <2>3, <2>4
<1>2. StatusInv /\ [StatusStep \/ TicketStep]_filesVars =>
        [\A p \in Procs : Renames(p) /\ ~Renames(p)' /\ file' # file
             => \A i \in known[p] : file'.certs[i].print # Empty]_vars
  BY <1>1 DEF StatusStep, TicketStep, filesVars
<1> QED
  BY StatusInvariance, <1>2, PTL DEF FilesSpec, KnownCertKept

-----------------------------------------------------------------------------
(* The ticket.                                                              *)

Block == Nat \X Nat
Call  == [file : Nat, save : Nat, blocks : Seq(Block)]

TicketTypeOK ==
    /\ disk \in Seq(Seq(Block))
    /\ path \in 0..Len(disk)
    /\ ticketPc \in [Procs -> {"idle", "writing", "reading"}]
    /\ ticketJob \in [Procs -> Call]
    /\ sealed \in Seq(Sizes) /\ Len(sealed) <= MaxSaves
    /\ alone \subseteq Procs
    /\ settled \in Nat
    /\ gone \in 0..Len(sealed)
    /\ since \in [Procs -> 0..Len(sealed)]

Writing(p) == ticketPc[p] = "writing"
Reading(p) == ticketPc[p] = "reading"

\* The handles that are open, and how far the writers may be.
HandleInv ==
    /\ \A p \in Procs : ticketPc[p] # "idle" => ticketJob[p].file \in DOMAIN disk
    /\ \A p \in Procs : Writing(p) =>
          /\ ticketJob[p].save \in DOMAIN sealed
          /\ Len(ticketJob[p].blocks) < sealed[ticketJob[p].save]

\* The file holds the first k blocks of save n and nothing else.
Holds(n, k) ==
    /\ path # 0 /\ Len(disk[path]) = k
    /\ \A i \in 1..k : disk[path][i] = <<n, i>>

\* A writer that has met nobody is the only one, and the file holds what it has
\* written of the newest save.
AloneInv ==
    \A p \in alone :
        /\ Writing(p) /\ \A q \in Procs : Writing(q) => q = p
        /\ ticketJob[p].save = Len(sealed) /\ ticketJob[p].file = path
        /\ Holds(Len(sealed), Len(ticketJob[p].blocks))
        /\ settled = Ticket!Unsettled

\* What is settled is all there is, and nobody is about to write over it.
SettledInv ==
    /\ settled = 0 => path = 0
    /\ settled \in DOMAIN sealed =>
          Holds(settled, sealed[settled]) /\ \A q \in Procs : ~Writing(q)

\* Every block of b is of a save after the g-th, or of none.
After(b, g) == \A k \in DOMAIN b : b[k][1] > g \/ b[k] = Ticket!Hole

\* The file f has nothing of the first g saves, now or later.
Newer(f, g) ==
    /\ After(disk[f], g)
    /\ \A q \in Procs : Writing(q) /\ ticketJob[q].file = f => ticketJob[q].save > g

NewerInv ==
    /\ path # 0 => Newer(path, gone)
    /\ \A p \in Procs : Reading(p) =>
          Newer(ticketJob[p].file, since[p]) /\ After(ticketJob[p].blocks, since[p])

TicketInv == TicketTypeOK /\ HandleInv /\ AloneInv /\ SettledInv /\ NewerInv

USE DEF Writing, Reading

\* g is the file f after one write: the block b at place i, holes before it where
\* nothing was, the rest as before.
IsWritten(g, f, i, b) ==
    /\ g \in Seq(Block) /\ Len(g) = IF Len(f) < i THEN i ELSE Len(f)
    /\ \A j \in 1..Len(g) :
          g[j] = IF j = i THEN b ELSE IF j <= Len(f) THEN f[j] ELSE Ticket!Hole

\* Put writes one block and nothing else.
LEMMA PutBlock ==
    ASSUME NEW f \in Seq(Block), NEW i \in Nat \ {0}, NEW b \in Block
    PROVE  IsWritten(Ticket!Put(f, i, b), f, i, b)
<1> DEFINE n == IF Len(f) < i THEN i ELSE Len(f)
<1>1. n \in Nat /\ \A j \in 1..n : j <= Len(f) => f[j] \in Block
  OBVIOUS
<1>2. Ticket!Put(f, i, b) \in [1..n -> Block]
  <2>1. Ticket!Hole \in Block
    BY DEF Ticket!Hole, Block
  <2> QED
    BY <1>1, <2>1 DEF Ticket!Put
<1>3. Ticket!Put(f, i, b) \in Seq(Block)
  <2>1. [1..n -> Block] \subseteq Seq(Block)
    BY <1>1, SeqDef
  <2> QED
    BY <1>2, <2>1
<1>4. Len(Ticket!Put(f, i, b)) = n
  <2>1. DOMAIN Ticket!Put(f, i, b) = 1..n
    BY <1>2
  <2>2. /\ DOMAIN Ticket!Put(f, i, b) = 1..Len(Ticket!Put(f, i, b))
        /\ Len(Ticket!Put(f, i, b)) \in Nat
    BY <1>3, LenProperties
  <2> QED
    BY <1>1, <2>1, <2>2
<1> QED
  BY <1>3, <1>4 DEF Ticket!Put, IsWritten

\* No file and no handle.
LEMMA TicketInitInv == Ticket!Init => TicketInv
<1> SUFFICES ASSUME Ticket!Init PROVE TicketInv
  OBVIOUS
<1> USE DEF Ticket!Init
<1>1. Ticket!NoJob \in Call
  BY DEF Ticket!NoJob, Call
<1>2. /\ disk \in Seq(Seq(Block)) /\ path \in 0..Len(disk)
      /\ sealed \in Seq(Sizes) /\ Len(sealed) = 0
  OBVIOUS
<1>3. TicketTypeOK
  BY <1>1, <1>2, TicketAssumption DEF TicketTypeOK
<1>4. HandleInv /\ AloneInv /\ NewerInv
  BY DEF HandleInv, AloneInv, NewerInv
<1>5. SettledInv
  BY <1>2 DEF SettledInv
<1> QED
  BY <1>3, <1>4, <1>5 DEF TicketInv

\* A save truncates the file, or makes a new one, for a number above every other.
LEMMA SaveInv ==
    ASSUME TicketInv, NEW p \in Procs, Ticket!Save(p)
    PROVE  TicketInv'
<1> USE DEF TicketInv
<1>1. PICK size \in Sizes :
        /\ Len(sealed) < MaxSaves
        /\ Ticket!Open
        /\ Ticket!Begin(p, "writing", Len(sealed) + 1)
        /\ sealed' = Append(sealed, size)
        /\ alone' = IF \E q \in Procs : Writing(q) THEN {} ELSE {p}
        /\ settled' = MaxSaves + 1
        /\ UNCHANGED <<result, gone, since>>
  BY DEF Ticket!Save, Ticket!Unsettled
<1>2. /\ disk' \in Seq(Seq(Block)) /\ DOMAIN disk' = DOMAIN disk \cup {path'}
      /\ path' \in DOMAIN disk' /\ disk'[path'] = <<>>
      /\ \A f \in DOMAIN disk \ {path'} : disk'[f] = disk[f]
      /\ path' = IF path = 0 THEN Len(disk) + 1 ELSE path
  <2>0. disk \in Seq(Seq(Block)) /\ <<>> \in Seq(Block)
    BY DEF TicketTypeOK
  <2>1. CASE path = 0
    <3>1. disk' = Append(disk, <<>>) /\ path' = Len(disk) + 1
      BY <1>1, <2>1 DEF Ticket!Open
    <3> QED
      BY <2>0, <2>1, <3>1
  <2>2. CASE path # 0
    <3>1. disk' = [disk EXCEPT ![path] = <<>>] /\ path' = path /\ path \in 1..Len(disk)
      BY <1>1, <2>2 DEF TicketTypeOK, Ticket!Open
    <3>2. disk' \in Seq(Seq(Block)) /\ DOMAIN disk' = DOMAIN disk /\ path \in DOMAIN disk
      BY <2>0, <3>1, ExceptSeq
    <3> QED
      BY <2>2, <3>1, <3>2
  <2> QED
    BY <2>1, <2>2
<1>3. /\ sealed' \in Seq(Sizes) /\ Len(sealed') = Len(sealed) + 1
      /\ sealed'[Len(sealed')] = size
      /\ \A n \in DOMAIN sealed : sealed'[n] = sealed[n]
  BY <1>1 DEF TicketTypeOK
<1>4. /\ ticketJob' = [ticketJob EXCEPT ![p] =
                          [file |-> path', save |-> Len(sealed'), blocks |-> <<>>]]
      /\ ticketPc' = [ticketPc EXCEPT ![p] = "writing"]
      /\ ticketPc[p] = "idle"
  BY <1>1, <1>3 DEF Ticket!Begin
<1>5. path' \in Nat /\ path' \in 1..Len(disk') /\ Len(sealed') \in Nat /\ <<>> \in Seq(Block)
  <2>1. DOMAIN disk' = 1..Len(disk') /\ Len(disk') \in Nat
    BY <1>2
  <2>2. Len(sealed') \in Nat
    BY <1>3
  <2>3. path' \in 1..Len(disk')
    BY <1>2, <2>1
  <2>4. path' \in Nat
    BY <2>1, <2>3
  <2> QED
    BY <2>2, <2>3, <2>4, EmptySeq
<1>6. TicketTypeOK'
  <2>1. [file |-> path', save |-> Len(sealed'), blocks |-> <<>>] \in Call
    BY <1>5 DEF Call
  <2>2. ticketJob' \in [Procs -> Call]
    BY <1>4, <2>1 DEF TicketTypeOK
  <2>3. ticketPc' \in [Procs -> {"idle", "writing", "reading"}]
    BY <1>4 DEF TicketTypeOK
  <2>4. since' \in [Procs -> 0..Len(sealed')] /\ gone' \in 0..Len(sealed') /\ settled' \in Nat
    BY <1>1, <1>3, TicketAssumption DEF TicketTypeOK
  <2>5. alone' \subseteq Procs
    BY <1>1
  <2>6. Len(sealed') <= MaxSaves
    BY <1>1, <1>3, TicketAssumption DEF TicketTypeOK
  <2>7. path' \in 0..Len(disk')
    BY <1>5, <1>2
  <2> QED
    BY <1>2, <1>3, <2>2, <2>3, <2>4, <2>5, <2>6, <2>7 DEF TicketTypeOK
<1>7. /\ ticketJob'[p] = [file |-> path', save |-> Len(sealed'), blocks |-> <<>>]
      /\ ticketPc'[p] = "writing"
      /\ \A q \in Procs \ {p} : ticketJob'[q] = ticketJob[q] /\ ticketPc'[q] = ticketPc[q]
  BY <1>4 DEF TicketTypeOK
<1>8. HandleInv'
  <2>1. Len(sealed') \in DOMAIN sealed' /\ sealed'[Len(sealed')] > 0
    BY <1>1, <1>3, TicketAssumption DEF TicketTypeOK
  <2>2. DOMAIN sealed \subseteq DOMAIN sealed'
    BY <1>3 DEF TicketTypeOK
  <2>3. ASSUME NEW q \in Procs \ {p}
        PROVE  /\ ticketPc'[q] # "idle" => ticketJob'[q].file \in DOMAIN disk'
               /\ Writing(q)' => /\ ticketJob'[q].save \in DOMAIN sealed'
                                 /\ Len(ticketJob'[q].blocks) < sealed'[ticketJob'[q].save]
    BY <1>2, <1>3, <1>7, <2>2, <2>3 DEF HandleInv
  <2>4. Len(<<>>) = 0
    OBVIOUS
  <2>5. /\ ticketJob'[p].file \in DOMAIN disk'
        /\ ticketJob'[p].save \in DOMAIN sealed'
        /\ Len(ticketJob'[p].blocks) < sealed'[ticketJob'[p].save]
    BY <1>2, <1>3, <1>7, <2>1, <2>4, TicketAssumption
  <2> QED
    BY <2>3, <2>5 DEF HandleInv
<1>9. AloneInv'
  <2>1. alone' \subseteq {p} /\ (alone' # {} => \A q \in Procs : ~Writing(q))
    BY <1>1
  <2>2. SUFFICES ASSUME p \in alone', \A q \in Procs : ~Writing(q)
                 PROVE  AloneInv'
    BY <2>1 DEF AloneInv
  <2>3. Len(ticketJob'[p].blocks) = 0 /\ Len(disk'[path']) = 0 /\ path' # 0
    BY <1>2, <1>5, <1>7
  <2>4. Holds(Len(sealed), Len(ticketJob[p].blocks))'
    BY <2>3 DEF Holds
  <2>5. Writing(p)' /\ \A q \in Procs : Writing(q)' => q = p
    BY <1>7, <2>2
  <2> QED
    BY <1>1, <1>7, <2>1, <2>4, <2>5 DEF AloneInv, Ticket!Unsettled
<1>10. SettledInv'
  BY <1>1, <1>3, TicketAssumption DEF TicketTypeOK, SettledInv
<1>11. NewerInv'
  <2>1. ASSUME NEW f \in DOMAIN disk', NEW g \in 0..Len(sealed), f \notin DOMAIN disk \/ Newer(f, g)
        PROVE  Newer(f, g)'
    <3>1. After(disk[f], g)'
      BY <1>2, <2>1 DEF Newer, After
    <3>2. Len(sealed') > g
      BY <1>3, <1>5 DEF TicketTypeOK
    <3>3. ASSUME NEW q \in Procs, Writing(q)', ticketJob'[q].file = f
          PROVE  ticketJob'[q].save > g
      <4>1. CASE q = p
        BY <1>7, <3>2, <4>1
      <4>2. CASE q # p /\ Newer(f, g)
        BY <1>7, <3>3, <4>2 DEF Newer
      <4>3. CASE q # p /\ f \notin DOMAIN disk
        BY <1>7, <3>3, <4>3 DEF HandleInv
      <4> QED
        BY <2>1, <4>1, <4>2, <4>3
    <3> QED
      BY <3>1, <3>3 DEF Newer
  <2>2. path' # 0 => Newer(path, gone)'
    <3>1. \A f \in {path'} : f \notin DOMAIN disk \/ Newer(f, gone)
      BY <1>2 DEF TicketTypeOK, NewerInv
    <3>2. gone \in 0..Len(sealed) /\ gone' = gone
      BY <1>1 DEF TicketTypeOK
    <3>3. ASSUME NEW f \in DOMAIN disk', f = path'
          PROVE  Newer(f, gone)'
      BY <2>1, <3>1, <3>2, <3>3 DEF Newer, After
    <3> QED
      BY <1>2, <3>3 DEF Newer, After
  <2>3. ASSUME NEW q \in Procs, Reading(q)'
        PROVE  (Newer(ticketJob[q].file, since[q]) /\ After(ticketJob[q].blocks, since[q]))'
    <3>1. q # p /\ Reading(q) /\ ticketJob'[q] = ticketJob[q] /\ since'[q] = since[q]
      BY <1>1, <1>7, <2>3
    <3>2. Newer(ticketJob[q].file, since[q]) /\ After(ticketJob[q].blocks, since[q])
      BY <3>1 DEF NewerInv
    <3>3. ticketJob[q].file \in DOMAIN disk' /\ since[q] \in 0..Len(sealed)
      BY <1>2, <3>1 DEF HandleInv, TicketTypeOK
    <3> QED
      BY <2>1, <3>1, <3>2, <3>3 DEF After
  <2> QED
    BY <2>2, <2>3 DEF NewerInv
<1> QED
  BY <1>6, <1>8, <1>9, <1>10, <1>11

\* A write is of a save no reader of the file has to fear; the last one of a save
\* that met nobody leaves the file to it alone.
LEMMA WriteInv ==
    ASSUME TicketInv, NEW p \in Procs, Ticket!Write(p)
    PROVE  TicketInv'
<1> USE DEF TicketInv
<1>0. ticketPc[p] = "writing" /\ ticketJob[p] \in Call
  BY DEF Ticket!Write, TicketTypeOK
<1>1. PICK n \in Nat, f \in Nat, i \in Nat \ {0} :
        /\ n = ticketJob[p].save /\ f = ticketJob[p].file
        /\ i = Len(ticketJob[p].blocks) + 1
  <2>1. ticketJob[p].blocks \in Seq(Block)
    BY <1>0 DEF Call
  <2> QED
    BY <1>0, <2>1 DEF Call
<1>2. PICK b \in Block : b = <<n, i>>
  BY DEF Block
<1>3. /\ disk' = [disk EXCEPT ![f] = Ticket!Put(disk[f], i, b)]
      /\ UNCHANGED <<path, sealed>>
      /\ \/ /\ i < sealed[n]
            /\ ticketJob' = [ticketJob EXCEPT ![p].blocks = Append(ticketJob[p].blocks, b)]
            /\ UNCHANGED <<ticketPc, result, alone, settled, gone, since>>
         \/ /\ i = sealed[n]
            /\ Ticket!Return(p, Ticket!Result("Saved", n))
            /\ alone' = alone \ {p}
            /\ settled' = IF p \in alone THEN n ELSE settled
            /\ gone' = IF p \in alone THEN n - 1 ELSE gone
  BY <1>1, <1>2 DEF Ticket!Write
<1>4. /\ f \in DOMAIN disk /\ disk[f] \in Seq(Block) /\ n \in 1..Len(sealed)
      /\ sealed[n] \in Nat \ {0} /\ i <= sealed[n]
  <2>1. f \in DOMAIN disk /\ n \in DOMAIN sealed /\ i - 1 < sealed[n]
    BY <1>0, <1>1 DEF HandleInv
  <2>2. disk[f] \in Seq(Block) /\ n \in 1..Len(sealed) /\ sealed[n] \in Sizes
    BY <2>1 DEF TicketTypeOK
  <2>3. sealed[n] \in Nat \ {0}
    BY <2>2, TicketAssumption
  <2> QED
    BY <2>1, <2>2, <2>3
<1>5. /\ disk' \in Seq(Seq(Block)) /\ DOMAIN disk' = DOMAIN disk /\ Len(disk') = Len(disk)
      /\ \A g \in DOMAIN disk \ {f} : disk'[g] = disk[g]
      /\ IsWritten(disk'[f], disk[f], i, b)
  <2>1. PICK after : after = Ticket!Put(disk[f], i, b) /\ IsWritten(after, disk[f], i, b)
    BY <1>4, PutBlock
  <2>2. disk \in Seq(Seq(Block)) /\ f \in 1..Len(disk)
    BY <1>4 DEF TicketTypeOK
  <2>3. disk' = [disk EXCEPT ![f] = after] /\ after \in Seq(Block)
    BY <1>3, <2>1 DEF IsWritten
  <2>4. disk' \in Seq(Seq(Block)) /\ Len(disk') = Len(disk)
    BY <2>2, <2>3, ExceptSeq
  <2>5. /\ DOMAIN disk' = DOMAIN disk /\ disk'[f] = after
        /\ \A g \in DOMAIN disk \ {f} : disk'[g] = disk[g]
    BY <2>2, <2>3
  <2> QED
    BY <2>1, <2>4, <2>5
<1>6. ASSUME NEW g \in DOMAIN disk, NEW m \in Nat, After(disk[g], m), g = f => n > m
      PROVE  After(disk'[g], m)
  <2>1. CASE g # f
    BY <1>5, <1>6, <2>1
  <2>2. CASE g = f
    <3> SUFFICES ASSUME NEW k \in DOMAIN disk'[f]
                 PROVE  disk'[f][k][1] > m \/ disk'[f][k] = Ticket!Hole
      BY <2>2 DEF After
    <3>1. k \in 1..Len(disk'[f])
      BY <1>5, SMTT(40) DEF IsWritten
    <3>2. CASE k = i
      BY <1>2, <1>5, <1>6, <2>2, <3>1, <3>2 DEF IsWritten
    <3>3. CASE k # i /\ k <= Len(disk[f])
      <4>1. k \in DOMAIN disk[f]
        BY <1>4, <3>1, <3>3
      <4> QED
        BY <1>5, <1>6, <2>2, <3>1, <3>3, <4>1 DEF After, IsWritten
    <3>4. CASE k # i /\ ~(k <= Len(disk[f]))
      BY <1>5, <3>1, <3>4 DEF IsWritten
    <3> QED
      BY <3>2, <3>3, <3>4
  <2> QED
    BY <2>1, <2>2
<1>7. /\ alone \subseteq {p}
      /\ p \in alone => n = Len(sealed) /\ f = path /\ Holds(n, i - 1)
  BY <1>0, <1>1 DEF AloneInv
<1>8. p \in alone => Holds(n, i)'
  <2> SUFFICES ASSUME p \in alone PROVE Holds(n, i)'
    OBVIOUS
  <2>1. path # 0 /\ Len(disk[path]) = i - 1 /\ \A j \in 1..(i - 1) : disk[path][j] = <<n, j>>
    BY <1>7 DEF Holds
  <2>2. Len(disk'[path]) = i
    BY <1>5, <1>7, <2>1 DEF IsWritten
  <2>3. \A j \in 1..i : disk'[path][j] = <<n, j>>
    <3> SUFFICES ASSUME NEW j \in 1..i PROVE disk'[path][j] = <<n, j>>
      OBVIOUS
    <3>1. j \in 1..Len(disk'[f]) /\ f = path
      BY <1>7, <2>2
    <3>2. CASE j = i
      BY <1>2, <1>5, <3>1, <3>2 DEF IsWritten
    <3>3. CASE j # i
      <4>1. j \in 1..(i - 1) /\ j <= Len(disk[f])
        BY <2>1, <3>1, <3>3
      <4> QED
        BY <1>5, <2>1, <3>1, <3>3, <4>1 DEF IsWritten
    <3> QED
      BY <3>2, <3>3
  <2> QED
    BY <1>3, <2>1, <2>2, <2>3 DEF Holds
<1>9. path # 0 => After(disk'[path], gone) /\ path \in DOMAIN disk
  <2>1. path # 0 => path \in DOMAIN disk /\ gone \in Nat
    BY DEF TicketTypeOK
  <2> QED
    BY <1>0, <1>1, <1>6, <2>1 DEF NewerInv, Newer
<1>10. \A q \in Procs : Reading(q) => After(disk'[ticketJob[q].file], since[q])
  <2> SUFFICES ASSUME NEW q \in Procs, Reading(q)
               PROVE  After(disk'[ticketJob[q].file], since[q])
    OBVIOUS
  <2>1. ticketJob[q].file \in DOMAIN disk /\ since[q] \in Nat
    BY DEF TicketTypeOK, HandleInv
  <2> QED
    BY <1>0, <1>1, <1>6, <2>1 DEF NewerInv, Newer
<1>11. settled \notin DOMAIN sealed
  BY <1>0 DEF SettledInv
<1>12. CASE i < sealed[n] /\ UNCHANGED <<ticketPc, alone, settled, gone, since>>
            /\ ticketJob' = [ticketJob EXCEPT ![p].blocks = Append(ticketJob[p].blocks, b)]
  <2>1. /\ ticketJob'[p] \in Call
        /\ ticketJob'[p].file = f /\ ticketJob'[p].save = n
        /\ Len(ticketJob'[p].blocks) = i
        /\ \A q \in Procs \ {p} : ticketJob'[q] = ticketJob[q]
        /\ ticketJob' \in [Procs -> Call]
    <3>1. ticketJob[p].blocks \in Seq(Block) /\ ticketJob \in [Procs -> Call]
      BY <1>0 DEF Call, TicketTypeOK
    <3>2. /\ Append(ticketJob[p].blocks, b) \in Seq(Block)
          /\ Len(Append(ticketJob[p].blocks, b)) = i
      BY <1>1, <3>1
    <3> QED
      BY <1>0, <1>1, <1>12, <3>1, <3>2 DEF Call
  <2>2. TicketTypeOK'
    BY <1>3, <1>5, <1>12, <2>1 DEF TicketTypeOK
  <2>3. HandleInv'
    BY <1>0, <1>3, <1>4, <1>5, <1>12, <2>1, SMTT(40) DEF HandleInv
  <2>4. AloneInv'
    BY <1>0, <1>3, <1>7, <1>8, <1>12, <2>1 DEF AloneInv
  <2>5. SettledInv'
    BY <1>3, <1>11, <1>12 DEF SettledInv
  <2>6. NewerInv'
    <3>1. \A q \in Procs : ticketJob'[q].file = ticketJob[q].file
                          /\ ticketJob'[q].save = ticketJob[q].save
                          /\ (q # p => ticketJob'[q] = ticketJob[q])
      BY <1>1, <2>1
    <3> QED
      BY <1>0, <1>3, <1>9, <1>10, <1>12, <3>1 DEF NewerInv, Newer
  <2> QED
    BY <2>2, <2>3, <2>4, <2>5, <2>6
<1>13. CASE /\ i = sealed[n] /\ Ticket!Return(p, Ticket!Result("Saved", n))
            /\ alone' = alone \ {p}
            /\ settled' = IF p \in alone THEN n ELSE settled
            /\ gone' = IF p \in alone THEN n - 1 ELSE gone
  <2>1. /\ ticketPc' = [ticketPc EXCEPT ![p] = "idle"]
        /\ ticketJob' = [ticketJob EXCEPT ![p] = Ticket!NoJob]
        /\ since' = [since EXCEPT ![p] = 0]
    BY <1>13 DEF Ticket!Return
  <2>2. /\ ticketPc'[p] = "idle"
        /\ \A q \in Procs \ {p} : /\ ticketPc'[q] = ticketPc[q]
                                  /\ ticketJob'[q] = ticketJob[q] /\ since'[q] = since[q]
    BY <2>1 DEF TicketTypeOK
  <2>3. TicketTypeOK'
    <3>1. Ticket!NoJob \in Call
      BY EmptySeq DEF Ticket!NoJob, Call
    <3>2. ticketJob' \in [Procs -> Call] /\ since' \in [Procs -> 0..Len(sealed)]
      BY <2>1, <3>1 DEF TicketTypeOK
    <3>3. settled' \in Nat /\ gone' \in 0..Len(sealed)
      BY <1>4, <1>13 DEF TicketTypeOK
    <3> QED
      BY <1>3, <1>5, <1>13, <2>1, <3>2, <3>3 DEF TicketTypeOK
  <2>4. HandleInv'
    BY <1>3, <1>5, <2>2 DEF HandleInv
  <2>5. AloneInv'
    BY <1>7, <1>13 DEF AloneInv
  <2>6. SettledInv'
    <3>1. CASE p \in alone
      <4>1. \A q \in Procs : ~Writing(q)'
        BY <1>7, <2>2, <3>1 DEF AloneInv
      <4>2. settled' = n /\ n # 0 /\ Holds(n, sealed[n])'
        <5>1. sealed'[n] = i
          BY <1>3, <1>13
        <5>2. Holds(n, i)'
          BY <1>8, <3>1
        <5> QED
          BY <1>3, <1>4, <1>13, <3>1, <5>1, <5>2 DEF Holds
      <4> QED
        BY <1>3, <4>1, <4>2 DEF SettledInv, Holds
    <3>2. CASE p \notin alone
      BY <1>3, <1>11, <1>13, <3>2 DEF SettledInv
    <3> QED
      BY <3>1, <3>2
  <2>7. NewerInv'
    <3>1. ASSUME path # 0
          PROVE  Newer(path, gone)'
      <4>1. CASE p \in alone
        <5>1. gone' = n - 1 /\ \A q \in Procs : ~Writing(q)'
          BY <1>7, <1>13, <2>2, <4>1 DEF AloneInv
        <5>2. \A k \in DOMAIN disk'[path] : disk'[path][k] = <<n, k>>
          <6>1. DOMAIN disk'[path] = 1..i
            BY <1>5, <1>7, <1>8, <4>1 DEF IsWritten, Holds
          <6> QED
            BY <1>3, <1>8, <4>1, <6>1 DEF Holds
        <5>3. \A k \in DOMAIN disk'[path] : disk'[path][k][1] > n - 1
          BY <1>1, <5>2
        <5> QED
          BY <1>3, <5>1, <5>3 DEF Newer, After
      <4>2. CASE p \notin alone
        BY <1>3, <1>9, <1>13, <2>2, <3>1, <4>2 DEF NewerInv, Newer
      <4> QED
        BY <4>1, <4>2
    <3>2. ASSUME NEW q \in Procs, Reading(q)'
          PROVE  (Newer(ticketJob[q].file, since[q]) /\ After(ticketJob[q].blocks, since[q]))'
      <4>1. q # p /\ Reading(q) /\ ticketJob'[q] = ticketJob[q] /\ since'[q] = since[q]
        BY <2>2, <3>2
      <4> QED
        BY <1>10, <2>2, <4>1 DEF NewerInv, Newer
    <3> QED
      BY <1>3, <3>1, <3>2 DEF NewerInv
  <2> QED
    BY <2>3, <2>4, <2>5, <2>6, <2>7
<1> QED
  BY <1>3, <1>12, <1>13

\* A call that ends without a write, whether or not it has taken the file away.
LEMMA ReturnInv ==
    ASSUME TicketInv, NEW p \in Procs, NEW r, Ticket!Return(p, r),
           UNCHANGED <<disk, sealed>>, alone' \subseteq alone \ {p},
           \/ UNCHANGED <<path, settled, gone>>
           \/ path' = 0 /\ settled' = 0 /\ gone' = Len(sealed) /\ alone' = {}
    PROVE  TicketInv'
<1> USE DEF TicketInv
<1>1. /\ ticketPc' = [ticketPc EXCEPT ![p] = "idle"]
      /\ ticketJob' = [ticketJob EXCEPT ![p] = Ticket!NoJob]
      /\ since' = [since EXCEPT ![p] = 0]
  BY DEF Ticket!Return
<1>2. /\ ticketPc'[p] = "idle"
      /\ \A q \in Procs \ {p} : /\ ticketPc'[q] = ticketPc[q]
                                /\ ticketJob'[q] = ticketJob[q] /\ since'[q] = since[q]
  BY <1>1 DEF TicketTypeOK
<1>3. TicketTypeOK'
  <2>1. Ticket!NoJob \in Call
    BY EmptySeq DEF Ticket!NoJob, Call
  <2>2. ticketJob' \in [Procs -> Call] /\ since' \in [Procs -> 0..Len(sealed)]
    BY <1>1, <2>1 DEF TicketTypeOK
  <2>3. settled' \in Nat /\ gone' \in 0..Len(sealed) /\ path' \in 0..Len(disk)
    BY DEF TicketTypeOK
  <2> QED
    BY <1>1, <2>2, <2>3 DEF TicketTypeOK
<1>4. HandleInv'
  BY <1>2 DEF HandleInv
<1>5. AloneInv'
  <2>1. CASE UNCHANGED <<path, settled, gone>>
    <3>1. ASSUME NEW q \in alone'
          PROVE  q \in alone /\ q \in Procs \ {p}
      BY <3>1 DEF TicketTypeOK
    <3>2. \A u \in Procs : Writing(u)' => Writing(u)
      BY <1>2
    <3>3. ASSUME NEW q \in alone'
          PROVE  Holds(Len(sealed), Len(ticketJob[q].blocks))'
      BY <1>2, <2>1, <3>1, <3>3 DEF AloneInv, Holds
    <3> QED
      BY <1>2, <2>1, <3>1, <3>2, <3>3 DEF AloneInv, Ticket!Unsettled
  <2>2. CASE alone' = {}
    BY <2>2 DEF AloneInv
  <2> QED
    BY <2>1, <2>2
<1>6. SettledInv'
  <2>1. CASE UNCHANGED <<path, settled, gone>>
    BY <1>2, <2>1 DEF SettledInv, Holds
  <2>2. CASE path' = 0 /\ settled' = 0
    BY <2>2 DEF SettledInv, TicketTypeOK
  <2> QED
    BY <2>1, <2>2
<1>7. NewerInv'
  BY <1>2 DEF NewerInv, Newer, After
<1> QED
  BY <1>3, <1>4, <1>5, <1>6, <1>7

\* Abandoned, failed and refused calls, and clear.
LEMMA EndInv ==
    ASSUME TicketInv, NEW p \in Procs,
           \/ Ticket!Abandon(p) \/ Ticket!LoadNone(p)
           \/ Ticket!Loaded(p) \/ Ticket!Clear(p)
    PROVE  TicketInv'
<1>1. CASE Ticket!Abandon(p)
  BY <1>1, ReturnInv DEF Ticket!Abandon
<1>2. CASE Ticket!LoadNone(p)
  <2>1. p \notin alone
    BY <1>2 DEF Ticket!LoadNone, TicketInv, AloneInv
  <2> QED
    BY <1>2, <2>1, ReturnInv DEF Ticket!LoadNone
<1>3. CASE Ticket!Loaded(p)
  <2>1. p \notin alone
    BY <1>3 DEF Ticket!Loaded, TicketInv, AloneInv
  <2>2. PICK r : Ticket!Return(p, r)
    BY <1>3 DEF Ticket!Loaded
  <2> QED
    BY <1>3, <2>1, <2>2, ReturnInv DEF Ticket!Loaded
<1>4. CASE Ticket!Clear(p)
  BY <1>4, ReturnInv DEF Ticket!Clear
<1> QED
  BY <1>1, <1>2, <1>3, <1>4

\* A load starts with what the path names, in which everything is new enough.
LEMMA LoadInv ==
    ASSUME TicketInv, NEW p \in Procs, Ticket!Load(p)
    PROVE  TicketInv'
<1> USE DEF TicketInv
<1>1. /\ path # 0 /\ ticketPc[p] = "idle"
      /\ ticketPc' = [ticketPc EXCEPT ![p] = "reading"]
      /\ ticketJob' = [ticketJob EXCEPT ![p] = [file |-> path, save |-> 0, blocks |-> <<>>]]
      /\ since' = [since EXCEPT ![p] = gone]
      /\ UNCHANGED <<disk, path, sealed, alone, settled, gone>>
  BY DEF Ticket!Load, Ticket!Begin
<1>2. /\ ticketPc'[p] = "reading" /\ since'[p] = gone
      /\ ticketJob'[p] = [file |-> path, save |-> 0, blocks |-> <<>>]
      /\ \A q \in Procs \ {p} : /\ ticketPc'[q] = ticketPc[q]
                                /\ ticketJob'[q] = ticketJob[q] /\ since'[q] = since[q]
  BY <1>1 DEF TicketTypeOK
<1>3. path \in DOMAIN disk /\ path \in Nat /\ p \notin alone
  BY <1>1 DEF TicketTypeOK, AloneInv
<1>4. TicketTypeOK'
  <2>1. [file |-> path, save |-> 0, blocks |-> <<>>] \in Call
    BY <1>3, EmptySeq DEF Call
  <2>2. ticketJob' \in [Procs -> Call] /\ since' \in [Procs -> 0..Len(sealed)]
    BY <1>1, <2>1 DEF TicketTypeOK
  <2> QED
    BY <1>1, <2>2 DEF TicketTypeOK
<1>5. HandleInv'
  BY <1>1, <1>2, <1>3 DEF HandleInv
<1>6. AloneInv'
  BY <1>1, <1>2, <1>3 DEF AloneInv, Holds
<1>7. SettledInv'
  BY <1>1, <1>2 DEF SettledInv, Holds
<1>8. NewerInv'
  <2>1. After(<<>>, gone)
    BY DEF After
  <2> QED
    BY <1>1, <1>2, <2>1 DEF NewerInv, Newer
<1> QED
  BY <1>4, <1>5, <1>6, <1>7, <1>8

\* What is read has the age of what is in the file.
LEMMA ReadInv ==
    ASSUME TicketInv, NEW p \in Procs, Ticket!Read(p)
    PROVE  TicketInv'
<1> USE DEF TicketInv
<1>1. PICK i \in Nat \ {0}, read \in Seq(Block), b \in Block :
        /\ ticketPc[p] = "reading"
        /\ read = ticketJob[p].blocks /\ i = Len(read) + 1
        /\ ticketJob[p].file \in DOMAIN disk /\ i \in DOMAIN disk[ticketJob[p].file]
        /\ b = disk[ticketJob[p].file][i]
        /\ ticketJob' = [ticketJob EXCEPT ![p].blocks = Append(read, b)]
        /\ UNCHANGED <<disk, path, ticketPc, sealed, alone, settled, gone, since>>
  <2>1. ticketPc[p] = "reading" /\ ticketJob[p] \in Call /\ ticketJob[p].file \in DOMAIN disk
    BY DEF Ticket!Read, TicketTypeOK, HandleInv
  <2>2. ticketJob[p].blocks \in Seq(Block) /\ disk[ticketJob[p].file] \in Seq(Block)
    BY <2>1 DEF Call, TicketTypeOK
  <2>3. Len(ticketJob[p].blocks) + 1 \in 1..Len(disk[ticketJob[p].file])
    BY <2>2 DEF Ticket!Read
  <2>4. disk[ticketJob[p].file][Len(ticketJob[p].blocks) + 1] \in Block
    BY <2>2, <2>3
  <2>5. /\ ticketJob' = [ticketJob EXCEPT ![p].blocks =
              Append(ticketJob[p].blocks,
                     disk[ticketJob[p].file][Len(ticketJob[p].blocks) + 1])]
        /\ UNCHANGED <<disk, path, ticketPc, sealed, alone, settled, gone, since>>
    BY DEF Ticket!Read, Ticket!history
  <2>6. Len(ticketJob[p].blocks) + 1 \in Nat \ {0}
    BY <2>2
  <2>7. Len(ticketJob[p].blocks) + 1 \in DOMAIN disk[ticketJob[p].file]
    BY <2>2, <2>3
  <2> QED
    BY <2>1, <2>2, <2>4, <2>5, <2>6, <2>7
<1>2. /\ ticketJob' \in [Procs -> Call]
      /\ ticketJob'[p].file = ticketJob[p].file /\ ticketJob'[p].blocks = Append(read, b)
      /\ \A q \in Procs \ {p} : ticketJob'[q] = ticketJob[q]
  <2>1. ticketJob[p] \in Call /\ Append(read, b) \in Seq(Block)
    BY DEF TicketTypeOK
  <2> QED
    BY <1>1, <2>1 DEF TicketTypeOK, Call
<1>3. TicketTypeOK'
  BY <1>1, <1>2 DEF TicketTypeOK
<1>4. HandleInv'
  BY <1>1, <1>2 DEF HandleInv
<1>5. AloneInv'
  BY <1>1, <1>2 DEF AloneInv, Holds
<1>6. SettledInv'
  BY <1>1, <1>2 DEF SettledInv, Holds
<1>7. NewerInv'
  <2>1. After(Append(read, b), since[p])
    BY <1>1 DEF NewerInv, Newer, After
  <2>2. \A q \in Procs : ticketJob'[q].file = ticketJob[q].file /\ ticketJob'[q].save = ticketJob[q].save
    <3>1. ticketJob[p] \in Call
      BY DEF TicketTypeOK
    <3>2. ticketJob'[p].save = ticketJob[p].save
      BY <1>1, <3>1 DEF TicketTypeOK, Call
    <3> QED
      BY <1>2, <3>2
  <2>3. \A f, g : Newer(f, g) => Newer(f, g)'
    BY <1>1, <2>2 DEF Newer, After
  <2>4. ASSUME NEW q \in Procs, Reading(q)'
        PROVE  (Newer(ticketJob[q].file, since[q]) /\ After(ticketJob[q].blocks, since[q]))'
    <3>1. Newer(ticketJob[q].file, since[q])
      BY <1>1, <2>4 DEF NewerInv
    <3>2. After(ticketJob'[q].blocks, since[q])
      <4>1. CASE q = p
        BY <1>2, <2>1, <4>1
      <4>2. CASE q # p
        BY <1>1, <1>2, <2>4, <4>2 DEF NewerInv
      <4> QED
        BY <4>1, <4>2
    <3>3. /\ After(disk'[ticketJob[q].file], since[q])
          /\ \A r \in Procs : Writing(r)' /\ ticketJob'[r].file = ticketJob[q].file
                => ticketJob'[r].save > since[q]
      BY <2>3, <3>1 DEF Newer
    <3>4. ticketJob'[q].file = ticketJob[q].file /\ since' = since
      BY <1>1, <2>2
    <3> QED
      BY <3>2, <3>3, <3>4 DEF Newer, After
  <2> QED
    BY <1>1, <2>3, <2>4 DEF NewerInv
<1> QED
  BY <1>3, <1>4, <1>5, <1>6, <1>7

\* Every step of every process, and every stutter, preserves the invariant.
LEMMA TicketNextInv == TicketInv /\ [Ticket!Next]_(Ticket!vars) => TicketInv'
<1> SUFFICES ASSUME TicketInv, [Ticket!Next]_(Ticket!vars) PROVE TicketInv'
  OBVIOUS
<1>1. CASE UNCHANGED Ticket!vars
  BY <1>1 DEF Ticket!vars, Ticket!state, Ticket!history, TicketInv, TicketTypeOK, HandleInv,
              AloneInv, SettledInv, NewerInv, Holds, Newer, After
<1>2. CASE Ticket!Next
  BY <1>2, SaveInv, WriteInv, EndInv, LoadInv, ReadInv DEF Ticket!Next
<1> QED
  BY <1>1, <1>2

\* The invariant of the ticket's file holds whatever the processes do.
THEOREM TicketInvariance == FilesSpec => []TicketInv
<1>1. FilesInit => TicketInv
  BY TicketInitInv DEF FilesInit
<1>2. TicketInv /\ [StatusStep \/ TicketStep]_filesVars => TicketInv'
  BY TicketNextInv DEF StatusStep, TicketStep, filesVars, ticketVars, Ticket!vars,
                       Ticket!state, Ticket!history
<1> QED
  BY <1>1, <1>2, PTL DEF FilesSpec

\* Of what the blocks unseal to there is only one save.
LEMMA UnsealsOne ==
    ASSUME TicketInv, NEW b, NEW n \in Ticket!Unseals(b)
    PROVE  n \in DOMAIN sealed /\ 1 \in DOMAIN b /\ b[1] = <<n, 1>> /\ n \in Nat \ {0}
<1>1. n \in DOMAIN sealed /\ b = [i \in 1..sealed[n] |-> <<n, i>>]
  BY DEF Ticket!Unseals
<1>2. n \in Nat \ {0} /\ sealed[n] \in Sizes
  BY <1>1 DEF TicketInv, TicketTypeOK
<1>3. sealed[n] \in Nat \ {0}
  BY <1>2, TicketAssumption
<1> QED
  BY <1>1, <1>2, <1>3

\* A load never returns a ticket from before the save or clear that completed before
\* it began, and one that nobody has disturbed is what the file holds.
THEOREM AlwaysCurrent == FilesSpec => TicketIsCurrent
<1>1. TicketInv /\ [Ticket!Next]_(Ticket!vars) =>
        [\A p \in Procs :
            ticketPc[p] = "reading" /\ ticketPc'[p] = "idle" /\ result'.tag = "Loaded"
            => result'.save > since[p]]_(Ticket!vars)
  <2> SUFFICES ASSUME TicketInv, Ticket!Next, NEW p \in Procs,
                      ticketPc[p] = "reading", ticketPc'[p] = "idle", result'.tag = "Loaded"
               PROVE  result'.save > since[p]
    OBVIOUS
  <2>1. ticketPc \in [Procs -> {"idle", "writing", "reading"}]
    BY DEF TicketInv, TicketTypeOK
  <2>2. Ticket!Loaded(p) \/ Ticket!Abandon(p)
    <3>1. ASSUME NEW q \in Procs, Ticket!Write(q) \/ Ticket!LoadNone(q) \/ Ticket!Clear(q)
          PROVE  FALSE
      <4>1. q # p \/ ticketPc'[p] = ticketPc[p] \/ result'.tag # "Loaded"
        BY <2>1, <3>1 DEF Ticket!Write, Ticket!LoadNone, Ticket!Clear, Ticket!Return,
                          Ticket!Result
      <4>2. ticketPc' = ticketPc \/ ticketPc' = [ticketPc EXCEPT ![q] = "idle"]
        BY <3>1 DEF Ticket!Write, Ticket!LoadNone, Ticket!Clear, Ticket!Return
      <4> QED
        BY <2>1, <4>1, <4>2
    <3>2. ASSUME NEW q \in Procs, Ticket!Save(q) \/ Ticket!Load(q) \/ Ticket!Read(q)
          PROVE  FALSE
      <4>1. \/ ticketPc' = ticketPc
            \/ ticketPc' = [ticketPc EXCEPT ![q] = "writing"]
            \/ ticketPc' = [ticketPc EXCEPT ![q] = "reading"]
        BY <3>2 DEF Ticket!Save, Ticket!Load, Ticket!Read, Ticket!Begin
      <4> QED
        BY <2>1, <4>1
    <3>3. ASSUME NEW q \in Procs, Ticket!Loaded(q) \/ Ticket!Abandon(q)
          PROVE  q = p
      <4>1. ticketPc' = [ticketPc EXCEPT ![q] = "idle"]
        BY <3>3 DEF Ticket!Loaded, Ticket!Abandon, Ticket!Return
      <4> QED
        BY <2>1, <4>1
    <3> QED
      BY <3>1, <3>2, <3>3 DEF Ticket!Next
  <2>3. PICK n \in Ticket!Unseals(ticketJob[p].blocks) : result' = Ticket!Result("Loaded", n)
    BY <2>2 DEF Ticket!Loaded, Ticket!Abandon, Ticket!Return, Ticket!Result
  <2>4. /\ 1 \in DOMAIN ticketJob[p].blocks /\ ticketJob[p].blocks[1] = <<n, 1>>
        /\ n \in Nat \ {0}
    BY <2>3, UnsealsOne
  <2>5. <<n, 1>>[1] > since[p] \/ <<n, 1>> = Ticket!Hole
    BY <2>4 DEF TicketInv, NewerInv, After, Reading
  <2>6. n > since[p]
    BY <2>4, <2>5 DEF Ticket!Hole
  <2> QED
    BY <2>3, <2>6 DEF Ticket!Result
<1>2. TicketInv => (settled = 0 => path = 0)
  BY DEF TicketInv, SettledInv
<1>3. TicketInv => (settled \in DOMAIN sealed =>
                      path # 0 /\ Ticket!Unseals(disk[path]) = {settled})
  <2> SUFFICES ASSUME TicketInv, settled \in DOMAIN sealed
               PROVE  path # 0 /\ Ticket!Unseals(disk[path]) = {settled}
    OBVIOUS
  <2>1. /\ path # 0 /\ Len(disk[path]) = sealed[settled]
        /\ \A i \in 1..sealed[settled] : disk[path][i] = <<settled, i>>
    BY DEF TicketInv, SettledInv, Holds
  <2>2. disk[path] \in Seq(Block)
    BY <2>1 DEF TicketInv, TicketTypeOK
  <2>3. disk[path] = [i \in 1..sealed[settled] |-> <<settled, i>>]
    <3>1. disk[path] \in [1..sealed[settled] -> Block]
      BY <2>1, <2>2, LenProperties
    <3>2. disk[path] = [i \in 1..sealed[settled] |-> disk[path][i]]
      BY <3>1
    <3> QED
      BY <2>1, <3>2
  <2>4. settled \in Ticket!Unseals(disk[path])
    BY <2>3 DEF Ticket!Unseals
  <2>5. ASSUME NEW n \in Ticket!Unseals(disk[path]) PROVE n = settled
    BY <2>4, <2>5, UnsealsOne
  <2> QED
    BY <2>1, <2>4, <2>5
<1>4. TicketInv /\ [StatusStep \/ TicketStep]_filesVars =>
        [\A p \in Procs :
            ticketPc[p] = "reading" /\ ticketPc'[p] = "idle" /\ result'.tag = "Loaded"
            => result'.save > since[p]]_(Ticket!vars)
  BY <1>1 DEF StatusStep, TicketStep, filesVars, ticketVars, Ticket!vars,
              Ticket!state, Ticket!history
<1> QED
  BY TicketInvariance, <1>2, <1>3, <1>4, PTL
     DEF FilesSpec, TicketIsCurrent, Ticket!TicketIsCurrent
=============================================================================
