------------------------------ MODULE MatStore -------------------------------
(***************************************************************************)
(* The store of the machine's authorization ticket (crates/pac): one file  *)
(* that the machine session saves to and the user session loads from, in   *)
(* processes of their own and without a lock.  `save` truncates the file   *)
(* and writes in place, so what a load finds may be half of a record or    *)
(* parts of two; that it can tell is due to the seal (DPAPI) and to the    *)
(* exact length in the record.                                             *)
(*                                                                         *)
(* Data is moved in blocks.  Block <<n, i>> is the i-th of what the n-th   *)
(* save of the history sealed; DPAPI seals the same record differently     *)
(* every time.                                                             *)
(***************************************************************************)
EXTENDS Naturals, Sequences

CONSTANTS Procs,
          Sizes,    \* the lengths, in blocks, that a sealed record may have
          MaxSaves  \* bound on the saves of one behaviour

VARIABLES disk,    \* the contents of each file there has been
          path,    \* which of them the path names, 0 for none
          pc,      \* per process: "idle", "writing" or "reading"
          job,     \* per process: its handle, the save it writes, the blocks
                   \*   written or read so far
          result,  \* what the call that returned last returned
          sealed,  \* history: the size of what each save sealed
          alone,   \* history: the writers that have met no save and no clear
          settled, \* history: the save that is bound to be in the file, 0 for
                   \*   no file, Unsettled if nothing is
          gone,    \* history: saves 1 to gone have been replaced or cleared
          since    \* history: per process, gone when its load began

state   == <<disk, path, pc, job, result>>
history == <<sealed, alone, settled, gone, since>>
vars    == <<state, history>>

Hole      == <<0, 0>>
Unsettled == MaxSaves + 1
NoJob     == [file |-> 0, save |-> 0, blocks |-> <<>>]
Result(tag, n) == [tag |-> tag, save |-> n]

Init ==
    /\ disk = <<>> /\ path = 0
    /\ pc = [p \in Procs |-> "idle"]
    /\ job = [p \in Procs |-> NoJob]
    /\ result = Result("None", 0)
    /\ sealed = <<>> /\ alone = {} /\ settled = 0 /\ gone = 0
    /\ since = [p \in Procs |-> 0]

-----------------------------------------------------------------------------
\* unseal and decode: the save of which b is all and nothing but what it sealed.
Unseals(b) == {n \in DOMAIN sealed : b = [i \in 1..sealed[n] |-> <<n, i>>]}

MutOpen ==
    IF path = 0 THEN disk' = Append(disk, <<>>) /\ path' = Len(disk) + 1
    ELSE UNCHANGED <<disk, path>>

\* create + truncate: a file that is there keeps its handles.
Open ==
    IF path = 0 THEN disk' = Append(disk, <<>>) /\ path' = Len(disk) + 1
    ELSE disk' = [disk EXCEPT ![path] = <<>>] /\ UNCHANGED path

Begin(p, what, n) ==
    /\ pc[p] = "idle" /\ pc' = [pc EXCEPT ![p] = what]
    /\ job' = [job EXCEPT ![p] = [file |-> path', save |-> n, blocks |-> <<>>]]

Return(p, r) ==
    /\ pc' = [pc EXCEPT ![p] = "idle"]
    /\ job' = [job EXCEPT ![p] = NoJob]
    /\ since' = [since EXCEPT ![p] = 0]
    /\ result' = r

\* save: encode and seal, then open.
Save(p) == \E size \in Sizes :
    /\ Len(sealed) < MaxSaves
    /\ Open
    /\ Begin(p, "writing", Len(sealed) + 1)
    /\ sealed' = Append(sealed, size)
    /\ alone' = IF \E q \in Procs : pc[q] = "writing" THEN {} ELSE {p}
    /\ settled' = Unsettled
    /\ UNCHANGED <<result, gone, since>>

\* A block at the writer's own position; what lies before it may be gone.
Put(f, i, b) ==
    [j \in 1..(IF Len(f) < i THEN i ELSE Len(f)) |->
        IF j = i THEN b ELSE IF j <= Len(f) THEN f[j] ELSE Hole]

\* One write of write_all; after the last one the save returns.
Write(p) ==
    LET n == job[p].save  i == Len(job[p].blocks) + 1 IN
    /\ pc[p] = "writing"
    /\ disk' = [disk EXCEPT ![job[p].file] = Put(@, i, <<n, i>>)]
    /\ \/ /\ i < sealed[n]
          /\ job' = [job EXCEPT ![p].blocks = Append(@, <<n, i>>)]
          /\ UNCHANGED <<pc, result, alone, settled, gone, since>>
       \/ /\ i = sealed[n]
          /\ Return(p, Result("Saved", n))
          /\ alone' = alone \ {p}
          /\ settled' = IF p \in alone THEN n ELSE settled
          /\ gone' = IF p \in alone THEN n - 1 ELSE gone
    /\ UNCHANGED <<path, sealed>>

\* An I/O error, or the end of the process, in the middle of a call.
Abandon(p) ==
    /\ pc[p] # "idle"
    /\ Return(p, Result("Error", 0))
    /\ alone' = alone \ {p}
    /\ UNCHANGED <<disk, path, sealed, settled, gone>>

\* load: "None if none is stored".
LoadNone(p) ==
    /\ pc[p] = "idle" /\ path = 0
    /\ Return(p, Result("None", 0))
    /\ UNCHANGED <<disk, path, sealed, alone, settled, gone>>

\* fs::read: open, then read to the end.
Load(p) ==
    /\ path # 0 /\ UNCHANGED path
    /\ Begin(p, "reading", 0)
    /\ since' = [since EXCEPT ![p] = gone]
    /\ UNCHANGED <<disk, result, sealed, alone, settled, gone>>

Read(p) ==
    LET i == Len(job[p].blocks) + 1 IN
    /\ pc[p] = "reading" /\ i <= Len(disk[job[p].file])
    /\ job' = [job EXCEPT ![p].blocks = Append(@, disk[job[p].file][i])]
    /\ UNCHANGED <<disk, path, pc, result, history>>

\* End of the file: unseal and decode what was read.
Loaded(p) ==
    LET found == Unseals(job[p].blocks) IN
    /\ pc[p] = "reading" /\ Len(job[p].blocks) >= Len(disk[job[p].file])
    /\ \/ found = {} /\ Return(p, Result("Error", 0))
       \/ \E n \in found : Return(p, Result("Loaded", n))
    /\ UNCHANGED <<disk, path, sealed, alone, settled, gone>>

\* clear: a missing file is no error; open handles keep the file they have.
Clear(p) ==
    /\ pc[p] = "idle"
    /\ path' = 0
    /\ Return(p, Result("Cleared", 0))
    /\ alone' = {} /\ settled' = 0 /\ gone' = Len(sealed)
    /\ UNCHANGED <<disk, sealed>>

Next == \E p \in Procs :
    \/ Save(p) \/ Write(p) \/ Abandon(p)
    \/ LoadNone(p) \/ Load(p) \/ Read(p) \/ Loaded(p)
    \/ Clear(p)

Spec == Init /\ [][Next]_vars

-----------------------------------------------------------------------------
\* A load that begins after a save or a clear has completed does not return a
\* ticket from before it, whatever other saves, clears, loads and crashes there
\* are.  A save or clear that met no other one is what the file holds, for as long
\* as no other begins: nothing of an earlier, longer record is left behind it, and
\* no write of an abandoned or overtaken save reaches the file after it.
TicketIsCurrent ==
    /\ [][\A p \in Procs :
            pc[p] = "reading" /\ pc'[p] = "idle" /\ result'.tag = "Loaded"
            => result'.save > since[p]]_vars
    /\ [](settled = 0 => path = 0)
    /\ [](settled \in DOMAIN sealed => path # 0 /\ Unseals(disk[path]) = {settled})
=============================================================================
