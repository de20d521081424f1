---------------------------- MODULE MachineFiles ----------------------------
(***************************************************************************)
(* The two files that processes of this machine share without a lock: the  *)
(* published status and the machine's authorization ticket.  No step on    *)
(* one depends on the other, so they are explored one at a time.           *)
(***************************************************************************)
EXTENDS StatusFile, Sequences

CONSTANTS Sizes, MaxSaves

ASSUME TicketAssumption == Sizes \subseteq Nat \ {0} /\ MaxSaves \in Nat

VARIABLES disk, path, ticketPc, ticketJob, result, sealed, alone, settled, gone, since

Ticket == INSTANCE MatStore WITH pc <- ticketPc, job <- ticketJob

VARIABLE shared   \* "Status" or "Ticket"

ticketVars == <<disk, path, ticketPc, ticketJob, result, sealed, alone, settled, gone, since>>
filesVars  == <<vars, ticketVars, shared>>

FilesInit == Init /\ Ticket!Init /\ shared \in {"Status", "Ticket"}

StatusStep == shared = "Status" /\ Next /\ UNCHANGED <<ticketVars, shared>>
TicketStep == shared = "Ticket" /\ Ticket!Next /\ UNCHANGED <<vars, shared>>

FilesSpec == FilesInit /\ [][StatusStep \/ TicketStep]_filesVars

\* The property of the ticket's file, as module MatStore states it.
TicketIsCurrent == Ticket!TicketIsCurrent
=============================================================================
