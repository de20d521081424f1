---------------------------- MODULE Reassembler -----------------------------
(***************************************************************************)
(* The bounded reassembly of one TLS message from TEAP outer fragments     *)
(* (crates/teap/src/outer.rs), used at both levels of the protocol: the    *)
(* tunnel (TeapDriver) and the inner EAP-TLS method (EapTlsInner).  The    *)
(* fragments are whatever a peer sends: the M bit, an optional total in    *)
(* the L field, and data.                                                  *)
(***************************************************************************)
EXTENDS Integers, Sequences

CONSTANTS Octet,         \* what data is made of
          MaxTotal,      \* max_total, 256 KiB in the program
          MaxFragments,  \* MAX_FRAGMENTS, 1024 in the program
          Fragments      \* the fragments a peer may send

NoTotal == -1

Fragment == [more : BOOLEAN, total : Nat \cup {NoTotal}, data : Seq(Octet)]

ASSUME BoundAssumption    == MaxTotal \in Nat /\ MaxFragments \in Nat
ASSUME FragmentAssumption == \A f \in Fragments : f \in Fragment

VARIABLES buf,            \* the octets accumulated so far
          expectedTotal,  \* the total declared for the message in progress
          fragments,      \* how many fragments it has taken
          result,         \* what the last push returned
          received,       \* history: the data pushed for the message in progress,
                          \*   or for the message just completed
          declared        \* history: the totals its fragments have declared

state == <<buf, expectedTotal, fragments>>
vars  == <<state, result, received, declared>>

Outcomes    == [tag : {"More", "Error", "Complete"}, message : Seq(Octet)]
More        == [tag |-> "More", message |-> <<>>]
Error       == [tag |-> "Error", message |-> <<>>]
Complete(b) == [tag |-> "Complete", message |-> b]

Init ==
    /\ buf = <<>>
    /\ expectedTotal = NoTotal
    /\ fragments = 0
    /\ result = More
    /\ received = <<>>
    /\ declared = {}

-----------------------------------------------------------------------------
(* The checks of `push`, in order; each later one presumes the earlier.     *)

MutWithinCount(f) == TRUE

WithinCount(f) == fragments + 1 <= MaxFragments

\* "The length appears only on the first fragment": a later, differing total
\* is a protocol violation; a repeated, equal one is let through.
MutTotalAgrees(f) == f.total = NoTotal \/ f.total <= MaxTotal

TotalAgrees(f) ==
    \/ f.total = NoTotal
    \/ f.total <= MaxTotal /\ expectedTotal \in {NoTotal, f.total}

WithinTotal(f) == Len(buf) + Len(f.data) <= MaxTotal

TotalAfter(f) == IF f.total # NoTotal THEN f.total ELSE expectedTotal

LengthMatches(f) ==
    TotalAfter(f) = NoTotal \/ Len(buf) + Len(f.data) = TotalAfter(f)

(* One push, by its exit.                                                   *)

\* An error leaves behind whatever the checks before it have written.
Reject(f) ==
    /\ \/ ~WithinCount(f) /\ UNCHANGED <<expectedTotal, buf>>
       \/ WithinCount(f) /\ ~TotalAgrees(f) /\ UNCHANGED <<expectedTotal, buf>>
       \/ /\ WithinCount(f) /\ TotalAgrees(f) /\ ~WithinTotal(f)
          /\ expectedTotal' = TotalAfter(f)
          /\ UNCHANGED buf
       \/ /\ WithinCount(f) /\ TotalAgrees(f) /\ WithinTotal(f)
          /\ ~f.more /\ ~LengthMatches(f)
          /\ expectedTotal' = TotalAfter(f)
          /\ buf' = buf \o f.data
    /\ fragments' = fragments + 1
    /\ result' = Error

Accepted(f) == WithinCount(f) /\ TotalAgrees(f) /\ WithinTotal(f)

Accumulate(f) ==
    /\ Accepted(f) /\ f.more
    /\ buf' = buf \o f.data
    /\ expectedTotal' = TotalAfter(f)
    /\ fragments' = fragments + 1
    /\ result' = More

MutFinish(f) ==
    /\ Accepted(f) /\ ~f.more /\ LengthMatches(f)
    /\ buf' = <<>>
    /\ fragments' = 0
    /\ result' = Complete(buf \o f.data)
    /\ expectedTotal' = TotalAfter(f)

\* "Reset per-message state so the reassembler is safe to reuse."
Finish(f) ==
    /\ Accepted(f) /\ ~f.more /\ LengthMatches(f)
    /\ buf' = <<>>
    /\ expectedTotal' = NoTotal
    /\ fragments' = 0
    /\ result' = Complete(buf \o f.data)

\* The history starts afresh with the fragment after a completed message.
Record(f) ==
    LET fresh == result.tag = "Complete" IN
    /\ received' = (IF fresh THEN <<>> ELSE received) \o f.data
    /\ declared' = (IF fresh THEN {} ELSE declared) \cup ({f.total} \ {NoTotal})

Push(f) == (Reject(f) \/ Accumulate(f) \/ Finish(f)) /\ Record(f)

\* A caller that pushes on after an error.
Next == \E f \in Fragments : Push(f)

Spec == Init /\ [][Next]_vars

\* The callers the program has: PeerSession ends the session, and EapTlsInner
\* its method, at the first error.
HostedNext == result.tag # "Error" /\ Next

HostedSpec == Init /\ [][HostedNext]_vars

-----------------------------------------------------------------------------
TypeOK ==
    /\ buf \in Seq(Octet) /\ received \in Seq(Octet)
    /\ expectedTotal \in Nat \cup {NoTotal}
    /\ fragments \in Nat
    /\ result \in Outcomes
    /\ declared \in SUBSET Nat

\* Work and memory are bounded whatever is sent and however long, by a caller
\* that pushes on after errors as well: neither the buffer nor a message handed
\* out is ever longer than max_total, and no message takes more than
\* MAX_FRAGMENTS fragments, the empty ones included that no octet limit stops.
Bounded ==
    /\ Len(buf) <= MaxTotal
    /\ Len(result.message) <= MaxTotal
    /\ result.tag # "Error" => fragments <= MaxFragments

\* A message handed out is the data of all of its fragments, in order, with
\* nothing of the message before it; and it has the length that any of its
\* fragments declared.
Intact == result.tag = "Complete" =>
            /\ result.message = received
            /\ \A t \in declared : Len(received) = t

\* Inductive: between errors the buffer is exactly the data pushed so far, and
\* the expected total exactly what was declared.
InProgress ==
    CASE result.tag = "More"     -> /\ buf = received
                                    /\ declared = {expectedTotal} \ {NoTotal}
      [] result.tag = "Complete" -> buf = <<>> /\ expectedTotal = NoTotal
      [] result.tag = "Error"    -> TRUE
=============================================================================
