--------------------------- MODULE MCPeerSession ----------------------------
(***************************************************************************)
(* The bounds and messages of MCTeapDriver, with the inner method in place *)
(* of the arbitrary results TeapDriver is checked with.                    *)
(***************************************************************************)
EXTENDS FullSession

Absent    == [form |-> "Absent", chain |-> <<>>]
Proves(k) == [form |-> "Request", chain |-> <<k>>]

Message(eap, ir, top, result_) ==
    [framed |-> TRUE, idt |-> "Absent", eap |-> eap, ir |-> ir, top |-> top,
     nested |-> Absent, result |-> result_, mat |-> "Absent"]

\* A server that binds at once, one that sends the pieces one by one, one whose
\* Crypto-Binding does not decode, and one that claims success without any.
MCMessages ==
    {Message(TRUE, "Absent", Absent, "Absent"),
     Message(FALSE, "Absent", Absent, "Success"),
     Message(FALSE, "Success", [Absent EXCEPT !.form = "Undecodable"], "Absent")}
    \cup {Message(eap, "Success", Proves(k), r) :
             eap \in BOOLEAN, k \in Keys, r \in {"Absent", "Success"}}
=============================================================================
