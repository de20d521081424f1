---------------------------- MODULE MCTeapDriver ----------------------------
(***************************************************************************)
(* Bounds for TeapDriver: two round limits small enough to be hit, flights *)
(* of up to two fragments, and the messages that matter to the driver: one *)
(* per way a Phase-2 step can end.  TeapSession's own runs range over all. *)
(***************************************************************************)
EXTENDS TeapDriver

Absent    == [form |-> "Absent", chain |-> <<>>]
Proves(k) == [form |-> "Request", chain |-> <<k>>]

Message(idt, eap, ir, top, result) ==
    [framed |-> TRUE, idt |-> idt, eap |-> eap, ir |-> ir, top |-> top,
     nested |-> Absent, result |-> result, mat |-> "Absent"]

MCMessages ==
    {Message("User", TRUE, "Absent", Absent, "Absent"),
     Message("Undecodable", FALSE, "Absent", Absent, "Absent"),
     Message("Absent", FALSE, "Absent", Absent, "Success"),
     Message("Absent", FALSE, "Absent", Absent, "Failure"),
     Message("Absent", FALSE, "Success", [Absent EXCEPT !.form = "Undecodable"], "Absent")}
    \cup {Message("Absent", eap, "Success", Proves(k), result) :
             eap \in BOOLEAN, k \in Keys, result \in {"Absent", "Success"}}
=============================================================================
