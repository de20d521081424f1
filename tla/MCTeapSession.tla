--------------------------- MODULE MCTeapSession ----------------------------
(***************************************************************************)
(* The messages TeapSession is checked on.  Every field `step` reads takes *)
(* every value; the fields it does not reach (those after the TLV that     *)
(* ends the step) are left absent, since nothing depends on them.          *)
(***************************************************************************)
EXTENDS TeapSession

NoBinding    == [form |-> "Absent", chain |-> <<>>]
BadBindings  == [form : {"Undecodable", "BadFields", "BadMac"}, chain : {<<>>}]
GoodBindings == [form : {"Request"}, chain : {<<k>> : k \in Keys}]
Placements   == (({NoBinding} \cup BadBindings \cup GoodBindings) \X {NoBinding})
                \cup ({NoBinding} \X (BadBindings \cup GoodBindings))
                \cup (GoodBindings \X (BadBindings \cup GoodBindings))

None     == <<NoBinding, NoBinding>>
Inners   == {<<ir, None>> : ir \in {"Absent", "Undecodable", "Failure"}}
              \cup ({"Success"} \X ({None} \cup Placements))
Results  == (Statuses \X {"Absent"}) \cup ({"Success"} \X {"Undecodable", "Ours"})

Message(framed, idt, eap, inner, result) ==
    [framed |-> framed, idt |-> idt, eap |-> eap, ir |-> inner[1],
     top |-> inner[2][1], nested |-> inner[2][2], result |-> result[1], mat |-> result[2]]

Silent == <<"Absent", None>>
NoResult == <<"Absent", "Absent">>

MCMessages ==
    {Message(FALSE, "Absent", FALSE, Silent, NoResult),
     Message(TRUE, "Undecodable", FALSE, Silent, NoResult)}
    \cup {Message(TRUE, idt, eap, inner, result) : idt \in Identities \cup {"Absent"},
             eap \in BOOLEAN, inner \in Inners, result \in Results}
=============================================================================
