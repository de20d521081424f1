--------------------------- MODULE MCReassembler ----------------------------
(***************************************************************************)
(* Every fragment with up to two octets of data, any M bit, and a total    *)
(* that is absent, right, wrong or beyond the limit.                       *)
(***************************************************************************)
EXTENDS Reassembler

MCFragments ==
    [more : BOOLEAN, total : NoTotal..(MaxTotal + 1),
     data : {<<>>} \cup {<<a>> : a \in Octet} \cup {<<a, b>> : a, b \in Octet}]
=============================================================================
