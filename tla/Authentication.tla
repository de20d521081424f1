--------------------------- MODULE Authentication ---------------------------
(***************************************************************************)
(* What every layer of the supplicant promises about one authentication    *)
(* attempt, with nothing said about messages: a verdict of "granted" is    *)
(* reached only on the full evidence (the inner EAP-TLS method produced    *)
(* its key, and the server proved with a Crypto-Binding that it holds the  *)
(* same key), evidence is never withdrawn, and a verdict is final.         *)
(***************************************************************************)

VARIABLES evidence,   \* what has been established so far
          verdict     \* what the caller was told

vars == <<evidence, verdict>>

\* The inner method's key, and the Crypto-Binding that proves the server has it.
Evidence == {"inner", "binding"}

\* A binding is computed under a key, so there is none before the inner key.
Coherent(e) == "binding" \in e => "inner" \in e

TypeOK == /\ evidence \in SUBSET Evidence
          /\ verdict \in {"pending", "granted", "denied"}

Init == /\ evidence = {}
        /\ verdict = "pending"

\* One message may bring evidence and the verdict that rests on it together.
Progress ==
    /\ verdict = "pending"
    /\ evidence' \in SUBSET Evidence
    /\ evidence \subseteq evidence'
    /\ Coherent(evidence')
    /\ \/ verdict' \in {"pending", "denied"}
       \/ verdict' = "granted" /\ evidence' = Evidence

\* An attempt that was denied may run on; its verdict stays.
RunOn ==
    /\ verdict = "denied"
    /\ evidence' \in SUBSET Evidence
    /\ evidence \subseteq evidence'
    /\ Coherent(evidence')
    /\ UNCHANGED verdict

Next == Progress \/ RunOn

Spec == Init /\ [][Next]_vars
=============================================================================
