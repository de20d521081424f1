---------------------------- MODULE MCStatusFile ----------------------------
(* Two processes; two credentials with distinct subjects and thumbprints,   *)
(* and one whose profile sets no subject filter.  Tickets of one and of two *)
(* blocks, so that a shorter one is written over a longer one, and the      *)
(* other way round.                                                         *)
EXTENDS MachineFiles

MCCreds == {[subject |-> "s1", print |-> "t1"], [subject |-> "s2", print |-> "t2"],
            [subject |-> Empty, print |-> "t2"]}
=============================================================================
