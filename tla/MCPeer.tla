------------------------------- MODULE MCPeer -------------------------------
(* Two threads and two sessions: enough for two calls to interleave about   *)
(* one session, or about two.                                               *)
EXTENDS Peer, TLC

CONSTANTS t1, t2

MCThreads == {t1, t2}
Symmetry  == Permutations(MCThreads)
=============================================================================
