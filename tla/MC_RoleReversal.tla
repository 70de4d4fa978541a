-------------------------- MODULE MC_RoleReversal ---------------------------
(* Instantiates RoleReversal for TLC: one tenant whose daemon connects     *)
(* twice (so a session is evicted by a reconnection while its own removal  *)
(* is still to come), two concurrent callers.                              *)
EXTENDS RoleReversal, TLC

MCInsts   == {"i1"}
MCCallers == {"k1", "k2"}
MCKinds   == {"Missing", "User"}

\* Connection attempts are interchangeable, and so are callers.
MCSymmetry == Permutations(Conns) \cup Permutations(MCCallers)
=============================================================================
