------------------------------ MODULE MCServer ------------------------------
(***************************************************************************)
(* Instances of Server: two workers sharing two permits, with a third task *)
(* slot so that finished tasks can wait to be joined while the permits are *)
(* in use again.                                                           *)
(***************************************************************************)
EXTENDS Server, TLC

Perms == Permutations(Workers) \cup Permutations(Tasks) \cup Permutations(Conns)
=============================================================================
