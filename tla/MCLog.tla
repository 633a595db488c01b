-------------------------------- MODULE MCLog --------------------------------
(* Instances of Log for TLC.                                               *)
EXTENDS Log, TLC

Perms == Permutations(Ops) \cup Permutations(Block)
=============================================================================
