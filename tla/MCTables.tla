------------------------------ MODULE MCTables ------------------------------
(* Two tables all processes share, for TLC: the buffer cache with the disk   *)
(* under it, and the file table.  `table` says which one is at work, and the *)
(* other stays as it starts.                                                 *)
EXTENDS BufCache, FileTable, TLC

VARIABLE table

TInit ==
  /\ BInit /\ FInit
  /\ \/ table = "buffers"
     \/ table = "files" /\ driver = "ide"

TNext ==
  /\ UNCHANGED table
  /\ \/ table = "buffers" /\ BNext /\ UNCHANGED fvars
     \/ table = "files" /\ FNext /\ UNCHANGED bvars

TSpec == TInit /\ [][TNext]_<<table, bvars, fvars>>

TPerms == Permutations(BHands) \cup Permutations(Blocks)
=============================================================================
