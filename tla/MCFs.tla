-------------------------------- MODULE MCFs --------------------------------
(* The file system for TLC, one layer at a time: calls on names and inodes,  *)
(* calls that read and write file data, and mkfs.  `layer` says which one is *)
(* at work, and the others stay as they start.                               *)
EXTENDS Inode, FileData, Mkfs, TLC

VARIABLE layer

fsvars == <<layer, ivars, dvars, mkvars>>

IIdle == cwd = [p \in IProcs |-> ROOTINO] /\ IInit /\ dinode[3].type = "file"
MkIdle == argsizes = <<>> /\ MkInit

FsInit ==
  /\ DInit
  /\ \/ layer = "names" /\ IInit /\ MkIdle
     \/ layer = "data" /\ IIdle /\ MkIdle
     \/ layer = "mkfs" /\ IIdle /\ MkInit

FsNext ==
  /\ UNCHANGED layer
  /\ \/ layer = "names" /\ INext /\ UNCHANGED <<dvars, mkvars>>
     \/ layer = "data" /\ DNext /\ UNCHANGED <<ivars, mkvars>>
     \/ layer = "mkfs" /\ MkNext /\ UNCHANGED <<ivars, dvars>>

FsSpec == FsInit /\ [][FsNext]_fsvars

FsPerms == Permutations(IProcs) \cup Permutations(OFiles)

(* Calls on a file or directory "/a", one inside it, the root and the        *)
(* working directory, so that a create, a link, an unlink and a lookup of    *)
(* the same name meet.                                                       *)
FsCalls ==
  {<<"open_create", <<na>>, <<>>>>, <<"open_create", <<"/", na, nb>>, <<>>>>,
   <<"open", <<nb>>, <<>>>>, <<"open_write", <<"..">>, <<>>>>,
   <<"mkdir", <<nb>>, <<>>>>, <<"mknod", <<nb>>, <<>>>>,
   <<"link", <<"/", na, nb>>, <<nb>>>>,
   <<"unlink", <<"/", na, nb>>, <<>>>>, <<"unlink", <<"/", na>>, <<>>>>,
   <<"unlink", <<nb>>, <<>>>>, <<"unlink", <<"..">>, <<>>>>,
   <<"chdir", <<"/", na>>, <<>>>>, <<"chdir", <<"..">>, <<>>>>}
=============================================================================
