------------------------------ MODULE FileTable ------------------------------
(***************************************************************************)
(* Open files: the table of file.c, the descriptor tables of the processes *)
(* and the calls of sysfile.c that work on both (open, pipe, dup, close),  *)
(* with pipealloc and pipeclose of pipe.c, and fork and exit of proc.c as  *)
(* far as they copy and close descriptors.  What ftable.lock or p->lock    *)
(* protects is one step; so is what touches only the caller's descriptor   *)
(* table.  Of a pipe there is which ends are open, and of the inodes of    *)
(* open files how many references they hold (module Inode has the rest).   *)
(*                                                                         *)
(* A definition X_Suffix is a mutant of X, a bug the code could have had;  *)
(* it is used by no other definition.                                      *)
(***************************************************************************)
EXTENDS Integers, Sequences, FiniteSets, FiniteSetsExt

CONSTANTS
  FProcs,       \* processes; 1 is the first one
  NFILE,        \* files in the table
  NOFILE,       \* descriptors of a process
  PipePages     \* pages kalloc may give to pipes

ASSUME FAssumption == IsFiniteSet(FProcs) /\ NFILE \in Nat /\ NOFILE \in Nat

VARIABLES
  ftable,       \* per file: ref, type, page of a pipe, writable
  ofile,        \* proc->ofile, 0 where the descriptor is free
  fpc,          \* what each process is doing
  rf, wf,       \* locals f (or rf) and wf of a call
  closing,      \* files a failed or ending call has still to close
  ff,           \* fileclose's copy of a file whose last reference went
  ofd,          \* loop variable of fork and exit
  kid,          \* fork's np
  pipeends,     \* per page: the open ends of the pipe in it
  irefs,        \* references to inodes held for open files
  fpanic

fvars == <<ftable, ofile, fpc, rf, wf, closing, ff, ofd, kid, pipeends, irefs, fpanic>>
calls == <<rf, wf, closing, ff, ofd, kid>>
objects == <<pipeends, irefs>>

File == 1..NFILE
Fd == 0..NOFILE-1
NoFile == [ref |-> 0, type |-> "FD_NONE", page |-> 0, writable |-> FALSE]

FInit ==
  /\ ftable = [f \in File |-> NoFile]
  /\ ofile = [p \in FProcs |-> [d \in Fd |-> 0]]
  /\ fpc = [p \in FProcs |-> IF p = 1 THEN "user" ELSE "unused"]
  /\ rf = [p \in FProcs |-> 0] /\ wf = [p \in FProcs |-> 0]
  /\ closing = [p \in FProcs |-> <<>>] /\ ff = [p \in FProcs |-> NoFile]
  /\ ofd = [p \in FProcs |-> 0] /\ kid = [p \in FProcs |-> 0]
  /\ pipeends = [g \in PipePages |-> {}] /\ irefs = 0
  /\ fpanic = "none"

Doing(p, s) == fpc[p] = s /\ fpanic = "none"
to(p, s) == fpc' = [fpc EXCEPT ![p] = s]

(* filealloc and fdalloc: the first free place                             *)
FreeFiles == {f \in File : ftable[f].ref = 0}
Taken(f) == [ftable EXCEPT ![f].ref = 1]
FreeFds(p) == {d \in Fd : ofile[p][d] = 0}

(* The call returns after closing the files in s, in this order.           *)
CloseAll(p, s) == closing' = [closing EXCEPT ![p] = s] /\ to(p, "close")

-----------------------------------------------------------------------------
(* sys_open, from the moment it has the inode                              *)
sys_open(p) ==
  /\ Doing(p, "user") /\ to(p, "filealloc") /\ irefs' = irefs + 1
  /\ UNCHANGED <<ftable, ofile, calls, pipeends, fpanic>>

openfile(p) ==
  /\ Doing(p, "filealloc")
  /\ IF FreeFiles = {}
     THEN /\ to(p, "user") /\ irefs' = irefs - 1
          /\ UNCHANGED <<ftable, rf>>
     ELSE /\ ftable' = Taken(Min(FreeFiles)) /\ rf' = [rf EXCEPT ![p] = Min(FreeFiles)]
          /\ to(p, "fdalloc") /\ UNCHANGED irefs
  /\ UNCHANGED <<ofile, wf, closing, ff, ofd, kid, pipeends, fpanic>>

(* On failure, fileclose of a file that has no type yet and iunlockput.    *)
openfd(p) ==
  /\ Doing(p, "fdalloc")
  /\ IF FreeFds(p) = {}
     THEN /\ CloseAll(p, <<rf[p]>>) /\ irefs' = irefs - 1
          /\ UNCHANGED <<ftable, ofile>>
     ELSE /\ ofile' = [ofile EXCEPT ![p][Min(FreeFds(p))] = rf[p]]
          /\ ftable' = [ftable EXCEPT ![rf[p]].type = "FD_INODE"]
          /\ to(p, "user") /\ UNCHANGED <<closing, irefs>>
  /\ rf' = [rf EXCEPT ![p] = 0]
  /\ UNCHANGED <<wf, ff, ofd, kid, pipeends, fpanic>>

(* sys_pipe and pipealloc: two files, then a page, which kalloc may not    *)
(* have, then two descriptors                                              *)
sys_pipe(p) ==
  /\ Doing(p, "user") /\ FreeFiles # {}
  /\ ftable' = Taken(Min(FreeFiles)) /\ rf' = [rf EXCEPT ![p] = Min(FreeFiles)]
  /\ to(p, "filealloc2")
  /\ UNCHANGED <<ofile, wf, closing, ff, ofd, kid, objects, fpanic>>

pipefile(p) ==
  /\ Doing(p, "filealloc2")
  /\ IF FreeFiles = {}
     THEN CloseAll(p, <<rf[p]>>) /\ rf' = [rf EXCEPT ![p] = 0] /\ UNCHANGED <<ftable, wf>>
     ELSE /\ ftable' = Taken(Min(FreeFiles)) /\ wf' = [wf EXCEPT ![p] = Min(FreeFiles)]
          /\ to(p, "kalloc") /\ UNCHANGED <<rf, closing>>
  /\ UNCHANGED <<ofile, ff, ofd, kid, objects, fpanic>>

PipeFile(f, g, w) == [ftable[f] EXCEPT !.type = "FD_PIPE", !.page = g, !.writable = w]
pipepage(p) ==
  /\ Doing(p, "kalloc")
  /\ \/ /\ CloseAll(p, <<rf[p], wf[p]>>)
        /\ rf' = [rf EXCEPT ![p] = 0] /\ wf' = [wf EXCEPT ![p] = 0]
        /\ UNCHANGED <<ftable, pipeends>>
     \/ \E g \in PipePages :
          /\ pipeends[g] = {} /\ pipeends' = [pipeends EXCEPT ![g] = {"r", "w"}]
          /\ ftable' = [ftable EXCEPT ![rf[p]] = PipeFile(rf[p], g, FALSE),
                                      ![wf[p]] = PipeFile(wf[p], g, TRUE)]
          /\ to(p, "fdalloc2") /\ UNCHANGED <<rf, wf, closing>>
  /\ UNCHANGED <<ofile, ff, ofd, kid, irefs, fpanic>>

(* With one free descriptor, fd0 gets it and is cleared again.             *)
HalfDone_Keep(p) == [ofile EXCEPT ![p] = [d \in Fd |-> IF @[d] = 0 THEN rf[p] ELSE @[d]]]
HalfDone(p) == ofile
pipefd(p) ==
  /\ Doing(p, "fdalloc2")
  /\ IF Cardinality(FreeFds(p)) < 2
     THEN ofile' = HalfDone(p) /\ CloseAll(p, <<rf[p], wf[p]>>)
     ELSE /\ LET d0 == Min(FreeFds(p)) IN
               ofile' = [ofile EXCEPT ![p][d0] = rf[p], ![p][Min(FreeFds(p) \ {d0})] = wf[p]]
          /\ to(p, "user") /\ UNCHANGED closing
  /\ rf' = [rf EXCEPT ![p] = 0] /\ wf' = [wf EXCEPT ![p] = 0]
  /\ UNCHANGED <<ftable, ff, ofd, kid, objects, fpanic>>

-----------------------------------------------------------------------------
(* sys_dup: the descriptor first, then filedup                             *)
sys_dup(p, d) ==
  /\ Doing(p, "user") /\ ofile[p][d] # 0 /\ FreeFds(p) # {}
  /\ ofile' = [ofile EXCEPT ![p][Min(FreeFds(p))] = ofile[p][d]]
  /\ rf' = [rf EXCEPT ![p] = ofile[p][d]] /\ to(p, "filedup")
  /\ UNCHANGED <<ftable, wf, closing, ff, ofd, kid, objects, fpanic>>

Duped(f) == [ftable EXCEPT ![f].ref = @ + 1]
filedup(f) ==
  /\ ftable' = Duped(f)
  /\ fpanic' = IF ftable[f].ref < 1 THEN "filedup" ELSE fpanic

dupref(p) ==
  /\ Doing(p, "filedup") /\ filedup(rf[p])
  /\ rf' = [rf EXCEPT ![p] = 0] /\ to(p, "user")
  /\ UNCHANGED <<ofile, wf, closing, ff, ofd, kid, objects>>

closefd(p, d) ==
  /\ Doing(p, "user") /\ ofile[p][d] # 0
  /\ ofile' = [ofile EXCEPT ![p][d] = 0] /\ CloseAll(p, <<ofile[p][d]>>)
  /\ UNCHANGED <<ftable, rf, wf, ff, ofd, kid, objects, fpanic>>

(* fork copies the descriptors one by one; the child runs at the end.      *)
fork(p, q) ==
  /\ Doing(p, "user") /\ fpc[q] = "unused"
  /\ fpc' = [fpc EXCEPT ![p] = "fork", ![q] = "embryo"]
  /\ kid' = [kid EXCEPT ![p] = q] /\ ofd' = [ofd EXCEPT ![p] = 0]
  /\ UNCHANGED <<ftable, ofile, rf, wf, closing, ff, objects, fpanic>>

forkfd(p) ==
  /\ Doing(p, "fork") /\ ofd[p] < NOFILE
  /\ ofile' = [ofile EXCEPT ![kid[p]][ofd[p]] = ofile[p][ofd[p]]]
  /\ IF ofile[p][ofd[p]] # 0 THEN filedup(ofile[p][ofd[p]]) ELSE UNCHANGED <<ftable, fpanic>>
  /\ ofd' = [ofd EXCEPT ![p] = @ + 1]
  /\ UNCHANGED <<fpc, rf, wf, closing, ff, kid, objects>>

forked(p) ==
  /\ Doing(p, "fork") /\ ofd[p] = NOFILE
  /\ fpc' = [fpc EXCEPT ![p] = "user", ![kid[p]] = "user"]
  /\ kid' = [kid EXCEPT ![p] = 0] /\ ofd' = [ofd EXCEPT ![p] = 0]
  /\ UNCHANGED <<ftable, ofile, rf, wf, closing, ff, objects, fpanic>>

(* exit closes them one by one and clears each after closing it.           *)
exit(p) ==
  /\ Doing(p, "user") /\ p # 1 /\ to(p, "exit") /\ ofd' = [ofd EXCEPT ![p] = 0]
  /\ UNCHANGED <<ftable, ofile, rf, wf, closing, ff, kid, objects, fpanic>>

exitfd(p) ==
  /\ Doing(p, "exit") /\ closing[p] = <<>> /\ ff[p].type = "FD_NONE"
  /\ IF ofd[p] = NOFILE
     THEN to(p, "unused") /\ ofd' = [ofd EXCEPT ![p] = 0] /\ UNCHANGED <<ofile, closing>>
     ELSE /\ closing' = [closing EXCEPT ![p] = IF ofile[p][ofd[p]] = 0 THEN <<>> ELSE <<ofile[p][ofd[p]]>>]
          /\ ofd' = [ofd EXCEPT ![p] = IF ofile[p][ofd[p]] = 0 THEN @ + 1 ELSE @]
          /\ UNCHANGED <<fpc, ofile>>
  /\ UNCHANGED <<ftable, rf, wf, ff, kid, objects, fpanic>>

-----------------------------------------------------------------------------
(* fileclose of the next file, under ftable.lock.  The other fields of a   *)
(* file whose type is FD_NONE mean nothing.                                *)
Emptied(f) == NoFile
fileclose(p) ==
  /\ fpanic = "none" /\ closing[p] # <<>> /\ ff[p].type = "FD_NONE"
  /\ LET f == Head(closing[p]) IN
       /\ fpanic' = IF ftable[f].ref < 1 THEN "fileclose" ELSE fpanic
       /\ ftable' = [ftable EXCEPT ![f] = IF @.ref > 1 THEN [ftable[f] EXCEPT !.ref = @ - 1] ELSE Emptied(@)]
       /\ ff' = [ff EXCEPT ![p] = IF ftable[f].ref > 1 THEN NoFile ELSE ftable[f]]
  /\ closing' = [closing EXCEPT ![p] = Tail(@)]
  /\ IF fpc[p] = "exit"
     THEN /\ ofile' = [ofile EXCEPT ![p][ofd[p]] = 0] /\ ofd' = [ofd EXCEPT ![p] = @ + 1]
     ELSE UNCHANGED <<ofile, ofd>>
  /\ UNCHANGED <<fpc, rf, wf, kid, objects>>

(* ... and of the object behind it, when that was the last reference       *)
End(f) == IF f.writable THEN "w" ELSE "r"
closeobject(p) ==
  /\ fpanic = "none" /\ ff[p].type # "FD_NONE"
  /\ IF ff[p].type = "FD_PIPE"
     THEN pipeends' = [pipeends EXCEPT ![ff[p].page] = @ \ {End(ff[p])}] /\ irefs' = irefs
     ELSE irefs' = irefs - 1 /\ pipeends' = pipeends
  /\ ff' = [ff EXCEPT ![p] = NoFile]
  /\ UNCHANGED <<ftable, ofile, fpc, rf, wf, closing, ofd, kid, fpanic>>

closed(p) ==
  /\ Doing(p, "close") /\ closing[p] = <<>> /\ ff[p].type = "FD_NONE" /\ to(p, "user")
  /\ UNCHANGED <<ftable, ofile, calls, objects, fpanic>>

FNext == \E p \in FProcs :
  \/ sys_open(p) \/ openfile(p) \/ openfd(p)
  \/ sys_pipe(p) \/ pipefile(p) \/ pipepage(p) \/ pipefd(p)
  \/ dupref(p) \/ \E d \in Fd : sys_dup(p, d) \/ closefd(p, d)
  \/ forkfd(p) \/ forked(p) \/ \E q \in FProcs : fork(p, q)
  \/ exit(p) \/ exitfd(p) \/ fileclose(p) \/ closeobject(p) \/ closed(p)

FSpec == FInit /\ [][FNext]_fvars

-----------------------------------------------------------------------------
(* Types of the tables.                                                    *)
FTypeOK ==
  /\ \A f \in File : /\ ftable[f].ref \in Nat
                     /\ ftable[f].type \in {"FD_NONE", "FD_PIPE", "FD_INODE"}
  /\ ofile \in [FProcs -> [Fd -> 0..NFILE]]
  /\ irefs \in Nat

(* A file's reference count is the number of descriptors of all processes  *)
(* that name it, plus the references calls hold that got it and did not    *)
(* yet install or close it, less the dup that has installed it and not yet *)
(* counted it.  So no file is reused while a descriptor names it, and none *)
(* is lost (file.c:25-80, sysfile.c:40-104).                               *)
Descriptors(f) == {pd \in FProcs \X Fd : ofile[pd[1]][pd[2]] = f}
InRf(f) == {p \in FProcs : fpc[p] # "filedup" /\ rf[p] = f}
InWf(f) == {p \in FProcs : wf[p] = f}
InClosing(f) ==
  {pk \in FProcs \X (1..2) :
     /\ fpc[pk[1]] # "exit"      \* exit's file is still in its descriptor
     /\ pk[2] \in DOMAIN closing[pk[1]] /\ closing[pk[1]][pk[2]] = f}
Uncounted(f) == {p \in FProcs : fpc[p] = "filedup" /\ rf[p] = f}
RefsAreDescriptors ==
  \A f \in File :
    ftable[f].ref = Cardinality(Descriptors(f))
                    + Cardinality(InRf(f)) + Cardinality(InWf(f)) + Cardinality(InClosing(f))
                    - Cardinality(Uncounted(f))

(* The objects behind files live exactly as long as they are needed: the   *)
(* end of a pipe is open, and so its page in use, iff a file of that end   *)
(* has references or is just being closed for the last time; and each open *)
(* inode file holds one reference of its inode (file.c:56-80,              *)
(* pipe.c:49-75, sysfile.c:317-328).                                       *)
Behind == {ftable[f] : f \in {g \in File : ftable[g].ref > 0}} \cup {ff[p] : p \in FProcs}
ObjectsFollowFiles ==
  /\ \A g \in PipePages :
       pipeends[g] = {End(f) : f \in {x \in Behind : x.type = "FD_PIPE" /\ x.page = g}}
  /\ irefs = Cardinality({f \in File : ftable[f].ref > 0 /\ ftable[f].type = "FD_INODE"})
             + Cardinality({p \in FProcs : ff[p].type = "FD_INODE"})
             + Cardinality({p \in FProcs : fpc[p] \in {"filealloc", "fdalloc"}})

(* Neither filedup nor fileclose meets a file without references.          *)
FNoPanic == fpanic = "none"

(* The reference counts are right at both levels: of files by descriptors  *)
(* and of the objects behind files, so that none of the code's checks on   *)
(* them fails.                                                             *)
FilesCounted ==
  /\ FTypeOK
  /\ RefsAreDescriptors
  /\ ObjectsFollowFiles
  /\ FNoPanic
=============================================================================
