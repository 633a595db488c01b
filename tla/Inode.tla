-------------------------------- MODULE Inode --------------------------------
(***************************************************************************)
(* The inode cache and the directory tree: iget, ilock, iput, ialloc,      *)
(* dirlookup, dirlink and namex of xv6/fs.c under the system calls of      *)
(* xv6/sysfile.c that name files.  A step goes from taking one sleep-lock  *)
(* to the next place where the process may have to wait, and iput is three *)
(* steps: test, free, drop the reference.  A path is a sequence of names,  *)
(* "/" first when it is absolute.  File contents are those of FileData,    *)
(* transactions those of Log.                                              *)
(*                                                                         *)
(* A definition X_Suffix is a mutant of X, a bug the code could have had;  *)
(* it is used by no other definition.                                      *)
(***************************************************************************)
EXTENDS Integers, Sequences, FiniteSets, FiniteSetsExt

CONSTANTS
  IProcs,       \* processes
  NINODES,      \* inodes of the disk, 1 is the root directory
  NINODE,       \* slots of icache
  na, nb,       \* two names of files
  Calls,        \* system calls the processes make: <<name, path, second path>>
  MaxCalls,     \* bound on the calls begun
  NoProc

VARIABLES
  dinode,       \* type and nlink of each inode on disk
  dents,        \* entries of each directory, 0 for none
  icache,       \* the slots
  k,            \* the kernel side of each process
  cwd, fd,      \* proc->cwd, and the inode of the one open file (0: none)
  ncalls,       \* calls begun so far
  ipanic

ivars == <<dinode, dents, icache, k, cwd, fd, ncalls, ipanic>>
ROOTINO == 1
IInums == 1..NINODES
Slots == 1..NINODE
Names == {na, nb}
AllNames == Names \cup {".", ".."}
IsPath(path) ==
  path \in Seq(AllNames \cup {"/"}) /\ \A j \in 2..Len(path) : path[j] \in AllNames
Ops == {"open", "open_write", "open_create", "mkdir", "mknod", "chdir", "link", "unlink"}

ASSUME InodeAssumption ==
  /\ IsFiniteSet(IProcs) /\ NoProc \notin IProcs
  /\ NINODES \in Nat /\ NINODES >= 3 /\ NINODE \in Nat /\ NINODE >= 3
  /\ "/" \notin AllNames
  /\ \A c \in Calls : c[1] \in Ops /\ IsPath(c[2]) /\ IsPath(c[3])

NoEntries == [n \in AllNames |-> 0]
Dots(i, parent) == [NoEntries EXCEPT !["."] = i, ![".."] = parent]
NoCall == [pc |-> "user", op |-> "none", path |-> <<>>, new |-> <<>>, ip |-> 0, dp |-> 0,
         old |-> 0, name |-> "none", puts |-> <<>>, put |-> "lock"]

NoNode == [inum |-> 0, ref |-> 0, valid |-> FALSE, lock |-> NoProc, type |-> "free", nlink |-> 0]

(* The root holds directory na, and na holds nb, a file or a directory; each  *)
(* process is in the root or in one of the directories.                    *)
IInit ==
  \E type \in {"file", "dir"} :
    /\ LET sub == IF type = "dir" THEN 1 ELSE 0 IN
         dinode = [i \in IInums |-> CASE i = ROOTINO -> [type |-> "dir", nlink |-> 2]
                                     [] i = 2 -> [type |-> "dir", nlink |-> 1 + sub]
                                     [] i = 3 -> [type |-> type, nlink |-> 1]
                                     [] OTHER -> [type |-> "free", nlink |-> 0]]
    /\ dents = [i \in IInums |-> CASE i = ROOTINO -> [Dots(1, 1) EXCEPT ![na] = 2]
                                  [] i = 2 -> [Dots(2, 1) EXCEPT ![nb] = 3]
                                  [] i = 3 /\ type = "dir" -> Dots(3, 2)
                                  [] OTHER -> NoEntries]
    /\ cwd \in [IProcs -> {1, 2} \cup IF type = "dir" THEN {3} ELSE {}]
    /\ icache = [s \in Slots |->
                   LET users == {p \in IProcs : cwd[p] = s} IN
                     IF users = {} THEN NoNode
                     ELSE [inum |-> s, ref |-> Cardinality(users), valid |-> TRUE, lock |-> NoProc,
                           type |-> dinode[s].type, nlink |-> dinode[s].nlink]]
    /\ k = [p \in IProcs |-> NoCall] /\ fd = [p \in IProcs |-> 0]
    /\ ncalls = 0 /\ ipanic = "none"

-----------------------------------------------------------------------------
(* iget: the slot of an inode, and the cache with one reference more       *)
Hit(c, i) == {s \in Slots : c[s].ref > 0 /\ c[s].inum = i}
Empty(c) == {s \in Slots : c[s].ref = 0}
CanGet(c, i) == Hit(c, i) # {} \/ Empty(c) # {}
slot(c, i) == IF Hit(c, i) # {} THEN Min(Hit(c, i)) ELSE Min(Empty(c))
iget(c, i) ==
  IF Hit(c, i) # {} THEN [c EXCEPT ![slot(c, i)].ref = @ + 1]
  ELSE [c EXCEPT ![slot(c, i)] = [@ EXCEPT !.inum = i, !.ref = 1, !.valid = FALSE]]
idup(c, s) == [c EXCEPT ![s].ref = @ + 1]

(* ilock's reading of the inode into the slot                              *)
Loaded(s) == IF icache[s].valid THEN icache[s]
             ELSE [icache[s] EXCEPT !.valid = TRUE, !.type = dinode[icache[s].inum].type,
                                    !.nlink = dinode[icache[s].inum].nlink]

(* The inode lock the next step of p has to take, 0 when there is none     *)
Needs(p) ==
  IF k[p].puts # <<>> THEN (IF k[p].put = "lock" THEN Head(k[p].puts) ELSE 0)
  ELSE CASE k[p].pc = "namex" -> IF k[p].path = <<>> THEN 0 ELSE k[p].ip
         [] k[p].pc \in {"found", "exists", "create2", "unlink2"} -> k[p].ip
         [] k[p].pc = "parent" -> k[p].dp
         [] k[p].pc = "linkbad" -> k[p].old
         [] OTHER -> 0
CanLock(p) == Needs(p) # 0 => icache[Needs(p)].lock = NoProc
At(p, pc) == k[p].pc = pc /\ k[p].puts = <<>> /\ ipanic = "none"
panics(msg) == ipanic' = msg /\ UNCHANGED <<dinode, dents, icache, k, cwd, fd>>

(* Step p to pc with the record r of changes; puts are iput when it is out *)
(* of the locks of this step.                                              *)
goes(p, r) == k' = [k EXCEPT ![p] = r]
fails(p, puts) == goes(p, [NoCall EXCEPT !.puts = puts])

-----------------------------------------------------------------------------
(* namex begins: from the root, or from the current directory.             *)
Absolute(path) == path # <<>> /\ path[1] = "/"
Full(path) == Absolute(path) /\ ~CanGet(icache, ROOTINO)
from(p, path) == IF Absolute(path) THEN slot(icache, ROOTINO) ELSE cwd[p]
elems(path) == IF Absolute(path) THEN Tail(path) ELSE path
begun(p, c, path) == IF Absolute(path) THEN iget(c, ROOTINO) ELSE idup(c, cwd[p])

(* A system call begins.  link has two paths.                              *)
syscall(p, op, path, new) ==
  /\ At(p, "user")
  /\ ncalls < MaxCalls /\ ncalls' = ncalls + 1
  /\ IF Full(path) THEN panics("iget: no inodes")
     ELSE /\ goes(p, [NoCall EXCEPT !.pc = "namex", !.op = op, !.path = elems(path), !.new = new,
                                    !.ip = from(p, path)])
          /\ icache' = begun(p, icache, path)
          /\ UNCHANGED <<dinode, dents, cwd, fd, ipanic>>

WantsParent(p) == k[p].op \in {"open_create", "mkdir", "mknod", "unlink", "link2"}
(* What follows a namex that returned 0                                    *)
notfound(p, puts) ==
  IF k[p].op = "link2" THEN goes(p, [k[p] EXCEPT !.pc = "linkbad", !.ip = 0, !.path = <<>>, !.puts = puts])
  ELSE fails(p, puts)

(* iunlockput on the way out of namex                                      *)
GiveUp_Leak(ip) == <<>>
GiveUp(ip) == <<ip>>

(* One turn of namex's loop, or its end                                    *)
namex(p) ==
  /\ At(p, "namex") /\ CanLock(p)
  /\ LET ip == k[p].ip
         path == k[p].path
         node == Loaded(ip)
         next == dents[node.inum][Head(path)]
         c == [icache EXCEPT ![ip] = node] IN
     IF path = <<>>
     THEN /\ IF WantsParent(p) THEN notfound(p, <<ip>>) ELSE goes(p, [k[p] EXCEPT !.pc = "found"])
          /\ UNCHANGED <<icache, ipanic>>
     ELSE IF node.type = "free" THEN ipanic' = "ilock: no type" /\ UNCHANGED <<icache, k>>
     ELSE IF node.type # "dir"
     THEN notfound(p, GiveUp(ip)) /\ icache' = c /\ ipanic' = ipanic
     ELSE IF WantsParent(p) /\ Len(path) = 1
     THEN /\ goes(p, [k[p] EXCEPT !.pc = "parent", !.dp = ip, !.ip = 0, !.path = <<>>, !.name = path[1]])
          /\ icache' = c /\ ipanic' = ipanic
     ELSE IF next = 0 THEN notfound(p, GiveUp(ip)) /\ icache' = c /\ ipanic' = ipanic
     ELSE IF ~CanGet(c, next) THEN ipanic' = "iget: no inodes" /\ UNCHANGED <<icache, k>>
     ELSE /\ goes(p, [k[p] EXCEPT !.ip = slot(c, next), !.path = Tail(path), !.puts = <<ip>>])
          /\ icache' = iget(c, next) /\ ipanic' = ipanic
  /\ UNCHANGED <<dinode, dents, cwd, fd>>

-----------------------------------------------------------------------------
(* iput(ip), in three steps                                                *)
Freeable_IgnoreRef(s) == icache[s].valid /\ icache[s].nlink = 0
Freeable(s) == icache[s].valid /\ icache[s].nlink = 0 /\ icache[s].ref = 1
iput_test(p) ==
  /\ k[p].puts # <<>> /\ k[p].put = "lock" /\ ipanic = "none" /\ CanLock(p)
  /\ LET s == Head(k[p].puts) IN
       IF Freeable(s) THEN /\ goes(p, [k[p] EXCEPT !.put = "free"])
                         /\ icache' = [icache EXCEPT ![s].lock = p]
       ELSE goes(p, [k[p] EXCEPT !.put = "drop"]) /\ icache' = icache
  /\ UNCHANGED <<dinode, dents, cwd, fd, ipanic>>

Invalid(c) == [c EXCEPT !.lock = NoProc, !.type = "free", !.valid = FALSE]
iput_free(p) ==
  /\ k[p].puts # <<>> /\ k[p].put = "free" /\ ipanic = "none"
  /\ LET s == Head(k[p].puts)
         i == icache[s].inum IN
       /\ dinode' = [dinode EXCEPT ![i] = [type |-> "free", nlink |-> 0]]
       /\ dents' = [dents EXCEPT ![i] = NoEntries]
       /\ icache' = [icache EXCEPT ![s] = Invalid(@)]
  /\ goes(p, [k[p] EXCEPT !.put = "drop"])
  /\ UNCHANGED <<cwd, fd, ipanic>>

(* (what a slot without references still says is never read)               *)
Dropped(c) == IF c.ref = 1 THEN NoNode ELSE [c EXCEPT !.ref = @ - 1]
iput_drop(p) ==
  /\ k[p].puts # <<>> /\ k[p].put = "drop" /\ ipanic = "none"
  /\ icache' = [icache EXCEPT ![Head(k[p].puts)] = Dropped(@)]
  /\ goes(p, [k[p] EXCEPT !.puts = Tail(@), !.put = "lock"])
  /\ UNCHANGED <<dinode, dents, cwd, fd, ipanic>>

-----------------------------------------------------------------------------
(* sys_open's end: a file descriptor, if there is one left                 *)
gotfile(p, ip) ==
  IF fd[p] = 0 THEN fd' = [fd EXCEPT ![p] = ip] /\ goes(p, NoCall) ELSE fd' = fd /\ fails(p, <<ip>>)

(* After namei: the rest of sys_open without O_CREATE (for reading, or for *)
(* writing), of sys_chdir, and the first part of sys_link                  *)
LinkUp(n) == n + 1
found(p) ==
  /\ At(p, "found") /\ CanLock(p)
  /\ LET ip == k[p].ip
         node == Loaded(ip)
         c == [icache EXCEPT ![ip] = node] IN
     IF node.type = "free" THEN panics("ilock: no type")
     ELSE IF k[p].op = "link" /\ node.type # "dir" /\ Full(k[p].new) THEN panics("iget: no inodes")
     ELSE /\ ipanic' = ipanic /\ dents' = dents
          /\ \/ /\ k[p].op = "open" /\ gotfile(p, ip)
                /\ icache' = c /\ UNCHANGED <<dinode, cwd>>
             \/ /\ k[p].op = "open_write"
                /\ IF node.type = "dir" THEN fails(p, <<ip>>) /\ fd' = fd ELSE gotfile(p, ip)
                /\ icache' = c /\ UNCHANGED <<dinode, cwd>>
             \/ /\ k[p].op = "chdir"
                /\ IF node.type # "dir" THEN fails(p, <<ip>>) /\ cwd' = cwd
                   ELSE fails(p, <<cwd[p]>>) /\ cwd' = [cwd EXCEPT ![p] = ip]
                /\ icache' = c /\ UNCHANGED <<dinode, fd>>
             \/ /\ k[p].op = "link"
                /\ IF node.type = "dir" THEN fails(p, <<ip>>) /\ icache' = c /\ dinode' = dinode
                   ELSE /\ icache' = begun(p, [c EXCEPT ![ip].nlink = LinkUp(@)], k[p].new)
                        /\ dinode' = [dinode EXCEPT ![node.inum].nlink = LinkUp(@)]
                        /\ goes(p, [NoCall EXCEPT !.pc = "namex", !.op = "link2", !.old = ip,
                                      !.path = elems(k[p].new), !.ip = from(p, k[p].new)])
                /\ UNCHANGED <<cwd, fd>>

(* sys_link after nameiparent: dirlink, and the way back.  dirlink gives   *)
(* up a name that exists with iput, dp still locked.                       *)
link2(p) ==
  /\ At(p, "parent") /\ k[p].op = "link2" /\ CanLock(p)
  /\ LET dp == k[p].dp
         e == dents[icache[dp].inum][k[p].name] IN
     IF icache[dp].type # "dir" THEN panics("dirlookup not DIR")
     ELSE IF e = 0
     THEN /\ dents' = [dents EXCEPT ![icache[dp].inum][k[p].name] = icache[k[p].old].inum]
          /\ fails(p, <<dp, k[p].old>>) /\ UNCHANGED <<dinode, icache, cwd, fd, ipanic>>
     ELSE IF ~CanGet(icache, e) THEN panics("iget: no inodes")
     ELSE /\ icache' = [iget(icache, e) EXCEPT ![dp].lock = p]
          /\ goes(p, [k[p] EXCEPT !.pc = "linkexists", !.puts = <<slot(icache, e)>>])
          /\ UNCHANGED <<dinode, dents, cwd, fd, ipanic>>

linkexists(p) ==
  /\ At(p, "linkexists")
  /\ icache' = [icache EXCEPT ![k[p].dp].lock = NoProc]
  /\ goes(p, [k[p] EXCEPT !.pc = "linkbad", !.dp = 0, !.puts = <<k[p].dp>>])
  /\ UNCHANGED <<dinode, dents, cwd, fd, ipanic>>

linkbad(p) ==
  /\ At(p, "linkbad") /\ CanLock(p)
  /\ LET s == k[p].old IN
       /\ icache' = [icache EXCEPT ![s].nlink = @ - 1]
       /\ dinode' = [dinode EXCEPT ![icache[s].inum].nlink = @ - 1]
       /\ fails(p, <<s>>)
  /\ UNCHANGED <<dents, cwd, fd, ipanic>>

-----------------------------------------------------------------------------
(* create, after nameiparent: an existing name, or ialloc of a new inode   *)
FreeInums == {i \in IInums : dinode[i].type = "free"}
Kind(op) == CASE op = "mkdir" -> "dir" [] op = "mknod" -> "dev" [] OTHER -> "file"
create(p) ==
  /\ At(p, "parent") /\ k[p].op \in {"open_create", "mkdir", "mknod"} /\ CanLock(p)
  /\ LET dp == k[p].dp
         e == dents[icache[dp].inum][k[p].name]
         i == IF e = 0 THEN Min(FreeInums) ELSE e IN
     IF icache[dp].type # "dir" THEN panics("dirlookup not DIR")
     ELSE IF e = 0 /\ FreeInums = {} THEN panics("ialloc: no inodes")
     ELSE IF ~CanGet(icache, i) THEN panics("iget: no inodes")
     ELSE /\ icache' = IF e # 0 THEN iget(icache, i) ELSE [iget(icache, i) EXCEPT ![dp].lock = p]
          /\ dinode' = IF e # 0 THEN dinode
                       ELSE [dinode EXCEPT ![i] = [type |-> Kind(k[p].op), nlink |-> 0]]
          /\ goes(p, IF e # 0
               THEN [k[p] EXCEPT !.pc = "exists", !.dp = 0, !.ip = slot(icache, i), !.puts = <<dp>>]
               ELSE [k[p] EXCEPT !.pc = "create2", !.ip = slot(icache, i)])
          /\ UNCHANGED <<dents, cwd, fd, ipanic>>

exists(p) ==
  /\ At(p, "exists") /\ CanLock(p)
  /\ LET ip == k[p].ip
         node == Loaded(ip) IN
     IF node.type = "free" THEN panics("ilock: no type")
     ELSE /\ icache' = [icache EXCEPT ![ip] = node]
          /\ IF k[p].op = "open_create" /\ node.type = "file" THEN gotfile(p, ip)
             ELSE fails(p, <<ip>>) /\ fd' = fd
          /\ UNCHANGED <<dinode, dents, cwd, ipanic>>

(* The new inode is locked and filled in, and entered in dp; dp is         *)
(* released, and its iput comes while the new inode is still locked.       *)
create2(p) ==
  /\ At(p, "create2") /\ CanLock(p)
  /\ LET ip == k[p].ip
         dp == k[p].dp
         node == Loaded(ip)
         i == node.inum
         d == icache[dp].inum
         up == IF node.type = "dir" THEN 1 ELSE 0 IN
     IF node.type = "free" THEN panics("ilock: no type")
     ELSE /\ icache' = [icache EXCEPT ![ip] = [node EXCEPT !.nlink = 1, !.lock = p],
                                      ![dp].nlink = @ + up, ![dp].lock = NoProc]
          /\ dinode' = [dinode EXCEPT ![i].nlink = 1, ![d].nlink = @ + up]
          /\ dents' = [dents EXCEPT ![d][k[p].name] = i,
                                    ![i] = IF node.type = "dir" THEN Dots(i, d) ELSE NoEntries]
          /\ goes(p, [k[p] EXCEPT !.pc = "created", !.dp = 0, !.puts = <<dp>>])
          /\ UNCHANGED <<cwd, fd, ipanic>>

(* create returns ip, locked: the end of sys_open, sys_mkdir and sys_mknod *)
created(p) ==
  /\ At(p, "created")
  /\ icache' = [icache EXCEPT ![k[p].ip].lock = NoProc]
  /\ IF k[p].op = "open_create" THEN gotfile(p, k[p].ip) ELSE fails(p, <<k[p].ip>>) /\ fd' = fd
  /\ UNCHANGED <<dinode, dents, cwd, ipanic>>

-----------------------------------------------------------------------------
(* sys_unlink: find the entry, with dp locked                              *)
Undeletable(name) == name \in {".", ".."}
unlink(p) ==
  /\ At(p, "parent") /\ k[p].op = "unlink" /\ CanLock(p)
  /\ LET dp == k[p].dp
         e == dents[icache[dp].inum][k[p].name] IN
     IF icache[dp].type # "dir" THEN panics("dirlookup not DIR")
     ELSE IF Undeletable(k[p].name) \/ e = 0
     THEN fails(p, <<dp>>) /\ UNCHANGED <<dinode, dents, icache, cwd, fd, ipanic>>
     ELSE IF ~CanGet(icache, e) THEN panics("iget: no inodes")
     ELSE /\ icache' = [iget(icache, e) EXCEPT ![dp].lock = p]
          /\ goes(p, [k[p] EXCEPT !.pc = "unlink2", !.ip = slot(icache, e)])
          /\ UNCHANGED <<dinode, dents, cwd, fd, ipanic>>

(* ilock(ip) with dp locked; the entry goes, then dp, then the link.       *)
isdirempty(i) == \A n \in Names : dents[i][n] = 0
unlink2(p) ==
  /\ At(p, "unlink2") /\ CanLock(p)
  /\ LET ip == k[p].ip
         dp == k[p].dp
         node == Loaded(ip)
         d == icache[dp].inum
         down == IF node.type = "dir" THEN 1 ELSE 0 IN
     IF node.type = "free" THEN panics("ilock: no type")
     ELSE IF node.nlink < 1 THEN panics("unlink: nlink < 1")
     ELSE IF node.type = "dir" /\ ~isdirempty(node.inum)
     THEN /\ icache' = [icache EXCEPT ![ip] = node]
          /\ goes(p, [k[p] EXCEPT !.pc = "unlinkbad", !.ip = 0, !.puts = <<ip>>])
          /\ UNCHANGED <<dinode, dents, cwd, fd, ipanic>>
     ELSE /\ icache' = [icache EXCEPT ![ip] = [node EXCEPT !.lock = p],
                                      ![dp].nlink = @ - down, ![dp].lock = NoProc]
          /\ dinode' = [dinode EXCEPT ![d].nlink = @ - down]
          /\ dents' = [dents EXCEPT ![d][k[p].name] = 0]
          /\ goes(p, [k[p] EXCEPT !.pc = "unlink3", !.dp = 0, !.puts = <<dp>>])
          /\ UNCHANGED <<cwd, fd, ipanic>>

unlink3(p) ==
  /\ At(p, "unlink3")
  /\ LET ip == k[p].ip IN
       /\ icache' = [icache EXCEPT ![ip].nlink = @ - 1, ![ip].lock = NoProc]
       /\ dinode' = [dinode EXCEPT ![icache[ip].inum].nlink = @ - 1]
       /\ fails(p, <<ip>>)
  /\ UNCHANGED <<dents, cwd, fd, ipanic>>

unlinkbad(p) ==
  /\ At(p, "unlinkbad")
  /\ icache' = [icache EXCEPT ![k[p].dp].lock = NoProc]
  /\ fails(p, <<k[p].dp>>)
  /\ UNCHANGED <<dinode, dents, cwd, fd, ipanic>>

(* sys_close of the open file: fileclose calls iput.                       *)
sys_close(p) ==
  /\ At(p, "user") /\ fd[p] # 0
  /\ fails(p, <<fd[p]>>) /\ fd' = [fd EXCEPT ![p] = 0]
  /\ UNCHANGED <<dinode, dents, icache, cwd, ipanic>>

IStep(p) ==
  \/ namex(p) \/ iput_test(p) \/ iput_free(p) \/ iput_drop(p) \/ found(p)
  \/ link2(p) \/ linkexists(p) \/ linkbad(p) \/ create(p) \/ exists(p) \/ create2(p) \/ created(p)
  \/ unlink(p) \/ unlink2(p) \/ unlink3(p) \/ unlinkbad(p)

INext == \E p \in IProcs :
  \/ (IStep(p) \/ sys_close(p)) /\ UNCHANGED ncalls
  \/ \E c \in Calls : syscall(p, c[1], c[2], c[3])

ISpec == IInit /\ [][INext]_ivars

-----------------------------------------------------------------------------
(* Types: inode numbers, slots and counts are in range.                    *)
ITypeOK ==
  /\ dinode \in [IInums -> [type : {"free", "dir", "file", "dev"}, nlink : Int]]
  /\ dents \in [IInums -> [AllNames -> 0..NINODES]]
  /\ \A s \in Slots : icache[s].ref \in Nat /\ icache[s].lock \in IProcs \cup {NoProc}
  /\ \A p \in IProcs : cwd[p] \in Slots /\ fd[p] \in 0..NINODE /\ Len(k[p].puts) <= 2

(* ip->ref counts the pointers to the slot: current directories, open      *)
(* files, and what each system call holds on its way, error paths          *)
(* included.  A reference too few frees an inode in use, one too many      *)
(* keeps the slot and the file forever.                                    *)
toput(p, n) == IF n <= Len(k[p].puts) THEN k[p].puts[n] ELSE 0
Pointers(p) == <<cwd[p], fd[p], k[p].ip, k[p].dp, k[p].old, toput(p, 1), toput(p, 2)>>
Table == [p \in IProcs |-> Pointers(p)]
PointersTo(T, s) == {pj \in IProcs \X (1..7) : T[pj[1]][pj[2]] = s}
RefsCounted ==
  LET T == Table IN \A s \in Slots : icache[s].ref = Cardinality(PointersTo(T, s))

(* iget never gives an inode two slots, whose locks and copies would       *)
(* differ.                                                                 *)
OneSlotPerInode ==
  \A s, t \in Slots : s # t /\ icache[s].ref > 0 /\ icache[t].ref > 0 => icache[s].inum # icache[t].inum

(* The cache is write-through: a valid slot that nobody has locked is what *)
(* the disk says.                                                          *)
CacheIsDisk ==
  \A s \in Slots : icache[s].ref > 0 /\ icache[s].valid /\ icache[s].lock = NoProc =>
    icache[s].type = dinode[icache[s].inum].type /\ icache[s].nlink = dinode[icache[s].inum].nlink

(* No name leads to a free inode, and nlink is never below the number of   *)
(* names: entries other than "." and "..", and ".." of the directories     *)
(* that have a name.  (".." of a directory that was removed while it is a  *)
(* current directory may dangle: sys_unlink gives up its link.  No call of *)
(* Calls must therefore link a path through such a "..": when ialloc has   *)
(* reused its inode, link could count a name before create sets nlink.)    *)
EntriesOf(j) == {dn \in IInums \X Names : dents[dn[1]][dn[2]] = j}
NamedSubdirs(j) == {i \in IInums \ {ROOTINO} : dents[i][".."] = j /\ EntriesOf(i) # {}}
LinksCovered ==
  \A j \in IInums :
    LET links == Cardinality(EntriesOf(j)) + Cardinality(NamedSubdirs(j)) IN
      links <= dinode[j].nlink /\ (links > 0 => dinode[j].type # "free")

(* An open file or current directory is not freed under its user, however  *)
(* often it is unlinked meanwhile.                                         *)
OpenStaysAllocated ==
  \A p \in IProcs, s \in Slots : s \in {cwd[p], fd[p]} => dinode[icache[s].inum].type # "free"

(* No panic but three: ialloc's, when the disk has no free inode; "ilock:  *)
(* no type", when ".." of a removed directory dangles; and iget's, when    *)
(* current directories, open files and calls under way use every slot,     *)
(* which they can (param.h: NFILE = 100 files, NINODE = 50 slots; mkfs.c:  *)
(* 200 inodes).  A slot nobody uses any more is never lost to iget.        *)
INoPanic ==
  /\ ipanic \in {"none", "ialloc: no inodes", "ilock: no type", "iget: no inodes"}
  /\ ipanic = "iget: no inodes" =>
       \A s \in Slots : \E p \in IProcs : s \in Range(Pointers(p))

(* "another concurrent link/unlink/create test, to look for deadlocks"     *)
(* (usertests.c): processes never wait for each other's inode locks.       *)
Awaits(p) == IF Needs(p) = 0 THEN NoProc ELSE icache[Needs(p)].lock
NoLockCycle == \A p, q \in IProcs : Awaits(p) = q => Awaits(q) # p

(* The inode cache is sound: one slot for an inode, referenced as often as *)
(* ref says, and its copy is what the disk has.                            *)
CacheCountsInodes == ITypeOK /\ RefsCounted /\ OneSlotPerInode /\ CacheIsDisk

(* An inode in use is never freed, be it used by a name, an open file or a *)
(* current directory, and so no panic but those above is met.              *)
UsedStaysAllocated == LinksCovered /\ OpenStaysAllocated /\ INoPanic
=============================================================================
