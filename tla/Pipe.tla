-------------------------------- MODULE Pipe --------------------------------
(***************************************************************************)
(* xv6/pipe.c: a bounded ring buffer shared by the processes that hold an  *)
(* open file for one of its ends.  p->lock is a spinlock, explicit here    *)
(* because pipewrite and piperead keep it across several loop iterations;  *)
(* sleep() and wakeup() are the ones of proc.c (module Proc): sleep        *)
(* releases p->lock and blocks in one step, and wakeup is called with      *)
(* p->lock held.  kill() takes only ptable.lock, so it interleaves with    *)
(* everything.  file.c contributes the reference counts: pipeclose runs    *)
(* when the last reference to an end goes away.                            *)
(*                                                                         *)
(* A definition X_Suffix is a mutant of X, a bug the code could have had;  *)
(* it is used by no other definition.                                      *)
(***************************************************************************)
EXTENDS Integers, FiniteSets

CONSTANTS
  Procs,      \* processes that may share the pipe
  Byte,       \* byte values
  PIPESIZE,   \* capacity of p->data
  UINT,       \* nread and nwrite are uint: arithmetic modulo UINT (2^32)
  MaxN,       \* largest n passed to read() and write()
  NoProc      \* "nobody" for the lock

ASSUME PipeAssumption ==
  /\ PIPESIZE \in Nat \ {0}
  /\ UINT \in Nat
  /\ PIPESIZE < UINT
  /\ UINT % PIPESIZE = 0
  /\ MaxN \in Nat
  /\ Byte # {}
  /\ NoProc \notin Procs

VARIABLES
  data, nread, nwrite,   \* p->data, p->nread, p->nwrite
  readopen, writeopen,   \* p->readopen, p->writeopen
  lock,                  \* who holds p->lock
  freed,                 \* the page of the pipe is not allocated
  rref, wref,            \* processes with the read / write file open
  pc,                    \* where each process is
  n, i,                  \* argument n and loop variable i of its call
  killed,                \* proc->killed
  addr                   \* last byte copied out by a piperead

vars == <<data, nread, nwrite, readopen, writeopen, lock, freed, rref, wref,
          pc, n, i, killed, addr>>
ring == <<data, nread, nwrite>>
ends == <<readopen, writeopen, freed, rref, wref>>

-----------------------------------------------------------------------------
(* Control points.  acq: about to (re)acquire p->lock.  full: found the    *)
(* ring full, killed tested, about to sleep.  empty: the same for a read.  *)
WritePC == {"wacq", "wloop", "wfull", "wsleep"}
ReadPC  == {"racq", "rloop", "rempty", "rsleep", "rcopy"}
LockedPC == {"wloop", "wfull", "rloop", "rempty", "rcopy"}
ClosePC == {"wclose", "rclose"}
PC == {"user"} \cup WritePC \cup ReadPC \cup ClosePC

Inc(x) == (x + 1) % UINT
Full_OffByOne == nwrite = (nread + PIPESIZE + 1) % UINT
Full == nwrite = (nread + PIPESIZE) % UINT
Empty == nread = nwrite

(* wakeup(chan): every sleeper on the channel becomes runnable and will    *)
(* reacquire p->lock.                                                      *)
WakeReaders_Nobody(f) == f
WakeReaders(f) == [p \in Procs |-> IF f[p] = "rsleep" THEN "racq" ELSE f[p]]
WakeWriters_Nobody(f) == f
WakeWriters(f) == [p \in Procs |-> IF f[p] = "wsleep" THEN "wacq" ELSE f[p]]

-----------------------------------------------------------------------------
Init ==
  /\ data \in [0..PIPESIZE-1 -> Byte]
  /\ nread = 0 /\ nwrite = 0
  /\ readopen = FALSE /\ writeopen = FALSE
  /\ lock = NoProc
  /\ freed = TRUE
  /\ rref = {} /\ wref = {}
  /\ pc = [p \in Procs |-> "user"]
  /\ n = [p \in Procs |-> 0] /\ i = [p \in Procs |-> 0]
  /\ killed = [p \in Procs |-> FALSE]
  /\ addr \in Byte

(* pipealloc through sys_pipe: the caller gets both ends.  A failure of    *)
(* filealloc or kalloc undoes everything and leaves the state alone.  The  *)
(* page that kalloc returns is not cleared.                                *)
pipealloc(p) ==
  /\ pc[p] = "user" /\ ~killed[p]
  /\ freed
  /\ readopen' = TRUE /\ writeopen' = TRUE
  /\ nwrite' = 0 /\ nread' = 0
  /\ lock' = NoProc
  /\ freed' = FALSE
  /\ rref' = {p} /\ wref' = {p}
  /\ data' \in [0..PIPESIZE-1 -> Byte]
  /\ UNCHANGED <<pc, n, i, killed, addr>>

(* fork: the child q inherits the open ends of p (filedup).                *)
filedup(p, q) ==
  /\ pc[p] = "user" /\ ~killed[p]
  /\ p \in rref \cup wref
  /\ q # p /\ pc[q] = "user" /\ q \notin rref \cup wref /\ ~killed[q]
  /\ rref' = IF p \in rref THEN rref \cup {q} ELSE rref
  /\ wref' = IF p \in wref THEN wref \cup {q} ELSE wref
  /\ UNCHANGED <<ring, readopen, writeopen, lock, freed, pc, n, i, killed, addr>>

LastRef_Any(refs) == TRUE
LastRef(refs) == refs = {}

(* fileclose drops a reference under ftable.lock; whoever drops the last   *)
(* one goes on, with no lock held, to pipeclose.                           *)
fileclose(p) ==
  /\ pc[p] = "user"
  /\ \/ /\ p \in wref
        /\ wref' = wref \ {p}
        /\ pc' = [pc EXCEPT ![p] = IF LastRef(wref') THEN "wclose" ELSE @]
        /\ rref' = rref
     \/ /\ p \in rref
        /\ rref' = rref \ {p}
        /\ pc' = [pc EXCEPT ![p] = IF LastRef(rref') THEN "rclose" ELSE @]
        /\ wref' = wref
  /\ UNCHANGED <<ring, readopen, writeopen, freed, lock, n, i, killed, addr>>

(* pipeclose: its whole body runs under p->lock; the second end to close   *)
(* frees the page.                                                         *)
pipeclose(p) ==
  /\ pc[p] \in ClosePC
  /\ lock = NoProc
  /\ IF pc[p] = "wclose"
     THEN /\ writeopen' = FALSE /\ readopen' = readopen
          /\ pc' = [WakeReaders(pc) EXCEPT ![p] = "user"]
     ELSE /\ readopen' = FALSE /\ writeopen' = writeopen
          /\ pc' = [WakeWriters(pc) EXCEPT ![p] = "user"]
  /\ freed' = (~readopen' /\ ~writeopen')
  /\ UNCHANGED <<ring, lock, rref, wref, n, i, killed, addr>>

-----------------------------------------------------------------------------
(* pipewrite and piperead are entered with the caller's n.                 *)
Call(p, entry, k) ==
  /\ pc[p] = "user" /\ ~killed[p]
  /\ pc' = [pc EXCEPT ![p] = entry]
  /\ n' = [n EXCEPT ![p] = k]
  /\ i' = [i EXCEPT ![p] = 0]
  /\ UNCHANGED <<ring, ends, lock, killed, addr>>

pipewrite(p) == p \in wref /\ \E k \in 0..MaxN : Call(p, "wacq", k)
piperead(p) == p \in rref /\ \E k \in 0..MaxN : Call(p, "racq", k)

(* acquire(&p->lock), on entry and again when sleep() returns.             *)
Acquire(p) ==
  /\ pc[p] \in {"wacq", "racq"}
  /\ lock = NoProc
  /\ lock' = p
  /\ pc' = [pc EXCEPT ![p] = IF @ = "wacq" THEN "wloop" ELSE "rloop"]
  /\ UNCHANGED <<ring, ends, n, i, killed, addr>>

(* release(&p->lock) and return; the locals of the call are gone.          *)
Return(p, f) ==
  /\ lock' = NoProc
  /\ pc' = [f EXCEPT ![p] = "user"]
  /\ n' = [n EXCEPT ![p] = 0]
  /\ i' = [i EXCEPT ![p] = 0]

(* The ring is full and nobody can drain it, or the caller was killed.     *)
WriteFail(p) ==
  /\ pc[p] = "wloop" /\ i[p] < n[p] /\ Full
  /\ ~readopen \/ killed[p]
  /\ Return(p, pc)
  /\ UNCHANGED <<ring, ends, killed, addr>>

(* The ring is full: wake the readers ...                                  *)
WriteFull(p) ==
  /\ pc[p] = "wloop" /\ i[p] < n[p] /\ Full
  /\ readopen /\ ~killed[p]
  /\ pc' = [WakeReaders(pc) EXCEPT ![p] = "wfull"]
  /\ UNCHANGED <<ring, ends, lock, n, i, killed, addr>>

(* ... and sleep(&p->nwrite, &p->lock).                                    *)
WriteSleep(p) ==
  /\ pc[p] = "wfull"
  /\ pc' = [pc EXCEPT ![p] = "wsleep"]
  /\ lock' = NoProc
  /\ UNCHANGED <<ring, ends, n, i, killed, addr>>

WriteByte(p) ==
  /\ pc[p] = "wloop" /\ i[p] < n[p] /\ ~Full
  /\ \E b \in Byte : data' = [data EXCEPT ![nwrite % PIPESIZE] = b]
  /\ nwrite' = Inc(nwrite)
  /\ i' = [i EXCEPT ![p] = @ + 1]
  /\ UNCHANGED <<nread, ends, lock, pc, n, killed, addr>>

WriteDone(p) ==
  /\ pc[p] = "wloop" /\ i[p] >= n[p]
  /\ Return(p, WakeReaders(pc))
  /\ UNCHANGED <<ring, ends, killed, addr>>

-----------------------------------------------------------------------------
ReadKilled(p) ==
  /\ pc[p] = "rloop" /\ Empty /\ writeopen
  /\ killed[p]
  /\ Return(p, pc)
  /\ UNCHANGED <<ring, ends, killed, addr>>

ReadEmpty(p) ==
  /\ pc[p] = "rloop" /\ Empty /\ writeopen
  /\ ~killed[p]
  /\ pc' = [pc EXCEPT ![p] = "rempty"]
  /\ UNCHANGED <<ring, ends, lock, n, i, killed, addr>>

(* sleep(&p->nread, &p->lock)                                              *)
ReadSleep(p) ==
  /\ pc[p] = "rempty"
  /\ pc' = [pc EXCEPT ![p] = "rsleep"]
  /\ lock' = NoProc
  /\ UNCHANGED <<ring, ends, n, i, killed, addr>>

ReadReady_NoTest(p) ==
  /\ pc[p] = "rloop"
  /\ pc' = [pc EXCEPT ![p] = "rcopy"]
  /\ UNCHANGED <<ring, ends, lock, n, i, killed, addr>>

(* The first loop is over: bytes are there, or no writer is left.          *)
ReadReady(p) ==
  /\ pc[p] = "rloop" /\ ~(Empty /\ writeopen)
  /\ pc' = [pc EXCEPT ![p] = "rcopy"]
  /\ UNCHANGED <<ring, ends, lock, n, i, killed, addr>>

ReadByte(p) ==
  /\ pc[p] = "rcopy" /\ i[p] < n[p] /\ ~Empty
  /\ addr' = data[nread % PIPESIZE]
  /\ nread' = Inc(nread)
  /\ i' = [i EXCEPT ![p] = @ + 1]
  /\ UNCHANGED <<data, nwrite, ends, lock, pc, n, killed>>

(* Returns i: 0 with n > 0 is end of file.                                 *)
ReadDone(p) ==
  /\ pc[p] = "rcopy" /\ (i[p] >= n[p] \/ Empty)
  /\ Return(p, WakeWriters(pc))
  /\ UNCHANGED <<ring, ends, killed, addr>>

(* kill(): only ptable.lock is taken; a sleeper becomes runnable.          *)
kill(p) ==
  /\ ~killed[p]
  /\ killed' = [killed EXCEPT ![p] = TRUE]
  /\ pc' = [pc EXCEPT ![p] = CASE @ = "wsleep" -> "wacq"
                               [] @ = "rsleep" -> "racq"
                               [] OTHER -> @]
  /\ UNCHANGED <<ring, ends, lock, n, i, addr>>

-----------------------------------------------------------------------------
Write(p) == WriteFail(p) \/ WriteFull(p) \/ WriteSleep(p) \/ WriteByte(p) \/ WriteDone(p)
Read(p) == ReadKilled(p) \/ ReadEmpty(p) \/ ReadSleep(p) \/ ReadReady(p) \/ ReadByte(p) \/ ReadDone(p)

Next ==
  \E p \in Procs :
    \/ pipealloc(p)
    \/ \E q \in Procs : filedup(p, q)
    \/ fileclose(p)
    \/ pipeclose(p)
    \/ pipewrite(p)
    \/ piperead(p)
    \/ Acquire(p)
    \/ Write(p)
    \/ Read(p)
    \/ kill(p)

Spec == Init /\ [][Next]_vars

(* Fairness for liveness: a process inside pipe.c keeps running (proc.c    *)
(* schedules every RUNNABLE process) and a spinning acquire that finds the *)
(* lock free again and again gets it.  Nothing obliges a process to make a *)
(* call, or a sleeper to wake up by itself.                                *)
Fairness ==
  \A p \in Procs :
    /\ WF_vars(Write(p))
    /\ WF_vars(Read(p))
    /\ SF_vars(Acquire(p))
    /\ SF_vars(pipeclose(p))

FairSpec == Spec /\ Fairness

-----------------------------------------------------------------------------
TypeOK ==
  /\ data \in [0..PIPESIZE-1 -> Byte]
  /\ nread \in 0..UINT-1 /\ nwrite \in 0..UINT-1
  /\ readopen \in BOOLEAN /\ writeopen \in BOOLEAN /\ freed \in BOOLEAN
  /\ lock \in Procs \cup {NoProc}
  /\ rref \subseteq Procs /\ wref \subseteq Procs
  /\ pc \in [Procs -> PC]
  /\ n \in [Procs -> Nat] /\ i \in [Procs -> Nat]
  /\ killed \in [Procs -> BOOLEAN]
  /\ addr \in Byte

(* A sleeping reader or writer has a reason to sleep (pipe.c:85, 106), or  *)
(* a process that holds p->lock is removing the reason and will call       *)
(* wakeup before it lets the lock go.                                      *)
ReaderMaySleep ==
  \/ Empty /\ writeopen
  \/ \E w \in Procs : lock = w /\ pc[w] = "wloop"
WriterMaySleep ==
  \/ Full /\ readopen
  \/ \E r \in Procs : lock = r /\ pc[r] = "rcopy"

(* No wakeup is lost: a writer sleeps only on a full pipe with a read end  *)
(* open, and a reader, as long as nobody was killed, only on an empty pipe *)
(* with a write end open (pipe.c:85-95, 106-118).                          *)
NoLostWakeup ==
  \A p \in Procs :
    /\ pc[p] = "wsleep" => WriterMaySleep
    /\ pc[p] = "rsleep" => ReaderMaySleep \/ \E w \in Procs : killed[w]

(* The page is never used after kfree (pipe.c:70-72 with file.c:64-74): a  *)
(* process inside pipewrite, piperead or pipeclose has its end open in the *)
(* pipe, and an end is closed in the pipe only after its last reference.   *)
NoUseAfterFree ==
  /\ \A p \in Procs : pc[p] # "user" => ~freed
  /\ rref # {} => readopen
  /\ wref # {} => writeopen

(* read() reports end of file (returns 0 for n > 0, pipe.c:113-120) only   *)
(* when every write end is closed: never because a racing reader took the  *)
(* bytes first.                                                            *)
EofOnlyAfterLastWriter ==
  [][\A p \in Procs :
       ReadDone(p) /\ n[p] > 0 /\ i[p] = 0 => wref = {} /\ Empty]_vars

(* Nobody hangs on a dead pipe: once the other end is closed every call in *)
(* progress returns (the wakeup in pipeclose, pipe.c:65 and 68).           *)
ReturnsAfterClose ==
  \A p \in Procs :
    /\ (pc[p] \in WritePC /\ ~readopen) ~> (pc[p] \notin WritePC)
    /\ (pc[p] \in ReadPC /\ ~writeopen) ~> (pc[p] \notin ReadPC)

(* The pipe implements a bounded first-in first-out byte queue, also when  *)
(* nread and nwrite wrap around.  The queue is the part of the ring from   *)
(* nread up to nwrite.                                                     *)
Queue == [k \in 1..((nwrite - nread) % UINT) |->
            data[((nread + k - 1) % UINT) % PIPESIZE]]

BQ == INSTANCE ByteQueue WITH
        Capacity <- PIPESIZE, q <- Queue,
        out <- addr, ropen <- readopen, wopen <- writeopen

ImplementsByteQueue == BQ!Spec
=============================================================================
