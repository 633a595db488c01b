--------------------------------- MODULE Log ---------------------------------
(***************************************************************************)
(* xv6/log.c: the write-ahead (redo) log that groups the block updates of  *)
(* concurrent file-system calls into one transaction.  The disk keeps its  *)
(* contents over a crash: home blocks, log blocks and the header block,    *)
(* each written atomically (bwrite of one sector, synchronous).  Memory    *)
(* does not: the buffer cache, the in-memory header, the counters and the  *)
(* processes.  A block of the cache that is not B_DIRTY may be evicted and *)
(* read again, which gives the same contents; a dirty one is pinned.       *)
(*                                                                         *)
(* A definition X_Suffix is a mutant of X, a bug the code could have had;  *)
(* it is used by no other definition.                                      *)
(***************************************************************************)
EXTENDS Integers, Sequences, FiniteSets

CONSTANTS
  Ops,           \* processes that make file-system calls
  Block,         \* home block numbers
  Val,           \* block contents
  MAXOPBLOCKS,   \* blocks one call may write
  LOGSIZE,       \* entries of the header, and the space begin_op reserves from
  NLOG,          \* sb.nlog: log blocks on disk, the header included
  OpBlocks,      \* blocks a file-system call really writes
  NoBlock        \* "no block" for blk

ASSUME LogAssumption ==
  /\ MAXOPBLOCKS \in Nat \ {0}
  /\ LOGSIZE \in Nat /\ MAXOPBLOCKS <= LOGSIZE
  /\ NLOG \in Nat \ {0}
  /\ OpBlocks \in 0..MAXOPBLOCKS
  /\ NoBlock \notin Block
  /\ IsFiniteSet(Ops)

VARIABLES
  home,          \* disk: home location of every block
  logd,          \* disk: the log area, blocks log.start+k for k in 1..NLOG-1
  head,          \* disk: header block, the sequence block[0..n-1]
  cache,         \* memory: what bread returns for every block
  lh,            \* memory: log.lh, as a sequence
  outstanding, committing,
  pc,            \* where each process is
  wrote,         \* blocks its call has written so far
  blk,           \* argument of the log_write in progress
  tail,          \* loop variable of write_log and install_trans
  mode           \* "up", "recover", or the message of a panic

vars == <<home, logd, head, cache, lh, outstanding, committing, pc, wrote, blk,
          tail, mode>>
disk == <<home, logd, head>>

-----------------------------------------------------------------------------
(* A process: idle; asleep in begin_op or woken and about to retry; inside *)
(* a call; inside log_write between the tests and the update; and the      *)
(* stages of end_op for the process that commits.                          *)
CommitPC == {"commit", "write_log", "write_head", "install", "erase", "finish"}
InOp == {"op", "log_write"}
PC == {"idle", "sleep", "woken"} \cup InOp \cup CommitPC

LogBlocks == 1..NLOG-1
WakeLog_Nobody(f) == f
WakeLog(f) == [o \in Ops |-> IF f[o] = "sleep" THEN "woken" ELSE f[o]]
Logged(s) == {s[k] : k \in 1..Len(s)}

Init ==
  /\ home \in [Block -> Val]
  /\ \E v \in Val : logd = [k \in LogBlocks |-> v]
  /\ head = << >>
  /\ cache = home
  /\ lh = << >>
  /\ outstanding = 0 /\ committing = FALSE
  /\ pc = [o \in Ops |-> "idle"]
  /\ wrote = [o \in Ops |-> {}]
  /\ blk = [o \in Ops |-> NoBlock]
  /\ tail = 1
  /\ mode = "up"

-----------------------------------------------------------------------------
MustWait_SmallReserve == committing \/ Len(lh) + outstanding * MAXOPBLOCKS > LOGSIZE
MustWait == committing \/ Len(lh) + (outstanding + 1) * MAXOPBLOCKS > LOGSIZE

(* begin_op, under log.lock: sleep while a commit runs or the reservation  *)
(* does not fit, otherwise reserve.                                        *)
begin_op(o) ==
  /\ mode = "up" /\ pc[o] \in {"idle", "woken"}
  /\ IF MustWait
     THEN /\ pc' = [pc EXCEPT ![o] = "sleep"]
          /\ UNCHANGED outstanding
     ELSE /\ pc' = [pc EXCEPT ![o] = "op"]
          /\ outstanding' = outstanding + 1
  /\ UNCHANGED <<disk, cache, lh, committing, wrote, blk, tail, mode>>

(* The caller modified the buffer of b, which it holds locked, and calls   *)
(* log_write, whose tests come before acquire(&log.lock).                  *)
log_write(o, b, v) ==
  /\ mode = "up" /\ pc[o] = "op"
  /\ Cardinality(wrote[o] \cup {b}) <= OpBlocks
  /\ \A q \in Ops : pc[q] = "log_write" => blk[q] # b
  /\ cache' = [cache EXCEPT ![b] = v]
  /\ wrote' = [wrote EXCEPT ![o] = @ \cup {b}]
  /\ IF Len(lh) >= LOGSIZE \/ Len(lh) >= NLOG - 1
     THEN mode' = "too big a transaction" /\ UNCHANGED <<pc, blk>>
     ELSE IF outstanding < 1
     THEN mode' = "log_write outside of trans" /\ UNCHANGED <<pc, blk>>
     ELSE /\ pc' = [pc EXCEPT ![o] = "log_write"]
          /\ blk' = [blk EXCEPT ![o] = b]
          /\ UNCHANGED mode
  /\ UNCHANGED <<disk, lh, outstanding, committing, tail>>

(* The rest of log_write, under log.lock: absorb or append.                *)
log_append(o) ==
  /\ mode = "up" /\ pc[o] = "log_write"
  /\ lh' = IF blk[o] \in Logged(lh) THEN lh ELSE Append(lh, blk[o])
  /\ pc' = [pc EXCEPT ![o] = "op"]
  /\ blk' = [blk EXCEPT ![o] = NoBlock]
  /\ UNCHANGED <<disk, cache, outstanding, committing, wrote, tail, mode>>

(* end_op up to the first release: the last one out commits, the others    *)
(* give back their reservation.                                            *)
end_op(o) ==
  /\ mode = "up" /\ pc[o] = "op"
  /\ outstanding' = outstanding - 1
  /\ wrote' = [wrote EXCEPT ![o] = {}]
  /\ IF committing
     THEN mode' = "log.committing" /\ UNCHANGED <<committing, pc>>
     ELSE /\ UNCHANGED mode
          /\ IF outstanding' = 0
             THEN /\ committing' = TRUE
                  /\ pc' = [pc EXCEPT ![o] = "commit"]
             ELSE /\ pc' = [WakeLog(pc) EXCEPT ![o] = "idle"]
                  /\ UNCHANGED committing
  /\ UNCHANGED <<disk, cache, lh, blk, tail>>

-----------------------------------------------------------------------------
commit_HeadFirst(o) ==
  /\ mode = "up" /\ pc[o] = "commit"
  /\ pc' = [pc EXCEPT ![o] = IF Len(lh) > 0 THEN "write_head" ELSE "finish"]
  /\ tail' = 1
  /\ UNCHANGED <<disk, cache, lh, outstanding, committing, wrote, blk, mode>>

(* commit(): nothing to do for an empty transaction.                       *)
commit(o) ==
  /\ mode = "up" /\ pc[o] = "commit"
  /\ pc' = [pc EXCEPT ![o] = IF Len(lh) > 0 THEN "write_log" ELSE "finish"]
  /\ tail' = 1
  /\ UNCHANGED <<disk, cache, lh, outstanding, committing, wrote, blk, mode>>

(* One iteration of write_log: cache block to block log.start+tail, which  *)
(* behind the log area is somebody's home block: mkfs puts the first inode *)
(* block there, so any block here.                                         *)
write_log(o) ==
  /\ mode = "up" /\ pc[o] = "write_log"
  /\ IF tail \in LogBlocks
     THEN logd' = [logd EXCEPT ![tail] = cache[lh[tail]]] /\ UNCHANGED <<home, cache>>
     ELSE /\ \E b \in Block : /\ home' = [home EXCEPT ![b] = cache[lh[tail]]]
                              /\ cache' = [cache EXCEPT ![b] = cache[lh[tail]]]
          /\ UNCHANGED logd
  /\ IF tail = Len(lh)
     THEN tail' = 1 /\ pc' = [pc EXCEPT ![o] = "write_head"]
     ELSE tail' = tail + 1 /\ UNCHANGED pc
  /\ UNCHANGED <<head, lh, outstanding, committing, wrote, blk, mode>>

(* The first write_head: the commit point.                                 *)
write_head(o) ==
  /\ mode = "up" /\ pc[o] = "write_head"
  /\ head' = lh
  /\ pc' = [pc EXCEPT ![o] = "install"]
  /\ UNCHANGED <<home, logd, cache, lh, outstanding, committing, wrote, blk, tail, mode>>

(* One iteration of install_trans, which goes through the cache.           *)
InLog(k) == IF k \in LogBlocks THEN {logd[k]} ELSE {cache[b] : b \in Block}
install_trans == \E v \in InLog(tail) :
  /\ home' = [home EXCEPT ![lh[tail]] = v]
  /\ cache' = [cache EXCEPT ![lh[tail]] = v]

install_OffByOne(o) ==
  /\ mode = "up" /\ pc[o] = "install"
  /\ install_trans
  /\ IF tail >= Len(lh) - 1
     THEN tail' = 1 /\ pc' = [pc EXCEPT ![o] = "erase"]
     ELSE tail' = tail + 1 /\ UNCHANGED pc
  /\ UNCHANGED <<logd, head, lh, outstanding, committing, wrote, blk, mode>>

install(o) ==
  /\ mode = "up" /\ pc[o] = "install"
  /\ install_trans
  /\ IF tail = Len(lh)
     THEN tail' = 1 /\ pc' = [pc EXCEPT ![o] = "erase"]
     ELSE tail' = tail + 1 /\ UNCHANGED pc
  /\ UNCHANGED <<logd, head, lh, outstanding, committing, wrote, blk, mode>>

(* log.lh.n = 0 and the second write_head.                                 *)
erase(o) ==
  /\ mode = "up" /\ pc[o] = "erase"
  /\ lh' = << >> /\ head' = << >>
  /\ pc' = [pc EXCEPT ![o] = "finish"]
  /\ UNCHANGED <<home, logd, cache, outstanding, committing, wrote, blk, tail, mode>>

(* The end of end_op: let the others in.                                   *)
finish(o) ==
  /\ mode = "up" /\ pc[o] = "finish"
  /\ committing' = FALSE
  /\ pc' = [WakeLog(pc) EXCEPT ![o] = "idle"]
  /\ UNCHANGED <<disk, cache, lh, outstanding, wrote, blk, tail, mode>>

-----------------------------------------------------------------------------
(* Power loss or reset at any moment, a panic and recovery included: the   *)
(* disk survives.  The boot calls initlog, whose recover_from_log starts   *)
(* with read_head.                                                         *)
crash ==
  /\ mode' = "recover"
  /\ lh' = head
  /\ tail' = 1
  /\ cache' = home
  /\ outstanding' = 0 /\ committing' = FALSE
  /\ pc' = [o \in Ops |-> "idle"]
  /\ wrote' = [o \in Ops |-> {}]
  /\ blk' = [o \in Ops |-> NoBlock]
  /\ UNCHANGED disk

recover_install_NoStep ==
  /\ mode = "recover" /\ tail <= Len(lh)
  /\ install_trans
  /\ UNCHANGED <<logd, head, lh, outstanding, committing, pc, wrote, blk, tail, mode>>

recover_install ==
  /\ mode = "recover" /\ tail <= Len(lh)
  /\ install_trans
  /\ tail' = tail + 1
  /\ UNCHANGED <<logd, head, lh, outstanding, committing, pc, wrote, blk, mode>>

recover_erase ==
  /\ mode = "recover" /\ tail > Len(lh)
  /\ lh' = << >> /\ head' = << >>
  /\ tail' = 1
  /\ mode' = "up"
  /\ UNCHANGED <<home, logd, cache, outstanding, committing, pc, wrote, blk>>

-----------------------------------------------------------------------------
Step(o) ==
  \/ log_append(o) \/ end_op(o) \/ commit(o) \/ write_log(o) \/ write_head(o)
  \/ install(o) \/ erase(o) \/ finish(o)

Next ==
  \/ \E o \in Ops : begin_op(o) \/ Step(o)
  \/ \E o \in Ops, b \in Block, v \in Val : log_write(o, b, v)
  \/ crash
  \/ recover_install
  \/ recover_erase

Spec == Init /\ [][Next]_vars

(* Fairness: a call that was admitted runs to its end_op, the committer    *)
(* and recovery keep going, and a woken process gets to retry.  Crashes    *)
(* and new calls are not forced.                                           *)
Fairness ==
  /\ \A o \in Ops :
       /\ WF_vars(Step(o))
       /\ SF_vars(end_op(o))
       /\ WF_vars(pc[o] = "woken" /\ begin_op(o))
  /\ WF_vars(recover_install) /\ WF_vars(recover_erase)

FairSpec == Spec /\ Fairness

-----------------------------------------------------------------------------
Panics == {"too big a transaction", "log_write outside of trans", "log.committing"}

TypeOK ==
  /\ home \in [Block -> Val] /\ cache \in [Block -> Val]
  /\ logd \in [LogBlocks -> Val]
  /\ head \in Seq(Block) /\ lh \in Seq(Block)
  /\ outstanding \in Nat /\ committing \in BOOLEAN
  /\ pc \in [Ops -> PC]
  /\ wrote \in [Ops -> SUBSET Block]
  /\ blk \in [Ops -> Block \cup {NoBlock}]
  /\ tail \in Nat \ {0}
  /\ mode \in {"up", "recover"} \cup Panics

(* The contents the disk would have after a recovery started now: the home *)
(* blocks overwritten by the committed log, if any (when it is within its  *)
(* area: see LogFits).                                                     *)
Slot(s, b) == CHOOSE k \in 1..Len(s) : s[k] = b
Recovered == [b \in Block |-> IF b \in Logged(head) THEN logd[Slot(head, b)]
                                                   ELSE home[b]]

(* Every file-system call is atomic and isolated from crashes: what a boot *)
(* finds is what some set of complete calls wrote, never part of a call    *)
(* (log.c:98-100, "the true point at which the current transaction         *)
(* commits").  The abstract disk is AtomicDisk.                            *)
AD == INSTANCE AtomicDisk WITH
        stable <- Recovered,
        view <- IF mode = "recover" THEN Recovered ELSE cache,
        active <- {o \in Ops : pc[o] \in InOp}

ImplementsAtomicDisk == AD!Spec

(* When no call is in progress and no commit is running, everything the    *)
(* calls wrote is in its home location and the log is empty (end_op        *)
(* commits before the last caller leaves, log.c:154-172).                  *)
QuiescentIsDurable ==
  mode = "up" /\ outstanding = 0 /\ ~committing =>
    home = cache /\ head = << >> /\ lh = << >>

(* The reservation made by begin_op (log.c:132) is enough: the transaction *)
(* never outgrows the log area, although log_write tests log.lh.n before   *)
(* it takes log.lock (log.c:218).                                          *)
LogFits == Len(lh) <= LOGSIZE /\ Len(lh) <= NLOG - 1

(* "this op might exhaust log space; wait for commit" (log.c:133): a call  *)
(* that begin_op admitted, and that writes at most MAXOPBLOCKS blocks,     *)
(* never finds the log full.                                               *)
NeverTooBig == mode # "too big a transaction"

(* The counters are consistent with the calls in progress: a commit never  *)
(* overlaps a call (log.c:152) and log_write is always inside one          *)
(* (log.c:220).                                                            *)
CommitExcludesCalls ==
  /\ mode \notin {"log.committing", "log_write outside of trans"}
  /\ mode = "up" =>
       /\ outstanding = Cardinality({o \in Ops : pc[o] \in InOp})
       /\ committing <=> \E o \in Ops : pc[o] \in CommitPC
       /\ committing => outstanding = 0

(* No wakeup is lost in begin_op: a process sleeps on &log only while its  *)
(* reason holds and somebody who will call wakeup(&log) is active          *)
(* (log.c:130-134, 161, 171).                                              *)
SleepersHaveWaker ==
  \A o \in Ops : mode = "up" /\ pc[o] = "sleep" =>
    \/ committing
    \/ outstanding > 0 /\ Len(lh) + (outstanding + 1) * MAXOPBLOCKS > LOGSIZE

(* A process asleep in begin_op is eventually woken, unless the kernel     *)
(* panics.                                                                 *)
SleepersWake == \A o \in Ops : pc[o] = "sleep" ~> (pc[o] # "sleep" \/ mode \in Panics)

(* If the machine stops crashing, recovery finishes.                       *)
RecoveryCompletes == <>[][~crash]_vars => (mode = "recover" ~> mode = "up")
==============================================================================
