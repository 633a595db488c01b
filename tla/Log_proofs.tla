----------------------------- MODULE Log_proofs -----------------------------
(***************************************************************************)
(* For every number of processes and blocks and every log with room for    *)
(* its calls: xv6/log.c makes file-system calls atomic over crashes (it    *)
(* implements AtomicDisk), a commit never overlaps a call, and when the    *)
(* system is quiet everything is in its home location.                     *)
(*                                                                         *)
(* The invariant follows the committer through its stages (StageInv): what *)
(* it has copied so far agrees with the cache.  Outside a commit the log   *)
(* on disk is empty, so the durable contents are the home blocks, and the  *)
(* cache differs from them only in logged blocks and in blocks a log_write *)
(* is about to log (CacheInv).  HeadInv and RecoverInv carry what recovery *)
(* needs across a crash.                                                   *)
(*                                                                         *)
(* SpaceInv adds up what the calls in progress may still write: it gives   *)
(* the size of log and reservation for which the log never overflows       *)
(* (Room), without which write_log would overwrite home blocks, and the    *)
(* one for which no call meets log_write's panic (Spare).                  *)
(***************************************************************************)
EXTENDS Log, FiniteSetTheorems, TLAPS

Calls == {o \in Ops : pc[o] \in InOp}
NoDup(s) == \A j, k \in 1..Len(s) : s[j] = s[k] => j = k

CountInv ==
  /\ CommitExcludesCalls
  /\ mode = "up" => \A o, q \in Ops :
       pc[o] \in CommitPC /\ pc[q] \in CommitPC => o = q

BlkInv == mode = "up" => \A o \in Ops :
  IF pc[o] = "log_write" THEN blk[o] \in Block ELSE blk[o] = NoBlock

LhInv == NoDup(lh)

HeadInv == NoDup(head) /\ 1..Len(head) \subseteq LogBlocks

RecoverInv ==
  mode = "recover" =>
    /\ lh = head /\ cache = home
    /\ outstanding = 0 /\ ~committing
    /\ \A o \in Ops : pc[o] = "idle" /\ blk[o] = NoBlock
    /\ \A k \in 1..Len(lh) : k < tail => home[lh[k]] = logd[k]

CacheInv ==
  mode = "up" => \A b \in Block :
    b \notin Logged(lh) /\ (\A o \in Ops : blk[o] # b) => home[b] = cache[b]

(* The first m logged blocks are in the log area; have been installed.     *)
Copied(m) == \A k \in 1..m : k \in LogBlocks /\ logd[k] = cache[lh[k]]
Installed(m) == \A k \in 1..m : home[lh[k]] = cache[lh[k]]

StageInv ==
  mode = "up" =>
    /\ head # << >> => \E o \in Ops : pc[o] \in {"install", "erase"}
    /\ outstanding = 0 /\ ~committing => lh = << >>
    /\ \A o \in Ops :
       /\ pc[o] = "write_log" => tail \in 1..Len(lh) /\ Copied(tail-1)
       /\ pc[o] = "write_head" => tail = 1 /\ 1 <= Len(lh) /\ Copied(Len(lh))
       /\ pc[o] = "install" =>
            /\ head = lh /\ tail \in 1..Len(lh)
            /\ Copied(Len(lh)) /\ Installed(tail-1)
       /\ pc[o] = "erase" =>
            head = lh /\ Copied(Len(lh)) /\ Installed(Len(lh))
       /\ pc[o] = "finish" => lh = << >>

IInv == /\ TypeOK /\ CountInv /\ BlkInv /\ LhInv /\ HeadInv /\ RecoverInv
        /\ CacheInv /\ StageInv

-----------------------------------------------------------------------------
(* The set of calls in progress is finite and counted by outstanding.      *)
LEMMA CallsFinite == IsFiniteSet(Calls) /\ Cardinality(Calls) \in Nat
<1>1. Calls \in SUBSET Ops BY Zenon DEF Calls
<1>2. IsFiniteSet(Calls) BY <1>1, FS_Subset, LogAssumption, Zenon
<1> QED BY <1>2, FS_CardinalityType, Zenon

(* During a call nobody commits.                                           *)
LEMMA DuringCall ==
  ASSUME CountInv, mode = "up", NEW o \in Ops, pc[o] \in InOp
  PROVE  /\ outstanding \in Nat \ {0} /\ ~committing
         /\ \A q \in Ops : pc[q] \notin CommitPC
<1>1. outstanding = Cardinality(Calls)
  BY Zenon DEF CountInv, CommitExcludesCalls, Calls
<1>2. Calls # {} BY Zenon DEF Calls
<1>3. outstanding \in Nat \ {0} BY <1>1, <1>2, CallsFinite, FS_EmptySet, Zenon
<1> QED BY <1>3, Zenon DEF CountInv, CommitExcludesCalls

(* During a commit there is no call and no other committer.                *)
LEMMA DuringCommit ==
  ASSUME CountInv, mode = "up", NEW o \in Ops, pc[o] \in CommitPC
  PROVE  /\ committing /\ outstanding = 0 /\ Calls = {}
         /\ \A q \in Ops : pc[q] \notin InOp
         /\ \A q \in Ops : pc[q] \in CommitPC => q = o
<1>1. committing /\ outstanding = 0 BY Zenon DEF CountInv, CommitExcludesCalls
<1>2. outstanding = Cardinality(Calls)
  BY Zenon DEF CountInv, CommitExcludesCalls, Calls
<1>3. Calls = {} BY <1>1, <1>2, CallsFinite, FS_EmptySet, Zenon
<1> QED BY <1>1, <1>3, Zenon DEF CountInv, Calls

(* A step that does not move a process into or out of a call or a commit   *)
(* keeps the counting.                                                     *)
LEMMA SameCount ==
  ASSUME CountInv, mode = "up", mode' = "up",
         outstanding' = outstanding, committing' = committing,
         \A q \in Ops : /\ pc'[q] \in InOp <=> pc[q] \in InOp
                        /\ pc'[q] \in CommitPC <=> pc[q] \in CommitPC
  PROVE  CountInv'
<1>1. {o \in Ops : pc'[o] \in InOp} = {o \in Ops : pc[o] \in InOp} BY Zenon
<1>2. outstanding' = Cardinality({o \in Ops : pc'[o] \in InOp})
  BY <1>1, Zenon DEF CountInv, CommitExcludesCalls
<1> QED BY <1>2, Zenon DEF CountInv, CommitExcludesCalls

(* Without duplicates a logged block has one slot.                         *)
LEMMA SlotOf ==
  ASSUME NEW s \in Seq(Block), NoDup(s), NEW k \in 1..Len(s)
  PROVE  s[k] \in Logged(s) /\ Slot(s, s[k]) = k
BY Zenon DEF NoDup, Slot, Logged

(* The state after mkfs satisfies the invariant.                           *)
LEMMA InitInv == Init => IInv
<1> SUFFICES ASSUME Init PROVE IInv BY Zenon
<1>1. TypeOK
  <2>1. PICK v \in Val : logd = [k \in LogBlocks |-> v] BY Zenon DEF Init
  <2>2. logd \in [LogBlocks -> Val] BY <2>1, Zenon
  <2>4. head \in Seq(Block) /\ lh \in Seq(Block) BY DEF Init
  <2>5. outstanding \in Nat /\ tail \in Nat \ {0} BY DEF Init
  <2>6. /\ home \in [Block -> Val] /\ cache = home /\ committing = FALSE
        /\ mode = "up" /\ pc = [o \in Ops |-> "idle"]
        /\ wrote = [o \in Ops |-> {}] /\ blk = [o \in Ops |-> NoBlock]
    BY Zenon DEF Init
  <2>7. pc \in [Ops -> PC] BY <2>6, Zenon DEF PC
  <2> QED BY <2>2, <2>4, <2>5, <2>6, <2>7, Zenon DEF TypeOK
<1>2. CountInv
  <2>1. {o \in Ops : pc[o] \in InOp} = {} BY Zenon DEF Init, InOp
  <2> QED
    BY <2>1, FS_EmptySet, Zenon DEF Init, CountInv, CommitExcludesCalls, CommitPC
<1>3. BlkInv /\ LhInv /\ HeadInv /\ RecoverInv /\ CacheInv /\ StageInv
  BY DEF Init, BlkInv, LhInv, HeadInv, RecoverInv, CacheInv, StageInv, NoDup
<1> QED BY <1>1, <1>2, <1>3, Zenon DEF IInv

(* A log_write preserves it, the panic included.                           *)
LEMMA WriteInv ==
  ASSUME IInv, NEW o \in Ops, NEW b \in Block, NEW v \in Val, log_write(o, b, v)
  PROVE  IInv'
<1>0. CountInv /\ mode = "up" /\ pc[o] \in InOp BY Zenon DEF IInv, log_write, InOp
<1>a. /\ outstanding \in Nat \ {0} /\ ~committing
      /\ \A q \in Ops : pc[q] \notin CommitPC BY <1>0, DuringCall, Zenon
<1>1. TypeOK'
  <2>1. cache' \in [Block -> Val] /\ wrote' \in [Ops -> SUBSET Block]
    BY <1>a, Zenon DEF IInv, TypeOK, log_write
  <2>2. /\ pc' \in [Ops -> PC] /\ blk' \in [Ops -> Block \cup {NoBlock}]
        /\ mode' \in {"up", "recover"} \cup Panics
    BY <1>a, Zenon DEF IInv, TypeOK, log_write, Panics, PC, InOp
  <2> QED BY <2>1, <2>2, <1>a, Zenon DEF IInv, TypeOK, log_write, disk
<1>2. CountInv'
  <2>1. CASE mode' = "up"
    BY <2>1, <1>a, SameCount DEF IInv, TypeOK, log_write, CommitPC, InOp
  <2>2. CASE mode' = "too big a transaction"
    BY <2>2, Zenon DEF CountInv, CommitExcludesCalls
  <2>3. ~(outstanding < 1) BY <1>a
  <2> QED BY <2>1, <2>2, <2>3, <1>0, Zenon DEF log_write
<1>3. BlkInv'
  BY <1>a, LogAssumption, SMTT(60)
     DEF IInv, TypeOK, BlkInv, log_write, disk, CommitPC, InOp, PC
<1>4. LhInv'
  BY <1>a, Zenon DEF IInv, LhInv, NoDup, log_write, disk
<1>5. HeadInv'
  BY <1>a, Zenon DEF IInv, HeadInv, NoDup, log_write, disk
<1>6. RecoverInv'
  BY <1>a, Zenon DEF IInv, RecoverInv, log_write, disk
<1>7. CacheInv'
  <2> SUFFICES ASSUME mode' = "up", NEW c \in Block, c \notin Logged(lh),
                        \A q \in Ops : blk'[q] # c
               PROVE  home[c] = cache'[c]
    BY <1>a, Zenon DEF CacheInv, log_write, disk
  <2>1. pc' = [pc EXCEPT ![o] = "log_write"] /\ blk' = [blk EXCEPT ![o] = b]
    BY <1>a, Zenon DEF log_write
  <2>2. c # b BY <2>1, Zenon DEF IInv, TypeOK
  <2>3. cache'[c] = cache[c] BY <2>2, <1>a, Zenon DEF log_write, IInv, TypeOK
  <2>4. \A q \in Ops : blk[q] # c
    BY <2>1, <1>a, LogAssumption, SMTT(60) DEF IInv, TypeOK, BlkInv, log_write
  <2> QED BY <2>3, <2>4, <1>a, Zenon DEF IInv, CacheInv, log_write
<1>8. StageInv'
  BY <1>a
     DEF IInv, TypeOK, StageInv, Copied, Installed, log_write, disk, CommitPC,
         InOp, PC
<1> QED BY <1>1, <1>2, <1>3, <1>4, <1>5, <1>6, <1>7, <1>8, Zenon DEF IInv

(* In a log that fits, write_log stays within the log area.                *)
LEMMA WritesLog ==
  ASSUME IInv, LogFits, NEW o \in Ops, write_log(o)
  PROVE  /\ mode = "up" /\ mode' = "up" /\ pc[o] = "write_log"
         /\ tail \in LogBlocks /\ tail \in 1..Len(lh)
         /\ logd' = [logd EXCEPT ![tail] = cache[lh[tail]]]
         /\ \/ tail = Len(lh) /\ tail' = 1 /\ pc' = [pc EXCEPT ![o] = "write_head"]
            \/ tail # Len(lh) /\ tail' = tail + 1 /\ pc' = pc
         /\ UNCHANGED <<home, cache, head, lh, outstanding, committing, wrote, blk, mode>>
<1>1. mode = "up" /\ pc[o] = "write_log" BY Zenon DEF write_log
<1>2. tail \in 1..Len(lh) /\ lh \in Seq(Block) BY <1>1, Zenon DEF IInv, StageInv, TypeOK
<1>3. tail \in LogBlocks BY <1>2, LogAssumption DEF LogFits, LogBlocks
<1> QED BY <1>1, <1>2, <1>3, Zenon DEF write_log

(* What install_trans copies from a block of the log area                  *)
LEMMA InstallsLog ==
  ASSUME install_trans, tail \in LogBlocks
  PROVE  /\ home' = [home EXCEPT ![lh[tail]] = logd[tail]]
         /\ cache' = [cache EXCEPT ![lh[tail]] = logd[tail]]
BY Zenon DEF install_trans, InLog

(* Every other step of a call or of the committer preserves it.            *)
LEMMA OpInv ==
  ASSUME IInv, LogFits, NEW o \in Ops, begin_op(o) \/ Step(o)
  PROVE  IInv'
<1>2. CASE begin_op(o)
  <2>1. TypeOK'
    <3>1. outstanding' \in Nat BY <1>2 DEF IInv, TypeOK, begin_op
    <3>2. pc' \in [Ops -> PC] BY <1>2, Zenon DEF IInv, TypeOK, begin_op, InOp, PC
    <3> QED BY <3>1, <3>2, <1>2, Zenon DEF IInv, TypeOK, begin_op, disk
  <2>2. CountInv'
    <3>1. CASE pc' = [pc EXCEPT ![o] = "sleep"]
      BY <3>1, <1>2, SameCount, Zenon DEF IInv, TypeOK, begin_op, CommitPC, InOp
    <3>2. CASE /\ pc' = [pc EXCEPT ![o] = "op"] /\ ~committing
               /\ outstanding' = outstanding + 1
      <4>1. {q \in Ops : pc'[q] \in InOp} = Calls \cup {o} /\ o \notin Calls
        BY <3>2, <1>2, Zenon DEF IInv, TypeOK, begin_op, InOp, Calls
      <4>2. outstanding = Cardinality(Calls)
        BY <1>2, Zenon
           DEF begin_op, MustWait, IInv, CountInv, CommitExcludesCalls, Calls
      <4>3. outstanding' = Cardinality({q \in Ops : pc'[q] \in InOp})
        BY <4>1, <4>2, <3>2, CallsFinite, FS_AddElement, Zenon
      <4>4. \A q \in Ops : pc'[q] \notin CommitPC
        BY <3>2, <1>2, Zenon
           DEF IInv, TypeOK, CountInv, CommitExcludesCalls, begin_op, MustWait, CommitPC
      <4> QED
        BY <4>3, <4>4, <3>2, <1>2, Zenon
           DEF IInv, CountInv, CommitExcludesCalls, begin_op, MustWait
    <3> QED BY <3>1, <3>2, <1>2, Zenon DEF begin_op, MustWait
  <2>3. BlkInv'
    BY <1>2, LogAssumption, Zenon
       DEF IInv, TypeOK, BlkInv, begin_op, disk, CommitPC, InOp, PC
  <2>4. LhInv'
    BY <1>2, Zenon DEF IInv, LhInv, NoDup, begin_op, disk
  <2>5. HeadInv'
    BY <1>2, Zenon DEF IInv, HeadInv, NoDup, begin_op, disk
  <2>6. RecoverInv'
    BY <1>2, Zenon DEF IInv, RecoverInv, begin_op, disk
  <2>7. CacheInv'
    BY <1>2, Zenon DEF IInv, TypeOK, CacheInv, Logged, begin_op, disk
  <2>8. StageInv'
    BY <1>2
       DEF IInv, TypeOK, StageInv, Copied, Installed, begin_op, disk, CommitPC,
           InOp, PC
  <2> QED BY <2>1, <2>2, <2>3, <2>4, <2>5, <2>6, <2>7, <2>8, Zenon DEF IInv
<1>4. CASE log_append(o)
  <2>0. CountInv /\ mode = "up" /\ pc[o] \in InOp
    BY <1>4, Zenon DEF IInv, log_append, InOp
  <2>a. /\ outstanding \in Nat \ {0} /\ ~committing
        /\ \A q \in Ops : pc[q] \notin CommitPC BY <2>0, DuringCall, Zenon
  <2>b. blk[o] \in Block /\ lh \in Seq(Block)
    BY <1>4, <2>a, Zenon DEF IInv, TypeOK, BlkInv, log_append
  <2>c. /\ lh' \in Seq(Block) /\ Logged(lh') = Logged(lh) \cup {blk[o]}
        /\ NoDup(lh) => NoDup(lh')
    <3>1. CASE blk[o] \in Logged(lh) BY <2>b, <3>1, <1>4, <2>a, Zenon DEF log_append
    <3>2. CASE blk[o] \notin Logged(lh)
      <4>1. lh' = Append(lh, blk[o]) BY <3>2, <1>4, <2>a, Zenon DEF log_append
      <4>2. /\ Len(lh') = Len(lh) + 1 /\ lh'[Len(lh)+1] = blk[o]
            /\ \A k \in 1..Len(lh) : lh'[k] = lh[k]
            /\ lh' \in Seq(Block) /\ Len(lh) \in Nat
        BY <4>1, <2>b
      <4>3. Logged(lh') = Logged(lh) \cup {blk[o]}
        BY <4>2 DEF Logged
      <4>4. ASSUME NoDup(lh) PROVE NoDup(lh')
        BY <4>2, <4>4, <3>2 DEF NoDup, Logged
      <4> QED BY <4>2, <4>3, <4>4, Zenon
    <3> QED BY <3>1, <3>2, Zenon
  <2>1. TypeOK'
    BY <1>4, <2>a, <2>b, <2>c, Zenon DEF IInv, TypeOK, log_append, disk, PC, InOp
  <2>2. CountInv'
    BY <1>4, <2>a, SameCount, Zenon
       DEF IInv, TypeOK, log_append, disk, CommitPC, InOp, PC
  <2>3. BlkInv'
    BY <1>4, <2>a, LogAssumption, Zenon
       DEF IInv, TypeOK, BlkInv, log_append, disk, CommitPC, InOp, PC
  <2>4. LhInv'
    BY <2>c, Zenon DEF IInv, LhInv
  <2>5. HeadInv'
    BY <1>4, <2>a, Zenon DEF IInv, HeadInv, NoDup, log_append, disk
  <2>6. RecoverInv'
    BY <1>4, <2>a, Zenon DEF IInv, RecoverInv, log_append, disk
  <2>7. CacheInv'
    <3> SUFFICES ASSUME NEW c \in Block, c \notin Logged(lh'),
                          \A q \in Ops : blk'[q] # c
                 PROVE  home[c] = cache[c]
      BY <1>4, <2>a, Zenon DEF CacheInv, log_append, disk
    <3>1. c \notin Logged(lh) /\ c # blk[o] BY <2>c, Zenon
    <3>2. \A q \in Ops : blk[q] # c
      BY <3>1, <1>4, <2>a, Zenon DEF log_append, IInv, TypeOK
    <3> QED BY <3>1, <3>2, <1>4, <2>a, Zenon DEF IInv, CacheInv, log_append
  <2>8. StageInv'
    BY <1>4, <2>a, Zenon
       DEF IInv, TypeOK, StageInv, Copied, Installed, log_append, disk,
           CommitPC, InOp, PC
  <2> QED BY <2>1, <2>2, <2>3, <2>4, <2>5, <2>6, <2>7, <2>8, Zenon DEF IInv
<1>5. CASE end_op(o)
  <2>0. CountInv /\ mode = "up" /\ pc[o] \in InOp
    BY <1>5, Zenon DEF IInv, end_op, InOp
  <2>a. /\ outstanding \in Nat \ {0} /\ ~committing
        /\ \A q \in Ops : pc[q] \notin CommitPC BY <2>0, DuringCall, Zenon
  <2>b. /\ outstanding' = outstanding - 1 /\ mode' = "up"
        /\ wrote' = [wrote EXCEPT ![o] = {}]
        /\ lh' = lh /\ blk' = blk /\ tail' = tail /\ cache' = cache
        /\ home' = home /\ logd' = logd /\ head' = head
    BY <1>5, <2>a, Zenon DEF end_op, disk
  <2>c. \/ /\ outstanding' = 0 /\ committing' = TRUE
           /\ pc' = [pc EXCEPT ![o] = "commit"]
        \/ /\ outstanding' # 0 /\ committing' = FALSE
           /\ pc' = [WakeLog(pc) EXCEPT ![o] = "idle"]
    BY <1>5, <2>a DEF end_op
  <2>d. pc' \in [Ops -> PC]
    BY <2>c, Zenon DEF IInv, TypeOK, PC, CommitPC, WakeLog
  <2>1. TypeOK'
    <3>0. committing' \in BOOLEAN BY <2>c, Zenon
    <3>1. outstanding' \in Nat BY <2>a, <2>b
    <3>2. wrote' \in [Ops -> SUBSET Block] BY <2>b, Zenon DEF IInv, TypeOK
    <3> QED BY <2>b, <2>d, <3>0, <3>1, <3>2, Zenon DEF IInv, TypeOK
  <2>2. CountInv'
    <3>1. {q \in Ops : pc'[q] \in InOp} = Calls \ {o} /\ o \in Calls
      BY <2>c, <2>0, Zenon DEF IInv, TypeOK, InOp, CommitPC, PC, Calls, WakeLog
    <3>2. outstanding = Cardinality(Calls)
      BY <2>0, Zenon DEF CountInv, CommitExcludesCalls, Calls
    <3>3. outstanding' = Cardinality({q \in Ops : pc'[q] \in InOp})
      BY <3>1, <3>2, <2>b, CallsFinite, FS_RemoveElement, Zenon
    <3>4. \A q \in Ops : pc'[q] \in CommitPC <=> (committing' /\ q = o)
      BY <2>a, <2>c, Zenon DEF IInv, TypeOK, InOp, CommitPC, WakeLog
    <3> QED BY <3>3, <3>4, <2>b, <2>c, Zenon DEF CountInv, CommitExcludesCalls
  <2>3. BlkInv'
    BY <1>5, <2>a, LogAssumption, Zenon
       DEF IInv, TypeOK, BlkInv, end_op, disk, WakeLog, CommitPC, InOp, PC
  <2>4. LhInv'
    BY <1>5, <2>a, Zenon DEF IInv, LhInv, NoDup, end_op, disk, WakeLog
  <2>5. HeadInv'
    BY <1>5, <2>a, Zenon DEF IInv, HeadInv, NoDup, end_op, disk, WakeLog
  <2>6. RecoverInv'
    BY <1>5, <2>a, Zenon DEF IInv, RecoverInv, end_op, disk, WakeLog
  <2>7. CacheInv'
    BY <1>5, <2>a, Zenon DEF IInv, TypeOK, CacheInv, Logged, end_op, disk, WakeLog
  <2>8. StageInv'
    BY <1>5, <2>a, ZenonT(60)
       DEF IInv, TypeOK, StageInv, Copied, Installed, end_op, disk, WakeLog,
           CommitPC, InOp, PC
  <2> QED BY <2>1, <2>2, <2>3, <2>4, <2>5, <2>6, <2>7, <2>8, Zenon DEF IInv
<1>6. CASE commit(o)
  <2>0. CountInv /\ mode = "up" /\ pc[o] \in CommitPC
    BY <1>6, Zenon DEF IInv, commit, CommitPC
  <2>a. /\ committing /\ outstanding = 0 /\ (\A q \in Ops : pc[q] \notin InOp)
        /\ \A q \in Ops : pc[q] \in CommitPC => q = o BY <2>0, DuringCommit, Zenon
  <2>1. TypeOK'
    BY <1>6, <2>a, LogAssumption
       DEF IInv, TypeOK, commit, disk, CommitPC, InOp, PC
  <2>2. CountInv'
    BY <1>6, <2>a, SameCount, Zenon DEF IInv, TypeOK, commit, disk, CommitPC, InOp, PC
  <2>3. BlkInv'
    BY <1>6, <2>a, LogAssumption, Zenon
       DEF IInv, TypeOK, BlkInv, commit, disk, CommitPC, InOp, PC
  <2>4. LhInv'
    BY <1>6, <2>a, Zenon DEF IInv, LhInv, NoDup, commit, disk
  <2>5. HeadInv'
    BY <1>6, <2>a, Zenon DEF IInv, HeadInv, NoDup, commit, disk
  <2>6. RecoverInv'
    BY <1>6, <2>a, Zenon DEF IInv, RecoverInv, commit, disk
  <2>7. CacheInv'
    BY <1>6, <2>a, Zenon DEF IInv, TypeOK, CacheInv, Logged, commit, disk
  <2>8. StageInv'
    BY <1>6, <2>a
       DEF IInv, TypeOK, StageInv, Copied, Installed, commit, disk, CommitPC,
           InOp, PC
  <2> QED BY <2>1, <2>2, <2>3, <2>4, <2>5, <2>6, <2>7, <2>8, Zenon DEF IInv
<1>7. CASE write_log(o)
  <2>b. /\ mode = "up" /\ mode' = "up" /\ pc[o] = "write_log"
        /\ tail \in LogBlocks /\ tail \in 1..Len(lh)
        /\ logd' = [logd EXCEPT ![tail] = cache[lh[tail]]]
        /\ \/ tail = Len(lh) /\ tail' = 1 /\ pc' = [pc EXCEPT ![o] = "write_head"]
           \/ tail # Len(lh) /\ tail' = tail + 1 /\ pc' = pc
        /\ UNCHANGED <<home, cache, head, lh, outstanding, committing, wrote, blk, mode>>
    BY <1>7, WritesLog, Zenon
  <2>0. CountInv /\ pc[o] \in CommitPC BY <2>b, Zenon DEF IInv, CommitPC
  <2>a. /\ committing /\ outstanding = 0 /\ (\A q \in Ops : pc[q] \notin InOp)
        /\ \A q \in Ops : pc[q] \in CommitPC => q = o BY <2>0, <2>b, DuringCommit, Zenon
  <2>1. TypeOK'
    <3>1. lh \in Seq(Block) BY Zenon DEF IInv, TypeOK
    <3>2. cache[lh[tail]] \in Val BY <2>b, <3>1 DEF IInv, TypeOK
    <3>3. logd' \in [LogBlocks -> Val] BY <3>2, <2>b, Zenon DEF IInv, TypeOK
    <3>4. tail' \in Nat \ {0} BY <3>1, <2>b
    <3>5. pc' \in [Ops -> PC] BY <2>b, SMTT(60) DEF IInv, TypeOK, PC, CommitPC
    <3> QED BY <3>1, <3>3, <3>4, <3>5, <2>a, <2>b, Zenon DEF IInv, TypeOK
  <2>2. CountInv'
    BY <2>a, <2>b, SameCount, Zenon DEF IInv, TypeOK, CommitPC, InOp, PC
  <2>3. BlkInv'
    BY <2>a, <2>b, LogAssumption, Zenon DEF IInv, TypeOK, BlkInv, CommitPC, InOp, PC
  <2>4. LhInv'
    BY <2>b, Zenon DEF IInv, LhInv, NoDup
  <2>5. HeadInv'
    BY <2>b, Zenon DEF IInv, HeadInv, NoDup
  <2>6. RecoverInv'
    BY <2>b, Zenon DEF IInv, RecoverInv
  <2>7. CacheInv'
    BY <2>b, Zenon DEF IInv, CacheInv, Logged
  <2>8. StageInv'
    BY <2>a, <2>b DEF IInv, TypeOK, StageInv, Copied, Installed, CommitPC, InOp, PC
  <2> QED BY <2>1, <2>2, <2>3, <2>4, <2>5, <2>6, <2>7, <2>8, Zenon DEF IInv
<1>8. CASE write_head(o)
  <2>0. CountInv /\ mode = "up" /\ pc[o] \in CommitPC
    BY <1>8, Zenon DEF IInv, write_head, CommitPC
  <2>a. /\ committing /\ outstanding = 0 /\ (\A q \in Ops : pc[q] \notin InOp)
        /\ \A q \in Ops : pc[q] \in CommitPC => q = o BY <2>0, DuringCommit, Zenon
  <2>1. TypeOK'
    BY <1>8, <2>a, LogAssumption, Zenon
       DEF IInv, TypeOK, write_head, CommitPC, InOp, PC
  <2>2. CountInv'
    BY <1>8, <2>a, SameCount, Zenon DEF IInv, TypeOK, write_head, CommitPC, InOp, PC
  <2>3. BlkInv'
    BY <1>8, <2>a, LogAssumption, Zenon
       DEF IInv, TypeOK, BlkInv, write_head, CommitPC, InOp, PC
  <2>4. LhInv'
    BY <1>8, <2>a, Zenon DEF IInv, LhInv, NoDup, write_head
  <2>5. HeadInv'
    <3>1. head' = lh /\ logd' = logd /\ Copied(Len(lh)) /\ NoDup(lh)
      BY <1>8, <2>a, Zenon DEF IInv, LhInv, StageInv, write_head
    <3> QED BY <3>1, Zenon DEF HeadInv, NoDup, Copied
  <2>6. RecoverInv'
    BY <1>8, <2>a, Zenon DEF IInv, RecoverInv, write_head
  <2>7. CacheInv'
    BY <1>8, <2>a, Zenon DEF IInv, TypeOK, CacheInv, Logged, write_head
  <2>8. StageInv'
    BY <1>8, <2>a
       DEF IInv, TypeOK, StageInv, Copied, Installed, write_head, CommitPC,
           InOp, PC
  <2> QED BY <2>1, <2>2, <2>3, <2>4, <2>5, <2>6, <2>7, <2>8, Zenon DEF IInv
<1>9. CASE install(o)
  <2>0. CountInv /\ mode = "up" /\ pc[o] \in CommitPC
    BY <1>9, Zenon DEF IInv, install, CommitPC
  <2>a. /\ committing /\ outstanding = 0 /\ (\A q \in Ops : pc[q] \notin InOp)
        /\ \A q \in Ops : pc[q] \in CommitPC => q = o BY <2>0, DuringCommit, Zenon
  <2>b. tail \in 1..Len(lh) /\ lh \in Seq(Block) /\ tail \in LogBlocks
    BY <1>9, <2>a, Zenon DEF IInv, TypeOK, StageInv, install, Copied
  <2>c. /\ home' = [home EXCEPT ![lh[tail]] = logd[tail]]
        /\ cache' = [cache EXCEPT ![lh[tail]] = logd[tail]]
    BY <1>9, <2>b, InstallsLog, Zenon DEF install
  <2>1. TypeOK'
    <3>2. logd[tail] \in Val /\ lh[tail] \in Block BY <2>b DEF IInv, TypeOK
    <3>3. home' \in [Block -> Val] /\ cache' \in [Block -> Val]
      BY <3>2, <2>c, Zenon DEF IInv, TypeOK
    <3>4. tail' \in Nat \ {0} /\ pc' \in [Ops -> PC]
      BY <2>b, <1>9, <2>a, SMTT(60) DEF IInv, TypeOK, install, PC, CommitPC
    <3> QED BY <3>3, <3>4, <1>9, <2>a, Zenon DEF IInv, TypeOK, install
  <2>2. CountInv'
    BY <1>9, <2>a, SameCount, Zenon
       DEF IInv, TypeOK, install, CommitPC, InOp, PC
  <2>3. BlkInv'
    BY <1>9, <2>a, LogAssumption, Zenon
       DEF IInv, TypeOK, BlkInv, install, CommitPC, InOp, PC
  <2>4. LhInv'
    BY <1>9, <2>a, Zenon DEF IInv, LhInv, NoDup, install
  <2>5. HeadInv'
    BY <1>9, <2>a, Zenon DEF IInv, HeadInv, NoDup, install
  <2>6. RecoverInv'
    BY <1>9, <2>a, Zenon DEF IInv, RecoverInv, install
  <2>7. CacheInv'
    BY <1>9, <2>a, <2>b, <2>c, Zenon DEF IInv, TypeOK, CacheInv, Logged, install
  <2>8. StageInv'
    BY <1>9, <2>a, <2>b, <2>c
       DEF IInv, TypeOK, StageInv, Copied, Installed, install,
           CommitPC, InOp, PC
  <2> QED BY <2>1, <2>2, <2>3, <2>4, <2>5, <2>6, <2>7, <2>8, Zenon DEF IInv
<1>10. CASE erase(o)
  <2>0. CountInv /\ mode = "up" /\ pc[o] \in CommitPC
    BY <1>10, Zenon DEF IInv, erase, CommitPC
  <2>a. /\ committing /\ outstanding = 0 /\ (\A q \in Ops : pc[q] \notin InOp)
        /\ \A q \in Ops : pc[q] \in CommitPC => q = o BY <2>0, DuringCommit, Zenon
  <2>1. TypeOK'
    BY <1>10, <2>a, LogAssumption DEF IInv, TypeOK, erase, CommitPC, InOp, PC
  <2>2. CountInv'
    BY <1>10, <2>a, SameCount, Zenon DEF IInv, TypeOK, erase, CommitPC, InOp, PC
  <2>3. BlkInv'
    BY <1>10, <2>a, LogAssumption, Zenon
       DEF IInv, TypeOK, BlkInv, erase, CommitPC, InOp, PC
  <2>4. LhInv'
    BY <1>10, <2>a DEF IInv, LhInv, NoDup, erase
  <2>5. HeadInv'
    BY <1>10, <2>a DEF IInv, HeadInv, NoDup, erase
  <2>6. RecoverInv'
    BY <1>10, <2>a, Zenon DEF IInv, RecoverInv, erase
  <2>7. CacheInv'
    <3>1. Installed(Len(lh)) BY <1>10, <2>a, Zenon DEF IInv, StageInv, erase
    <3>2. \A q \in Ops : blk[q] = NoBlock
      BY <1>10, <2>a, Zenon DEF IInv, BlkInv, InOp, erase
    <3>3. \A c \in Block : home[c] = cache[c]
      <4> TAKE c \in Block
      <4>1. CASE c \in Logged(lh) BY <3>1, <4>1, Zenon DEF Logged, Installed
      <4>2. CASE c \notin Logged(lh)
        BY <3>2, <4>2, <1>10, <2>a, LogAssumption, Zenon DEF IInv, CacheInv, erase
      <4> QED BY <4>1, <4>2, Zenon
    <3> QED BY <3>3, <1>10, <2>a, Zenon DEF CacheInv, erase
  <2>8. StageInv'
    BY <1>10, <2>a, Zenon
       DEF IInv, TypeOK, StageInv, Copied, Installed, erase, CommitPC, InOp, PC
  <2> QED BY <2>1, <2>2, <2>3, <2>4, <2>5, <2>6, <2>7, <2>8, Zenon DEF IInv
<1>11. CASE finish(o)
  <2>0. CountInv /\ mode = "up" /\ pc[o] \in CommitPC
    BY <1>11, Zenon DEF IInv, finish, CommitPC
  <2>a. /\ committing /\ outstanding = 0 /\ (\A q \in Ops : pc[q] \notin InOp)
        /\ \A q \in Ops : pc[q] \in CommitPC => q = o BY <2>0, DuringCommit, Zenon
  <2>1. TypeOK'
    BY <1>11, <2>a, LogAssumption, Zenon
       DEF IInv, TypeOK, finish, disk, WakeLog, CommitPC, InOp, PC
  <2>2. CountInv'
    <3>1. {q \in Ops : pc'[q] \in InOp} = Calls
      BY <1>11, <2>a, Zenon DEF IInv, TypeOK, finish, WakeLog, InOp, CommitPC, Calls
    <3>2. outstanding' = Cardinality({q \in Ops : pc'[q] \in InOp})
      BY <3>1, <1>11, <2>a, Zenon
         DEF finish, IInv, CountInv, CommitExcludesCalls, Calls
    <3>3. \A q \in Ops : pc'[q] \notin CommitPC
      BY <1>11, <2>a, Zenon DEF IInv, TypeOK, finish, WakeLog, CommitPC
    <3> QED
      BY <3>2, <3>3, <1>11, <2>a, Zenon DEF finish, CountInv, CommitExcludesCalls
  <2>3. BlkInv'
    BY <1>11, <2>a, LogAssumption, Zenon
       DEF IInv, TypeOK, BlkInv, finish, disk, WakeLog, CommitPC, InOp, PC
  <2>4. LhInv'
    BY <1>11, <2>a, Zenon DEF IInv, LhInv, NoDup, finish, disk, WakeLog
  <2>5. HeadInv'
    BY <1>11, <2>a, Zenon DEF IInv, HeadInv, NoDup, finish, disk, WakeLog
  <2>6. RecoverInv'
    BY <1>11, <2>a, Zenon DEF IInv, RecoverInv, finish, disk, WakeLog
  <2>7. CacheInv'
    BY <1>11, <2>a, Zenon DEF IInv, TypeOK, CacheInv, Logged, finish, disk, WakeLog
  <2>8. StageInv'
    BY <1>11, <2>a, Zenon
       DEF IInv, TypeOK, StageInv, Copied, Installed, finish, disk, WakeLog,
           CommitPC, InOp, PC
  <2> QED BY <2>1, <2>2, <2>3, <2>4, <2>5, <2>6, <2>7, <2>8, Zenon DEF IInv
<1> QED BY <1>2, <1>4, <1>5, <1>6, <1>7, <1>8, <1>9, <1>10, <1>11, Zenon DEF Step

(* A crash preserves it: what recovery needs is on the disk.               *)
LEMMA CrashInv == IInv /\ crash => IInv'
<1> SUFFICES ASSUME IInv, crash PROVE IInv' BY Zenon
<1>1. TypeOK'
  <2>1. /\ pc' = [o \in Ops |-> "idle"] /\ wrote' = [o \in Ops |-> {}]
        /\ blk' = [o \in Ops |-> NoBlock] /\ mode' = "recover"
        /\ outstanding' = 0 /\ tail' = 1 /\ committing' = FALSE
        /\ lh' = head /\ cache' = home
        /\ home' = home /\ logd' = logd /\ head' = head
    BY Zenon DEF crash, disk
  <2>2. /\ pc' \in [Ops -> PC] /\ wrote' \in [Ops -> SUBSET Block]
        /\ blk' \in [Ops -> Block \cup {NoBlock}]
    BY <2>1, Zenon DEF PC
  <2>3. outstanding' \in Nat /\ tail' \in Nat \ {0} BY <2>1
  <2> QED BY <2>1, <2>2, <2>3, Zenon DEF IInv, TypeOK
<1>2. HeadInv' /\ LhInv' BY Zenon DEF IInv, HeadInv, LhInv, NoDup, crash, disk
<1>3. RecoverInv' BY DEF RecoverInv, crash, disk
<1>4. CountInv' /\ BlkInv' /\ CacheInv' /\ StageInv'
  BY Zenon DEF CountInv, CommitExcludesCalls, BlkInv, CacheInv, StageInv, crash
<1> QED BY <1>1, <1>2, <1>3, <1>4, Zenon DEF IInv

(* So does an iteration of install_trans during recovery.                  *)
LEMMA RecoverInstallInv == IInv /\ recover_install => IInv'
<1> SUFFICES ASSUME IInv, recover_install PROVE IInv' BY Zenon
<1>1. /\ lh = head /\ cache = home /\ tail \in 1..Len(lh) /\ lh \in Seq(Block)
      /\ tail \in LogBlocks /\ NoDup(lh) /\ home \in [Block -> Val]
  BY DEF IInv, TypeOK, RecoverInv, HeadInv, LhInv, recover_install
<1>2. logd[tail] \in Val /\ lh[tail] \in Block BY <1>1 DEF IInv, TypeOK
<1>3. /\ home' \in [Block -> Val] /\ cache' = home' /\ tail' = tail + 1
      /\ home' = [home EXCEPT ![lh[tail]] = logd[tail]]
      /\ lh' = lh /\ logd' = logd /\ head' = head /\ mode' = "recover"
  BY <1>1, <1>2, InstallsLog, Zenon DEF recover_install
<1>4. TypeOK' BY <1>1, <1>3 DEF IInv, TypeOK, recover_install
<1>5. HeadInv' /\ LhInv' BY <1>3, Zenon DEF IInv, HeadInv, LhInv, NoDup
<1>6. RecoverInv'
  <2>1. \A k \in 1..Len(lh) : k < tail + 1 => home'[lh[k]] = logd[k]
    <3> TAKE k \in 1..Len(lh)
    <3>1. CASE k = tail BY <1>1, <1>2, <1>3, <3>1, Zenon
    <3>2. CASE k < tail
      <4>1. lh[k] # lh[tail] /\ lh[k] \in Block BY <1>1, <3>2 DEF NoDup
      <4>2. home[lh[k]] = logd[k] BY <3>2, Zenon DEF IInv, RecoverInv, recover_install
      <4> QED BY <4>1, <4>2, <1>1, <1>3, Zenon
    <3> QED BY <3>1, <3>2, <1>1
  <2> QED BY <2>1, <1>1, <1>3 DEF IInv, RecoverInv, recover_install
<1>7. CountInv' /\ BlkInv' /\ CacheInv' /\ StageInv'
  BY <1>3, Zenon DEF CountInv, CommitExcludesCalls, BlkInv, CacheInv, StageInv
<1> QED BY <1>4, <1>5, <1>6, <1>7, Zenon DEF IInv

(* And the end of recovery, which starts the system with an empty log.     *)
LEMMA RecoverEraseInv == IInv /\ recover_erase => IInv'
<1> SUFFICES ASSUME IInv, recover_erase PROVE IInv' BY Zenon
<1>1. TypeOK' BY DEF IInv, TypeOK, recover_erase
<1>2. HeadInv' /\ LhInv' /\ RecoverInv'
  BY DEF HeadInv, LhInv, RecoverInv, NoDup, recover_erase
<1>3. \A o \in Ops : pc'[o] = "idle" /\ blk'[o] = NoBlock
  BY Zenon DEF IInv, RecoverInv, recover_erase
<1>4. CountInv'
  <2>1. {o \in Ops : pc'[o] \in InOp} = {} BY <1>3, Zenon DEF InOp
  <2>2. outstanding' = 0 /\ committing' = FALSE /\ mode' = "up"
    BY Zenon DEF IInv, TypeOK, RecoverInv, recover_erase
  <2> QED BY <2>1, <2>2, <1>3, FS_EmptySet, Zenon
          DEF CountInv, CommitExcludesCalls, CommitPC
<1>5. BlkInv' /\ CacheInv' /\ StageInv'
  BY <1>3, Zenon DEF IInv, RecoverInv, BlkInv, CacheInv, StageInv, recover_erase
<1> QED BY <1>1, <1>2, <1>4, <1>5, Zenon DEF IInv

(* All steps.                                                              *)
LEMMA NextInv == IInv /\ LogFits /\ [Next]_vars => IInv'
<1> SUFFICES ASSUME IInv, LogFits, [Next]_vars PROVE IInv' BY Zenon
<1>1. CASE UNCHANGED vars
  <2>1. TypeOK' /\ CountInv'
    BY <1>1, Zenon DEF IInv, vars, TypeOK, CountInv, CommitExcludesCalls
  <2>2. BlkInv' /\ LhInv' /\ HeadInv' /\ RecoverInv'
    BY <1>1, Zenon DEF IInv, vars, BlkInv, LhInv, HeadInv, RecoverInv, NoDup
  <2>3. CacheInv' /\ StageInv'
    BY <1>1 DEF IInv, vars, CacheInv, StageInv, Copied, Installed, Logged
  <2> QED BY <2>1, <2>2, <2>3, Zenon DEF IInv
<1>2. ASSUME NEW o \in Ops, begin_op(o) \/ Step(o) PROVE IInv'
  BY <1>2, OpInv, Zenon
<1>3. ASSUME NEW o \in Ops, NEW b \in Block, NEW v \in Val, log_write(o, b, v)
      PROVE  IInv'
  BY <1>3, WriteInv, Zenon
<1> QED
  BY <1>1, <1>2, <1>3, CrashInv, RecoverInstallInv, RecoverEraseInv, Zenon DEF Next

-----------------------------------------------------------------------------
-----------------------------------------------------------------------------
(* At first nobody sleeps.                                                 *)
LEMMA SleepersInit == Init => SleepersHaveWaker
BY Zenon DEF Init, SleepersHaveWaker

(* Admitting another call makes the space still needed larger.             *)
LEMMA NeedGrows ==
  ASSUME NEW x \in Nat, NEW m \in Nat
  PROVE  ((x + 1) + 1) * m >= (x + 1) * m
OBVIOUS

(* Whoever goes to sleep in begin_op has a waker, and a step that removes  *)
(* the reason to sleep wakes the sleepers.                                 *)
LEMMA SleepersNext ==
  IInv /\ SleepersHaveWaker /\ [Next]_vars => SleepersHaveWaker'
<1> SUFFICES ASSUME IInv, SleepersHaveWaker, [Next]_vars,
                    NEW q \in Ops, mode' = "up", pc'[q] = "sleep"
             PROVE  \/ committing'
                    \/ /\ outstanding' > 0
                       /\ Len(lh') + (outstanding' + 1) * MAXOPBLOCKS > LOGSIZE
  BY Zenon DEF SleepersHaveWaker
<1> DEFINE Need(x) == (x + 1) * MAXOPBLOCKS
<1>1. /\ outstanding \in Nat /\ MAXOPBLOCKS \in Nat /\ LOGSIZE \in Nat
      /\ Len(lh) \in Nat /\ MAXOPBLOCKS <= LOGSIZE /\ lh \in Seq(Block)
      /\ committing \in BOOLEAN /\ pc \in [Ops -> PC]
  BY LogAssumption DEF IInv, TypeOK
<1>2. Need(outstanding) \in Nat /\ Need(outstanding + 1) \in Nat BY <1>1
<1>3. Need(outstanding + 1) >= Need(outstanding)
  BY <1>1, NeedGrows, Zenon
<1>4. Need(0) = MAXOPBLOCKS BY <1>1
<1> HIDE DEF Need
<1>5. SUFFICES \/ committing'
               \/ outstanding' > 0 /\ Len(lh') + Need(outstanding') > LOGSIZE
  BY Zenon DEF Need
<1>6. mode = "up" /\ pc[q] = "sleep" =>
        \/ committing
        \/ outstanding > 0 /\ Len(lh) + Need(outstanding) > LOGSIZE
  BY Zenon DEF SleepersHaveWaker, Need
<1>7. CASE UNCHANGED vars BY <1>6, <1>7, Zenon DEF vars
<1>8. ASSUME NEW o \in Ops, begin_op(o) PROVE <1>5!1
  <2>1. mode = "up" /\ lh' = lh /\ committing' = committing
    BY <1>8, Zenon DEF begin_op, MustWait
  <2>2. CASE committing \/ Len(lh) + Need(outstanding) > LOGSIZE
    <3>1. outstanding' = outstanding BY <1>8, <2>2, Zenon DEF begin_op, MustWait, Need
    <3>2. outstanding = 0 /\ ~committing => lh = << >>
      BY <2>1, Zenon DEF IInv, StageInv
    <3>3. outstanding = 0 /\ ~committing => FALSE
      BY <3>2, <2>2, <1>1, <1>4
    <3> QED BY <2>1, <2>2, <3>1, <3>3, <1>1
  <2>3. CASE ~(committing \/ Len(lh) + Need(outstanding) > LOGSIZE)
    <3>1. outstanding' = outstanding + 1 /\ pc' = [pc EXCEPT ![o] = "op"]
      BY <1>8, <2>3, Zenon DEF begin_op, MustWait, Need
    <3>2. pc[q] = "sleep" BY <3>1, <1>1, Zenon
    <3> QED BY <3>1, <3>2, <2>1, <2>3, <1>6, <1>1, <1>2, <1>3, Zenon
  <2> QED BY <2>2, <2>3, Zenon
<1>9. ASSUME NEW o \in Ops, NEW b \in Block, NEW v \in Val, log_write(o, b, v)
      PROVE  <1>5!1
  BY <1>9, <1>6, <1>1, Zenon DEF log_write
<1>10. ASSUME NEW o \in Ops, log_append(o) PROVE <1>5!1
  <2>1. /\ mode = "up" /\ pc[q] = "sleep" /\ committing' = committing
        /\ outstanding' = outstanding
    BY <1>10, <1>1, Zenon DEF log_append
  <2>2. blk[o] \in Block BY <1>10, Zenon DEF log_append, IInv, BlkInv
  <2>3. Len(lh') \in Nat /\ Len(lh') >= Len(lh)
    BY <1>10, <1>1, <2>2 DEF log_append
  <2> QED BY <2>1, <2>3, <1>6, <1>1, <1>2
<1>11. ASSUME NEW o \in Ops, end_op(o) PROVE <1>5!1
  <2>1. CASE pc' = [WakeLog(pc) EXCEPT ![o] = "idle"]
    BY <2>1, <1>1, Zenon DEF WakeLog
  <2>2. CASE committing' = TRUE BY <2>2, Zenon
  <2> QED BY <1>11, <2>1, <2>2, Zenon DEF end_op
<1>12. ASSUME NEW o \in Ops, \/ commit(o) \/ write_log(o) \/ write_head(o)
                             \/ install(o) \/ erase(o)
       PROVE  <1>5!1
  <2>1. mode = "up" /\ pc[o] \in CommitPC /\ committing' = committing
    BY <1>12, Zenon DEF commit, write_log, write_head, install, erase, CommitPC
  <2> QED BY <2>1, DuringCommit, Zenon DEF IInv
<1>13. ASSUME NEW o \in Ops, finish(o) PROVE <1>5!1
  BY <1>13, <1>1, Zenon DEF finish, WakeLog
<1>14. CASE crash \/ recover_install BY <1>14, Zenon DEF crash, recover_install
<1>15. CASE recover_erase
  BY <1>15, Zenon DEF recover_erase, IInv, RecoverInv
<1> QED BY <1>7, <1>8, <1>9, <1>10, <1>11, <1>12, <1>13, <1>14, <1>15, Zenon
        DEF Next, Step

-----------------------------------------------------------------------------
(* Refinement.  Overlay(h, l, d) is the contents of disk d once the log l  *)
(* with header h is installed.                                             *)
Overlay(h, l, d) ==
  [b \in Block |-> IF b \in Logged(h) THEN l[Slot(h, b)] ELSE d[b]]

(* The overlay is F when the logged blocks agree with F in the log and the *)
(* other blocks at home.                                                   *)
LEMMA OverlayIs ==
  ASSUME NEW h \in Seq(Block), NoDup(h), NEW l, NEW d, NEW F \in [Block -> Val],
         \A k \in 1..Len(h) : l[k] = F[h[k]],
         \A b \in Block : b \notin Logged(h) => d[b] = F[b]
  PROVE  Overlay(h, l, d) = F
<1>1. ASSUME NEW b \in Block
      PROVE  (IF b \in Logged(h) THEN l[Slot(h, b)] ELSE d[b]) = F[b]
  <2>1. CASE b \in Logged(h)
    <3>1. PICK k \in 1..Len(h) : h[k] = b BY <2>1, Zenon DEF Logged
    <3>2. Slot(h, b) = k BY <3>1, SlotOf, Zenon
    <3> QED BY <2>1, <3>1, <3>2, Zenon
  <2> QED BY <2>1, Zenon
<1> QED BY <1>1, Zenon DEF Overlay

(* An empty log changes nothing.                                           *)
LEMMA OverlayEmpty ==
  ASSUME NEW l, NEW d \in [Block -> Val]
  PROVE  Overlay(<< >>, l, d) = d
BY DEF Overlay, Logged

(* The home contents of logged blocks do not matter.                       *)
LEMMA OverlaySame ==
  ASSUME NEW h, NEW l, NEW d, NEW e,
         \A b \in Block : b \notin Logged(h) => e[b] = d[b]
  PROVE  Overlay(h, l, e) = Overlay(h, l, d)
BY Zenon DEF Overlay

(* The log after mkfs maps to an initial abstract disk.                    *)
LEMMA RefInit == Init => AD!Init
<1> SUFFICES ASSUME Init PROVE AD!Init BY Zenon
<1>1. Recovered = home BY DEF Init, Recovered, Logged
<1>2. {o \in Ops : pc[o] \in InOp} = {} BY Zenon DEF Init, InOp
<1> QED BY <1>1, <1>2, Zenon DEF Init, AD!Init

(* What the running system sees.                                           *)
View == IF mode = "recover" THEN Recovered ELSE cache

(* The refinement mapping in the terms used below, now and after a step.   *)
LEMMA Mapping ==
  /\ Recovered = Overlay(head, logd, home)
  /\ Recovered' = Overlay(head', logd', home')
  /\ mode = "up" => View = cache
  /\ mode' # "recover" => View' = cache'
  /\ mode = "recover" => View = Recovered
  /\ mode' = "recover" => View' = Recovered'
BY Zenon DEF Recovered, Overlay, View

(* A step that keeps the three abstract values is a stuttering step.       *)
LEMMA Stutter ==
  ASSUME Recovered' = Recovered, View' = View, Calls' = Calls
  PROVE  [AD!Next]_(AD!vars)
BY Zenon DEF AD!vars, View, Calls

(* Steps of a call.                                                        *)
LEMMA RefCall ==
  ASSUME IInv, NEW o \in Ops,
         begin_op(o) \/ log_append(o) \/ end_op(o) \/ commit(o) \/ finish(o)
  PROVE  [AD!Next]_(AD!vars)
<1>1. /\ mode = "up" /\ mode' # "recover" /\ cache' = cache
      /\ home' = home /\ logd' = logd /\ head' = head
  BY Zenon DEF begin_op, log_append, end_op, commit, finish, disk
<1>2. Recovered' = Recovered /\ View' = View BY <1>1, Mapping, Zenon
<1>3. CASE Calls' = Calls BY <1>2, <1>3, Stutter, Zenon
<1>4. CASE o \notin Calls /\ Calls' = Calls \cup {o}
  <2>1. AD!Begin(o) BY <1>2, <1>4, Zenon DEF AD!Begin, View, Calls
  <2> QED BY <2>1, Zenon DEF AD!Next
<1>5. CASE o \in Calls /\ Calls' = Calls \ {o}
  <2>1. AD!End(o) BY <1>2, <1>5, Zenon DEF AD!End, View, Calls
  <2> QED BY <2>1, Zenon DEF AD!Next
<1>6. CASE begin_op(o)
  BY <1>3, <1>4, <1>6, Zenon DEF begin_op, IInv, TypeOK, Calls, InOp
<1>7. CASE log_append(o)
  BY <1>3, <1>7, Zenon DEF log_append, IInv, TypeOK, Calls, InOp
<1>8. CASE end_op(o)
  <2>1. o \in Calls /\ ~committing
    BY <1>8, DuringCall, Zenon DEF end_op, IInv, Calls, InOp
  <2>2. \A q \in Ops : q # o => (pc'[q] \in InOp <=> pc[q] \in InOp)
    BY <1>8, Zenon DEF end_op, WakeLog, IInv, TypeOK, InOp
  <2>3. pc'[o] \notin InOp
    BY <1>8, <2>1, Zenon DEF end_op, WakeLog, IInv, TypeOK, InOp
  <2>4. Calls' = Calls \ {o} BY <2>2, <2>3, Zenon DEF Calls
  <2> QED BY <1>5, <2>1, <2>4, Zenon
<1>9. CASE commit(o)
  BY <1>3, <1>9, Zenon DEF commit, IInv, TypeOK, Calls, InOp
<1>10. CASE finish(o)
  BY <1>3, <1>10, Zenon DEF finish, WakeLog, IInv, TypeOK, Calls, InOp
<1> QED BY <1>6, <1>7, <1>8, <1>9, <1>10, Zenon

(* A log_write is a write of the abstract disk.                            *)
LEMMA RefWrite ==
  ASSUME IInv, NEW o \in Ops, NEW b \in Block, NEW v \in Val, log_write(o, b, v)
  PROVE  [AD!Next]_(AD!vars)
<1>1. /\ mode = "up" /\ mode' # "recover" /\ cache' = [cache EXCEPT ![b] = v]
      /\ home' = home /\ logd' = logd /\ head' = head
  BY Zenon DEF log_write, disk
<1>2. Recovered' = Recovered /\ View' = [View EXCEPT ![b] = v]
  BY <1>1, Mapping, Zenon
<1>3. Calls' = Calls /\ Calls # {}
  BY Zenon DEF log_write, IInv, TypeOK, Calls, InOp
<1>4. AD!Write(b, v) BY <1>2, <1>3, Zenon DEF AD!Write, View, Calls
<1> QED BY <1>4, Zenon DEF AD!Next

(* The committer: only the first write_head changes the durable contents,  *)
(* and it makes them equal to the cache.                                   *)
LEMMA RefCommit ==
  ASSUME IInv, LogFits, NEW o \in Ops,
         write_log(o) \/ write_head(o) \/ install(o) \/ erase(o)
  PROVE  [AD!Next]_(AD!vars)
<1>1. /\ mode = "up" /\ mode' = "up" /\ pc[o] \in CommitPC
      /\ \A q \in Ops : pc'[q] \in InOp <=> pc[q] \in InOp
  BY Zenon DEF write_log, write_head, install, erase, CommitPC, InOp, IInv, TypeOK
<1>2. Calls' = Calls BY <1>1, Zenon DEF Calls
<1>3. /\ Calls = {} /\ \A q \in Ops : pc[q] \in CommitPC => q = o
      /\ \A q \in Ops : blk[q] = NoBlock
  BY <1>1, DuringCommit, Zenon DEF IInv, BlkInv, InOp
<1>4. /\ lh \in Seq(Block) /\ home \in [Block -> Val] /\ cache \in [Block -> Val]
      /\ NoDup(lh)
      /\ \A b \in Block : b \notin Logged(lh) => home[b] = cache[b]
  BY <1>1, <1>3, LogAssumption, Zenon DEF IInv, TypeOK, LhInv, CacheInv
<1>5. CASE write_log(o)
  <2>1. head = << >> /\ head' = << >> /\ home' = home /\ cache' = cache
    BY <1>1, <1>3, <1>5, WritesLog, Zenon DEF IInv, StageInv, CommitPC
  <2>2. Recovered' = Recovered
    BY <2>1, <1>4, Mapping, OverlayEmpty, Zenon
  <2> QED BY <2>1, <2>2, <1>1, <1>2, Mapping, Stutter, Zenon
<1>6. CASE write_head(o)
  <2>1. /\ head' = lh /\ home' = home /\ logd' = logd /\ cache' = cache
        /\ \A k \in 1..Len(lh) : logd[k] = cache[lh[k]]
    BY <1>1, <1>6, Zenon DEF write_head, IInv, StageInv, Copied
  <2>2. Recovered' = cache
    BY <2>1, <1>4, Mapping, OverlayIs
  <2>3. View = cache /\ View' = cache BY <2>1, <1>1, Mapping, Zenon
  <2>4. AD!Commit
    BY <2>2, <2>3, <1>2, <1>3, Zenon DEF AD!Commit, View, Calls
  <2> QED BY <2>4, Zenon DEF AD!Next
<1>7. CASE install(o)
  <2>0. tail \in LogBlocks BY <1>1, <1>7, Zenon DEF install, IInv, StageInv, Copied
  <2>1. /\ head = lh /\ tail \in 1..Len(lh) /\ logd[tail] = cache[lh[tail]]
        /\ head' = head /\ logd' = logd
        /\ home' = [home EXCEPT ![lh[tail]] = logd[tail]]
        /\ cache' = [cache EXCEPT ![lh[tail]] = logd[tail]]
    BY <1>1, <1>7, <2>0, InstallsLog, Zenon DEF install, IInv, StageInv, Copied
  <2>2. cache' = cache BY <2>1, <1>4, Zenon
  <2>3. Recovered' = Recovered
    <3>1. head[tail] \in Logged(head) BY <2>1, Zenon DEF Logged
    <3>2. \A b \in Block : b \notin Logged(head) => home'[b] = home[b]
      BY <2>1, <1>4, <3>1, Zenon
    <3>3. Overlay(head, logd, home') = Overlay(head, logd, home)
      BY <3>2, OverlaySame
    <3> QED BY <2>1, <3>3, Mapping, Zenon
  <2> QED BY <2>2, <2>3, <1>1, <1>2, Mapping, Stutter, Zenon
<1>8. CASE erase(o)
  <2>1. /\ head = lh /\ head' = << >> /\ home' = home /\ cache' = cache
        /\ \A k \in 1..Len(lh) : /\ logd[k] = cache[lh[k]]
                                 /\ home[lh[k]] = cache[lh[k]]
    BY <1>1, <1>8, Zenon DEF erase, IInv, StageInv, Copied, Installed
  <2>2. Recovered = home
    <3>1. \A k \in 1..Len(head) : logd[k] = home[head[k]] BY <2>1, Zenon
    <3> QED BY <3>1, <2>1, <1>4, Mapping, OverlayIs
  <2>3. Recovered' = home
    BY <2>1, <1>4, Mapping, OverlayEmpty, Zenon
  <2> QED BY <2>1, <2>2, <2>3, <1>1, <1>2, Mapping, Stutter, Zenon
<1> QED BY <1>5, <1>6, <1>7, <1>8, Zenon

(* A crash goes back to the durable contents, and recovery only completes  *)
(* what they already were.                                                 *)
LEMMA RefCrash ==
  ASSUME IInv, crash \/ recover_install \/ recover_erase
  PROVE  [AD!Next]_(AD!vars)
<1>1. CASE crash
  <2>1. /\ home' = home /\ logd' = logd /\ head' = head /\ mode' = "recover"
    BY <1>1, Zenon DEF crash, disk
  <2>2. Recovered' = Recovered /\ View' = Recovered BY <2>1, Mapping, Zenon
  <2>3. Calls' = {} BY <1>1, Zenon DEF crash, Calls, InOp
  <2>4. AD!Crash BY <2>2, <2>3, Zenon DEF AD!Crash, View, Calls
  <2> QED BY <2>4, Zenon DEF AD!Next
<1>2. CASE recover_install
  <2>0. tail \in LogBlocks BY <1>2 DEF recover_install, IInv, TypeOK, RecoverInv, HeadInv
  <2>3. home' = [home EXCEPT ![lh[tail]] = logd[tail]]
    BY <1>2, <2>0, InstallsLog, Zenon DEF recover_install
  <2>1. /\ head \in Seq(Block) /\ tail \in 1..Len(head) /\ head' = head
        /\ logd' = logd /\ home \in [Block -> Val]
        /\ home' = [home EXCEPT ![head[tail]] = logd[tail]]
        /\ mode = "recover" /\ mode' = "recover"
    BY <1>2, <2>3 DEF recover_install, IInv, TypeOK, RecoverInv
  <2>2. Recovered' = Recovered
    <3>1. head[tail] \in Logged(head) BY <2>1, Zenon DEF Logged
    <3>2. \A b \in Block : b \notin Logged(head) => home'[b] = home[b]
      BY <2>1, <3>1, Zenon
    <3>3. Overlay(head, logd, home') = Overlay(head, logd, home)
      BY <3>2, OverlaySame
    <3> QED BY <2>1, <3>3, Mapping, Zenon
  <2>4. Calls' = Calls BY <1>2, Zenon DEF recover_install, Calls
  <2> QED BY <2>1, <2>2, <2>4, Mapping, Stutter, Zenon
<1>3. CASE recover_erase
  <2>1. /\ head \in Seq(Block) /\ NoDup(head) /\ home \in [Block -> Val]
        /\ \A k \in 1..Len(head) : logd[k] = home[head[k]]
        /\ head' = << >> /\ home' = home /\ cache' = home
        /\ mode = "recover" /\ mode' = "up"
    BY <1>3 DEF recover_erase, IInv, TypeOK, RecoverInv, HeadInv
  <2>2. Recovered = home BY <2>1, Mapping, OverlayIs, Zenon
  <2>3. Recovered' = home BY <2>1, Mapping, OverlayEmpty, Zenon
  <2>4. Calls' = Calls BY <1>3, Zenon DEF recover_erase, Calls
  <2> QED BY <2>1, <2>2, <2>3, <2>4, Mapping, Stutter, Zenon
<1> QED BY <1>1, <1>2, <1>3, Zenon

(* Every step of the log is a step of the abstract disk or a stutter.      *)
LEMMA RefNext == IInv /\ LogFits /\ [Next]_vars => [AD!Next]_(AD!vars)
<1> SUFFICES ASSUME IInv, LogFits, [Next]_vars PROVE [AD!Next]_(AD!vars) BY Zenon
<1>1. CASE UNCHANGED vars
  <2>1. Recovered' = Recovered BY <1>1, Zenon DEF vars, Recovered
  <2>2. View' = View /\ Calls' = Calls BY <1>1, <2>1, Zenon DEF vars, View, Calls
  <2> QED BY <2>1, <2>2, Stutter, Zenon
<1>2. CASE Next
  BY <1>2, RefCall, RefWrite, RefCommit, RefCrash, Zenon DEF Next, Step
<1> QED BY <1>1, <1>2, Zenon

-----------------------------------------------------------------------------
(* The space of the log.  begin_op reserves MAXOPBLOCKS entries per call;  *)
(* Done are the writes of calls in progress that have their entry.         *)
Fits(s) == Len(s) <= LOGSIZE /\ Len(s) <= NLOG - 1
Done == {w \in Ops \X Block : pc[w[1]] \in InOp /\ w[2] \in wrote[w[1]] /\ w[2] \in Logged(lh)}

WroteInv == \A o \in Ops : IsFiniteSet(wrote[o]) /\ Cardinality(wrote[o]) <= OpBlocks
OwnInv ==
  mode \in {"up", "recover"} => \A o \in Ops :
    /\ pc[o] \notin InOp => wrote[o] = {}
    /\ pc[o] = "log_write" => blk[o] \in wrote[o]
ReserveInv == mode = "up" => Len(lh) + outstanding * MAXOPBLOCKS <= LOGSIZE + Cardinality(Done)
SpaceInv == WroteInv /\ OwnInv /\ ReserveInv /\ Fits(lh) /\ Fits(head)

(* What the sizes have to satisfy: the entries that calls of OpBlocks      *)
(* writes may use, one call's slack apart, are there on disk.  As LOGSIZE   *)
(* = NLOG = 30 and MAXOPBLOCKS = 10 (param.h, mkfs.c), they are when calls *)
(* write at most 9 of the 10 blocks they reserve.                          *)
Room == LOGSIZE + OpBlocks - MAXOPBLOCKS <= NLOG - 1

(* Calls that write at most n blocks each write at most n times their      *)
(* number together.                                                        *)
LEMMA WritesBound ==
  ASSUME NEW S, IsFiniteSet(S), NEW n \in Nat, NEW B, NEW f,
         \A o \in S : IsFiniteSet(f[o]) /\ Cardinality(f[o]) <= n,
         NEW D \in SUBSET (S \X B), \A w \in D : w[2] \in f[w[1]]
  PROVE  /\ IsFiniteSet(D) /\ Cardinality(D) \in Nat
         /\ Cardinality(D) <= Cardinality(S) * n
<1>1. \A o \in S : \E g \in [f[o] -> 1..n] : \A x, y \in f[o] : g[x] = g[y] => x = y
  <2> SUFFICES ASSUME NEW o \in S
               PROVE  \E g \in [f[o] -> 1..n] : \A x, y \in f[o] : g[x] = g[y] => x = y
    BY Zenon
  <2> DEFINE m == Cardinality(f[o])
  <2>1. m \in Nat /\ m <= n /\ ExistsBijection(1..m, f[o]) BY FS_CardinalityType, Zenon
  <2>2. PICK h \in Bijection(1..m, f[o]) : TRUE BY <2>1, Zenon DEF ExistsBijection
  <2>3. h \in [1..m -> f[o]] /\ \A x \in f[o] : \E j \in 1..m : h[j] = x
    BY <2>2, Zenon DEF Bijection, Surjection
  <2> HIDE DEF m
  <2> DEFINE g == [x \in f[o] |-> CHOOSE j \in 1..m : h[j] = x]
  <2>4. \A x \in f[o] : g[x] \in 1..m /\ h[g[x]] = x BY <2>3, Zenon
  <2>5. 1..m \subseteq 1..n BY <2>1
  <2>6. g \in [f[o] -> 1..n] BY <2>4, <2>5, Zenon
  <2>7. \A x, y \in f[o] : g[x] = g[y] => x = y BY <2>4, Zenon
  <2> QED BY <2>6, <2>7, Zenon
<1> DEFINE G == [o \in S |-> CHOOSE g \in [f[o] -> 1..n] : \A x, y \in f[o] : g[x] = g[y] => x = y]
<1>2. \A o \in S : G[o] \in [f[o] -> 1..n] /\ \A x, y \in f[o] : G[o][x] = G[o][y] => x = y BY <1>1, Zenon
<1> HIDE DEF G
<1> DEFINE F == [w \in D |-> <<w[1], G[w[1]][w[2]]>>]
<1>3. \A w \in D : w = <<w[1], w[2]>> /\ w[1] \in S /\ w[2] \in f[w[1]] OBVIOUS
<1>4. F \in [D -> S \X (1..n)] BY <1>2, <1>3
<1>5. \A v, w \in D : F[v] = F[w] => v = w
  <2> SUFFICES ASSUME NEW v \in D, NEW w \in D, F[v] = F[w] PROVE v = w BY Zenon
  <2>1. v[1] = w[1] /\ G[v[1]][v[2]] = G[w[1]][w[2]] BY Zenon
  <2>2. v[2] = w[2] BY <2>1, <1>2, <1>3
  <2> QED BY <2>1, <2>2, <1>3, Zenon
<1> HIDE DEF F
<1>6. F \in Injection(D, S \X (1..n)) BY <1>4, <1>5, Zenon DEF Injection, IsInjective
<1>7. IsFiniteSet(1..n) /\ Cardinality(1..n) = n BY FS_Interval
<1>8. IsFiniteSet(S \X (1..n)) /\ Cardinality(S \X (1..n)) = Cardinality(S) * n BY <1>7, FS_Product, Zenon
<1>9. IsFiniteSet(D) /\ Cardinality(D) <= Cardinality(S \X (1..n)) BY <1>6, <1>8, FS_Injection, Zenon
<1> QED BY <1>8, <1>9, FS_CardinalityType, Zenon

(* n calls that each keep m - k of their reservation                       *)
LEMMA Slack ==
  ASSUME NEW n \in Nat \ {0}, NEW m \in Nat, NEW k \in 0..m, NEW x \in Nat, NEW l \in Nat,
         NEW d \in Nat, x + n * m <= l + d, d <= n * k
  PROVE  x <= l + k - m
<1> DEFINE a == n - 1
           s == m - k
<1>1. a \in Nat /\ s \in Nat /\ n = a + 1 /\ m = k + s OBVIOUS
<1>2. a * s \in Nat BY <1>1
<1>3. n * m = n * k + (a * s + s)
  <2>1. n * m = n * k + n * s BY <1>1
  <2>2. n * s = a * s + s BY <1>1
  <2> QED BY <2>1, <2>2, Zenon
<1> HIDE DEF a, s
<1>4. n * k \in Nat OBVIOUS
<1>5. x + s <= l BY <1>1, <1>2, <1>3, <1>4
<1> QED BY <1>5, <1>1
(* The bound for the states before and after a step                        *)
LEMMA DoneCounts ==
  ASSUME IInv, WroteInv, mode = "up"
  PROVE  IsFiniteSet(Done) /\ Cardinality(Done) \in Nat /\ Cardinality(Done) <= outstanding * OpBlocks
<1>1. IsFiniteSet(Calls) BY CallsFinite, Zenon
<1>2. outstanding = Cardinality(Calls) BY Zenon DEF IInv, CountInv, CommitExcludesCalls, Calls
<1>3. Done \in SUBSET (Calls \X Block) /\ \A w \in Done : w[2] \in wrote[w[1]]
  BY Zenon DEF Done, Calls
<1>4. \A o \in Calls : IsFiniteSet(wrote[o]) /\ Cardinality(wrote[o]) <= OpBlocks
  BY Zenon DEF WroteInv, Calls
<1>5. OpBlocks \in Nat BY LogAssumption
<1>6. /\ IsFiniteSet(Done) /\ Cardinality(Done) \in Nat
      /\ Cardinality(Done) <= Cardinality(Calls) * OpBlocks
  BY <1>1, <1>3, <1>4, <1>5, WritesBound, Zenon
<1> QED BY <1>2, <1>6, Zenon

(* The same after a step                                                   *)
LEMMA DoneCountsNext ==
  ASSUME IInv', WroteInv', mode' = "up"
  PROVE  IsFiniteSet(Done') /\ Cardinality(Done') \in Nat /\ Cardinality(Done') <= outstanding' * OpBlocks
<1>0. Calls' \in SUBSET Ops BY Zenon DEF Calls
<1>1. IsFiniteSet(Calls') BY <1>0, FS_Subset, LogAssumption, Zenon
<1>2. outstanding' = Cardinality(Calls') BY Zenon DEF IInv, CountInv, CommitExcludesCalls, Calls
<1>3. Done' \in SUBSET (Calls' \X Block) /\ \A w \in Done' : w[2] \in wrote'[w[1]]
  BY Zenon DEF Done, Calls
<1>4. \A o \in Calls' : IsFiniteSet(wrote'[o]) /\ Cardinality(wrote'[o]) <= OpBlocks
  BY Zenon DEF WroteInv, Calls
<1>5. OpBlocks \in Nat BY LogAssumption
<1>6. /\ IsFiniteSet(Done') /\ Cardinality(Done') \in Nat
      /\ Cardinality(Done') <= Cardinality(Calls') * OpBlocks
  BY <1>1, <1>3, <1>4, <1>5, WritesBound, Zenon
<1> QED BY <1>2, <1>6, Zenon

(* At first the log is empty.                                              *)
LEMMA SpaceInit == Init => SpaceInv
<1> SUFFICES ASSUME Init PROVE SpaceInv BY Zenon
<1>1. Len(<<>>) = 0 /\ Fits(<<>>) BY LogAssumption DEF Fits
<1>2. WroteInv /\ OwnInv BY FS_EmptySet, LogAssumption DEF Init, WroteInv, OwnInv
<1>4. Cardinality(Done) \in Nat BY <1>2, InitInv, DoneCounts, Zenon DEF Init
<1>5. ReserveInv BY <1>1, <1>4, LogAssumption DEF Init, ReserveInv
<1> QED BY <1>1, <1>2, <1>5, Zenon DEF Init, SpaceInv

(* A call that begin_op admits has its reservation; the others keep it.    *)
LEMMA SpaceBegin ==
  ASSUME IInv, SpaceInv, IInv', NEW o \in Ops, begin_op(o)
  PROVE  SpaceInv'
<1> USE LogAssumption DEF IInv, SpaceInv
<1>1. /\ mode = "up" /\ UNCHANGED <<lh, wrote, blk, mode, head>> /\ pc[o] \in {"idle", "woken"}
      /\ pc[o] \notin InOp
  BY Zenon DEF begin_op, disk, InOp
<1>2. WroteInv' BY <1>1, Zenon DEF WroteInv
<1>3. \A q \in Ops : q # o => pc'[q] = pc[q] BY Zenon DEF begin_op, TypeOK
<1>4. OwnInv'
  <2>1. pc'[o] \in {"sleep", "op"} BY Zenon DEF begin_op, TypeOK
  <2> QED BY <2>1, <1>1, <1>3, Zenon DEF OwnInv
<1>5. Cardinality(Done') \in Nat BY <1>1, <1>2, DoneCountsNext, Zenon
<1>6. ReserveInv'
  <2>1. CASE MustWait
    <3>1. pc'[o] = "sleep" /\ outstanding' = outstanding BY <2>1, Zenon DEF begin_op, TypeOK
    <3>2. Done' = Done BY <3>1, <1>1, <1>3, Zenon DEF Done, InOp
    <3> QED BY <3>1, <3>2, <1>1, Zenon DEF ReserveInv
  <2>2. CASE ~MustWait
    <3>1. outstanding' = outstanding + 1 BY <2>2, Zenon DEF begin_op
    <3>2. ~(Len(lh) + (outstanding + 1) * MAXOPBLOCKS > LOGSIZE) BY <2>2, Zenon DEF MustWait
    <3>3. outstanding \in Nat /\ Len(lh) \in Nat BY DEF TypeOK
    <3>4. (outstanding + 1) * MAXOPBLOCKS \in Nat BY <3>3
    <3>5. Len(lh) + (outstanding + 1) * MAXOPBLOCKS <= LOGSIZE + Cardinality(Done')
      BY <3>2, <3>3, <3>4, <1>5
    <3> QED BY <3>1, <3>5, <1>1, Zenon DEF ReserveInv
  <2> QED BY <2>1, <2>2, Zenon
<1> QED BY <1>1, <1>2, <1>4, <1>6, Zenon DEF Fits

(* log_write: one more block written, no entry yet                         *)
LEMMA SpaceWrite ==
  ASSUME IInv, SpaceInv, IInv', NEW o \in Ops, NEW b \in Block, NEW v \in Val, log_write(o, b, v)
  PROVE  SpaceInv'
<1> USE LogAssumption DEF IInv, SpaceInv
<1>1. /\ mode = "up" /\ pc[o] = "op" /\ UNCHANGED <<lh, head, outstanding>>
      /\ Cardinality(wrote[o] \cup {b}) <= OpBlocks
      /\ \A q \in Ops : wrote'[q] = IF q = o THEN wrote[o] \cup {b} ELSE wrote[q]
  BY ZenonT(60) DEF log_write, disk, TypeOK
<1>2. WroteInv'
  <2>1. IsFiniteSet(wrote[o]) BY Zenon DEF WroteInv
  <2>2. IsFiniteSet(wrote[o] \cup {b}) BY <2>1, FS_AddElement, Zenon
  <2> QED BY <2>2, <1>1, Zenon DEF WroteInv
<1>3. CASE mode' # "up" /\ mode' # "recover" BY <1>1, <1>2, <1>3, Zenon DEF OwnInv, ReserveInv, Fits
<1>4. CASE mode' = "up"
  <2>1. \A q \in Ops : /\ pc'[q] = IF q = o THEN "log_write" ELSE pc[q]
                       /\ blk'[q] = IF q = o THEN b ELSE blk[q]
    BY <1>4 DEF log_write, TypeOK
  <2>2. OwnInv' BY <2>1, <1>1, ZenonT(60) DEF OwnInv, InOp
  <2>3. Done \subseteq Done' BY <2>1, <1>1 DEF Done, InOp
  <2>4. IsFiniteSet(Done') /\ Cardinality(Done') \in Nat BY <1>2, <1>4, DoneCountsNext, Zenon
  <2>5. Cardinality(Done) <= Cardinality(Done') /\ Cardinality(Done) \in Nat
    BY <2>3, <2>4, FS_Subset, FS_CardinalityType, Zenon
  <2>6. outstanding * MAXOPBLOCKS \in Nat /\ Len(lh) \in Nat BY DEF TypeOK
  <2>7. ReserveInv'
    <3> HIDE DEF IInv
    <3>1. Len(lh) + outstanding * MAXOPBLOCKS <= LOGSIZE + Cardinality(Done) BY <1>1, Zenon DEF ReserveInv
    <3>2. Len(lh) + outstanding * MAXOPBLOCKS <= LOGSIZE + Cardinality(Done') BY <3>1, <2>4, <2>5, <2>6
    <3> QED BY <3>2, <1>1, Zenon DEF ReserveInv
  <2> QED BY <2>2, <2>7, <1>1, <1>2, Zenon DEF Fits
<1>5. mode' # "recover" BY <1>1, Zenon DEF log_write
<1> QED BY <1>3, <1>4, <1>5, Zenon

(* log_write's append: the entry is one of those its call reserved.        *)
LEMMA SpaceAppend ==
  ASSUME Room, IInv, SpaceInv, IInv', NEW o \in Ops, log_append(o)
  PROVE  SpaceInv'
<1> USE LogAssumption DEF IInv, SpaceInv
<1> DEFINE b == blk[o]
<1>1. /\ mode = "up" /\ mode' = "up" /\ pc[o] = "log_write" /\ UNCHANGED <<head, outstanding, wrote>>
      /\ lh' = IF b \in Logged(lh) THEN lh ELSE Append(lh, b)
  BY Zenon DEF log_append, disk
<1>2. \A q \in Ops : /\ pc'[q] = IF q = o THEN "op" ELSE pc[q]
                     /\ q # o => blk'[q] = blk[q]
  BY Zenon DEF log_append, TypeOK
<1>3. b \in Block /\ b \in wrote[o] BY <1>1, Zenon DEF BlkInv, OwnInv
<1>4. WroteInv' BY <1>1, Zenon DEF WroteInv
<1>5. OwnInv' BY <1>1, <1>2, Zenon DEF OwnInv, InOp
<1>6. lh \in Seq(Block) /\ outstanding \in Nat /\ Len(lh) \in Nat BY DEF TypeOK
<1>7. IsFiniteSet(Done') /\ Cardinality(Done') \in Nat /\ Cardinality(Done') <= outstanding * OpBlocks
  BY <1>1, <1>4, DoneCountsNext, Zenon
<1>8. IsFiniteSet(Done) /\ Cardinality(Done) \in Nat BY <1>1, DoneCounts, Zenon
<1>9. Len(lh) + outstanding * MAXOPBLOCKS <= LOGSIZE + Cardinality(Done) BY <1>1, Zenon DEF ReserveInv
<1>10. outstanding # 0 BY <1>1, DuringCall, Zenon DEF InOp
<1> HIDE DEF b
<1>11. CASE b \in Logged(lh)
  <2>1. lh' = lh BY <1>1, <1>11, Zenon
  <2>2. Done' = Done BY <2>1, <1>1, <1>2, Zenon DEF Done, InOp
  <2> QED BY <2>1, <2>2, <1>1, <1>4, <1>5, Zenon DEF ReserveInv, Fits
<1>12. CASE b \notin Logged(lh)
  <2>1. lh' = Append(lh, b) BY <1>1, <1>12, Zenon
  <2>2. Len(lh') = Len(lh) + 1 BY <2>1, <1>6
  <2>3. Logged(lh') = Logged(lh) \cup {b} BY <2>1, <1>3, <1>6 DEF Logged
  <2>4. Done \cup {<<o, b>>} \subseteq Done' /\ <<o, b>> \notin Done
    BY <2>3, <1>1, <1>2, <1>3, <1>12 DEF Done, InOp
  <2>5. IsFiniteSet(Done \cup {<<o, b>>}) /\ Cardinality(Done \cup {<<o, b>>}) = Cardinality(Done) + 1
    BY <2>4, <1>8, FS_AddElement, Zenon
  <2>6. Cardinality(Done) + 1 <= Cardinality(Done') BY <2>4, <2>5, <1>7, FS_Subset
  <2>7. outstanding * MAXOPBLOCKS \in Nat BY <1>6
  <2>8. Len(lh') + outstanding * MAXOPBLOCKS <= LOGSIZE + Cardinality(Done')
    BY <2>2, <2>6, <2>7, <1>6, <1>7, <1>8, <1>9
  <2>9. Len(lh') <= LOGSIZE + OpBlocks - MAXOPBLOCKS
    <3> HIDE DEF IInv, SpaceInv
    <3>1. outstanding \in Nat \ {0} /\ MAXOPBLOCKS \in Nat /\ OpBlocks \in 0..MAXOPBLOCKS /\ LOGSIZE \in Nat
      BY <1>6, <1>10, Zenon
    <3>2. Len(lh') \in Nat BY <2>2, <1>6
    <3> QED BY <3>1, <3>2, <2>8, <1>7, Slack, Zenon
  <2>10. Fits(lh')
    <3>1. Len(lh') \in Nat BY <2>2, <1>6
    <3> QED BY <3>1, <2>9 DEF Fits, Room
  <2> QED BY <2>8, <2>10, <1>1, <1>4, <1>5, Zenon DEF ReserveInv, Fits
<1> QED BY <1>11, <1>12, Zenon

(* end_op gives back a reservation and the entries that filled it.         *)
LEMMA SpaceEnd ==
  ASSUME IInv, SpaceInv, IInv', NEW o \in Ops, end_op(o)
  PROVE  SpaceInv'
<1> USE LogAssumption DEF IInv, SpaceInv
<1>1. /\ mode = "up" /\ pc[o] = "op" /\ UNCHANGED <<head, lh, blk>> /\ outstanding' = outstanding - 1
      /\ \A q \in Ops : wrote'[q] = IF q = o THEN {} ELSE wrote[q]
  BY Zenon DEF end_op, disk, TypeOK
<1>2. outstanding \in Nat \ {0} /\ ~committing BY <1>1, DuringCall, Zenon DEF InOp
<1>3. mode' = "up" BY <1>1, <1>2, Zenon DEF end_op
<1>4. /\ pc'[o] \in {"commit", "idle"}
      /\ \A q \in Ops : q # o => (pc'[q] \in InOp <=> pc[q] \in InOp) /\ (pc'[q] = "log_write" => pc[q] = "log_write")
  BY <1>2, ZenonT(60) DEF end_op, TypeOK, WakeLog, InOp
<1>5. WroteInv' BY <1>1, FS_EmptySet DEF WroteInv
<1>6. OwnInv' BY <1>1, <1>4, Zenon DEF OwnInv, InOp
<1>7. IsFiniteSet(Done') /\ Cardinality(Done') \in Nat BY <1>3, <1>5, DoneCountsNext, Zenon
<1>8. IsFiniteSet(Done) /\ Cardinality(Done) \in Nat BY <1>1, DoneCounts, Zenon
<1>9. Cardinality(Done) <= Cardinality(Done') + MAXOPBLOCKS
  <2> DEFINE W == {o} \X wrote[o]
  <2>1. Done \subseteq Done' \cup W
    <3>1. \A w \in Done : w[1] # o => w \in Done' BY <1>1, <1>4, Zenon DEF Done
    <3>2. \A w \in Done : w[1] = o => w \in W BY Zenon DEF Done
    <3> QED BY <3>1, <3>2, Zenon
  <2>2. IsFiniteSet(wrote[o]) /\ Cardinality(wrote[o]) <= OpBlocks BY Zenon DEF WroteInv
  <2>3. IsFiniteSet(W) /\ Cardinality(W) = Cardinality({o}) * Cardinality(wrote[o])
    BY <2>2, FS_Singleton, FS_Product, Zenon
  <2>4. Cardinality(wrote[o]) \in Nat /\ Cardinality({o}) = 1 BY <2>2, FS_CardinalityType, FS_Singleton, Zenon
  <2>5. Cardinality(W) \in Nat /\ Cardinality(W) <= MAXOPBLOCKS BY <2>2, <2>3, <2>4
  <2> HIDE DEF W
  <2>6. /\ IsFiniteSet(Done' \cup W)
        /\ Cardinality(Done' \cup W) = Cardinality(Done') + Cardinality(W) - Cardinality(Done' \cap W)
    BY <2>3, <1>7, FS_Union, Zenon
  <2>7. Cardinality(Done' \cap W) \in Nat BY <2>3, <1>7, FS_Intersection, FS_CardinalityType, Zenon
  <2>8. Cardinality(Done) <= Cardinality(Done' \cup W) BY <2>1, <2>6, FS_Subset, Zenon
  <2> QED BY <2>5, <2>6, <2>7, <2>8, <1>7, <1>8
<1>10. ReserveInv'
  <2>1. Len(lh) + outstanding * MAXOPBLOCKS <= LOGSIZE + Cardinality(Done) BY <1>1, Zenon DEF ReserveInv
  <2>2. outstanding * MAXOPBLOCKS = (outstanding - 1) * MAXOPBLOCKS + MAXOPBLOCKS BY <1>2
  <2>3. (outstanding - 1) * MAXOPBLOCKS \in Nat /\ Len(lh) \in Nat BY <1>2, SMTT(60) DEF TypeOK
  <2>4. Len(lh) + (outstanding - 1) * MAXOPBLOCKS <= LOGSIZE + Cardinality(Done')
    BY <2>1, <2>2, <2>3, <1>7, <1>8, <1>9
  <2> QED BY <2>4, <1>1, Zenon DEF ReserveInv
<1> QED BY <1>1, <1>5, <1>6, <1>10, Zenon DEF Fits

(* While no call is in progress nothing is reserved.                       *)
LEMMA SpaceIdle ==
  ASSUME IInv', WroteInv', outstanding' = 0, Fits(lh')
  PROVE  ReserveInv'
<1> SUFFICES ASSUME mode' = "up"
             PROVE  Len(lh') + outstanding' * MAXOPBLOCKS <= LOGSIZE + Cardinality(Done')
  BY Zenon DEF ReserveInv
<1>1. Cardinality(Done') \in Nat BY DoneCountsNext, Zenon
<1>2. Len(lh') \in Nat /\ Len(lh') <= LOGSIZE BY DEF IInv, TypeOK, Fits
<1> QED BY <1>1, <1>2, LogAssumption

(* Every step keeps the reservation.                                       *)
LEMMA SpaceNext == Room /\ IInv /\ SpaceInv /\ [Next]_vars => SpaceInv'
<1> SUFFICES ASSUME Room, IInv, SpaceInv, [Next]_vars PROVE SpaceInv' BY Zenon
<1>0. IInv' BY NextInv, Zenon DEF SpaceInv, Fits, LogFits
<1>1. CASE UNCHANGED vars
  <2>1. Done' = Done BY <1>1, Zenon DEF vars, Done
  <2> QED BY <1>1, <2>1, Zenon DEF vars, SpaceInv, WroteInv, OwnInv, ReserveInv, Fits
<1>2. ASSUME NEW o \in Ops, begin_op(o) \/ log_append(o) \/ end_op(o) PROVE SpaceInv'
  BY <1>0, <1>2, SpaceBegin, SpaceAppend, SpaceEnd, Zenon
<1>3. ASSUME NEW o \in Ops, NEW b \in Block, NEW v \in Val, log_write(o, b, v) PROVE SpaceInv'
  BY <1>0, <1>3, SpaceWrite, Zenon
<1>4. Fits(<<>>) BY LogAssumption DEF Fits
<1>5. ASSUME NEW o \in Ops, commit(o) \/ write_log(o) \/ write_head(o) \/ install(o) \/ erase(o) \/ finish(o)
      PROVE  SpaceInv'
  <2>1. /\ mode = "up" /\ mode' = "up" /\ pc[o] \in CommitPC /\ UNCHANGED <<wrote, blk, outstanding>>
        /\ lh' \in {lh, <<>>} /\ head' \in {head, lh, <<>>}
    BY <1>5, Zenon DEF commit, write_log, write_head, install, erase, finish, CommitPC, disk
  <2>2. outstanding = 0 /\ \A q \in Ops : pc[q] \notin InOp BY <2>1, DuringCommit, Zenon DEF IInv
  <2>3. \A q \in Ops : pc'[q] \notin InOp
    <3>1. outstanding' = Cardinality(Calls') BY <1>0, <2>1, Zenon DEF IInv, CountInv, CommitExcludesCalls, Calls
    <3>2. Calls' \in SUBSET Ops BY Zenon DEF Calls
    <3>3. IsFiniteSet(Calls') BY <3>2, FS_Subset, LogAssumption, Zenon
    <3>4. Calls' = {} BY <3>1, <3>3, <2>1, <2>2, FS_EmptySet, Zenon
    <3> QED BY <3>4, Zenon DEF Calls
  <2>4. WroteInv' BY <2>1, Zenon DEF SpaceInv, WroteInv
  <2>5. OwnInv' BY <2>1, <2>2, <2>3, Zenon DEF SpaceInv, OwnInv, InOp
  <2>6. Fits(lh') /\ Fits(head') BY <2>1, <1>4, Zenon DEF SpaceInv
  <2>7. ReserveInv' BY <1>0, <2>1, <2>2, <2>4, <2>6, SpaceIdle, Zenon
  <2> QED BY <2>4, <2>5, <2>6, <2>7, Zenon DEF SpaceInv, Fits
<1>6. CASE crash
  <2>1. \A o \in Ops : wrote'[o] = {} /\ pc'[o] = "idle" BY <1>6, Zenon DEF crash
  <2>2. WroteInv' BY <2>1, FS_EmptySet, LogAssumption DEF WroteInv
  <2>3. OwnInv' BY <2>1, Zenon DEF OwnInv
  <2>4. ReserveInv' BY <1>6, Zenon DEF crash, ReserveInv
  <2> QED BY <1>6, <2>2, <2>3, <2>4, Zenon DEF crash, disk, SpaceInv, Fits
<1>7. CASE recover_install
  BY <1>7, Zenon DEF recover_install, SpaceInv, WroteInv, OwnInv, ReserveInv, Fits
<1>8. CASE recover_erase
  <2>1. outstanding' = 0 /\ lh' = <<>> /\ head' = <<>> /\ UNCHANGED <<wrote, blk, pc>> /\ mode = "recover"
    BY <1>8, Zenon DEF recover_erase, IInv, RecoverInv
  <2>2. WroteInv' BY <2>1, Zenon DEF SpaceInv, WroteInv
  <2>3. OwnInv' BY <2>1, Zenon DEF SpaceInv, OwnInv
  <2>4. Fits(lh') /\ Fits(head') BY <2>1, <1>4, Zenon
  <2>5. ReserveInv' BY <1>0, <2>1, <2>2, <2>4, SpaceIdle, Zenon
  <2> QED BY <2>2, <2>3, <2>4, <2>5, Zenon DEF SpaceInv, Fits
<1> QED BY <1>1, <1>2, <1>3, <1>5, <1>6, <1>7, <1>8, Zenon DEF Next, Step

-----------------------------------------------------------------------------
(* In a log with room both invariants hold for ever: each needs the other, *)
(* since a log that outgrows its area destroys what it is to install.      *)
THEOREM Invariant == Room => (Spec => [](IInv /\ SpaceInv))
<1> SUFFICES ASSUME Room PROVE Spec => [](IInv /\ SpaceInv) BY Zenon
<1>1. IInv /\ SpaceInv /\ [Next]_vars => SpaceInv' BY SpaceNext, Zenon
<1>2. IInv /\ SpaceInv /\ [Next]_vars => IInv' BY NextInv, Zenon DEF SpaceInv, Fits, LogFits
<1> QED BY <1>1, <1>2, InitInv, SpaceInit, PTL DEF Spec

(* The types of all variables are kept.                                    *)
THEOREM TypeCorrect == Room => (Spec => []TypeOK)
<1> SUFFICES ASSUME Room PROVE Spec => []TypeOK BY Zenon
<1>1. IInv => TypeOK BY Zenon DEF IInv
<1> QED BY <1>1, Invariant, PTL

(* The reservation of begin_op is enough (log.c:132): when a call writes   *)
(* OpBlocks blocks of the MAXOPBLOCKS it reserves, the transaction never   *)
(* outgrows the log area, for any number of calls that write at once.      *)
THEOREM LogHasRoom == Room => (Spec => []LogFits)
<1> SUFFICES ASSUME Room PROVE Spec => []LogFits BY Zenon
<1>1. SpaceInv => LogFits BY Zenon DEF SpaceInv, Fits, LogFits
<1> QED BY <1>1, Invariant, PTL

(* A commit never overlaps a call, and the panics of log.c:153 and 221 are *)
(* unreachable.                                                            *)
THEOREM CommitAlone == Room => (Spec => []CommitExcludesCalls)
<1> SUFFICES ASSUME Room PROVE Spec => []CommitExcludesCalls BY Zenon
<1>1. IInv => CommitExcludesCalls BY Zenon DEF IInv, CountInv
<1> QED BY <1>1, Invariant, PTL

(* In a log with room, when no call and no commit is in progress every     *)
(* block is in its home location and both copies of the header are empty.  *)
THEOREM QuietIsDurable == Room => (Spec => []QuiescentIsDurable)
<1> SUFFICES ASSUME Room PROVE Spec => []QuiescentIsDurable BY Zenon
<1>1. IInv => QuiescentIsDurable
  <2> SUFFICES ASSUME IInv, mode = "up", outstanding = 0, ~committing
               PROVE  home = cache /\ head = << >> /\ lh = << >>
    BY Zenon DEF QuiescentIsDurable
  <2>1. lh = << >> BY Zenon DEF IInv, StageInv
  <2>2. \A o \in Ops : pc[o] \notin CommitPC
    BY Zenon DEF IInv, CountInv, CommitExcludesCalls
  <2>3. head = << >> BY <2>2, Zenon DEF IInv, StageInv, CommitPC
  <2>4. \A o \in Ops : pc[o] \notin InOp BY DuringCall, Zenon DEF IInv
  <2>5. \A o \in Ops : blk[o] = NoBlock BY <2>4, Zenon DEF IInv, BlkInv, InOp
  <2>6. \A b \in Block : home[b] = cache[b]
    BY <2>1, <2>5, LogAssumption DEF IInv, CacheInv, Logged
  <2>7. home = cache BY <2>6 DEF IInv, TypeOK
  <2> QED BY <2>1, <2>3, <2>7, Zenon
<1> QED BY <1>1, Invariant, PTL

(* No wakeup of begin_op is lost, for any number of processes and any log  *)
(* with room (log.c:130-134).                                              *)
THEOREM WakersExist == Room => (Spec => []SleepersHaveWaker)
<1> SUFFICES ASSUME Room PROVE Spec => []SleepersHaveWaker BY Zenon
<1> QED BY SleepersInit, SleepersNext, Invariant, PTL DEF Spec

(* In a log with room xv6/log.c implements AtomicDisk: after a crash at    *)
(* any moment, recovery yields the effects of complete file-system calls   *)
(* only.                                                                   *)
THEOREM AtomicCalls == Room => (Spec => ImplementsAtomicDisk)
<1> SUFFICES ASSUME Room PROVE Spec => ImplementsAtomicDisk BY Zenon
<1>1. IInv /\ SpaceInv /\ [Next]_vars => [AD!Next]_(AD!vars)
  BY RefNext, Zenon DEF SpaceInv, Fits, LogFits
<1> QED BY <1>1, RefInit, Invariant, PTL DEF Spec, ImplementsAtomicDisk, AD!Spec

(* One entry more to spare, on disk and in every call's reservation        *)
Spare == OpBlocks < MAXOPBLOCKS /\ LOGSIZE + OpBlocks - MAXOPBLOCKS < NLOG - 1

(* The tests of log_write then find room, before it takes log.lock.        *)
LEMMA TestsPass == Spare /\ IInv /\ SpaceInv /\ NeverTooBig /\ [Next]_vars => NeverTooBig'
<1> SUFFICES ASSUME Spare, IInv, SpaceInv, NeverTooBig, [Next]_vars, ~NeverTooBig'
             PROVE  FALSE
  BY Zenon
<1>1. PICK o \in Ops, b \in Block, v \in Val : log_write(o, b, v)
  <2>1. CASE UNCHANGED vars BY <2>1, Zenon DEF vars, NeverTooBig
  <2>2. CASE crash \/ recover_install \/ recover_erase
    BY <2>2, ZenonT(60) DEF crash, recover_install, recover_erase, NeverTooBig
  <2>3. ASSUME NEW o \in Ops, begin_op(o) \/ Step(o) PROVE FALSE
    BY <2>3, ZenonT(60) DEF begin_op, Step, log_append, end_op, commit, write_log, write_head, install, erase, finish,
                NeverTooBig
  <2> QED BY <2>1, <2>2, <2>3, Zenon DEF Next
<1>2. mode = "up" /\ pc[o] = "op" /\ (Len(lh) >= LOGSIZE \/ Len(lh) >= NLOG - 1)
  BY <1>1, Zenon DEF log_write, NeverTooBig
<1>3. outstanding \in Nat \ {0} BY <1>2, DuringCall, Zenon DEF InOp, IInv
<1>4. Cardinality(Done) \in Nat /\ Cardinality(Done) <= outstanding * OpBlocks
  BY <1>2, DoneCounts, Zenon DEF SpaceInv
<1>5. Len(lh) + outstanding * MAXOPBLOCKS <= LOGSIZE + Cardinality(Done) BY <1>2, Zenon DEF SpaceInv, ReserveInv
<1>6. lh \in Seq(Block) BY Zenon DEF IInv, TypeOK
<1>7. Len(lh) \in Nat BY <1>6
<1>8. Len(lh) <= LOGSIZE + OpBlocks - MAXOPBLOCKS BY <1>3, <1>4, <1>5, <1>7, Slack, LogAssumption, Zenon
<1>9. OpBlocks \in Nat /\ MAXOPBLOCKS \in Nat /\ LOGSIZE \in Nat /\ NLOG \in Nat BY LogAssumption
<1> QED BY <1>2, <1>7, <1>8, <1>9 DEF Spare

(* With an entry to spare no call meets the panic of log_write, not even   *)
(* one that writes a block again when the reserved entries are used up.    *)
THEOREM NoCallTooBig == Spare => (Spec => []NeverTooBig)
<1> SUFFICES ASSUME Spare PROVE Spec => []NeverTooBig BY Zenon
<1>1. Room
  <2>1. OpBlocks \in Nat /\ MAXOPBLOCKS \in Nat /\ LOGSIZE \in Nat /\ NLOG \in Nat BY LogAssumption
  <2> QED BY <2>1 DEF Room, Spare
<1>2. Spec => [](IInv /\ SpaceInv) BY <1>1, Invariant, Zenon
<1>3. IInv /\ SpaceInv /\ NeverTooBig /\ [Next]_vars => NeverTooBig' BY TestsPass, Zenon
<1>4. Init => NeverTooBig BY Zenon DEF Init, NeverTooBig
<1> QED BY <1>2, <1>3, <1>4, PTL DEF Spec
=============================================================================
