------------------------------ MODULE BufCache ------------------------------
(***************************************************************************)
(* xv6/bio.c over xv6/sleeplock.c and a disk driver: xv6/ide.c, whose      *)
(* requests wait in a queue for an interrupt, or xv6/memide.c, the         *)
(* synchronous one of the memory file system build.  A hand of a process   *)
(* breads a block, changes it through bwrite or through log_write (log.c   *)
(* pins the buffer with B_DIRTY until some later bwrite), and brelses it.  *)
(* A process has a hand for each buffer it holds at a time: two where a    *)
(* log block is copied (log.c:75-76, 183-184) or where bmap and balloc, or *)
(* itrunc and bfree, have one each (fs.c:389-393, 422-429).  The hands of  *)
(* one process wait for each other nowhere here, so every order of the     *)
(* code's calls is among the orders below.  What a spinlock (bcache.lock,  *)
(* lk->lk, idelock) protects is one step.                                  *)
(*                                                                         *)
(* A definition X_Suffix is a mutant of X, a bug the code could have had;  *)
(* it is used by no other definition.                                      *)
(***************************************************************************)
EXTENDS Integers, Sequences, FiniteSets, FiniteSetsExt

CONSTANTS
  BHands,      \* of the processes, one for each buffer a process holds at once
  NBUF,        \* number of buffers
  Blocks,      \* block numbers
  BData,       \* contents of a block
  LogMax,      \* most blocks the log keeps dirty at a time
  NoB          \* "no hand", "no block"

ASSUME BufAssumption ==
  /\ IsFiniteSet(BHands)
  /\ NBUF \in Nat /\ LogMax \in Nat
  /\ BData # {}
  /\ NoB \notin BHands \cup Blocks

VARIABLES
  lru,         \* the list of bcache.head, most recently used first
  bufs,        \* bcache.buf
  idequeue,    \* requests, the active one first
  disk,        \* what the device stores
  driver,      \* which driver the kernel is built with
  bpc, cur,    \* where each hand is, and its buffer
  bpanic,      \* the message of panic(), or "none"
  latest,      \* history: last contents a process gave each block
  unread       \* history: buffers whose last read failed on the device

bvars == <<lru, bufs, idequeue, disk, driver, bpc, cur, bpanic, latest, unread>>
ghosts == <<latest, unread>>
Bufs == 1..NBUF

(* binit, and a disk with arbitrary contents *)
BInit ==
  /\ lru = [i \in Bufs |-> NBUF + 1 - i]
  /\ bufs = [b \in Bufs |-> [blockno |-> NoB, refcnt |-> 0, valid |-> FALSE,
              dirty |-> FALSE, data |-> CHOOSE d \in BData : TRUE, locked |-> NoB]]
  /\ idequeue = <<>>
  /\ disk = [k \in Blocks |-> CHOOSE d \in BData : TRUE]
  /\ driver \in {"ide", "memide"}
  /\ bpc = [p \in BHands |-> "idle"] /\ cur = [p \in BHands |-> 0]
  /\ bpanic = "none"
  /\ latest = disk /\ unread = {}

bpanics(msg) == bpanic' = msg /\ UNCHANGED <<lru, bufs, idequeue, disk, driver, bpc, cur, ghosts>>
go(p, to) == bpc' = [bpc EXCEPT ![p] = to]

-----------------------------------------------------------------------------
(* bget, up to the release of bcache.lock                                  *)
Cached(k) == {i \in Bufs : bufs[lru[i]].blockno = k}
Unused_IgnoreDirty == {i \in Bufs : bufs[lru[i]].refcnt = 0}
Unused == {i \in Bufs : bufs[lru[i]].refcnt = 0 /\ ~bufs[lru[i]].dirty}

bget(p, k) ==
  /\ bpc[p] = "idle" /\ bpanic = "none"
  /\ \/ /\ Cached(k) # {}
        /\ LET b == lru[Min(Cached(k))] IN
             /\ bufs' = [bufs EXCEPT ![b].refcnt = @ + 1]
             /\ cur' = [cur EXCEPT ![p] = b]
        /\ unread' = unread /\ go(p, "lock") /\ bpanic' = bpanic
     \/ /\ Cached(k) = {} /\ Unused # {}
        /\ LET b == lru[Max(Unused)] IN
             /\ bufs' = [bufs EXCEPT ![b].blockno = k, ![b].valid = FALSE,
                                     ![b].dirty = FALSE, ![b].refcnt = 1]
             /\ cur' = [cur EXCEPT ![p] = b]
             /\ unread' = unread \ {b}
        /\ go(p, "lock") /\ bpanic' = bpanic
     \/ /\ Cached(k) = {} /\ Unused = {}
        /\ bpanic' = "no_buffers"
        /\ UNCHANGED <<bufs, cur, unread, bpc>>
  /\ UNCHANGED <<lru, idequeue, disk, driver, latest>>

(* acquiresleep: take the lock or sleep on it; a woken process tests again.*)
CanTake(b) == bufs[b].locked = NoB

acquiresleep(p) ==
  /\ bpc[p] = "lock" /\ bpanic = "none"
  /\ LET b == cur[p] IN
       IF CanTake(b)
       THEN bufs' = [bufs EXCEPT ![b].locked = p] /\ go(p, "bread")
       ELSE bufs' = bufs /\ go(p, "locksleep")
  /\ UNCHANGED <<lru, idequeue, disk, driver, cur, bpanic, ghosts>>

(* wakeup(chan): the processes in state s on buffer b will test again.     *)
wake(f, b, s, to) == [q \in BHands |-> IF f[q] = s /\ cur[q] = b THEN to ELSE f[q]]

(* bread: a valid buffer is returned at once, another is read first.       *)
bread(p) ==
  /\ bpc[p] = "bread" /\ bpanic = "none"
  /\ go(p, IF bufs[cur[p]].valid THEN "use" ELSE "iderw")
  /\ UNCHANGED <<lru, bufs, idequeue, disk, driver, cur, bpanic, ghosts>>

(* The caller changes the contents.  bwrite marks the buffer dirty and     *)
(* calls iderw; log_write marks it dirty and keeps it, up to LogMax blocks *)
(* at a time (the transaction of log.c has no room for more).              *)
Transfer == {"iderw", "idesleep"}
Pinned == {b \in Bufs : /\ bufs[b].dirty
                        /\ \A p \in BHands : cur[p] = b => bpc[p] \notin Transfer}
Written(p, d, to) ==
  /\ bpc[p] = "use" /\ bpanic = "none"
  /\ bufs' = [bufs EXCEPT ![cur[p]].data = d, ![cur[p]].dirty = TRUE]
  /\ latest' = [latest EXCEPT ![bufs[cur[p]].blockno] = d]
  /\ unread' = unread \ {cur[p]}
  /\ go(p, to)
  /\ UNCHANGED <<lru, idequeue, disk, driver, cur, bpanic>>
bwrite(p, d) == Written(p, d, "iderw")
log_write(p, d) == Cardinality(Pinned \cup {cur[p]}) <= LogMax /\ Written(p, d, "use")

(* brelse: releasesleep wakes the processes waiting for the lock, and then *)
(* the reference goes, under bcache.lock.                                  *)
releasesleep(p) ==
  /\ bpc[p] = "use" /\ bpanic = "none"
  /\ IF bufs[cur[p]].locked # p THEN bpanics("brelse")
     ELSE /\ bufs' = [bufs EXCEPT ![cur[p]].locked = NoB]
          /\ bpc' = [wake(bpc, cur[p], "locksleep", "lock") EXCEPT ![p] = "brelse"]
          /\ UNCHANGED <<lru, idequeue, disk, driver, cur, bpanic, ghosts>>

(* The list with buffer b unlinked from its place and put in front         *)
ToFront(b) ==
  LET k == CHOOSE i \in Bufs : lru[i] = b
  IN  [i \in Bufs |-> IF i = 1 THEN b ELSE IF i <= k THEN lru[i-1] ELSE lru[i]]

Dropped(n) == n - 1
brelse(p) ==
  /\ bpc[p] = "brelse" /\ bpanic = "none"
  /\ LET b == cur[p] IN
       /\ bufs' = [bufs EXCEPT ![b].refcnt = Dropped(@)]
       /\ lru' = IF bufs'[b].refcnt = 0 THEN ToFront(b) ELSE lru
  /\ go(p, "idle") /\ cur' = [cur EXCEPT ![p] = 0]
  /\ UNCHANGED <<idequeue, disk, driver, bpanic, ghosts>>

-----------------------------------------------------------------------------
Synced(b) == bufs[b].valid /\ ~bufs[b].dirty

(* idestart: a write hands its data to the device when it starts.          *)
idestart(q, d) == IF q # <<>> /\ bufs[q[1]].dirty
                  THEN [d EXCEPT ![bufs[q[1]].blockno] = bufs[q[1]].data] ELSE d

(* iderw of ide.c: append, start the device if it was idle, sleep.         *)
iderw(p) ==
  /\ bpc[p] = "iderw" /\ bpanic = "none" /\ driver = "ide"
  /\ LET b == cur[p] IN
       IF bufs[b].locked # p THEN bpanics("not_locked")
       ELSE IF Synced(b) THEN bpanics("nothing_to_do")
       ELSE /\ idequeue' = Append(idequeue, b)
            /\ disk' = IF idequeue = <<>> THEN idestart(<<b>>, disk) ELSE disk
            /\ go(p, "idesleep")
            /\ UNCHANGED <<lru, bufs, driver, cur, bpanic, ghosts>>

(* The end of iderw's loop, after a wakeup                                 *)
idewoken(p) ==
  /\ bpc[p] = "idewoken" /\ bpanic = "none"
  /\ go(p, IF Synced(cur[p]) THEN "use" ELSE "idesleep")
  /\ UNCHANGED <<lru, bufs, idequeue, disk, driver, cur, bpanic, ghosts>>

(* ideintr: the active request is done.  A read the device reports as      *)
(* failed copies nothing, and the buffer becomes valid all the same.       *)
ideintr(fails) ==
  /\ idequeue # <<>> /\ bpanic = "none"
  /\ LET b == Head(idequeue)
         read == ~bufs[b].dirty IN
       /\ fails => read
       /\ bufs' = [bufs EXCEPT ![b].valid = TRUE, ![b].dirty = FALSE,
            ![b].data = IF read /\ ~fails THEN disk[bufs[b].blockno] ELSE @]
       /\ unread' = IF fails THEN unread \cup {b} ELSE unread
       /\ idequeue' = Tail(idequeue)
       /\ disk' = idestart(Tail(idequeue), disk)
       /\ bpc' = wake(bpc, b, "idesleep", "idewoken")
  /\ UNCHANGED <<lru, driver, cur, bpanic, latest>>

(* iderw of memide.c                                                       *)
iderw_mem(p) ==
  /\ bpc[p] = "iderw" /\ bpanic = "none" /\ driver = "memide"
  /\ LET b == cur[p] IN
       IF bufs[b].locked # p THEN bpanics("not_locked")
       ELSE IF Synced(b) THEN bpanics("nothing_to_do")
       ELSE /\ disk' = idestart(<<b>>, disk)
            /\ bufs' = [bufs EXCEPT ![b].valid = TRUE, ![b].dirty = FALSE,
                 ![b].data = IF bufs[b].dirty THEN @ ELSE disk[bufs[b].blockno]]
            /\ go(p, "use")
            /\ UNCHANGED <<lru, idequeue, driver, cur, bpanic, ghosts>>

-----------------------------------------------------------------------------
(* A step inside the cache, which goes on by itself once the call is made  *)
BStep(p) == acquiresleep(p) \/ bread(p) \/ brelse(p) \/ iderw(p) \/ idewoken(p) \/ iderw_mem(p)

(* panic() never returns.                                                  *)
bpanicked == bpanic # "none" /\ UNCHANGED bvars

BNext ==
  \/ bpanicked
  \/ \E p \in BHands :
       \/ BStep(p) \/ releasesleep(p)
       \/ \E k \in Blocks : bget(p, k)
       \/ \E d \in BData : bwrite(p, d) \/ log_write(p, d)
  \/ \E fails \in BOOLEAN : ideintr(fails)

BSpec == BInit /\ [][BNext]_bvars

-----------------------------------------------------------------------------
(* Types: every buffer is on the list once, counts are counts, a hand in a *)
(* call has a buffer.                                                      *)
BTypeOK ==
  /\ {lru[i] : i \in Bufs} = Bufs
  /\ bufs \in [Bufs -> [blockno : Blocks \cup {NoB}, refcnt : 0..Cardinality(BHands),
                        valid : BOOLEAN, dirty : BOOLEAN, data : BData,
                        locked : BHands \cup {NoB}]]
  /\ \A p \in BHands : cur[p] \in Bufs <=> bpc[p] # "idle"

(* "Multiple processes using the same block share one buffer": bget never  *)
(* leaves two buffers caching the same block, whoever misses at once.      *)
OneBufferPerBlock ==
  \A b, c \in Bufs : b # c /\ bufs[b].blockno = bufs[c].blockno => bufs[b].blockno = NoB

(* The cache, the locks and the driver together make each block a          *)
(* register: whoever holds a buffer that bread returned sees the last      *)
(* contents anybody gave to the block, evictions, re-reads and             *)
(* log-pinned buffers included.  The one exception is a buffer whose read  *)
(* failed on the device, which ideintr marks valid all the same.           *)
BlockIsRegister ==
  \A p \in BHands : bpc[p] = "use" /\ cur[p] \notin unread =>
    bufs[cur[p]].data = latest[bufs[cur[p]].blockno]

(* A sleeper always has somebody who will wake it: the holder of the       *)
(* sleep-lock, or the interrupt of a request that is in the queue.         *)
BSleepersHaveWaker ==
  \A p \in BHands :
    /\ bpc[p] = "locksleep" => bufs[cur[p]].locked # NoB
    /\ bpc[p] = "idesleep" => \E i \in 1..Len(idequeue) : idequeue[i] = cur[p]

(* Nobody releases or writes a buffer it does not hold or asks for a       *)
(* pointless transfer.  bget can run out of buffers (bio.c:92), but only   *)
(* while NBUF - LogMax of them are in other hands: each reference is given *)
(* back, however the calls overlap, and what nobody uses only the log      *)
(* keeps.  param.h's numbers make that one: NBUF = 30 is the LOGSIZE of a  *)
(* log whose header block leaves room for 29.                              *)
InUse == {p \in BHands : bpc[p] # "idle"}
PanicsOnlyWhenFull ==
  /\ bpanic \in {"none", "no_buffers"}
  /\ bpanic = "no_buffers" => NBUF - LogMax <= Cardinality(InUse)

(* The buffer cache is one register per block, shared through one buffer,  *)
(* nobody sleeps in it without a waker, and it runs out of buffers only    *)
(* when the hands and the log really have them all.                        *)
CacheIsRegisters ==
  /\ BTypeOK
  /\ OneBufferPerBlock
  /\ BlockIsRegister
  /\ BSleepersHaveWaker
  /\ PanicsOnlyWhenFull
=============================================================================
