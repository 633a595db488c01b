--------------------------- MODULE BufCache_proofs ---------------------------
(***************************************************************************)
(* The buffer cache of xv6/bio.c over its sleep-locks and either disk      *)
(* driver: for any number of hands, buffers and blocks each block is a     *)
(* register, and bget runs out of buffers only when they are all taken.    *)
(*                                                                         *)
(* That a reader sees the last contents needs more than the property: a    *)
(* reference count that is right (UseInv), so that a buffer in use is not  *)
(* recycled; one holder per buffer (HoldInv); a request queue without      *)
(* duplicates whose buffers nobody touches (QueueInv); what B_VALID and    *)
(* B_DIRTY mean at each place of the code (FlagInv); and that the disk is  *)
(* behind only for blocks with a dirty buffer (DataInv).  PinInv counts    *)
(* the buffers only the log keeps dirty, for the bound of bget.            *)
(***************************************************************************)
EXTENDS BufCache, FiniteSetTheorems, SequenceTheorems, WellFoundedInduction, TLAPS

(* The places of a hand; those where it holds the sleep-lock of its buffer *)
BPC == {"idle", "lock", "locksleep", "bread", "use", "iderw", "idesleep",
        "idewoken", "brelse"}
Holding == {"bread", "use", "iderw", "idesleep", "idewoken"}
BRec == [blockno : Blocks \cup {NoB}, refcnt : Nat, valid : BOOLEAN,
         dirty : BOOLEAN, data : BData, locked : BHands \cup {NoB}]

(* The processes inside a call on each buffer                              *)
Users == [b \in Bufs |-> {p \in BHands : cur[p] = b}]

(* Types; every buffer has a place in the list.                            *)
TypeInv ==
  /\ lru \in [Bufs -> Bufs] /\ \A b \in Bufs : \E i \in Bufs : lru[i] = b
  /\ bufs \in [Bufs -> BRec]
  /\ idequeue \in Seq(Bufs)
  /\ disk \in [Blocks -> BData] /\ latest \in [Blocks -> BData]
  /\ bpc \in [BHands -> BPC] /\ cur \in [BHands -> 0..NBUF]
  /\ unread \in SUBSET Bufs
  /\ bpanic \in {"none", "no_buffers"}

(* A process in a call has a buffer, which caches a block, and refcnt      *)
(* counts these processes.                                                 *)
UseInv ==
  /\ \A p \in BHands : bpc[p] # "idle" <=> cur[p] \in Bufs
  /\ \A p \in BHands : bpc[p] # "idle" => bufs[cur[p]].blockno \in Blocks
  /\ \A b \in Bufs : bufs[b].refcnt = Cardinality(Users[b])

(* The sleep-lock of a buffer is held by the process between bget and      *)
(* releasesleep, and whoever sleeps for it sleeps while it is held.        *)
HoldInv ==
  \A b \in Bufs : \A p \in BHands :
    /\ bufs[b].locked = p <=> cur[p] = b /\ bpc[p] \in Holding
    /\ bufs[b].locked = NoB => ~(cur[p] = b /\ bpc[p] = "locksleep")

(* The requests in the queue are those of the processes that sleep for     *)
(* them, one each.                                                         *)
QueueInv ==
  /\ \A i, j \in 1..Len(idequeue) : idequeue[i] = idequeue[j] => i = j
  /\ \A p \in BHands : bpc[p] = "idesleep" =>
       \E i \in 1..Len(idequeue) : idequeue[i] = cur[p]
  /\ \A i \in 1..Len(idequeue) :
       \E p \in BHands : cur[p] = idequeue[i] /\ bpc[p] = "idesleep"

(* What B_VALID and B_DIRTY say at each place of the code.                 *)
FlagInv ==
  /\ \A b \in Bufs : /\ bufs[b].dirty => bufs[b].valid /\ b \notin unread
                     /\ bufs[b].valid => bufs[b].blockno \in Blocks
  /\ \A p \in BHands :
       /\ bpc[p] = "use" => bufs[cur[p]].valid
       /\ bpc[p] = "idewoken" => Synced(cur[p])
       /\ bpc[p] \in Transfer => ~Synced(cur[p])

(* Valid buffers have the last contents of their blocks, and so has the    *)
(* disk, except for blocks with a dirty buffer; the active request has     *)
(* reached the disk.                                                       *)
DataInv ==
  /\ \A b \in Bufs : bufs[b].valid /\ b \notin unread =>
       bufs[b].data = latest[bufs[b].blockno]
  /\ \A k \in Blocks :
       disk[k] = latest[k] \/ \E b \in Bufs : bufs[b].blockno = k /\ bufs[b].dirty
  /\ idequeue # <<>> /\ bufs[idequeue[1]].dirty =>
       disk[bufs[idequeue[1]].blockno] = bufs[idequeue[1]].data

(* The log keeps no more than it may.                                      *)
PinInv == Cardinality(Pinned) <= LogMax

BInv ==
  /\ TypeInv /\ UseInv /\ HoldInv /\ QueueInv /\ FlagInv /\ OneBufferPerBlock
  /\ DataInv /\ PinInv

-----------------------------------------------------------------------------
(* A set of positions in the list has a first and a last one.              *)
LEMMA MinMaxIn ==
  ASSUME NEW S \in SUBSET Bufs, S # {}
  PROVE  Min(S) \in S /\ Max(S) \in S
<1>1. S \in SUBSET Nat /\ \A x \in S : x <= NBUF BY BufAssumption DEF Bufs
<1>2. Min(S) \in S
  <2>2. PICK n \in S : \A m \in S : ~(<<m, n>> \in OpToRel(<, Nat))
    BY <1>1, NatLessThanWellFounded, WFMin, Zenon
  <2>3. \A m \in S : ~(m < n) BY <1>1, <2>2, Zenon DEF OpToRel
  <2>4. \A m \in S : n <= m BY <1>1, <2>3
  <2> QED BY <2>4, Zenon DEF Min
<1>3. Max(S) \in S
  <2> DEFINE T == {x \in Nat : \A y \in S : y <= x}
  <2>1. T \in SUBSET Nat /\ NBUF \in T BY <1>1, BufAssumption, Zenon
  <2>2. PICK n \in T : \A m \in T : ~(<<m, n>> \in OpToRel(<, Nat))
    BY <2>1, NatLessThanWellFounded, WFMin, Zenon
  <2>3. \A m \in T : ~(m < n) BY <2>1, <2>2, Zenon DEF OpToRel
  <2>4. n \in S
    <3> SUFFICES ASSUME n \notin S PROVE FALSE BY Zenon
    <3>1. \A y \in S : y <= n - 1 BY <1>1
    <3>2. n - 1 \in Nat
      <4>1. PICK y \in S : TRUE BY Zenon
      <4>2. y \in Nat /\ y <= n - 1 /\ n \in Nat BY <1>1, <3>1, Zenon
      <4> QED BY <4>2
    <3>3. n - 1 \in T BY <3>1, <3>2, Zenon
    <3> QED BY <3>3, <2>3
  <2>5. \A y \in S : n >= y BY <1>1, Zenon
  <2> QED BY <2>4, <2>5, Zenon DEF Max
<1> QED BY <1>2, <1>3, Zenon

(* Unlinking a buffer and putting it in front keeps every buffer listed.   *)
LEMMA FrontKeepsAll ==
  ASSUME lru \in [Bufs -> Bufs], \A c \in Bufs : \E i \in Bufs : lru[i] = c,
         NEW b \in Bufs
  PROVE  /\ ToFront(b) \in [Bufs -> Bufs]
         /\ \A c \in Bufs : \E i \in Bufs : ToFront(b)[i] = c
<1> DEFINE k == CHOOSE i \in Bufs : lru[i] = b
           f == [i \in Bufs |-> IF i = 1 THEN b ELSE IF i <= k THEN lru[i-1] ELSE lru[i]]
<1>1. k \in Bufs /\ lru[k] = b BY Zenon
<1>2. ToFront(b) = f BY Zenon DEF ToFront
<1> HIDE DEF k
<1> USE BufAssumption DEF Bufs
<1>3. \A i \in Bufs : i # 1 => i - 1 \in Bufs OBVIOUS
<1>4. f \in [Bufs -> Bufs] BY <1>3, Zenon
<1>5. ASSUME NEW c \in Bufs PROVE \E i \in Bufs : f[i] = c
  <2>1. PICK j \in Bufs : lru[j] = c BY Zenon
  <2>2. 1 \in Bufs OBVIOUS
  <2>3. CASE j = k BY <2>1, <2>2, <2>3, <1>1, Zenon
  <2>4. CASE j < k
    <3>1. j + 1 \in Bufs /\ j + 1 # 1 /\ j + 1 <= k /\ (j + 1) - 1 = j BY <2>4, <1>1
    <3>2. f[j+1] = c BY <3>1, <2>1, Zenon
    <3> QED BY <3>1, <3>2, Zenon
  <2>5. CASE j > k
    <3>1. j # 1 /\ ~(j <= k) BY <2>5, <1>1
    <3>2. f[j] = c BY <3>1, <2>1, Zenon
    <3> QED BY <3>2, Zenon
  <2> QED BY <2>3, <2>4, <2>5, <1>1
<1> QED BY <1>2, <1>4, <1>5, Zenon

(* The processes that use a buffer are finitely many.                      *)
LEMMA UsersFinite ==
  ASSUME NEW S \in SUBSET BHands
  PROVE  /\ IsFiniteSet(S) /\ Cardinality(S) \in Nat
         /\ Cardinality(S) <= Cardinality(BHands)
         /\ Cardinality(S) = 0 <=> S = {}
         /\ \A p \in BHands \ S : Cardinality(S \cup {p}) = Cardinality(S) + 1
         /\ \A p \in S : Cardinality(S \ {p}) = Cardinality(S) - 1
<1>1. IsFiniteSet(S) /\ Cardinality(S) <= Cardinality(BHands)
  BY BufAssumption, FS_Subset, Zenon
<1> QED BY <1>1, FS_EmptySet, FS_CardinalityType, FS_AddElement, FS_RemoveElement, Zenon

(* A step after which no more buffers are pinned keeps the log's bound.    *)
LEMMA PinShrinks ==
  ASSUME PinInv, Pinned' \subseteq Pinned
  PROVE  PinInv'
<1>1. IsFiniteSet(Bufs) BY BufAssumption, FS_Interval DEF Bufs
<1>2. IsFiniteSet(Pinned) BY <1>1, FS_Subset, Zenon DEF Pinned
<1>3. /\ IsFiniteSet(Pinned') /\ Cardinality(Pinned') <= Cardinality(Pinned)
  BY <1>2, FS_Subset, Zenon
<1>4. Cardinality(Pinned) \in Nat /\ Cardinality(Pinned') \in Nat
  BY <1>2, <1>3, FS_CardinalityType, Zenon
<1> QED BY <1>3, <1>4, BufAssumption DEF PinInv

-----------------------------------------------------------------------------
(* binit.                                                                  *)
LEMMA InitInv == BInit => BInv
<1> SUFFICES ASSUME BInit PROVE BInv BY Zenon
<1> USE BufAssumption
<1>1. (CHOOSE d \in BData : TRUE) \in BData BY Zenon
<1>2. TypeInv
  <2>1. lru \in [Bufs -> Bufs] BY DEF BInit, Bufs
  <2>2. ASSUME NEW b \in Bufs PROVE \E i \in Bufs : lru[i] = b
    <3>1. NBUF + 1 - b \in Bufs /\ NBUF + 1 - (NBUF + 1 - b) = b BY DEF Bufs
    <3> QED BY <3>1, Zenon DEF BInit
  <2>3. bufs \in [Bufs -> BRec] BY <1>1, Zenon DEF BInit, BRec
  <2>4. disk \in [Blocks -> BData] /\ latest \in [Blocks -> BData] BY <1>1, Zenon DEF BInit
  <2>5. bpc \in [BHands -> BPC] /\ cur \in [BHands -> 0..NBUF] BY DEF BInit, BPC
  <2>6. idequeue \in Seq(Bufs) BY DEF BInit
  <2> QED BY <2>1, <2>2, <2>3, <2>4, <2>5, <2>6, Zenon DEF BInit, TypeInv
<1>3. UseInv
  <2>1. \A p \in BHands : bpc[p] = "idle" /\ cur[p] \notin Bufs BY DEF BInit, Bufs
  <2>2. \A b \in Bufs : Users[b] = {} /\ bufs[b].refcnt = 0
    BY <2>1, Zenon DEF BInit, Users
  <2>3. Cardinality({}) = 0 BY FS_EmptySet, Zenon
  <2> QED BY <2>1, <2>2, <2>3, Zenon DEF UseInv
<1>4. HoldInv BY Zenon DEF BInit, HoldInv, Holding
<1>5. QueueInv BY DEF BInit, QueueInv
<1>6. FlagInv BY Zenon DEF BInit, FlagInv, Transfer
<1>7. OneBufferPerBlock BY Zenon DEF BInit, OneBufferPerBlock
<1>8. DataInv BY Zenon DEF BInit, DataInv
<1>9. PinInv
  <2>1. Pinned = {} BY Zenon DEF BInit, Pinned
  <2>2. Cardinality({}) = 0 BY FS_EmptySet, Zenon
  <2> QED BY <2>1, <2>2 DEF PinInv
<1> QED BY <1>2, <1>3, <1>4, <1>5, <1>6, <1>7, <1>8, <1>9, Zenon DEF BInv

(* bread: no state but the place of the process changes.                   *)
LEMMA BreadInv ==
  ASSUME BInv, NEW p \in BHands, bread(p)
  PROVE  BInv'
<1> USE DEF BInv
<1> DEFINE s == IF bufs[cur[p]].valid THEN "use" ELSE "iderw"
<1>1. /\ bpc[p] = "bread"
      /\ UNCHANGED <<lru, bufs, idequeue, disk, driver, cur, bpanic, latest, unread>>
      /\ bpc' = [bpc EXCEPT ![p] = s]
  BY Zenon DEF bread, go, ghosts
<1>2. cur[p] \in Bufs BY <1>1, Zenon DEF UseInv
<1>3. \A q \in BHands : bpc'[q] = IF q = p THEN s ELSE bpc[q] BY <1>1, Zenon DEF TypeInv
<1>4. TypeInv'
  <2>1. bpc' \in [BHands -> BPC] BY <1>1, Zenon DEF TypeInv, BPC
  <2> QED BY <2>1, <1>1, Zenon DEF TypeInv
<1>5. UseInv'
  <2>1. Users' = Users BY <1>1, Zenon DEF Users
  <2> QED BY <2>1, <1>1, <1>3 DEF UseInv
<1>6. HoldInv' BY <1>1, <1>3 DEF HoldInv, Holding
<1>7. QueueInv' BY <1>1, <1>3 DEF QueueInv
<1>8. FlagInv' BY <1>1, <1>2, <1>3 DEF FlagInv, Transfer, Synced
<1>9. OneBufferPerBlock' BY <1>1, Zenon DEF OneBufferPerBlock
<1>10. DataInv' BY <1>1, Zenon DEF DataInv
<1>11. Pinned' \subseteq Pinned BY <1>1, <1>3, Zenon DEF Pinned, Transfer
<1> QED BY <1>4, <1>5, <1>6, <1>7, <1>8, <1>9, <1>10, <1>11, PinShrinks, Zenon

(* iderw's loop ends: ideintr has done the transfer.                       *)
LEMMA WokenInv ==
  ASSUME BInv, NEW p \in BHands, idewoken(p)
  PROVE  BInv'
<1> USE DEF BInv
<1>1. /\ bpc[p] = "idewoken"
      /\ UNCHANGED <<lru, bufs, idequeue, disk, driver, cur, bpanic, latest, unread>>
  BY Zenon DEF idewoken, ghosts
<1>2. cur[p] \in Bufs /\ Synced(cur[p]) BY <1>1, Zenon DEF UseInv, FlagInv
<1>3. bpc' = [bpc EXCEPT ![p] = "use"] BY <1>2, Zenon DEF idewoken, go
<1>4. \A q \in BHands : bpc'[q] = IF q = p THEN "use" ELSE bpc[q]
  BY <1>3, Zenon DEF TypeInv
<1>5. TypeInv'
  <2>1. bpc' \in [BHands -> BPC] BY <1>3, Zenon DEF TypeInv, BPC
  <2> QED BY <2>1, <1>1, Zenon DEF TypeInv
<1>6. UseInv'
  <2>1. Users' = Users BY <1>1, Zenon DEF Users
  <2> QED BY <2>1, <1>1, <1>4, Zenon DEF UseInv
<1>7. HoldInv' BY <1>1, <1>4 DEF HoldInv, Holding
<1>8. QueueInv' BY <1>1, <1>4 DEF QueueInv
<1>9. FlagInv' BY <1>1, <1>2, <1>4, Zenon DEF FlagInv, Transfer, Synced
<1>10. OneBufferPerBlock' BY <1>1, Zenon DEF OneBufferPerBlock
<1>11. DataInv' BY <1>1, Zenon DEF DataInv
<1>12. Pinned' \subseteq Pinned
  BY <1>1, <1>2, <1>4, Zenon DEF Pinned, Transfer, Synced
<1> QED BY <1>5, <1>6, <1>7, <1>8, <1>9, <1>10, <1>11, <1>12, PinShrinks, Zenon

(* acquiresleep: the lock is taken, or its holder is there to wake us.     *)
LEMMA AcquireInv ==
  ASSUME BInv, NEW p \in BHands, acquiresleep(p)
  PROVE  BInv'
<1> USE DEF BInv
<1> DEFINE b == cur[p]
<1>1. /\ bpc[p] = "lock"
      /\ UNCHANGED <<lru, idequeue, disk, driver, cur, bpanic, latest, unread>>
  BY Zenon DEF acquiresleep, ghosts
<1>2. b \in Bufs BY <1>1, Zenon DEF UseInv
<1>3. Users' = Users BY <1>1, Zenon DEF Users
<1>4. CASE bufs[b].locked = NoB
  <2>1. bufs' = [bufs EXCEPT ![b].locked = p] /\ bpc' = [bpc EXCEPT ![p] = "bread"]
    BY <1>4, Zenon DEF acquiresleep, CanTake, go
  <2>2. \A q \in BHands : bpc'[q] = IF q = p THEN "bread" ELSE bpc[q]
    BY <2>1, Zenon DEF TypeInv
  <2>3. \A c \in Bufs :
          /\ bufs'[c].locked = IF c = b THEN p ELSE bufs[c].locked
          /\ bufs'[c].blockno = bufs[c].blockno /\ bufs'[c].refcnt = bufs[c].refcnt
          /\ bufs'[c].valid = bufs[c].valid /\ bufs'[c].dirty = bufs[c].dirty
          /\ bufs'[c].data = bufs[c].data
    <3> TAKE c \in Bufs
    <3>1. bufs[c] \in BRec BY Zenon DEF TypeInv
    <3>2. bufs'[c] = IF c = b THEN [bufs[c] EXCEPT !.locked = p] ELSE bufs[c]
      BY <1>2, <2>1, Zenon DEF TypeInv
    <3> QED BY <3>1, <3>2, Zenon DEF BRec
  <2>4. TypeInv'
    <3>1. bpc' \in [BHands -> BPC] BY <2>1, Zenon DEF TypeInv, BPC
    <3>2. bufs' \in [Bufs -> BRec] BY <1>2, <2>1, ZenonT(60) DEF TypeInv, BRec
    <3> QED BY <3>1, <3>2, <1>1, Zenon DEF TypeInv
  <2>5. UseInv' BY <1>1, <1>3, <2>2, <2>3 DEF UseInv
  <2>6. HoldInv'
    <3>1. NoB \notin BHands BY BufAssumption, Zenon
    <3> QED BY <3>1, <1>1, <1>2, <1>4, <2>2, <2>3 DEF HoldInv, Holding
  <2>7. QueueInv' BY <1>1, <2>2 DEF QueueInv
  <2>8. FlagInv' BY <1>1, <1>2, <2>2, <2>3 DEF FlagInv, Transfer, Synced, UseInv
  <2>9. OneBufferPerBlock' BY <2>3 DEF OneBufferPerBlock
  <2>10. DataInv'
    <3>1. idequeue # <<>> => idequeue[1] \in Bufs BY DEF TypeInv
    <3> QED BY <3>1, <1>1, <2>3 DEF DataInv
  <2>11. Pinned' \subseteq Pinned BY <1>1, <2>2, <2>3, Zenon DEF Pinned, Transfer
  <2> QED BY <2>4, <2>5, <2>6, <2>7, <2>8, <2>9, <2>10, <2>11, PinShrinks, Zenon
<1>5. CASE bufs[b].locked # NoB
  <2>1. bufs' = bufs /\ bpc' = [bpc EXCEPT ![p] = "locksleep"]
    BY <1>5, Zenon DEF acquiresleep, CanTake, go
  <2>2. \A q \in BHands : bpc'[q] = IF q = p THEN "locksleep" ELSE bpc[q]
    BY <2>1, Zenon DEF TypeInv
  <2>3. TypeInv'
    <3>1. bpc' \in [BHands -> BPC] BY <2>1, Zenon DEF TypeInv, BPC
    <3> QED BY <3>1, <2>1, <1>1, Zenon DEF TypeInv
  <2>4. UseInv' BY <1>1, <1>3, <2>1, <2>2 DEF UseInv
  <2>5. HoldInv' BY <1>1, <1>5, <2>1, <2>2 DEF HoldInv, Holding
  <2>6. QueueInv' BY <1>1, <2>2 DEF QueueInv
  <2>7. FlagInv' BY <1>1, <2>1, <2>2 DEF FlagInv, Transfer, Synced
  <2>8. OneBufferPerBlock' BY <2>1, Zenon DEF OneBufferPerBlock
  <2>9. DataInv' BY <1>1, <2>1, Zenon DEF DataInv
  <2>10. Pinned' \subseteq Pinned BY <1>1, <2>1, <2>2, Zenon DEF Pinned, Transfer
  <2> QED BY <2>3, <2>4, <2>5, <2>6, <2>7, <2>8, <2>9, <2>10, PinShrinks, Zenon
<1> QED BY <1>4, <1>5, Zenon

(* bget of a cached block: its buffer gets one more user.                  *)
LEMMA HitInv ==
  ASSUME BInv, NEW p \in BHands, NEW b \in Bufs, bpc[p] = "idle",
         bufs[b].blockno \in Blocks,
         bufs' = [bufs EXCEPT ![b].refcnt = @ + 1],
         cur' = [cur EXCEPT ![p] = b], bpc' = [bpc EXCEPT ![p] = "lock"],
         UNCHANGED <<lru, idequeue, disk, bpanic, latest, unread>>
  PROVE  BInv'
<1> USE DEF BInv
<1>1. cur[p] \notin Bufs BY Zenon DEF UseInv
<1>2. \A q \in BHands : /\ bpc'[q] = IF q = p THEN "lock" ELSE bpc[q]
                        /\ cur'[q] = IF q = p THEN b ELSE cur[q]
  BY Zenon DEF TypeInv
<1>3. \A c \in Bufs :
        /\ bufs'[c].refcnt = IF c = b THEN bufs[c].refcnt + 1 ELSE bufs[c].refcnt
        /\ bufs'[c].blockno = bufs[c].blockno /\ bufs'[c].locked = bufs[c].locked
        /\ bufs'[c].valid = bufs[c].valid /\ bufs'[c].dirty = bufs[c].dirty
        /\ bufs'[c].data = bufs[c].data
  <2> TAKE c \in Bufs
  <2>1. bufs[c] \in BRec BY Zenon DEF TypeInv
  <2>2. bufs'[c] = IF c = b THEN [bufs[c] EXCEPT !.refcnt = bufs[c].refcnt + 1] ELSE bufs[c]
    BY SMTT(60) DEF TypeInv
  <2> QED BY <2>1, <2>2 DEF BRec
<1>4. \A q \in BHands : bpc[q] # "idle" => q # p /\ cur'[q] = cur[q] /\ bpc'[q] = bpc[q]
  BY <1>2, Zenon
<1>5. TypeInv'
  <2>1. bpc' \in [BHands -> BPC] BY Zenon DEF TypeInv, BPC
  <2>2. cur' \in [BHands -> 0..NBUF]
    <3>1. b \in 0..NBUF BY BufAssumption DEF Bufs
    <3> QED BY <3>1, Zenon DEF TypeInv
  <2>3. bufs' \in [Bufs -> BRec]
    <3>1. bufs[b] \in BRec BY Zenon DEF TypeInv
    <3>2. [bufs[b] EXCEPT !.refcnt = @ + 1] \in BRec BY <3>1 DEF BRec
    <3> QED BY <3>2, Zenon DEF TypeInv
  <2> QED BY <2>1, <2>2, <2>3, Zenon DEF TypeInv
<1>6. UseInv'
  <2>1. \A q \in BHands : bpc'[q] # "idle" <=> cur'[q] \in Bufs BY <1>2 DEF UseInv
  <2>2. \A q \in BHands : bpc'[q] # "idle" => bufs'[cur'[q]].blockno \in Blocks
    BY <1>2, <1>3 DEF UseInv
  <2>3. ASSUME NEW c \in Bufs PROVE bufs'[c].refcnt = Cardinality(Users'[c])
    <3>1. Users[c] \in SUBSET BHands /\ bufs[c].refcnt = Cardinality(Users[c])
      BY SMTT(60) DEF Users, UseInv
    <3>2. CASE c = b
      <4>1. Users'[c] = Users[c] \cup {p} BY <1>2, <3>2 DEF Users
      <4>2. p \in BHands \ Users[c] BY <1>1, Zenon DEF Users
      <4>3. Cardinality(Users[c] \cup {p}) = Cardinality(Users[c]) + 1
        BY <3>1, <4>2, UsersFinite, Zenon
      <4> QED BY <3>1, <3>2, <4>1, <4>3, <1>3, Zenon
    <3>3. CASE c # b
      <4>1. Users'[c] = Users[c] BY <1>1, <1>2, <3>3 DEF Users
      <4> QED BY <3>1, <3>3, <4>1, <1>3, Zenon
    <3> QED BY <3>2, <3>3, Zenon
  <2> QED BY <2>1, <2>2, <2>3, Zenon DEF UseInv
<1>7. HoldInv' BY <1>1, <1>2, <1>3 DEF HoldInv, Holding
<1>8. QueueInv'
  <2>1. \A q \in BHands : bpc'[q] = "idesleep" => bpc[q] = "idesleep" /\ cur'[q] = cur[q]
    BY <1>2
  <2>2. \A q \in BHands : bpc[q] = "idesleep" => bpc'[q] = "idesleep" /\ cur'[q] = cur[q]
    BY <1>4, Zenon
  <2> QED BY <2>1, <2>2 DEF QueueInv
<1>9. FlagInv'
  <2>1. \A c \in Bufs : Synced(c)' <=> Synced(c) BY <1>3 DEF Synced
  <2> QED BY <1>2, <1>3, <1>4 DEF FlagInv, Transfer, Synced, UseInv
<1>10. OneBufferPerBlock' BY <1>3 DEF OneBufferPerBlock
<1>11. DataInv'
  <2>1. idequeue # <<>> => idequeue[1] \in Bufs BY DEF TypeInv
  <2> QED BY <2>1, <1>3 DEF DataInv
<1>12. Pinned' \subseteq Pinned
  <2>1. \A q \in BHands : bpc[q] \in Transfer => cur'[q] = cur[q] /\ bpc'[q] = bpc[q]
    BY <1>4, Zenon DEF Transfer
  <2> QED BY <2>1, <1>3, Zenon DEF Pinned
<1> QED BY <1>5, <1>6, <1>7, <1>8, <1>9, <1>10, <1>11, <1>12, PinShrinks, Zenon

(* bget of a block that is not cached, in an unused buffer that the log    *)
(* does not pin.                                                           *)
LEMMA MissInv ==
  ASSUME BInv, NEW p \in BHands, NEW k \in Blocks, NEW b \in Bufs,
         bpc[p] = "idle", \A c \in Bufs : bufs[c].blockno # k,
         bufs[b].refcnt = 0, ~bufs[b].dirty,
         bufs' = [bufs EXCEPT ![b].blockno = k, ![b].valid = FALSE,
                              ![b].dirty = FALSE, ![b].refcnt = 1],
         cur' = [cur EXCEPT ![p] = b], bpc' = [bpc EXCEPT ![p] = "lock"],
         unread' = unread \ {b},
         UNCHANGED <<lru, idequeue, disk, bpanic, latest>>
  PROVE  BInv'
<1> USE DEF BInv
<1>1. cur[p] \notin Bufs BY Zenon DEF UseInv
<1>2. \A q \in BHands : /\ bpc'[q] = IF q = p THEN "lock" ELSE bpc[q]
                        /\ cur'[q] = IF q = p THEN b ELSE cur[q]
  BY Zenon DEF TypeInv
<1>3. /\ \A c \in Bufs \ {b} : bufs'[c] = bufs[c]
      /\ bufs'[b].blockno = k /\ bufs'[b].valid = FALSE /\ bufs'[b].dirty = FALSE
      /\ bufs'[b].refcnt = 1 /\ bufs'[b].data = bufs[b].data
      /\ bufs'[b].locked = bufs[b].locked
  BY DEF TypeInv, BRec
<1>4. \A q \in BHands : cur[q] # b
  <2>1. Users[b] \in SUBSET BHands /\ Cardinality(Users[b]) = 0 BY Zenon DEF UseInv, Users
  <2>2. Users[b] = {} BY <2>1, UsersFinite, Zenon
  <2> QED BY <2>2, Zenon DEF Users
<1>5. \A q \in BHands : bpc[q] # "idle" =>
        /\ q # p /\ cur'[q] = cur[q] /\ bpc'[q] = bpc[q]
        /\ cur[q] \in Bufs \ {b} /\ bufs'[cur[q]] = bufs[cur[q]]
  BY <1>2, <1>3, <1>4, ZenonT(60) DEF UseInv
<1>6. TypeInv'
  <2>1. bpc' \in [BHands -> BPC] BY Zenon DEF TypeInv, BPC
  <2>2. cur' \in [BHands -> 0..NBUF]
    <3>1. b \in 0..NBUF BY BufAssumption DEF Bufs
    <3> QED BY <3>1, Zenon DEF TypeInv
  <2>3. bufs' \in [Bufs -> BRec]
    <3>1. bufs[b] \in BRec BY Zenon DEF TypeInv
    <3>2. [bufs[b] EXCEPT !.blockno = k, !.valid = FALSE, !.dirty = FALSE,
                          !.refcnt = 1] \in BRec
      BY <3>1, Zenon DEF BRec
    <3>3. bufs' = [bufs EXCEPT ![b] =
                     [bufs[b] EXCEPT !.blockno = k, !.valid = FALSE,
                                     !.dirty = FALSE, !.refcnt = 1]]
      BY <3>1, Zenon DEF TypeInv, BRec
    <3> QED BY <3>2, <3>3 DEF TypeInv
  <2>4. unread' \in SUBSET Bufs BY Zenon DEF TypeInv
  <2> QED BY <2>1, <2>2, <2>3, <2>4, Zenon DEF TypeInv
<1>7. UseInv'
  <2>1. \A q \in BHands : bpc'[q] # "idle" <=> cur'[q] \in Bufs BY <1>2 DEF UseInv
  <2>2. ASSUME NEW q \in BHands, bpc'[q] # "idle"
        PROVE  bufs'[cur'[q]].blockno \in Blocks
    <3>1. CASE q = p BY <3>1, <1>2, <1>3, Zenon
    <3>2. CASE q # p BY <2>2, <3>2, <1>2, <1>5, ZenonT(60) DEF UseInv
    <3> QED BY <3>1, <3>2, Zenon
  <2>3. ASSUME NEW c \in Bufs PROVE bufs'[c].refcnt = Cardinality(Users'[c])
    <3>1. Users[c] \in SUBSET BHands /\ bufs[c].refcnt = Cardinality(Users[c])
      BY Zenon DEF Users, UseInv
    <3>2. CASE c = b
      <4>1. Users'[c] = {p} BY <1>2, <1>4, <3>2, Zenon DEF Users
      <4>2. Cardinality({p}) = 1 BY FS_Singleton, Zenon
      <4> QED BY <3>2, <4>1, <4>2, <1>3, Zenon
    <3>3. CASE c # b
      <4>1. Users'[c] = Users[c] BY <1>1, <1>2, <3>3 DEF Users
      <4> QED BY <3>1, <3>3, <4>1, <1>3, Zenon
    <3> QED BY <3>2, <3>3, Zenon
  <2> QED BY <2>1, <2>2, <2>3, Zenon DEF UseInv
<1>8. HoldInv'
  <2>1. \A q \in BHands : bufs[b].locked # q BY <1>4, Zenon DEF HoldInv
  <2>2. \A q \in BHands : cur'[q] = b => bpc'[q] = "lock" BY <1>2, <1>4, Zenon
  <2>3. \A q \in BHands : \A c \in Bufs \ {b} :
          cur'[q] = c => q # p /\ cur[q] = c /\ bpc'[q] = bpc[q]
    BY <1>2, Zenon
  <2>4. \A q \in BHands : \A c \in Bufs \ {b} :
          cur[q] = c => cur'[q] = c /\ bpc'[q] = bpc[q]
    BY <1>1, <1>2, Zenon
  <2>5. ASSUME NEW c \in Bufs, NEW q \in BHands
        PROVE  /\ bufs'[c].locked = q <=> cur'[q] = c /\ bpc'[q] \in Holding
               /\ bufs'[c].locked = NoB => ~(cur'[q] = c /\ bpc'[q] = "locksleep")
    <3>1. CASE c = b BY <3>1, <2>1, <2>2, <1>3 DEF Holding
    <3>2. CASE c # b
      <4>1. bufs'[c] = bufs[c] BY <3>2, <1>3, Zenon
      <4>2. cur'[q] = c <=> cur[q] = c BY <3>2, <2>3, <2>4, Zenon
      <4>3. cur[q] = c => bpc'[q] = bpc[q] BY <3>2, <2>4, Zenon
      <4> QED BY <4>1, <4>2, <4>3 DEF HoldInv
    <3> QED BY <3>1, <3>2, Zenon
  <2> QED BY <2>5, Zenon DEF HoldInv
<1>9. QueueInv'
  <2>1. \A q \in BHands : bpc'[q] = "idesleep" => bpc[q] = "idesleep" /\ cur'[q] = cur[q]
    BY <1>2
  <2>2. \A q \in BHands : bpc[q] = "idesleep" => bpc'[q] = "idesleep" /\ cur'[q] = cur[q]
    BY <1>5, Zenon
  <2> QED BY <2>1, <2>2 DEF QueueInv
<1>10. FlagInv'
  <2>1. \A c \in Bufs : /\ bufs'[c].dirty => bufs'[c].valid /\ c \notin unread'
                        /\ bufs'[c].valid => bufs'[c].blockno \in Blocks
    BY <1>3, Zenon DEF FlagInv
  <2>2. ASSUME NEW q \in BHands
        PROVE  /\ bpc'[q] = "use" => bufs'[cur'[q]].valid
               /\ bpc'[q] = "idewoken" => bufs'[cur'[q]].valid /\ ~bufs'[cur'[q]].dirty
               /\ bpc'[q] \in Transfer =>
                    ~(bufs'[cur'[q]].valid /\ ~bufs'[cur'[q]].dirty)
    <3>1. CASE bpc'[q] \in {"lock", "idle"} BY <3>1, Zenon DEF Transfer
    <3>2. CASE bpc'[q] \notin {"lock", "idle"}
      <4>1. bpc[q] # "idle" /\ bpc'[q] = bpc[q] BY <3>2, <1>2, Zenon
      <4>2. cur'[q] = cur[q] /\ bufs'[cur[q]] = bufs[cur[q]] BY <4>1, <1>5, Zenon
      <4> QED BY <4>1, <4>2, Zenon DEF FlagInv, Synced
    <3> QED BY <3>1, <3>2, Zenon
  <2> QED BY <2>1, <2>2, Zenon DEF FlagInv, Synced
<1>11. OneBufferPerBlock'
  <2>1. ASSUME NEW c \in Bufs, NEW d \in Bufs, c # d, bufs'[c].blockno = bufs'[d].blockno
        PROVE  bufs'[c].blockno = NoB
    <3>1. CASE c = b BY <3>1, <2>1, <1>3, Zenon
    <3>2. CASE d = b BY <3>2, <2>1, <1>3, Zenon
    <3>3. CASE c # b /\ d # b BY <3>3, <2>1, <1>3, ZenonT(60) DEF OneBufferPerBlock
    <3> QED BY <3>1, <3>2, <3>3, Zenon
  <2> QED BY <2>1, Zenon DEF OneBufferPerBlock
<1>12. DataInv'
  <2>1. \A c \in Bufs : bufs'[c].valid /\ c \notin unread' =>
          bufs'[c].data = latest'[bufs'[c].blockno]
    BY <1>3, ZenonT(60) DEF DataInv
  <2>2. \A m \in Blocks : disk'[m] = latest'[m] \/
          \E c \in Bufs : bufs'[c].blockno = m /\ bufs'[c].dirty
    BY <1>3, ZenonT(60) DEF DataInv
  <2>3. idequeue # <<>> => idequeue[1] \in Bufs \ {b}
    <3>1. idequeue # <<>> => 1 \in 1..Len(idequeue) /\ idequeue[1] \in Bufs
      BY DEF TypeInv
    <3> QED BY <3>1, <1>4 DEF QueueInv
  <2>4. idequeue' # <<>> /\ bufs'[idequeue'[1]].dirty =>
          disk'[bufs'[idequeue'[1]].blockno] = bufs'[idequeue'[1]].data
    BY <2>3, <1>3, ZenonT(60) DEF DataInv
  <2> QED BY <2>1, <2>2, <2>4, Zenon DEF DataInv
<1>13. Pinned' \subseteq Pinned
  <2>1. \A q \in BHands : bpc[q] \in Transfer => cur'[q] = cur[q] /\ bpc'[q] = bpc[q]
    BY <1>5, Zenon DEF Transfer
  <2> QED BY <2>1, <1>3, Zenon DEF Pinned
<1> QED BY <1>6, <1>7, <1>8, <1>9, <1>10, <1>11, <1>12, <1>13, PinShrinks, Zenon

(* bget: a hit, a miss, or the panic for want of buffers.                  *)
LEMMA BgetInv ==
  ASSUME BInv, NEW p \in BHands, NEW k \in Blocks, bget(p, k)
  PROVE  BInv'
<1>1. bpc[p] = "idle" /\ UNCHANGED <<lru, idequeue, disk, latest>> BY Zenon DEF bget
<1>2. /\ Cached(k) \in SUBSET Bufs /\ Unused \in SUBSET Bufs BY Zenon DEF Cached, Unused
<1>3. lru \in [Bufs -> Bufs] /\ \A b \in Bufs : \E i \in Bufs : lru[i] = b
  BY Zenon DEF BInv, TypeInv
<1>4. CASE Cached(k) # {}
  <2> DEFINE b == lru[Min(Cached(k))]
  <2>1. Min(Cached(k)) \in Cached(k) BY <1>2, <1>4, MinMaxIn, Zenon
  <2>2. b \in Bufs /\ bufs[b].blockno = k BY <1>2, <1>3, <2>1, Zenon DEF Cached
  <2>3. /\ bufs' = [bufs EXCEPT ![b].refcnt = @ + 1]
        /\ cur' = [cur EXCEPT ![p] = b] /\ bpc' = [bpc EXCEPT ![p] = "lock"]
        /\ unread' = unread /\ bpanic' = bpanic
    BY <1>4, Zenon DEF bget, go
  <2> HIDE DEF b
  <2> QED BY <1>1, <2>2, <2>3, HitInv, Zenon
<1>5. CASE Cached(k) = {} /\ Unused # {}
  <2> DEFINE b == lru[Max(Unused)]
  <2>1. Max(Unused) \in Unused BY <1>2, <1>5, MinMaxIn, Zenon
  <2>2. b \in Bufs /\ bufs[b].refcnt = 0 /\ ~bufs[b].dirty
    BY <1>2, <1>3, <2>1, Zenon DEF Unused
  <2>3. /\ bufs' = [bufs EXCEPT ![b].blockno = k, ![b].valid = FALSE,
                                ![b].dirty = FALSE, ![b].refcnt = 1]
        /\ cur' = [cur EXCEPT ![p] = b] /\ bpc' = [bpc EXCEPT ![p] = "lock"]
        /\ unread' = unread \ {b} /\ bpanic' = bpanic
    BY <1>5, Zenon DEF bget, go
  <2>4. \A c \in Bufs : bufs[c].blockno # k BY <1>3, <1>5, Zenon DEF Cached
  <2> HIDE DEF b
  <2> QED BY <1>1, <2>2, <2>3, <2>4, MissInv, Zenon
<1>6. CASE Cached(k) = {} /\ Unused = {}
  <2>1. bpanic' = "no_buffers" /\ UNCHANGED <<bufs, cur, unread, bpc>>
    BY <1>6, Zenon DEF bget
  <2>2. Users' = Users /\ Pinned' = Pinned BY <2>1, Zenon DEF Users, Pinned
  <2> QED
    BY <1>1, <2>1, <2>2
       DEF BInv, TypeInv, UseInv, HoldInv, QueueInv, FlagInv, Synced,
           OneBufferPerBlock, DataInv, PinInv
<1> QED BY <1>4, <1>5, <1>6, Zenon

(* Whoever holds a buffer and does not wait for the disk has no request in *)
(* the queue.                                                              *)
LEMMA NotQueued ==
  ASSUME BInv, NEW p \in BHands, bpc[p] \in Holding \ {"idesleep"},
         NEW i \in 1..Len(idequeue)
  PROVE  idequeue[i] # cur[p]
<1> SUFFICES ASSUME idequeue[i] = cur[p] PROVE FALSE BY Zenon
<1>1. PICK q \in BHands : cur[q] = idequeue[i] /\ bpc[q] = "idesleep"
  BY Zenon DEF BInv, QueueInv
<1>2. cur[p] \in Bufs BY Zenon DEF BInv, UseInv, Holding
<1>3. bufs[cur[p]].locked = p /\ bufs[cur[p]].locked = q
  BY <1>1, <1>2 DEF BInv, HoldInv, Holding
<1> QED BY <1>1, <1>3, Zenon

(* The queue's first request.                                              *)
LEMMA FirstRequest ==
  ASSUME TypeInv, idequeue # <<>>
  PROVE  /\ 1 \in 1..Len(idequeue) /\ idequeue[1] \in Bufs
         /\ Head(idequeue) = idequeue[1]
BY DEF TypeInv

(* The contents of a held buffer are changed, by bwrite or log_write.      *)
LEMMA WrittenInv ==
  ASSUME BInv, NEW p \in BHands, NEW d \in BData, NEW s \in {"use", "iderw"},
         Written(p, d, s), PinInv'
  PROVE  BInv'
<1> USE DEF BInv
<1> DEFINE b == cur[p]
           k == bufs[b].blockno
<1>1. /\ bpc[p] = "use"
      /\ bufs' = [bufs EXCEPT ![b].data = d, ![b].dirty = TRUE]
      /\ latest' = [latest EXCEPT ![k] = d]
      /\ unread' = unread \ {b}
      /\ bpc' = [bpc EXCEPT ![p] = s]
      /\ UNCHANGED <<lru, idequeue, disk, cur, bpanic>>
  BY Zenon DEF Written, go
<1>2. b \in Bufs /\ k \in Blocks /\ bufs[b].valid
  BY <1>1, Zenon DEF UseInv, FlagInv
<1> HIDE DEF b, k
<1>3. \A q \in BHands : bpc'[q] = IF q = p THEN s ELSE bpc[q] BY <1>1, Zenon DEF TypeInv
<1>4. /\ \A c \in Bufs \ {b} : bufs'[c] = bufs[c]
      /\ bufs'[b].blockno = k /\ bufs'[b].valid = bufs[b].valid
      /\ bufs'[b].dirty = TRUE /\ bufs'[b].data = d
      /\ bufs'[b].refcnt = bufs[b].refcnt /\ bufs'[b].locked = bufs[b].locked
  <2>1. bufs[b] \in BRec BY <1>2, Zenon DEF TypeInv
  <2>2. bufs' = [bufs EXCEPT ![b] = [bufs[b] EXCEPT !.data = d, !.dirty = TRUE]]
    BY <1>1, <1>2, <2>1, Zenon DEF TypeInv, BRec
  <2>3. /\ bufs'[b] = [bufs[b] EXCEPT !.data = d, !.dirty = TRUE]
        /\ \A c \in Bufs \ {b} : bufs'[c] = bufs[c]
    BY <2>2, <1>2, Zenon DEF TypeInv
  <2> QED BY <2>1, <2>3, Zenon DEF BRec, k
<1>5. \A c \in Bufs : /\ bufs'[c].blockno = bufs[c].blockno
                      /\ bufs'[c].refcnt = bufs[c].refcnt
                      /\ bufs'[c].locked = bufs[c].locked
                      /\ bufs'[c].valid = bufs[c].valid
  BY <1>4, Zenon DEF k
<1>6. \A m \in Blocks : latest'[m] = IF m = k THEN d ELSE latest[m]
  BY <1>1, Zenon DEF TypeInv
<1>7. TypeInv'
  <2>1. bpc' \in [BHands -> BPC] BY <1>1, Zenon DEF TypeInv, BPC
  <2>2. bufs' \in [Bufs -> BRec]
    <3>1. bufs[b] \in BRec BY <1>2, Zenon DEF TypeInv
    <3>2. [bufs[b] EXCEPT !.data = d, !.dirty = TRUE] \in BRec BY <3>1, Zenon DEF BRec
    <3>3. bufs' = [bufs EXCEPT ![b] = [bufs[b] EXCEPT !.data = d, !.dirty = TRUE]]
      BY <1>1, <1>2, <3>1, Zenon DEF TypeInv, BRec
    <3> QED BY <3>2, <3>3, Zenon DEF TypeInv
  <2>3. unread' \in SUBSET Bufs BY <1>1, Zenon DEF TypeInv
  <2>4. latest' \in [Blocks -> BData] BY <1>1, Zenon DEF TypeInv
  <2> QED BY <2>1, <2>2, <2>3, <2>4, <1>1, Zenon DEF TypeInv
<1>8. UseInv'
  <2>1. Users' = Users BY <1>1, Zenon DEF Users
  <2>2. \A q \in BHands : bpc'[q] = "idle" <=> bpc[q] = "idle" BY <1>1, <1>3, Zenon
  <2>3. cur' = cur BY <1>1, Zenon
  <2>4. \A q \in BHands : bpc[q] # "idle" => bufs'[cur[q]].blockno = bufs[cur[q]].blockno
    BY <1>5, Zenon DEF UseInv
  <2> QED BY <2>1, <2>2, <2>3, <2>4, <1>5, Zenon DEF UseInv
<1>9. HoldInv'
  <2>1. \A q \in BHands : /\ bpc'[q] \in Holding <=> bpc[q] \in Holding
                          /\ bpc'[q] = "locksleep" <=> bpc[q] = "locksleep"
    BY <1>1, <1>3, Zenon DEF Holding
  <2>2. cur' = cur BY <1>1, Zenon
  <2> QED BY <2>1, <2>2, <1>5 DEF HoldInv
<1>10. QueueInv' BY <1>1, <1>3 DEF QueueInv
<1>11. FlagInv'
  <2>1. \A c \in Bufs : /\ bufs'[c].dirty => bufs'[c].valid /\ c \notin unread'
                        /\ bufs'[c].valid => bufs'[c].blockno \in Blocks
    BY <1>1, <1>2, <1>4, Zenon DEF FlagInv
  <2>2. ASSUME NEW q \in BHands
        PROVE  /\ bpc'[q] = "use" => bufs'[cur'[q]].valid
               /\ bpc'[q] = "idewoken" => bufs'[cur'[q]].valid /\ ~bufs'[cur'[q]].dirty
               /\ bpc'[q] \in Transfer =>
                    ~(bufs'[cur'[q]].valid /\ ~bufs'[cur'[q]].dirty)
    <3>1. CASE q = p BY <3>1, <1>1, <1>2, <1>3, <1>4, Zenon DEF b
    <3>2. CASE q # p /\ cur[q] = b
      <4>1. bpc[q] \notin Holding BY <3>2, <1>1, <1>2 DEF HoldInv, Holding, b
      <4> QED BY <3>2, <4>1, <1>3, Zenon DEF Holding, Transfer
    <3>3. CASE q # p /\ cur[q] # b
      <4>1. bpc'[q] = bpc[q] /\ cur'[q] = cur[q] BY <3>3, <1>1, <1>3, Zenon
      <4>2. CASE bpc[q] = "idle" BY <4>1, <4>2, Zenon DEF Transfer
      <4>3. CASE bpc[q] # "idle"
        <5>1. bufs'[cur[q]] = bufs[cur[q]] BY <4>3, <3>3, <1>4, Zenon DEF UseInv
        <5> QED BY <4>1, <5>1, Zenon DEF FlagInv, Synced
      <4> QED BY <4>2, <4>3, Zenon
    <3> QED BY <3>1, <3>2, <3>3, Zenon
  <2> QED BY <2>1, <2>2, Zenon DEF FlagInv, Synced
<1>12. OneBufferPerBlock' BY <1>5 DEF OneBufferPerBlock
<1>13. DataInv'
  <2>0. \A c \in Bufs \ {b} : bufs[c].blockno # k
    <3>1. k # NoB BY <1>2, BufAssumption, Zenon
    <3> QED BY <3>1, <1>2, Zenon DEF OneBufferPerBlock, k
  <2>1. ASSUME NEW c \in Bufs, bufs'[c].valid, c \notin unread'
        PROVE  bufs'[c].data = latest'[bufs'[c].blockno]
    <3>1. CASE c = b BY <3>1, <1>2, <1>4, <1>6, Zenon
    <3>2. CASE c # b
      <4>1. bufs'[c] = bufs[c] /\ bufs[c].blockno # k /\ c \notin unread
        BY <2>1, <3>2, <2>0, <1>1, <1>4, Zenon
      <4>2. bufs[c].blockno \in Blocks BY <2>1, <4>1, Zenon DEF FlagInv
      <4> QED BY <2>1, <4>1, <4>2, <1>6 DEF DataInv
    <3> QED BY <3>1, <3>2, Zenon
  <2>2. ASSUME NEW m \in Blocks
        PROVE  disk'[m] = latest'[m] \/
                 \E c \in Bufs : bufs'[c].blockno = m /\ bufs'[c].dirty
    <3>1. CASE m = k BY <3>1, <1>2, <1>4, Zenon
    <3>2. CASE m # k
      <4>1. CASE disk[m] = latest[m] BY <4>1, <3>2, <1>1, <1>6, Zenon
      <4>2. CASE \E c \in Bufs : bufs[c].blockno = m /\ bufs[c].dirty
        <5>1. PICK c \in Bufs : bufs[c].blockno = m /\ bufs[c].dirty BY <4>2, Zenon
        <5>2. c # b BY <5>1, <3>2, Zenon DEF k
        <5> QED BY <5>1, <5>2, <1>4, Zenon
      <4> QED BY <4>1, <4>2, Zenon DEF DataInv
    <3> QED BY <3>1, <3>2, Zenon
  <2>3. ASSUME idequeue # <<>>
        PROVE  bufs'[idequeue[1]] = bufs[idequeue[1]]
    <3>1. 1 \in 1..Len(idequeue) /\ idequeue[1] \in Bufs BY <2>3, FirstRequest, Zenon
    <3>2. idequeue[1] # b BY <3>1, <1>1, NotQueued, Zenon DEF Holding, b
    <3> QED BY <3>1, <3>2, <1>4, Zenon
  <2> QED BY <2>1, <2>2, <2>3, <1>1, ZenonT(60) DEF DataInv
<1> QED BY <1>7, <1>8, <1>9, <1>10, <1>11, <1>12, <1>13, Zenon

(* bwrite marks the buffer dirty on its way to the disk.                   *)
LEMMA BwriteInv ==
  ASSUME BInv, NEW p \in BHands, NEW d \in BData, bwrite(p, d)
  PROVE  BInv'
<1>1. Written(p, d, "iderw") BY Zenon DEF bwrite
<1>2. /\ bpc[p] = "use" /\ cur[p] \in Bufs /\ cur' = cur
      /\ bufs' = [bufs EXCEPT ![cur[p]].data = d, ![cur[p]].dirty = TRUE]
      /\ bpc' = [bpc EXCEPT ![p] = "iderw"]
  BY <1>1, Zenon DEF Written, go, BInv, UseInv
<1>3. \A c \in Bufs \ {cur[p]} : bufs'[c] = bufs[c] BY <1>2, Zenon DEF BInv, TypeInv
<1>4. /\ bpc'[p] = "iderw" /\ cur'[p] = cur[p]
      /\ \A q \in BHands : q # p => bpc'[q] = bpc[q]
  BY <1>2, Zenon DEF BInv, TypeInv
<1>5. Pinned' \subseteq Pinned
  <2>1. cur[p] \notin Pinned' BY <1>4, Zenon DEF Pinned, Transfer
  <2>2. ASSUME NEW c \in Pinned' PROVE c \in Pinned
    <3>1. c \in Bufs /\ c # cur[p] BY <2>1, <2>2, Zenon DEF Pinned
    <3>2. bufs[c].dirty BY <2>2, <3>1, <1>3, Zenon DEF Pinned
    <3>3. \A q \in BHands : cur[q] = c => bpc[q] \notin Transfer
      BY <2>2, <3>1, <1>2, <1>4, Zenon DEF Pinned
    <3> QED BY <3>1, <3>2, <3>3, Zenon DEF Pinned
  <2> QED BY <2>2, Zenon
<1>6. PinInv' BY <1>5, PinShrinks, Zenon DEF BInv
<1>7. "iderw" \in {"use", "iderw"} BY Zenon
<1> QED BY <1>1, <1>6, <1>7, WrittenInv, Zenon

(* log_write pins the buffer, within what the log has reserved.            *)
LEMMA LogWriteInv ==
  ASSUME BInv, NEW p \in BHands, NEW d \in BData, log_write(p, d)
  PROVE  BInv'
<1>1. Written(p, d, "use") /\ Cardinality(Pinned \cup {cur[p]}) <= LogMax
  BY Zenon DEF log_write
<1>2. /\ cur[p] \in Bufs
      /\ bufs' = [bufs EXCEPT ![cur[p]].data = d, ![cur[p]].dirty = TRUE]
  BY <1>1, Zenon DEF Written, BInv, UseInv
<1>3. \A c \in Bufs \ {cur[p]} : bufs'[c] = bufs[c] BY <1>2, Zenon DEF BInv, TypeInv
<1>4. Pinned' \subseteq Pinned \cup {cur[p]}
  <2>1. cur' = cur /\ \A q \in BHands : bpc'[q] = bpc[q]
    BY <1>1, Zenon DEF Written, go, BInv, TypeInv
  <2> QED BY <2>1, <1>3, Zenon DEF Pinned
<1>5. PinInv'
  <2>1. IsFiniteSet(Bufs) BY BufAssumption, FS_Interval DEF Bufs
  <2>2. IsFiniteSet(Pinned \cup {cur[p]})
    <3>1. Pinned \cup {cur[p]} \subseteq Bufs BY <1>2, Zenon DEF Pinned
    <3> QED BY <2>1, <3>1, FS_Subset, Zenon
  <2>3. /\ IsFiniteSet(Pinned')
        /\ Cardinality(Pinned') <= Cardinality(Pinned \cup {cur[p]})
    BY <2>2, <1>4, FS_Subset, Zenon
  <2>4. Cardinality(Pinned') \in Nat /\ Cardinality(Pinned \cup {cur[p]}) \in Nat
    BY <2>2, <2>3, FS_CardinalityType, Zenon
  <2> QED BY <2>3, <2>4, <1>1, BufAssumption DEF PinInv
<1>6. "use" \in {"use", "iderw"} BY Zenon
<1> QED BY <1>1, <1>5, <1>6, WrittenInv, Zenon

(* releasesleep: the lock is free and its sleepers test again.             *)
LEMMA ReleaseInv ==
  ASSUME BInv, NEW p \in BHands, releasesleep(p)
  PROVE  BInv'
<1> USE DEF BInv
<1> DEFINE b == cur[p]
<1>1. bpc[p] = "use" BY Zenon DEF releasesleep
<1>2. b \in Bufs /\ bufs[b].locked = p BY <1>1 DEF UseInv, HoldInv, Holding
<1>3. /\ bufs' = [bufs EXCEPT ![b].locked = NoB]
      /\ bpc' = [wake(bpc, b, "locksleep", "lock") EXCEPT ![p] = "brelse"]
      /\ UNCHANGED <<lru, idequeue, disk, cur, bpanic, latest, unread>>
  BY <1>2, Zenon DEF releasesleep, ghosts
<1> HIDE DEF b
<1>4. \A q \in BHands :
        bpc'[q] = IF q = p THEN "brelse"
                  ELSE IF bpc[q] = "locksleep" /\ cur[q] = b THEN "lock" ELSE bpc[q]
  BY <1>3, Zenon DEF wake
<1>5. \A c \in Bufs :
        /\ bufs'[c].locked = IF c = b THEN NoB ELSE bufs[c].locked
        /\ bufs'[c].blockno = bufs[c].blockno /\ bufs'[c].refcnt = bufs[c].refcnt
        /\ bufs'[c].valid = bufs[c].valid /\ bufs'[c].dirty = bufs[c].dirty
        /\ bufs'[c].data = bufs[c].data
  <2> TAKE c \in Bufs
  <2>1. bufs[c] \in BRec BY Zenon DEF TypeInv
  <2>2. bufs'[c] = IF c = b THEN [bufs[c] EXCEPT !.locked = NoB] ELSE bufs[c]
    BY <1>2, <1>3, Zenon DEF TypeInv
  <2> QED BY <2>1, <2>2, Zenon DEF BRec
<1>6. TypeInv'
  <2>1. bpc' \in [BHands -> BPC] BY <1>3, Zenon DEF TypeInv, BPC, wake
  <2>2. bufs' \in [Bufs -> BRec]
    <3>1. bufs[b] \in BRec BY <1>2, Zenon DEF TypeInv
    <3>2. [bufs[b] EXCEPT !.locked = NoB] \in BRec BY <3>1, Zenon DEF BRec
    <3> QED BY <3>2, <1>2, <1>3, Zenon DEF TypeInv
  <2> QED BY <2>1, <2>2, <1>3, Zenon DEF TypeInv
<1>7. UseInv'
  <2>1. Users' = Users BY <1>3, Zenon DEF Users
  <2> QED BY <2>1, <1>1, <1>3, <1>4, <1>5 DEF UseInv
<1>8. HoldInv'
  <2>1. NoB \notin BHands BY BufAssumption, Zenon
  <2>2. ASSUME NEW c \in Bufs, NEW q \in BHands
        PROVE  /\ bufs'[c].locked = q <=> cur'[q] = c /\ bpc'[q] \in Holding
               /\ bufs'[c].locked = NoB => ~(cur'[q] = c /\ bpc'[q] = "locksleep")
    <3>1. CASE c = b
      <4>1. bpc[q] \in Holding /\ cur[q] = b => q = p BY <1>2, Zenon DEF HoldInv
      <4> QED BY <3>1, <4>1, <2>1, <1>3, <1>4, <1>5 DEF Holding
    <3>2. CASE c # b
      <4>1. cur[q] = c => bpc'[q] = bpc[q] BY <3>2, <1>4, Zenon DEF b
      <4> QED BY <3>2, <4>1, <1>3, <1>5 DEF HoldInv
    <3> QED BY <3>1, <3>2, Zenon
  <2> QED BY <2>2, Zenon DEF HoldInv
<1>9. QueueInv'
  <2>1. \A q \in BHands : bpc'[q] = "idesleep" <=> bpc[q] = "idesleep" BY <1>1, <1>4, Zenon
  <2> QED BY <2>1, <1>3, Zenon DEF QueueInv
<1>10. FlagInv'
  <2>1. \A q \in BHands :
          bpc'[q] \in {"use", "idewoken", "iderw", "idesleep"} => bpc'[q] = bpc[q]
    BY <1>4, Zenon
  <2> QED BY <2>1, <1>3, <1>5 DEF FlagInv, Transfer, Synced, UseInv
<1>11. OneBufferPerBlock' BY <1>5 DEF OneBufferPerBlock
<1>12. DataInv'
  <2>1. idequeue # <<>> => idequeue[1] \in Bufs BY FirstRequest, Zenon
  <2> QED BY <2>1, <1>3, <1>5 DEF DataInv
<1>13. Pinned' \subseteq Pinned
  <2>1. \A q \in BHands : bpc[q] \in Transfer => bpc'[q] \in Transfer
    BY <1>1, <1>4, Zenon DEF Transfer
  <2> QED BY <2>1, <1>3, <1>5, Zenon DEF Pinned
<1> QED BY <1>6, <1>7, <1>8, <1>9, <1>10, <1>11, <1>12, <1>13, PinShrinks, Zenon

(* brelse gives the reference back and moves an unused buffer to the front.*)
LEMMA BrelseInv ==
  ASSUME BInv, NEW p \in BHands, brelse(p)
  PROVE  BInv'
<1> USE DEF BInv
<1> DEFINE b == cur[p]
<1>1. /\ bpc[p] = "brelse"
      /\ bufs' = [bufs EXCEPT ![b].refcnt = @ - 1]
      /\ lru' = IF bufs'[b].refcnt = 0 THEN ToFront(b) ELSE lru
      /\ bpc' = [bpc EXCEPT ![p] = "idle"] /\ cur' = [cur EXCEPT ![p] = 0]
      /\ UNCHANGED <<idequeue, disk, bpanic, latest, unread>>
  BY Zenon DEF brelse, Dropped, go, ghosts
<1>2. b \in Bufs BY <1>1, Zenon DEF UseInv
<1>3. 0 \notin Bufs /\ 0 \in 0..NBUF BY BufAssumption DEF Bufs
<1>4. \A q \in BHands : /\ bpc'[q] = IF q = p THEN "idle" ELSE bpc[q]
                        /\ cur'[q] = IF q = p THEN 0 ELSE cur[q]
  BY <1>1, Zenon DEF TypeInv
<1>5. /\ Users[b] \in SUBSET BHands /\ p \in Users[b]
      /\ bufs[b].refcnt = Cardinality(Users[b])
  BY <1>2, Zenon DEF Users, UseInv
<1>6. /\ Cardinality(Users[b]) \in Nat /\ Cardinality(Users[b]) # 0
      /\ Cardinality(Users[b] \ {p}) = Cardinality(Users[b]) - 1
  BY <1>5, UsersFinite, Zenon
<1> HIDE DEF b
<1>7. \A c \in Bufs :
        /\ bufs'[c].refcnt = IF c = b THEN bufs[c].refcnt - 1 ELSE bufs[c].refcnt
        /\ bufs'[c].blockno = bufs[c].blockno /\ bufs'[c].locked = bufs[c].locked
        /\ bufs'[c].valid = bufs[c].valid /\ bufs'[c].dirty = bufs[c].dirty
        /\ bufs'[c].data = bufs[c].data
  <2> TAKE c \in Bufs
  <2>1. bufs[c] \in BRec BY Zenon DEF TypeInv
  <2>2. bufs'[c] = IF c = b THEN [bufs[c] EXCEPT !.refcnt = bufs[c].refcnt - 1] ELSE bufs[c]
    BY <1>1, <1>2, Zenon DEF TypeInv
  <2> QED BY <2>1, <2>2, Zenon DEF BRec
<1>8. TypeInv'
  <2>1. bpc' \in [BHands -> BPC] BY <1>1, Zenon DEF TypeInv, BPC
  <2>2. cur' \in [BHands -> 0..NBUF] BY <1>1, <1>3, Zenon DEF TypeInv
  <2>3. bufs' \in [Bufs -> BRec]
    <3>1. bufs[b] \in BRec BY <1>2, Zenon DEF TypeInv
    <3>2. bufs[b].refcnt - 1 \in Nat BY <1>5, <1>6
    <3>3. [bufs[b] EXCEPT !.refcnt = @ - 1] \in BRec BY <3>1, <3>2, Zenon DEF BRec
    <3> QED BY <3>3, <1>1, <1>2, Zenon DEF TypeInv
  <2>4. lru' \in [Bufs -> Bufs] /\ \A c \in Bufs : \E i \in Bufs : lru'[i] = c
    <3>1. CASE bufs'[b].refcnt = 0
      <4>1. lru' = ToFront(b) BY <3>1, <1>1, Zenon
      <4> QED BY <4>1, <1>2, FrontKeepsAll, Zenon DEF TypeInv
    <3>2. CASE bufs'[b].refcnt # 0 BY <3>2, <1>1, Zenon DEF TypeInv
    <3> QED BY <3>1, <3>2, Zenon
  <2> QED BY <2>1, <2>2, <2>3, <2>4, <1>1, Zenon DEF TypeInv
<1>9. UseInv'
  <2>1. \A q \in BHands : bpc'[q] # "idle" <=> cur'[q] \in Bufs
    BY <1>3, <1>4, Zenon DEF UseInv
  <2>2. \A q \in BHands : bpc'[q] # "idle" => bufs'[cur'[q]].blockno \in Blocks
    BY <1>4, <1>7 DEF UseInv
  <2>3. ASSUME NEW c \in Bufs PROVE bufs'[c].refcnt = Cardinality(Users'[c])
    <3>1. bufs[c].refcnt = Cardinality(Users[c]) BY Zenon DEF UseInv
    <3>2. CASE c = b
      <4>1. Users'[c] = Users[c] \ {p} BY <1>3, <1>4, <3>2, Zenon DEF Users
      <4> QED BY <3>1, <3>2, <4>1, <1>6, <1>7, Zenon
    <3>3. CASE c # b
      <4>1. Users'[c] = Users[c] BY <1>3, <1>4, <3>3, Zenon DEF Users, b
      <4> QED BY <3>1, <3>3, <4>1, <1>7, Zenon
    <3> QED BY <3>2, <3>3, Zenon
  <2> QED BY <2>1, <2>2, <2>3, Zenon DEF UseInv
<1>10. HoldInv'
  <2>1. ASSUME NEW c \in Bufs, NEW q \in BHands
        PROVE  /\ bufs'[c].locked = q <=> cur'[q] = c /\ bpc'[q] \in Holding
               /\ bufs'[c].locked = NoB => ~(cur'[q] = c /\ bpc'[q] = "locksleep")
    <3>1. CASE q = p BY <3>1, <1>1, <1>3, <1>4, <1>7 DEF HoldInv, Holding
    <3>2. CASE q # p BY <3>2, <1>4, <1>7 DEF HoldInv
    <3> QED BY <3>1, <3>2, Zenon
  <2> QED BY <2>1, Zenon DEF HoldInv
<1>11. QueueInv'
  <2>1. \A q \in BHands : bpc'[q] = "idesleep" => bpc[q] = "idesleep" /\ cur'[q] = cur[q]
    BY <1>4, Zenon
  <2>2. \A q \in BHands : bpc[q] = "idesleep" => bpc'[q] = "idesleep" /\ cur'[q] = cur[q]
    BY <1>1, <1>4, Zenon
  <2> QED BY <2>1, <2>2, <1>1 DEF QueueInv
<1>12. FlagInv'
  <2>1. \A q \in BHands :
          bpc'[q] # "idle" => bpc'[q] = bpc[q] /\ cur'[q] = cur[q] /\ cur[q] \in Bufs
    BY <1>4, Zenon DEF UseInv
  <2> QED BY <2>1, <1>1, <1>7 DEF FlagInv, Transfer, Synced
<1>13. OneBufferPerBlock' BY <1>7 DEF OneBufferPerBlock
<1>14. DataInv'
  <2>1. idequeue # <<>> => idequeue[1] \in Bufs BY FirstRequest, Zenon
  <2> QED BY <2>1, <1>1, <1>7 DEF DataInv
<1>15. Pinned' \subseteq Pinned
  <2>1. \A q \in BHands : bpc[q] \in Transfer => cur'[q] = cur[q] /\ bpc'[q] = bpc[q]
    BY <1>1, <1>4, Zenon DEF Transfer
  <2> QED BY <2>1, <1>7, Zenon DEF Pinned
<1> QED BY <1>8, <1>9, <1>10, <1>11, <1>12, <1>13, <1>14, <1>15, PinShrinks, Zenon

-----------------------------------------------------------------------------
(* The disk after idestart of buffer b.                                    *)
Started(b) == IF bufs[b].dirty
              THEN [disk EXCEPT ![bufs[b].blockno] = bufs[b].data] ELSE disk

(* idestart writes a dirty buffer, whose contents are the last of its      *)
(* block.                                                                  *)
LEMMA StartData ==
  ASSUME BInv, NEW b \in Bufs
  PROVE  /\ Started(b) \in [Blocks -> BData]
         /\ \A m \in Blocks : Started(b)[m] = disk[m] \/ Started(b)[m] = latest[m]
         /\ \A m \in Blocks : m # bufs[b].blockno => Started(b)[m] = disk[m]
         /\ bufs[b].dirty => Started(b)[bufs[b].blockno] = bufs[b].data
<1> USE DEF BInv
<1>1. disk \in [Blocks -> BData] /\ bufs[b].data \in BData BY Zenon DEF TypeInv, BRec
<1>2. CASE bufs[b].dirty
  <2>1. /\ bufs[b].blockno \in Blocks
        /\ bufs[b].data = latest[bufs[b].blockno]
    BY <1>2, Zenon DEF FlagInv, DataInv
  <2>2. Started(b) = [disk EXCEPT ![bufs[b].blockno] = bufs[b].data]
    BY <1>2, Zenon DEF Started
  <2> QED BY <1>1, <2>1, <2>2, Zenon
<1>3. CASE ~bufs[b].dirty
  <2>1. Started(b) = disk BY <1>3, Zenon DEF Started
  <2> QED BY <1>1, <1>3, <2>1, Zenon
<1> QED BY <1>2, <1>3, Zenon

(* A block with a clean, unread buffer is up to date on the disk.          *)
LEMMA CleanOnDisk ==
  ASSUME BInv, NEW b \in Bufs, bufs[b].blockno \in Blocks, ~bufs[b].dirty
  PROVE  disk[bufs[b].blockno] = latest[bufs[b].blockno]
<1>1. bufs[b].blockno # NoB BY BufAssumption, Zenon
<1>2. \A c \in Bufs : bufs[c].blockno = bufs[b].blockno => c = b
  BY <1>1, Zenon DEF BInv, OneBufferPerBlock
<1> QED BY <1>2, Zenon DEF BInv, DataInv

(* iderw of ide.c queues the request; the first one starts at once.        *)
LEMMA IderwInv ==
  ASSUME BInv, NEW p \in BHands, iderw(p)
  PROVE  BInv'
<1> USE DEF BInv
<1> DEFINE b == cur[p]
<1>1. bpc[p] = "iderw" BY Zenon DEF iderw
<1>2. b \in Bufs /\ bufs[b].locked = p /\ ~Synced(b)
  BY <1>1 DEF UseInv, HoldInv, Holding, FlagInv, Transfer
<1>3. /\ idequeue' = Append(idequeue, b)
      /\ disk' = IF idequeue = <<>> THEN idestart(<<b>>, disk) ELSE disk
      /\ bpc' = [bpc EXCEPT ![p] = "idesleep"]
      /\ UNCHANGED <<lru, bufs, cur, bpanic, latest, unread>>
  BY <1>2, Zenon DEF iderw, go, ghosts
<1>4. idestart(<<b>>, disk) = Started(b) BY Zenon DEF idestart, Started
<1>5. \A i \in 1..Len(idequeue) : idequeue[i] # b
  BY <1>1, NotQueued, Zenon DEF Holding
<1> HIDE DEF b
<1>6. \A q \in BHands : bpc'[q] = IF q = p THEN "idesleep" ELSE bpc[q]
  BY <1>3, Zenon DEF TypeInv
<1>7. /\ idequeue \in Seq(Bufs) /\ Len(idequeue) \in Nat
      /\ idequeue' \in Seq(Bufs) /\ Len(idequeue') = Len(idequeue) + 1
      /\ \A i \in 1..Len(idequeue) : idequeue'[i] = idequeue[i]
      /\ idequeue'[Len(idequeue) + 1] = b
  BY <1>2, <1>3, AppendProperties, LenProperties DEF TypeInv
<1>8. TypeInv'
  <2>1. bpc' \in [BHands -> BPC] BY <1>3, Zenon DEF TypeInv, BPC
  <2>2. disk' \in [Blocks -> BData] BY <1>2, <1>3, <1>4, StartData, ZenonT(60) DEF TypeInv
  <2> QED BY <2>1, <2>2, <1>3, <1>7, Zenon DEF TypeInv
<1>9. UseInv'
  <2>1. Users' = Users BY <1>3, Zenon DEF Users
  <2> QED BY <2>1, <1>1, <1>3, <1>6 DEF UseInv
<1>10. HoldInv' BY <1>1, <1>3, <1>6 DEF HoldInv, Holding
<1>11. QueueInv'
  <2>1. ASSUME NEW i \in 1..Len(idequeue'), NEW j \in 1..Len(idequeue'),
               idequeue'[i] = idequeue'[j]
        PROVE  i = j
    BY <2>1, <1>5, <1>7 DEF QueueInv
  <2>2. ASSUME NEW q \in BHands, bpc'[q] = "idesleep"
        PROVE  \E i \in 1..Len(idequeue') : idequeue'[i] = cur'[q]
    <3>1. CASE q = p
      <4>1. Len(idequeue) + 1 \in 1..Len(idequeue') BY <1>7
      <4> QED BY <3>1, <4>1, <1>3, <1>7, Zenon DEF b
    <3>2. CASE q # p
      <4>1. PICK i \in 1..Len(idequeue) : idequeue[i] = cur[q]
        BY <2>2, <3>2, <1>6, Zenon DEF QueueInv
      <4>2. i \in 1..Len(idequeue') /\ idequeue'[i] = idequeue[i] BY <1>7
      <4> QED BY <4>1, <4>2, <1>3, Zenon
    <3> QED BY <3>1, <3>2, Zenon
  <2>3. ASSUME NEW i \in 1..Len(idequeue')
        PROVE  \E q \in BHands : cur'[q] = idequeue'[i] /\ bpc'[q] = "idesleep"
    <3>1. CASE i = Len(idequeue) + 1
      BY <3>1, <1>3, <1>6, <1>7, Zenon DEF b
    <3>2. CASE i # Len(idequeue) + 1
      <4>1. i \in 1..Len(idequeue) BY <3>2, <1>7
      <4>2. PICK q \in BHands : cur[q] = idequeue[i] /\ bpc[q] = "idesleep"
        BY <4>1, Zenon DEF QueueInv
      <4>3. bpc'[q] = "idesleep" BY <4>2, <1>6, Zenon
      <4> QED BY <4>1, <4>2, <4>3, <1>3, <1>7, Zenon
    <3> QED BY <3>1, <3>2, Zenon
  <2> QED BY <2>1, <2>2, <2>3, Zenon DEF QueueInv
<1>12. FlagInv'
  <2>1. ~(bufs[cur[p]].valid /\ ~bufs[cur[p]].dirty) BY <1>2, Zenon DEF Synced, b
  <2> QED BY <2>1, <1>3, <1>6 DEF FlagInv, Transfer, Synced
<1>13. OneBufferPerBlock' BY <1>3, Zenon DEF OneBufferPerBlock
<1>14. DataInv'
  <2>1. \A c \in Bufs : bufs'[c].valid /\ c \notin unread' =>
          bufs'[c].data = latest'[bufs'[c].blockno]
    BY <1>3, Zenon DEF DataInv
  <2>2. CASE idequeue = <<>>
    <3>1. disk' = Started(b) /\ idequeue'[1] = b
      BY <2>2, <1>3, <1>4, <1>7
    <3>2. \A m \in Blocks : disk'[m] = latest'[m] \/
            \E c \in Bufs : bufs'[c].blockno = m /\ bufs'[c].dirty
      <4>1. \A m \in Blocks : disk'[m] = disk[m] \/ disk'[m] = latest[m]
        BY <3>1, <1>2, StartData, Zenon
      <4>2. bufs' = bufs /\ latest' = latest BY <1>3, Zenon
      <4> QED BY <4>1, <4>2, Zenon DEF DataInv
    <3>3. bufs'[idequeue'[1]].dirty =>
            disk'[bufs'[idequeue'[1]].blockno] = bufs'[idequeue'[1]].data
      BY <3>1, <1>2, <1>3, StartData, Zenon
    <3> QED BY <2>1, <3>2, <3>3, Zenon DEF DataInv
  <2>3. CASE idequeue # <<>>
    <3>1. disk' = disk BY <2>3, <1>3, Zenon
    <3>2. idequeue'[1] = idequeue[1] BY <2>3, <1>7, FirstRequest, Zenon
    <3> QED BY <2>1, <2>3, <3>1, <3>2, <1>3, Zenon DEF DataInv
  <2> QED BY <2>2, <2>3, Zenon
<1>15. Pinned' \subseteq Pinned
  BY <1>1, <1>3, <1>6, Zenon DEF Pinned, Transfer
<1> QED BY <1>8, <1>9, <1>10, <1>11, <1>12, <1>13, <1>14, <1>15, PinShrinks, Zenon

(* What a finished transfer leaves in the buffer b: the flags of a valid   *)
(* clean buffer, and for a read the block of the disk.                     *)
Finished(b, v) ==
  bufs' = [bufs EXCEPT ![b].valid = TRUE, ![b].dirty = FALSE, ![b].data = v]

(* The fields of the buffers after a transfer.                             *)
LEMMA FinishedFields ==
  ASSUME TypeInv, NEW b \in Bufs, NEW v \in BData, Finished(b, v)
  PROVE  /\ bufs' \in [Bufs -> BRec]
         /\ \A c \in Bufs \ {b} : bufs'[c] = bufs[c]
         /\ bufs'[b].valid = TRUE /\ bufs'[b].dirty = FALSE /\ bufs'[b].data = v
         /\ \A c \in Bufs : /\ bufs'[c].blockno = bufs[c].blockno
                            /\ bufs'[c].refcnt = bufs[c].refcnt
                            /\ bufs'[c].locked = bufs[c].locked
<1> DEFINE r == [bufs[b] EXCEPT !.valid = TRUE, !.dirty = FALSE, !.data = v]
<1>1. bufs[b] \in BRec BY Zenon DEF TypeInv
<1>2. bufs' = [bufs EXCEPT ![b] = r] BY <1>1, Zenon DEF Finished, TypeInv, BRec
<1>3. r \in BRec /\ r.valid = TRUE /\ r.dirty = FALSE /\ r.data = v
  BY <1>1, Zenon DEF BRec
<1>4. r.blockno = bufs[b].blockno /\ r.refcnt = bufs[b].refcnt /\ r.locked = bufs[b].locked
  BY <1>1, Zenon DEF BRec
<1> HIDE DEF r
<1>5. bufs'[b] = r /\ \A c \in Bufs \ {b} : bufs'[c] = bufs[c]
  BY <1>2, Zenon DEF TypeInv
<1>6. bufs' \in [Bufs -> BRec] BY <1>2, <1>3, Zenon DEF TypeInv
<1> QED BY <1>3, <1>4, <1>5, <1>6, Zenon

(* ideintr finishes the first request and starts the next one.             *)
LEMMA IntrInv ==
  ASSUME BInv, NEW fails \in BOOLEAN, ideintr(fails)
  PROVE  BInv'
<1> USE DEF BInv
<1> DEFINE b == idequeue[1]
           k == bufs[b].blockno
           T == Tail(idequeue)
           v == IF ~bufs[b].dirty /\ ~fails THEN disk[k] ELSE bufs[b].data
<1>1. idequeue # <<>> BY Zenon DEF ideintr
<1>2. b \in Bufs /\ b = Head(idequeue) /\ 1 \in 1..Len(idequeue)
  BY <1>1, FirstRequest, Zenon
<1>3. /\ fails => ~bufs[b].dirty
      /\ Finished(b, v)
      /\ unread' = IF fails THEN unread \cup {b} ELSE unread
      /\ idequeue' = T /\ disk' = idestart(T, disk)
      /\ bpc' = wake(bpc, b, "idesleep", "idewoken")
      /\ UNCHANGED <<lru, cur, bpanic, latest>>
  BY <1>2, Zenon DEF ideintr, Finished
<1>4. k \in Blocks
  <2>1. PICK q \in BHands : cur[q] = b /\ bpc[q] = "idesleep"
    BY <1>2, Zenon DEF QueueInv
  <2> QED BY <2>1, Zenon DEF UseInv
<1>5. v \in BData
  <2>1. disk[k] \in BData BY <1>4, Zenon DEF TypeInv
  <2>2. bufs[b].data \in BData BY <1>2, Zenon DEF TypeInv, BRec
  <2> QED BY <2>1, <2>2, Zenon
<1>6. /\ T \in Seq(Bufs) /\ Len(T) = Len(idequeue) - 1 /\ Len(idequeue) \in Nat
      /\ \A i \in 1..Len(T) : T[i] = idequeue[i+1] /\ i + 1 \in 1..Len(idequeue)
  <2>1. idequeue \in Seq(Bufs) BY Zenon DEF TypeInv
  <2>2. /\ T \in Seq(Bufs) /\ Len(T) = Len(idequeue) - 1
        /\ \A i \in 1..Len(T) : T[i] = idequeue[i+1]
    BY <1>1, <2>1, HeadTailProperties, Zenon
  <2>3. Len(idequeue) \in Nat BY <2>1, LenProperties, Zenon
  <2> QED BY <2>2, <2>3
<1>7. \A i \in 1..Len(T) : T[i] \in Bufs \ {b}
  <2> TAKE i \in 1..Len(T)
  <2>1. T[i] \in Bufs BY <1>6, ElementOfSeq, Zenon
  <2>2. i + 1 # 1 BY <1>6
  <2> QED BY <2>1, <2>2, <1>2, <1>6 DEF QueueInv
<1>8. bufs[b].dirty => v = bufs[b].data BY Zenon
<1>9. ~bufs[b].dirty /\ ~fails => v = disk[k] BY Zenon
<1> HIDE DEF b, k, T, v
<1>10. /\ bufs' \in [Bufs -> BRec]
       /\ \A c \in Bufs \ {b} : bufs'[c] = bufs[c]
       /\ bufs'[b].valid = TRUE /\ bufs'[b].dirty = FALSE /\ bufs'[b].data = v
       /\ \A c \in Bufs : /\ bufs'[c].blockno = bufs[c].blockno
                          /\ bufs'[c].refcnt = bufs[c].refcnt
                          /\ bufs'[c].locked = bufs[c].locked
  BY <1>2, <1>3, <1>5, FinishedFields, Zenon
<1>11. \A q \in BHands :
         bpc'[q] = IF bpc[q] = "idesleep" /\ cur[q] = b THEN "idewoken" ELSE bpc[q]
  BY <1>3, Zenon DEF wake
<1>12. /\ disk' \in [Blocks -> BData]
       /\ \A m \in Blocks : disk'[m] = disk[m] \/ disk'[m] = latest[m]
       /\ T # <<>> => T[1] \in Bufs \ {b}
       /\ T # <<>> /\ bufs[T[1]].dirty => disk'[bufs[T[1]].blockno] = bufs[T[1]].data
  <2>1. CASE T = <<>>
    <3>1. disk' = disk BY <2>1, <1>3, Zenon DEF idestart
    <3> QED BY <2>1, <3>1, Zenon DEF TypeInv
  <2>2. CASE T # <<>>
    <3>1. 1 \in 1..Len(T) BY <2>2, <1>6
    <3>2. T[1] \in Bufs /\ T[1] \in Bufs \ {b} BY <3>1, <1>7, Zenon
    <3>3. disk' = Started(T[1]) BY <2>2, <1>3, Zenon DEF idestart, Started
    <3> QED BY <3>2, <3>3, StartData, Zenon
  <2> QED BY <2>1, <2>2, Zenon
<1>13. TypeInv'
  <2>1. bpc' \in [BHands -> BPC] BY <1>3, Zenon DEF TypeInv, BPC, wake
  <2>2. unread' \in SUBSET Bufs BY <1>2, <1>3, Zenon DEF TypeInv
  <2> QED BY <2>1, <2>2, <1>3, <1>6, <1>10, <1>12, Zenon DEF TypeInv
<1>14. UseInv'
  <2>1. Users' = Users BY <1>3, Zenon DEF Users
  <2>2. \A q \in BHands : bpc'[q] = "idle" <=> bpc[q] = "idle" BY <1>11, Zenon
  <2>3. \A q \in BHands : bpc[q] # "idle" => bufs'[cur[q]].blockno = bufs[cur[q]].blockno
    BY <1>10, Zenon DEF UseInv
  <2> QED BY <2>1, <2>2, <2>3, <1>3, <1>10, Zenon DEF UseInv
<1>15. HoldInv'
  <2>1. \A q \in BHands : /\ bpc'[q] \in Holding <=> bpc[q] \in Holding
                          /\ bpc'[q] = "locksleep" <=> bpc[q] = "locksleep"
    BY <1>11, Zenon DEF Holding
  <2>2. cur' = cur BY <1>3, Zenon
  <2> QED BY <2>1, <2>2, <1>10 DEF HoldInv
<1>16. QueueInv'
  <2>1. ASSUME NEW i \in 1..Len(T), NEW j \in 1..Len(T), T[i] = T[j]
        PROVE  i = j
    <3>1. i + 1 = j + 1 BY <2>1, <1>6, SMTT(60) DEF QueueInv
    <3> QED BY <3>1, <1>6
  <2>2. ASSUME NEW q \in BHands, bpc'[q] = "idesleep"
        PROVE  \E i \in 1..Len(T) : T[i] = cur[q]
    <3>1. bpc[q] = "idesleep" /\ cur[q] # b BY <2>2, <1>11, Zenon
    <3>2. PICK i \in 1..Len(idequeue) : idequeue[i] = cur[q] BY <3>1, Zenon DEF QueueInv
    <3>3. i # 1 BY <3>1, <3>2, Zenon DEF b
    <3>4. i - 1 \in 1..Len(T) /\ (i - 1) + 1 = i BY <3>3, <1>6
    <3>5. T[i-1] = cur[q] BY <3>2, <3>4, <1>6, Zenon
    <3> QED BY <3>4, <3>5, Zenon
  <2>3. ASSUME NEW i \in 1..Len(T)
        PROVE  \E q \in BHands : cur[q] = T[i] /\ bpc'[q] = "idesleep"
    <3>1. PICK q \in BHands : cur[q] = idequeue[i+1] /\ bpc[q] = "idesleep"
      BY <1>6, Zenon DEF QueueInv
    <3>2. cur[q] = T[i] /\ cur[q] # b BY <3>1, <1>6, <1>7, Zenon
    <3> QED BY <3>1, <3>2, <1>11, Zenon
  <2> QED BY <2>1, <2>2, <2>3, <1>3 DEF QueueInv
<1>17. FlagInv'
  <2>1. \A c \in Bufs : /\ bufs'[c].dirty => bufs'[c].valid /\ c \notin unread'
                        /\ bufs'[c].valid => bufs'[c].blockno \in Blocks
    BY <1>3, <1>4, <1>10, Zenon DEF FlagInv, k
  <2>2. ASSUME NEW q \in BHands
        PROVE  /\ bpc'[q] = "use" => bufs'[cur[q]].valid
               /\ bpc'[q] = "idewoken" => bufs'[cur[q]].valid /\ ~bufs'[cur[q]].dirty
               /\ bpc'[q] \in Transfer =>
                    ~(bufs'[cur[q]].valid /\ ~bufs'[cur[q]].dirty)
    <3>1. CASE cur[q] = b
      <4>1. bpc[q] # "iderw" BY <3>1, <1>2, NotQueued, Zenon DEF Holding, b
      <4>2. bpc'[q] \notin Transfer BY <3>1, <4>1, <1>11, Zenon DEF Transfer
      <4> QED BY <3>1, <4>2, <1>10, Zenon
    <3>2. CASE cur[q] # b
      <4>1. bpc'[q] = bpc[q] BY <3>2, <1>11, Zenon
      <4>2. CASE bpc[q] = "idle" BY <4>1, <4>2, Zenon DEF Transfer
      <4>3. CASE bpc[q] # "idle"
        <5>1. bufs'[cur[q]] = bufs[cur[q]] BY <4>3, <3>2, <1>10, Zenon DEF UseInv
        <5> QED BY <4>1, <5>1, Zenon DEF FlagInv, Synced
      <4> QED BY <4>2, <4>3, Zenon
    <3> QED BY <3>1, <3>2, Zenon
  <2> QED BY <2>1, <2>2, <1>3, Zenon DEF FlagInv, Synced
<1>18. OneBufferPerBlock' BY <1>10 DEF OneBufferPerBlock
<1>19. DataInv'
  <2>1. bufs[b].dirty => /\ b \notin unread /\ bufs[b].data = latest[k]
                         /\ disk[k] = bufs[b].data
    BY <1>1, <1>2, Zenon DEF FlagInv, DataInv, b, k
  <2>2. ~bufs[b].dirty => disk[k] = latest[k]
    BY <1>2, <1>4, CleanOnDisk, Zenon DEF k
  <2>3. ASSUME NEW c \in Bufs, bufs'[c].valid, c \notin unread'
        PROVE  bufs'[c].data = latest[bufs'[c].blockno]
    <3>1. CASE c = b
      <4>1. ~fails BY <2>3, <3>1, <1>3, Zenon
      <4>2. v = latest[k] BY <4>1, <2>1, <2>2, <1>8, <1>9
      <4> QED BY <3>1, <4>2, <1>2, <1>10, Zenon DEF k
    <3>2. CASE c # b
      <4>1. bufs'[c] = bufs[c] /\ c \notin unread BY <2>3, <3>2, <1>3, <1>10, Zenon
      <4> QED BY <2>3, <4>1, Zenon DEF DataInv
    <3> QED BY <3>1, <3>2, Zenon
  <2>4. ASSUME NEW m \in Blocks
        PROVE  disk'[m] = latest[m] \/
                 \E c \in Bufs : bufs'[c].blockno = m /\ bufs'[c].dirty
    <3>1. CASE m = k BY <3>1, <2>1, <2>2, <1>12, Zenon
    <3>2. CASE m # k
      <4>1. CASE disk[m] = latest[m] BY <4>1, <1>12, Zenon
      <4>2. CASE \E c \in Bufs : bufs[c].blockno = m /\ bufs[c].dirty
        <5>1. PICK c \in Bufs : bufs[c].blockno = m /\ bufs[c].dirty BY <4>2, Zenon
        <5>2. c # b BY <5>1, <3>2, Zenon DEF k
        <5> QED BY <5>1, <5>2, <1>10, Zenon
      <4> QED BY <4>1, <4>2, Zenon DEF DataInv
    <3> QED BY <3>1, <3>2, Zenon
  <2>5. ASSUME T # <<>>, bufs'[T[1]].dirty
        PROVE  disk'[bufs'[T[1]].blockno] = bufs'[T[1]].data
    <3>1. bufs'[T[1]] = bufs[T[1]] BY <2>5, <1>10, <1>12, Zenon
    <3> QED BY <2>5, <3>1, <1>12, Zenon
  <2> QED BY <2>3, <2>4, <2>5, <1>3, Zenon DEF DataInv
<1>20. Pinned' \subseteq Pinned
  <2> SUFFICES ASSUME NEW c \in Pinned' PROVE c \in Pinned BY Zenon
  <2>1. c \in Bufs /\ c # b BY <1>10, Zenon DEF Pinned
  <2>2. bufs'[c] = bufs[c] BY <2>1, <1>10, Zenon
  <2>3. \A q \in BHands : cur[q] = c => bpc'[q] = bpc[q] BY <2>1, <1>11, Zenon
  <2>4. cur' = cur BY <1>3, Zenon
  <2> QED BY <2>1, <2>2, <2>3, <2>4, Zenon DEF Pinned
<1> QED BY <1>13, <1>14, <1>15, <1>16, <1>17, <1>18, <1>19, <1>20, PinShrinks, Zenon

(* iderw of memide.c transfers at once.                                    *)
LEMMA MemInv ==
  ASSUME BInv, NEW p \in BHands, iderw_mem(p)
  PROVE  BInv'
<1> USE DEF BInv
<1> DEFINE b == cur[p]
           k == bufs[b].blockno
           v == IF bufs[b].dirty THEN bufs[b].data ELSE disk[k]
<1>1. bpc[p] = "iderw" BY Zenon DEF iderw_mem
<1>2. b \in Bufs /\ bufs[b].locked = p /\ ~Synced(b) /\ k \in Blocks
  BY <1>1 DEF UseInv, HoldInv, Holding, FlagInv, Transfer
<1>3. /\ disk' = idestart(<<b>>, disk)
      /\ Finished(b, v)
      /\ bpc' = [bpc EXCEPT ![p] = "use"]
      /\ UNCHANGED <<lru, idequeue, cur, bpanic, latest, unread>>
  BY <1>2, Zenon DEF iderw_mem, go, ghosts, Finished
<1>4. disk' = Started(b) BY <1>3, Zenon DEF idestart, Started
<1>5. \A i \in 1..Len(idequeue) : idequeue[i] # b
  BY <1>1, NotQueued, Zenon DEF Holding
<1>6. v \in BData
  <2>1. disk[k] \in BData BY <1>2, Zenon DEF TypeInv
  <2>2. bufs[b].data \in BData BY <1>2, Zenon DEF TypeInv, BRec
  <2> QED BY <2>1, <2>2, Zenon
<1>7. v = latest[k] /\ (bufs[b].dirty => v = bufs[b].data)
  <2>1. CASE bufs[b].dirty BY <2>1, <1>2, Zenon DEF FlagInv, DataInv
  <2>2. CASE ~bufs[b].dirty BY <2>2, <1>2, CleanOnDisk, Zenon
  <2> QED BY <2>1, <2>2, Zenon
<1>8. ~bufs[b].dirty => disk[k] = latest[k] BY <1>2, CleanOnDisk, Zenon
<1> HIDE DEF b, k, v
<1>9. \A q \in BHands : bpc'[q] = IF q = p THEN "use" ELSE bpc[q]
  BY <1>3, Zenon DEF TypeInv
<1>10. /\ bufs' \in [Bufs -> BRec]
       /\ \A c \in Bufs \ {b} : bufs'[c] = bufs[c]
       /\ bufs'[b].valid = TRUE /\ bufs'[b].dirty = FALSE /\ bufs'[b].data = v
       /\ \A c \in Bufs : /\ bufs'[c].blockno = bufs[c].blockno
                          /\ bufs'[c].refcnt = bufs[c].refcnt
                          /\ bufs'[c].locked = bufs[c].locked
  BY <1>2, <1>3, <1>6, FinishedFields, Zenon
<1>11. /\ disk' \in [Blocks -> BData]
       /\ \A m \in Blocks : disk'[m] = disk[m] \/ disk'[m] = latest[m]
       /\ \A m \in Blocks : m # k => disk'[m] = disk[m]
       /\ bufs[b].dirty => disk'[k] = v
  <2>1. /\ Started(b) \in [Blocks -> BData]
        /\ \A m \in Blocks : Started(b)[m] = disk[m] \/ Started(b)[m] = latest[m]
        /\ \A m \in Blocks : m # k => Started(b)[m] = disk[m]
        /\ bufs[b].dirty => Started(b)[k] = bufs[b].data
    BY <1>2, StartData, Zenon DEF k
  <2> QED BY <2>1, <1>4, <1>7, Zenon
<1>12. TypeInv'
  <2>1. bpc' \in [BHands -> BPC] BY <1>3, Zenon DEF TypeInv, BPC
  <2> QED BY <2>1, <1>3, <1>10, <1>11, Zenon DEF TypeInv
<1>13. cur' = cur BY <1>3, Zenon
<1>14. UseInv'
  <2>1. Users' = Users BY <1>3, Zenon DEF Users
  <2>2. \A q \in BHands : bpc'[q] = "idle" <=> bpc[q] = "idle" BY <1>1, <1>9, Zenon
  <2>3. \A q \in BHands : bpc[q] # "idle" => bufs'[cur[q]].blockno = bufs[cur[q]].blockno
    BY <1>10, Zenon DEF UseInv
  <2> QED BY <2>1, <2>2, <2>3, <1>13, <1>10, Zenon DEF UseInv
<1>15. HoldInv'
  <2>1. \A q \in BHands : /\ bpc'[q] \in Holding <=> bpc[q] \in Holding
                          /\ bpc'[q] = "locksleep" <=> bpc[q] = "locksleep"
    BY <1>1, <1>9, Zenon DEF Holding
  <2> QED BY <2>1, <1>13, <1>10 DEF HoldInv
<1>16. QueueInv'
  <2>1. \A q \in BHands : bpc'[q] = "idesleep" <=> bpc[q] = "idesleep" BY <1>1, <1>9, Zenon
  <2> QED BY <2>1, <1>3, Zenon DEF QueueInv
<1>17. FlagInv'
  <2>1. \A c \in Bufs : /\ bufs'[c].dirty => bufs'[c].valid /\ c \notin unread'
                        /\ bufs'[c].valid => bufs'[c].blockno \in Blocks
    BY <1>2, <1>3, <1>10, Zenon DEF FlagInv, k
  <2>2. ASSUME NEW q \in BHands
        PROVE  /\ bpc'[q] = "use" => bufs'[cur[q]].valid
               /\ bpc'[q] = "idewoken" => bufs'[cur[q]].valid /\ ~bufs'[cur[q]].dirty
               /\ bpc'[q] \in Transfer =>
                    ~(bufs'[cur[q]].valid /\ ~bufs'[cur[q]].dirty)
    <3>1. CASE q = p BY <3>1, <1>9, <1>10, Zenon DEF Transfer, b
    <3>2. CASE q # p /\ cur[q] = b
      <4>1. bpc[q] \notin Holding BY <3>2, <1>2, Zenon DEF HoldInv
      <4> QED BY <3>2, <4>1, <1>9, Zenon DEF Holding, Transfer
    <3>3. CASE q # p /\ cur[q] # b
      <4>1. bpc'[q] = bpc[q] BY <3>3, <1>9, Zenon
      <4>2. CASE bpc[q] = "idle" BY <4>1, <4>2, Zenon DEF Transfer
      <4>3. CASE bpc[q] # "idle"
        <5>1. bufs'[cur[q]] = bufs[cur[q]] BY <4>3, <3>3, <1>10, Zenon DEF UseInv
        <5> QED BY <4>1, <5>1, Zenon DEF FlagInv, Synced
      <4> QED BY <4>2, <4>3, Zenon
    <3> QED BY <3>1, <3>2, <3>3, Zenon
  <2> QED BY <2>1, <2>2, <1>13, Zenon DEF FlagInv, Synced
<1>18. OneBufferPerBlock' BY <1>10 DEF OneBufferPerBlock
<1>19. DataInv'
  <2>1. ASSUME NEW c \in Bufs, bufs'[c].valid, c \notin unread
        PROVE  bufs'[c].data = latest[bufs'[c].blockno]
    <3>1. CASE c = b BY <3>1, <1>7, <1>10, Zenon DEF k
    <3>2. CASE c # b
      <4>1. bufs'[c] = bufs[c] BY <3>2, <1>10, Zenon
      <4> QED BY <2>1, <4>1, Zenon DEF DataInv
    <3> QED BY <3>1, <3>2, Zenon
  <2>2. ASSUME NEW m \in Blocks
        PROVE  disk'[m] = latest[m] \/
                 \E c \in Bufs : bufs'[c].blockno = m /\ bufs'[c].dirty
    <3>1. CASE m = k BY <3>1, <1>7, <1>8, <1>11, Zenon
    <3>2. CASE m # k
      <4>1. CASE disk[m] = latest[m] BY <4>1, <1>11, Zenon
      <4>2. CASE \E c \in Bufs : bufs[c].blockno = m /\ bufs[c].dirty
        <5>1. PICK c \in Bufs : bufs[c].blockno = m /\ bufs[c].dirty BY <4>2, Zenon
        <5>2. c # b BY <5>1, <3>2, Zenon DEF k
        <5> QED BY <5>1, <5>2, <1>10, Zenon
      <4> QED BY <4>1, <4>2, Zenon DEF DataInv
    <3> QED BY <3>1, <3>2, Zenon
  <2>3. ASSUME idequeue # <<>>, bufs'[idequeue[1]].dirty
        PROVE  disk'[bufs'[idequeue[1]].blockno] = bufs'[idequeue[1]].data
    <3> DEFINE h == idequeue[1]
    <3>1. h \in Bufs /\ h # b BY <2>3, <1>5, FirstRequest, Zenon
    <3>2. bufs'[h] = bufs[h] BY <3>1, <1>10, Zenon
    <3>3. bufs[h].blockno \in Blocks BY <2>3, <3>1, <3>2, Zenon DEF FlagInv
    <3>4. bufs[h].blockno # k
      <4>1. k # NoB BY <1>2, BufAssumption, Zenon
      <4> QED BY <3>1, <4>1, <1>2, Zenon DEF OneBufferPerBlock, k
    <3> QED BY <2>3, <3>2, <3>3, <3>4, <1>11, Zenon DEF DataInv
  <2> QED BY <2>1, <2>2, <2>3, <1>3, ZenonT(60) DEF DataInv
<1>20. Pinned' \subseteq Pinned
  <2> SUFFICES ASSUME NEW c \in Pinned' PROVE c \in Pinned BY Zenon
  <2>1. c \in Bufs /\ c # b BY <1>10, Zenon DEF Pinned
  <2>2. bufs'[c] = bufs[c] BY <2>1, <1>10, Zenon
  <2>3. \A q \in BHands : cur[q] = c => bpc'[q] = bpc[q] BY <2>1, <1>9, Zenon DEF b
  <2> QED BY <2>1, <2>2, <2>3, <1>13, Zenon DEF Pinned
<1> QED BY <1>12, <1>14, <1>15, <1>16, <1>17, <1>18, <1>19, <1>20, PinShrinks, Zenon

-----------------------------------------------------------------------------
(* Every step of every process and every interrupt.                        *)
LEMMA NextInv == BInv /\ [BNext]_bvars => BInv'
<1> SUFFICES ASSUME BInv, [BNext]_bvars PROVE BInv' BY Zenon
<1>1. CASE UNCHANGED bvars
  <2>1. Users' = Users /\ Pinned' = Pinned BY <1>1, Zenon DEF bvars, Users, Pinned
  <2> QED
    BY <1>1, <2>1
       DEF bvars, BInv, TypeInv, UseInv, HoldInv, QueueInv, FlagInv, Synced,
           OneBufferPerBlock, DataInv, PinInv
<1>2. ASSUME NEW p \in BHands, BStep(p) PROVE BInv'
  BY <1>2, AcquireInv, BreadInv, BrelseInv, IderwInv, WokenInv, MemInv, Zenon DEF BStep
<1>3. ASSUME NEW p \in BHands, releasesleep(p) PROVE BInv' BY <1>3, ReleaseInv, Zenon
<1>4. ASSUME NEW p \in BHands, NEW k \in Blocks, bget(p, k) PROVE BInv'
  BY <1>4, BgetInv, Zenon
<1>5. ASSUME NEW p \in BHands, NEW d \in BData, bwrite(p, d) \/ log_write(p, d)
      PROVE  BInv'
  BY <1>5, BwriteInv, LogWriteInv, Zenon
<1>6. ASSUME NEW fails \in BOOLEAN, ideintr(fails) PROVE BInv' BY <1>6, IntrInv, Zenon
<1>7. bpanicked => UNCHANGED bvars BY Zenon DEF bpanicked
<1> QED BY <1>1, <1>2, <1>3, <1>4, <1>5, <1>6, <1>7, Zenon DEF BNext

(* The invariant holds for ever, for any number of processes, buffers and  *)
(* blocks and with either driver.                                          *)
THEOREM Invariant == BSpec => []BInv
BY InitInv, NextInv, PTL DEF BSpec

(* Types: every buffer is on the list and no count is out of range.        *)
LEMMA InvTypes == BInv => BTypeOK
<1> SUFFICES ASSUME BInv PROVE BTypeOK BY Zenon
<1> USE DEF BInv
<1>1. {lru[i] : i \in Bufs} = Bufs
  <2>1. lru \in [Bufs -> Bufs] /\ \A b \in Bufs : \E i \in Bufs : lru[i] = b
    BY Zenon DEF TypeInv
  <2> QED BY <2>1, Zenon
<1>2. ASSUME NEW b \in Bufs
      PROVE  bufs[b] \in [blockno : Blocks \cup {NoB}, refcnt : 0..Cardinality(BHands),
                          valid : BOOLEAN, dirty : BOOLEAN, data : BData,
                          locked : BHands \cup {NoB}]
  <2>1. bufs[b] \in BRec BY Zenon DEF TypeInv
  <2>2. Users[b] \in SUBSET BHands /\ bufs[b].refcnt = Cardinality(Users[b])
    BY Zenon DEF Users, UseInv
  <2>3. Cardinality(Users[b]) \in Nat /\ Cardinality(Users[b]) <= Cardinality(BHands)
    BY <2>2, UsersFinite, Zenon
  <2>4. Cardinality(BHands) \in Nat BY BufAssumption, FS_CardinalityType, Zenon
  <2>5. bufs[b].refcnt \in 0..Cardinality(BHands) BY <2>2, <2>3, <2>4
  <2> QED BY <2>1, <2>5, Zenon DEF BRec
<1>3. bufs = [b \in Bufs |-> bufs[b]] BY Zenon DEF TypeInv
<1> QED BY <1>1, <1>2, <1>3, Zenon DEF BTypeOK, UseInv

-----------------------------------------------------------------------------
(* When no buffer can be recycled, all but those the log pins are in use.  *)
LEMMA BuffersTaken ==
  ASSUME BInv, Unused = {}
  PROVE  NBUF - LogMax <= Cardinality(InUse)
<1> USE DEF BInv
<1> DEFINE f == [q \in InUse |-> cur[q]]
           H == {cur[q] : q \in InUse}
<1>1. \A b \in Bufs : bufs[b].refcnt # 0 \/ bufs[b].dirty
  BY Zenon DEF Unused, TypeInv
<1>2. Bufs \subseteq H \cup Pinned
  <2> SUFFICES ASSUME NEW b \in Bufs, b \notin Pinned PROVE b \in H BY Zenon
  <2>1. \E q \in BHands : cur[q] = b
    <3> SUFFICES ASSUME \A q \in BHands : cur[q] # b PROVE FALSE BY Zenon
    <3>1. Users[b] = {} BY Zenon DEF Users
    <3>2. bufs[b].refcnt = 0 BY <3>1, FS_EmptySet, SMTT(60) DEF UseInv
    <3> QED BY <3>2, <1>1, Zenon DEF Pinned
  <2> QED BY <2>1, Zenon DEF UseInv, InUse
<1>3. IsFiniteSet(InUse)
  <2>1. InUse \in SUBSET BHands BY Zenon DEF InUse
  <2> QED BY <2>1, UsersFinite, Zenon
<1>4. f \in Surjection(InUse, H) BY Zenon DEF Surjection
<1>5. IsFiniteSet(H) /\ Cardinality(H) <= Cardinality(InUse)
  <2> HIDE DEF f, H
  <2> QED BY <1>3, <1>4, FS_Surjection, Zenon
<1>6. IsFiniteSet(Bufs) /\ Cardinality(Bufs) = NBUF
  BY BufAssumption, FS_Interval DEF Bufs
<1>7. IsFiniteSet(Pinned) BY <1>6, FS_Subset, Zenon DEF Pinned
<1> HIDE DEF f, H
<1>8. /\ IsFiniteSet(H \cup Pinned)
      /\ Cardinality(H \cup Pinned) =
           Cardinality(H) + Cardinality(Pinned) - Cardinality(H \cap Pinned)
      /\ IsFiniteSet(H \cap Pinned)
  <2>1. IsFiniteSet(H \cap Pinned) BY <1>5, FS_Subset, Zenon
  <2> QED BY <2>1, <1>5, <1>7, FS_Union, Zenon
<1>9. NBUF <= Cardinality(H \cup Pinned)
  BY <1>2, <1>6, <1>8, FS_Subset, Zenon
<1>10. /\ Cardinality(H) \in Nat /\ Cardinality(Pinned) \in Nat
       /\ Cardinality(H \cap Pinned) \in Nat /\ Cardinality(InUse) \in Nat
  BY <1>3, <1>5, <1>7, <1>8, FS_CardinalityType, Zenon
<1>11. Cardinality(Pinned) <= LogMax BY Zenon DEF PinInv
<1> QED BY <1>5, <1>8, <1>9, <1>10, <1>11, BufAssumption

(* bget panics when it can recycle no buffer, and then nothing changes any *)
(* more; no other call panics.                                             *)
FullInv == bpanic = "no_buffers" => Unused = {}

LEMMA FullStays ==
  ASSUME BInv, FullInv, [BNext]_bvars
  PROVE  FullInv'
<1>1. CASE UNCHANGED bvars BY <1>1, Zenon DEF bvars, FullInv, Unused
<1>2. ASSUME NEW p \in BHands, NEW k \in Blocks, bget(p, k) PROVE FullInv'
  <2>1. CASE Cached(k) # {} \/ Unused # {}
    <3>1. bpanic' = bpanic /\ bpanic = "none" BY <1>2, <2>1, Zenon DEF bget
    <3> QED BY <3>1, Zenon DEF FullInv
  <2>2. CASE Cached(k) = {} /\ Unused = {}
    <3>1. bufs' = bufs /\ lru' = lru BY <1>2, <2>2, Zenon DEF bget
    <3> QED BY <2>2, <3>1, Zenon DEF FullInv, Unused
  <2> QED BY <2>1, <2>2, Zenon
<1>3. ASSUME NEW p \in BHands, releasesleep(p) PROVE FullInv'
  <2>1. bpc[p] = "use" /\ bpanic = "none" BY <1>3, Zenon DEF releasesleep
  <2>2. bufs[cur[p]].locked = p BY <2>1 DEF BInv, UseInv, HoldInv, Holding
  <2> QED BY <1>3, <2>1, <2>2, Zenon DEF releasesleep, FullInv
<1>4. ASSUME NEW p \in BHands, iderw(p) \/ iderw_mem(p) PROVE FullInv'
  <2>1. bpc[p] = "iderw" /\ bpanic = "none" BY <1>4, Zenon DEF iderw, iderw_mem
  <2>2. bufs[cur[p]].locked = p /\ ~Synced(cur[p])
    BY <2>1 DEF BInv, UseInv, HoldInv, Holding, FlagInv, Transfer
  <2> QED BY <1>4, <2>1, <2>2, Zenon DEF iderw, iderw_mem, FullInv
<1>5. ASSUME NEW p \in BHands, acquiresleep(p) \/ bread(p) \/ brelse(p) \/ idewoken(p)
      PROVE  FullInv'
  BY <1>5, Zenon DEF acquiresleep, bread, brelse, idewoken, FullInv
<1>6. ASSUME NEW p \in BHands, NEW d \in BData, bwrite(p, d) \/ log_write(p, d)
      PROVE  FullInv'
  BY <1>6, Zenon DEF bwrite, log_write, Written, FullInv
<1>7. ASSUME NEW fails \in BOOLEAN, ideintr(fails) PROVE FullInv'
  BY <1>7, Zenon DEF ideintr, FullInv
<1>8. bpanicked => UNCHANGED bvars BY Zenon DEF bpanicked
<1> QED BY <1>1, <1>2, <1>3, <1>4, <1>5, <1>6, <1>7, <1>8, Zenon DEF BNext, BStep

(* What the invariant says to the users of the cache.                      *)
LEMMA InvRegisters == BInv /\ FullInv => CacheIsRegisters
<1> SUFFICES ASSUME BInv, FullInv PROVE CacheIsRegisters BY Zenon
<1>1. BTypeOK BY InvTypes, Zenon
<1>2. OneBufferPerBlock BY Zenon DEF BInv
<1>3. BlockIsRegister
  BY Zenon DEF BInv, UseInv, FlagInv, DataInv, BlockIsRegister
<1>4. BSleepersHaveWaker
  <2>1. ASSUME NEW p \in BHands, bpc[p] = "locksleep"
        PROVE  bufs[cur[p]].locked # NoB
    <3>1. cur[p] \in Bufs BY <2>1, Zenon DEF BInv, UseInv
    <3> QED BY <2>1, <3>1, Zenon DEF BInv, HoldInv
  <2> QED BY <2>1, Zenon DEF BInv, QueueInv, BSleepersHaveWaker
<1>5. PanicsOnlyWhenFull
  <2>1. bpanic \in {"none", "no_buffers"} BY Zenon DEF BInv, TypeInv
  <2>2. bpanic = "no_buffers" => NBUF - LogMax <= Cardinality(InUse)
    BY BuffersTaken, Zenon DEF FullInv
  <2> QED BY <2>1, <2>2, Zenon DEF PanicsOnlyWhenFull
<1> QED BY <1>1, <1>2, <1>3, <1>4, <1>5, Zenon DEF CacheIsRegisters

(* For any number of buffers, blocks and hands, and for any bound on what  *)
(* the log pins: whoever holds a buffer that bread returned sees the last  *)
(* contents given to the block (bio.c:60-125), and the one panic that can  *)
(* be met is bget's, when no more than LogMax buffers are out of use.      *)
THEOREM CacheIsSound == BSpec => []CacheIsRegisters
<1>1. BInit => FullInv BY Zenon DEF BInit, FullInv
<1>2. BInv /\ FullInv /\ [BNext]_bvars => FullInv' BY FullStays, Zenon
<1> QED BY <1>1, <1>2, Invariant, InvRegisters, PTL DEF BSpec
=============================================================================
