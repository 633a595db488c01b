------------------------------ MODULE Umalloc ------------------------------
(* The user-level allocator of xv6/umalloc.c: a circular free list in        *)
(* address order, first fit from freep, coalescing on free, growth by sbrk.  *)
(* Addresses and sizes are in units of sizeof(Header); `base` lies below the *)
(* heap.  Requests are far below the sizes at which nunits * sizeof(Header)  *)
(* overflows.                                                                *)
(*                                                                           *)
(* A definition X_Suffix is a mutant of X, a bug the code could have had; it *)
(* is used by no other definition.                                           *)
EXTENDS Naturals, FiniteSets, Functions

CONSTANTS
  Requests,     \* the nbytes a program asks for
  Header,       \* sizeof(Header)
  MinCore,      \* least units asked of sbrk, 4096 in morecore
  MaxBrk        \* bound: the end of the largest heap

VARIABLES
  um,           \* ptr[a] of the free blocks, size[a] of every block, freep, brk
  blocks,       \* blocks[a] = nbytes: the blocks the program holds
  core,         \* history: the units morecore obtained
  failed        \* history: nunits of the last malloc if it returned 0, or 0

umvars == <<um, blocks, core, failed>>

base == 0
NullP == MaxBrk + 1
FreeBlocks(h) == DOMAIN h.ptr \ {base}

UmInit ==
  /\ um = [ptr |-> <<>>, size |-> <<>>, freep |-> NullP, brk |-> 1]
  /\ blocks = <<>> /\ core = {} /\ failed = 0

With(f, a, v) == [b \in DOMAIN f \cup {a} |-> IF b = a THEN v ELSE f[b]]
Without(f, a) == [b \in DOMAIN f \ {a} |-> f[b]]

-----------------------------------------------------------------------------
(* free's loop: the free block that precedes bp in the circular list.        *)
RECURSIVE Preceding(_, _, _)
Preceding(h, bp, p) ==
  IF (bp > p /\ bp < h.ptr[p]) \/ (p >= h.ptr[p] /\ (bp > p \/ bp < h.ptr[p]))
    THEN p ELSE Preceding(h, bp, h.ptr[p])

(* bp is followed, or preceded, by a free block it is merged with.           *)
MergesUp(h, bp, p) == bp + h.size[bp] = h.ptr[p]
MergesDown(h, bp, p) == p + h.size[p] = bp

free(h, bp) ==
  LET p == Preceding(h, bp, h.freep)
      q == h.ptr[p]
      up == IF MergesUp(h, bp, p)
              THEN [h EXCEPT !.size = Without([h.size EXCEPT ![bp] = @ + h.size[q]], q),
                             !.ptr = Without(With(h.ptr, bp, h.ptr[q]), q)]
              ELSE [h EXCEPT !.ptr = With(h.ptr, bp, q)]
      down == IF MergesDown(h, bp, p)
                THEN [up EXCEPT !.size = Without([up.size EXCEPT ![p] = @ + up.size[bp]], bp),
                                !.ptr = Without([up.ptr EXCEPT ![p] = up.ptr[bp]], bp)]
                ELSE [up EXCEPT !.ptr[p] = bp]
  IN [down EXCEPT !.freep = p]

(* morecore: at least MinCore units from sbrk, given to free.                *)
Wanted(nu) == IF nu < MinCore THEN MinCore ELSE nu
morecore(h, nu) ==
  free([h EXCEPT !.brk = @ + Wanted(nu), !.size = With(@, h.brk, Wanted(nu))], h.brk)

(* malloc takes block p, which follows prevp: all of it, or its tail.        *)
Cut_Head(h, p, nunits) == p
Cut(h, p, nunits) == p + h.size[p] - nunits
Take(h, prevp, p, nunits) ==
  IF h.size[p] = nunits
    THEN <<[h EXCEPT !.ptr = Without([h.ptr EXCEPT ![prevp] = h.ptr[p]], p),
                     !.freep = prevp], p>>
    ELSE LET t == Cut(h, p, nunits)
         IN <<[h EXCEPT !.size = With([h.size EXCEPT ![p] = @ - nunits], t, nunits),
                        !.freep = prevp], t>>

(* The search has come round to where it began.                              *)
Exhausted(h, p) == p = h.freep

(* malloc's loop, with `grow` telling whether sbrk will succeed.  The result *)
(* is the heap and the block, NullP when there is none.                      *)
RECURSIVE Search(_, _, _, _, _)
Search(h, prevp, p, nunits, grow) ==
  IF h.size[p] >= nunits THEN Take(h, prevp, p, nunits)
  ELSE IF ~Exhausted(h, p) THEN Search(h, p, h.ptr[p], nunits, grow)
  ELSE IF ~grow THEN <<h, NullP>>
  ELSE LET m == morecore(h, nunits)
       IN Search(m, m.freep, m.ptr[m.freep], nunits, grow)

Units(nbytes) == (nbytes + Header - 1) \div Header + 1

(* The first call makes base a list of one empty block.                      *)
Started ==
  IF um.freep # NullP THEN um
  ELSE [um EXCEPT !.ptr = With(um.ptr, base, base), !.size = With(um.size, base, 0),
                  !.freep = base]

malloc(nbytes, grow) ==
  LET nunits == Units(nbytes)
      h == Started
      r == Search(h, h.freep, h.ptr[h.freep], nunits, grow)
  IN /\ grow => h.brk + Wanted(nunits) <= MaxBrk
     /\ um' = r[1]
     /\ blocks' = IF r[2] = NullP THEN blocks ELSE With(blocks, r[2], nbytes)
     /\ failed' = IF r[2] = NullP THEN nunits ELSE 0
     /\ core' = core \cup h.brk..(r[1].brk - 1)

(* The program frees a block it holds.                                       *)
ufree(a) ==
  /\ um' = free(um, a)
  /\ blocks' = Without(blocks, a)
  /\ failed' = 0
  /\ UNCHANGED core

(* The program itself calls sbrk: the heap is no longer contiguous.          *)
usbrk ==
  /\ um.brk < MaxBrk
  /\ um' = [um EXCEPT !.brk = @ + 1]
  /\ failed' = 0
  /\ UNCHANGED <<blocks, core>>

UmNext ==
  \/ \E nbytes \in Requests, grow \in BOOLEAN : malloc(nbytes, grow)
  \/ \E a \in DOMAIN blocks : ufree(a)
  \/ usbrk

-----------------------------------------------------------------------------
Extent(a) == a..(a + um.size[a] - 1)
HeapBlocks == DOMAIN um.size \ {base}

(* Nothing is lost and nothing is given out twice: the blocks the program    *)
(* holds and the free blocks partition the units morecore obtained.          *)
HeapPartition ==
  /\ HeapBlocks = DOMAIN blocks \cup FreeBlocks(um)
  /\ DOMAIN blocks \cap FreeBlocks(um) = {}
  /\ \A a, b \in HeapBlocks : a # b => Extent(a) \cap Extent(b) = {}
  /\ UNION {Extent(a) : a \in HeapBlocks} = core

(* A block has room for the bytes asked for after its header.                *)
BlockHoldsRequest ==
  \A a \in DOMAIN blocks : (um.size[a] - 1) * Header >= blocks[a]

(* The free list is one cycle through base in address order, and no two free *)
(* blocks touch: free coalesced them.                                        *)
FreeListCoalesced ==
  um.freep # NullP =>
    /\ um.freep \in DOMAIN um.ptr
    /\ \A a \in DOMAIN um.ptr :
         LET later == {b \in DOMAIN um.ptr : b > a}
         IN IF later = {} THEN um.ptr[a] = base
            ELSE um.ptr[a] \in later /\ \A b \in later : um.ptr[a] <= b
    /\ \A a \in FreeBlocks(um) : a + um.size[a] \notin FreeBlocks(um)

(* malloc returns 0 only when no free block was large enough.                *)
NullOnlyWithoutFit ==
  failed > 0 => \A a \in FreeBlocks(um) : um.size[a] < failed

(* The allocator's heap is sound: blocks partition it and hold what was    *)
(* asked for, free blocks are coalesced on one cycle, and malloc fails only*)
(* when none of them fits.                                                 *)
HeapIsSound ==
  /\ HeapPartition
  /\ BlockHoldsRequest
  /\ FreeListCoalesced
  /\ NullOnlyWithoutFit
=============================================================================
