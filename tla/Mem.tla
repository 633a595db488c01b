--------------------------------- MODULE Mem ---------------------------------
(***************************************************************************)
(* Physical pages and user address spaces: xv6/kalloc.c, the user part of  *)
(* xv6/vm.c, xv6/exec.c, and growproc, fork, userinit and wait of proc.c   *)
(* as far as they take and give back pages.  Every loop that allocates     *)
(* goes one page per step, so processes compete for the last pages and     *)
(* every allocation may be the one that fails.  Sizes are in bytes, with   *)
(* small PGSIZE and KERNBASE and uint arithmetic modulo MUINT.  Which      *)
(* free page kalloc returns is of no consequence: the free list is a set.  *)
(*                                                                         *)
(* A definition X_Suffix is a mutant of X, a bug the code could have had;  *)
(* it is used by no other definition.                                      *)
(***************************************************************************)
EXTENDS Integers, FiniteSets

CONSTANTS
  MProcs,        \* slots of ptable.proc; 1 is the first process
  Pages,         \* physical pages between end and PHYSTOP, numbers > 0
  PGSIZE, KERNBASE, MUINT,
  NPTENTRIES,    \* user pages one page-table page maps
  NKPT           \* page-table pages setupkvm needs for the kernel mappings

VARIABLES
  freelist,      \* kmem.freelist
  mst,           \* what each process is doing
  pgdir, sz,     \* proc->pgdir and proc->sz
  kstack,        \* proc->kstack, 0 when there is none
  new,           \* page table under construction (exec, and fork for the child)
  a, goal,       \* the loops: next page, and the size where to stop
  child,         \* fork's np, 0 when there is none
  mpanic

mvars == <<freelist, mst, pgdir, sz, kstack, new, a, goal, child, mpanic>>
NVP == KERNBASE \div PGSIZE
VPage == 0..NVP-1

ASSUME MemAssumption ==
  /\ 1 \in MProcs /\ 0 \notin MProcs
  /\ IsFiniteSet(Pages) /\ 0 \notin Pages
  /\ PGSIZE \in Nat \ {0} /\ NPTENTRIES \in Nat \ {0} /\ NKPT \in Nat /\ MUINT \in Nat \ {0}
  /\ KERNBASE \in Nat /\ KERNBASE = NVP * PGSIZE /\ PGSIZE < KERNBASE
  /\ Cardinality(Pages) >= 4 + NKPT      \* enough for the first process

PDX(v) == v \div NPTENTRIES

(* A page table: the directory page, the kernel's page-table pages, the    *)
(* user's ones by directory index, and the pages mapped.  0 is "absent".   *)
NoSpace == [dir |-> 0, kern |-> {}, tab |-> [d \in {PDX(v) : v \in VPage} |-> 0],
            pte |-> [v \in VPage |-> 0]]
Mapped(s) == {v \in VPage : s.pte[v] # 0}
Tables(s) == {s.tab[d] : d \in DOMAIN s.tab} \ {0}
Own(s) == (({s.dir} \ {0}) \cup s.kern) \cup (Tables(s) \cup {s.pte[v] : v \in Mapped(s)})

RoundUp(x) == (x + PGSIZE - 1) \div PGSIZE        \* PGROUNDUP, in pages
Below(n) == {v \in VPage : v * PGSIZE < n}
uint(x) == x % MUINT
Fits(newsz) == newsz < KERNBASE

-----------------------------------------------------------------------------
(* kalloc and kfree.  A page freed twice would be linked into the list     *)
(* twice; here that is a panic.                                            *)
Some(S) == CHOOSE x \in S : TRUE
kalloc == Some(freelist)
kfree(S) == /\ freelist' = freelist \cup S
            /\ mpanic' = IF S \cap freelist # {} THEN "kfree" ELSE mpanic

(* setupkvm on a list f; nothing is kept when it fails.                    *)
CanSetup(f) == Cardinality(f) >= 1 + NKPT
SetupPages(f) == CHOOSE S \in SUBSET f : Cardinality(S) = 1 + NKPT
setupkvm(f) == LET S == SetupPages(f) IN
  [NoSpace EXCEPT !.dir = Some(S), !.kern = S \ {Some(S)}]

(* deallocuvm(pgdir, oldsz, newsz): the pages it frees, the table left     *)
Victims_OffByOne(s, oldsz, newsz) ==
  {v \in Mapped(s) : newsz \div PGSIZE <= v /\ v * PGSIZE < oldsz}
Victims(s, oldsz, newsz) == {v \in Mapped(s) : RoundUp(newsz) <= v /\ v * PGSIZE < oldsz}
Without(s, V) == [s EXCEPT !.pte = [v \in VPage |-> IF v \in V THEN 0 ELSE s.pte[v]]]
PagesOf(s, V) == {s.pte[v] : v \in V}

(* freevm: the user pages, the page tables and the directory               *)
freevm(s) == PagesOf(s, Victims(s, KERNBASE, 0)) \cup Tables(s) \cup s.kern \cup {s.dir}

(* mappages of one page, walkpgdir allocating the page table if needed:    *)
(* the pages taken from f for virtual page v (the page itself first).      *)
NeedsTable(s, v) == s.tab[PDX(v)] = 0
Map(s, v, mem, tab) ==
  [s EXCEPT !.pte[v] = mem, !.tab[PDX(v)] = IF NeedsTable(s, v) THEN tab ELSE @]

MInit ==   \* userinit and inituvm, the kernel's own page table already made
  /\ LET s == setupkvm(Pages \ {Some(Pages)})
         f == (Pages \ {Some(Pages)}) \ Own(s)
         t == Map(s, 0, Some(f), Some(f \ {Some(f)})) IN
       /\ kstack = [p \in MProcs |-> IF p = 1 THEN Some(Pages) ELSE 0]
       /\ pgdir = [p \in MProcs |-> IF p = 1 THEN t ELSE NoSpace]
       /\ freelist = (Pages \ {Some(Pages)}) \ Own(t)
  /\ mst = [p \in MProcs |-> IF p = 1 THEN "user" ELSE "unused"]
  /\ sz = [p \in MProcs |-> IF p = 1 THEN PGSIZE ELSE 0]
  /\ new = [p \in MProcs |-> NoSpace]
  /\ a = [p \in MProcs |-> 0] /\ goal = [p \in MProcs |-> 0]
  /\ child = [p \in MProcs |-> 0]
  /\ mpanic = ""

-----------------------------------------------------------------------------
(* A process can go on in user mode only while its first page is mapped;   *)
(* otherwise its next instruction faults and trap() kills it (the          *)
(* processor is taken not to keep translations that were removed).         *)
Runs(p) == mst[p] = "user" /\ pgdir[p].pte[0] # 0 /\ mpanic = ""
to(p, s) == mst' = [mst EXCEPT ![p] = s]

(* allocuvm(pgdir, oldsz, newsz) begins: the loop covers [a, goal).        *)
StartLoop(p, from, upto) ==
  a' = [a EXCEPT ![p] = from] /\ goal' = [goal EXCEPT ![p] = upto]
Done(p) == StartLoop(p, 0, 0)

(* growproc.  init, the first process, never calls sbrk.                   *)
growproc(p, n) ==
  /\ Runs(p) /\ p # 1
  /\ LET newsz == uint(sz[p] + n) IN
     \/ /\ n > 0 /\ Fits(newsz) /\ newsz >= sz[p]
        /\ StartLoop(p, RoundUp(sz[p]), newsz) /\ to(p, "grow")
        /\ UNCHANGED <<freelist, pgdir, sz, mpanic>>
     \/ /\ n < 0 /\ newsz < sz[p]
        /\ LET V == Victims(pgdir[p], sz[p], newsz) IN
             /\ kfree(PagesOf(pgdir[p], V))
             /\ pgdir' = [pgdir EXCEPT ![p] = Without(@, V)]
        /\ sz' = [sz EXCEPT ![p] = IF newsz = 0 THEN @ ELSE newsz]   \* 0: returns -1
        /\ UNCHANGED <<mst, a, goal>>
  /\ UNCHANGED <<kstack, new, child>>

(* exec: begin.  A file that is missing or not an executable changes       *)
(* nothing.                                                                *)
exec(p, memsz) ==
  /\ Runs(p) /\ CanSetup(freelist)
  /\ new' = [new EXCEPT ![p] = setupkvm(freelist)]
  /\ freelist' = freelist \ Own(new'[p])
  /\ StartLoop(p, 0, memsz) /\ to(p, "load")
  /\ UNCHANGED <<pgdir, sz, kstack, child, mpanic>>

(* fork: allocproc takes the kernel stack, copyuvm sets up a page table.   *)
fork(p, q) ==
  /\ Runs(p) /\ mst[q] = "unused"
  /\ freelist # {}
  /\ LET f == freelist \ {kalloc} IN
       /\ CanSetup(f)                   \* otherwise kstack is freed: no change
       /\ kstack' = [kstack EXCEPT ![q] = kalloc]
       /\ new' = [new EXCEPT ![p] = setupkvm(f)]
       /\ freelist' = f \ Own(new'[p])
  /\ mst' = [mst EXCEPT ![p] = "copy", ![q] = "embryo"]
  /\ StartLoop(p, 0, sz[p]) /\ child' = [child EXCEPT ![p] = q]
  /\ UNCHANGED <<pgdir, sz, mpanic>>

-----------------------------------------------------------------------------
(* One turn of a loop maps virtual page a of the table under work.         *)
Table(p) == IF mst[p] = "grow" THEN pgdir[p] ELSE new[p]
Looping(p) == mst[p] \in {"grow", "load", "stack", "copy"} /\ mpanic = ""
More(p) == a[p] * PGSIZE < goal[p]
Needed(p) == IF NeedsTable(Table(p), a[p]) THEN 2 ELSE 1
Enough(p) == Cardinality(freelist) >= Needed(p)

mappages(p) ==
  /\ Looping(p) /\ More(p) /\ Enough(p)
  /\ LET mem == kalloc
         tab == IF NeedsTable(Table(p), a[p]) THEN Some(freelist \ {mem}) ELSE 0
         s == Map(Table(p), a[p], mem, tab) IN
       /\ freelist' = freelist \ {mem, tab}
       /\ IF mst[p] = "grow" THEN pgdir' = [pgdir EXCEPT ![p] = s] /\ new' = new
                             ELSE new' = [new EXCEPT ![p] = s] /\ pgdir' = pgdir
  /\ mpanic' = IF Table(p).pte[a[p]] # 0 THEN "remap"
               ELSE IF mst[p] = "copy" /\ pgdir[p].pte[a[p]] = 0 THEN "copyuvm: page not present"
               ELSE mpanic
  /\ a' = [a EXCEPT ![p] = @ + 1]
  /\ UNCHANGED <<mst, sz, kstack, goal, child>>

(* The page or its page table cannot be allocated.  The list may look long *)
(* enough: each of the other processes may have held the stack, directory  *)
(* and kernel tables of a fork or an exec that failed and gave them back.  *)
(* allocuvm gives back what it mapped; exec and copyuvm free the whole new *)
(* table, and fork the child's kernel stack.                               *)
Transient(p) == (2 + NKPT) * Cardinality({q \in MProcs \ {p} : Runs(q) \/ Looping(q)})
Undo(p) == Victims(pgdir[p], goal[p], sz[p])
outofmemory(p) ==
  /\ Looping(p) /\ More(p) /\ Cardinality(freelist) < Needed(p) + Transient(p)
  /\ IF mst[p] = "grow"
     THEN /\ kfree(PagesOf(pgdir[p], Undo(p)))
          /\ pgdir' = [pgdir EXCEPT ![p] = Without(@, Undo(p))]
          /\ UNCHANGED <<new, kstack>>
     ELSE /\ kfree(freevm(new[p]) \cup {kstack[q] : q \in {child[p]} \ {0}})
          /\ new' = [new EXCEPT ![p] = NoSpace]
          /\ kstack' = [q \in MProcs |-> IF q = child[p] THEN 0 ELSE kstack[q]]
          /\ pgdir' = pgdir
  /\ mst' = [q \in MProcs |-> IF q = p THEN "user" ELSE IF q = child[p] THEN "unused" ELSE mst[q]]
  /\ child' = [child EXCEPT ![p] = 0] /\ Done(p)
  /\ UNCHANGED sz

(* growproc ends                                                           *)
grown(p) ==
  /\ Looping(p) /\ ~More(p) /\ mst[p] = "grow"
  /\ sz' = [sz EXCEPT ![p] = goal[p]] /\ to(p, "user") /\ Done(p)
  /\ UNCHANGED <<freelist, pgdir, kstack, new, child, mpanic>>

(* exec: the segments are in memory; two more pages for guard and stack.   *)
loaded(p) ==
  /\ Looping(p) /\ ~More(p) /\ mst[p] = "load"
  /\ LET end == RoundUp(goal[p]) IN
       IF Fits((end + 2) * PGSIZE)
       THEN /\ StartLoop(p, end, (end + 2) * PGSIZE) /\ to(p, "stack")
            /\ UNCHANGED <<freelist, new, mpanic>>
       ELSE /\ kfree(freevm(new[p])) /\ new' = [new EXCEPT ![p] = NoSpace]
            /\ to(p, "user") /\ Done(p)
  /\ UNCHANGED <<pgdir, sz, kstack, child>>

(* exec's other errors: a bad segment, or arguments that do not fit in the *)
(* stack page, so that copyout meets the guard page                        *)
execbad(p) ==
  /\ mst[p] \in {"load", "stack"} /\ mpanic = "" /\ ~More(p)
  /\ kfree(freevm(new[p])) /\ new' = [new EXCEPT ![p] = NoSpace]
  /\ to(p, "user") /\ Done(p)
  /\ UNCHANGED <<pgdir, sz, kstack, child>>

(* exec commits: the old image goes.                                       *)
execdone(p) ==
  /\ Looping(p) /\ ~More(p) /\ mst[p] = "stack"
  /\ pgdir' = [pgdir EXCEPT ![p] = new[p]]
  /\ sz' = [sz EXCEPT ![p] = goal[p]]
  /\ kfree(freevm(pgdir[p]))
  /\ new' = [new EXCEPT ![p] = NoSpace] /\ to(p, "user") /\ Done(p)
  /\ UNCHANGED <<kstack, child>>

(* fork ends: the child runs in its copy.                                  *)
forked(p, q) ==
  /\ Looping(p) /\ ~More(p) /\ q = child[p]
  /\ pgdir' = [pgdir EXCEPT ![q] = new[p]]
  /\ sz' = [sz EXCEPT ![q] = sz[p]]
  /\ new' = [new EXCEPT ![p] = NoSpace]
  /\ mst' = [mst EXCEPT ![p] = "user", ![q] = "user"]
  /\ child' = [child EXCEPT ![p] = 0] /\ Done(p)
  /\ UNCHANGED <<freelist, kstack, mpanic>>

(* exit, called or forced by a fault, and the parent's wait                *)
exit(p) ==
  /\ p # 1 /\ mst[p] = "user" /\ mpanic = ""
  /\ to(p, "zombie")
  /\ UNCHANGED <<freelist, pgdir, sz, kstack, new, a, goal, child, mpanic>>

wait(p) ==
  /\ mst[p] = "zombie" /\ mpanic = ""
  /\ kfree(freevm(pgdir[p]) \cup {kstack[p]})
  /\ kstack' = [kstack EXCEPT ![p] = 0]
  /\ pgdir' = [pgdir EXCEPT ![p] = NoSpace]
  /\ sz' = [sz EXCEPT ![p] = 0] /\ to(p, "unused")
  /\ UNCHANGED <<new, a, goal, child>>

MNext == \E p \in MProcs :
  \/ \E n \in (1-MUINT)..(MUINT-1) : growproc(p, n)
  \/ \E memsz \in 1..KERNBASE-1 : exec(p, memsz)
  \/ \E q \in MProcs : fork(p, q) \/ forked(p, q)
  \/ mappages(p) \/ outofmemory(p) \/ grown(p) \/ loaded(p) \/ execbad(p) \/ execdone(p)
  \/ exit(p) \/ wait(p)

MSpec == MInit /\ [][MNext]_mvars

-----------------------------------------------------------------------------
(* Types: sizes stay below KERNBASE, and stacks are physical pages.        *)
MTypeOK ==
  /\ sz \in [MProcs -> 0..KERNBASE-1]
  /\ kstack \in [MProcs -> Pages \cup {0}]

(* Nothing is leaked, freed twice or shared: every physical page is on the *)
(* free list or has exactly one owner, and one place in its page table,    *)
(* through every failed allocuvm, copyuvm and exec of processes competing  *)
(* for the last pages.                                                     *)
Holders == {<<"free", 0>>} \cup ({"kstack", "pgdir", "new"} \X MProcs)
HasPages(h) == CASE h[1] = "free" -> freelist
             [] h[1] = "kstack" -> {kstack[h[2]]} \ {0}
             [] h[1] = "pgdir" -> Own(pgdir[h[2]])
             [] h[1] = "new" -> Own(new[h[2]])
OnePlace(s) ==
  /\ \A d, e \in DOMAIN s.tab : s.tab[d] = s.tab[e] /\ s.tab[d] # 0 => d = e
  /\ \A v, w \in Mapped(s) : s.pte[v] = s.pte[w] => v = w
  /\ s.dir \notin s.kern
  /\ Tables(s) \cap ({s.dir} \cup s.kern) = {}
  /\ PagesOf(s, Mapped(s)) \cap ({s.dir} \cup s.kern \cup Tables(s)) = {}
PageAccounting ==
  /\ LET H == [h \in Holders |-> HasPages(h)] IN
       /\ H \in [Holders -> SUBSET Pages]
       /\ \A x \in Pages : \E h \in Holders : x \in H[h] /\ \A g \in Holders : x \in H[g] => g = h
  /\ \A p \in MProcs : OnePlace(pgdir[p]) /\ OnePlace(new[p])

(* A process has exactly the pages below proc->sz mapped whenever it runs  *)
(* in user mode, so a failed sbrk, fork or exec leaves its memory alone    *)
(* and copyuvm finds every page.  The exception is sbrk(-sz): deallocuvm   *)
(* returns 0, which growproc takes for an error, and sz keeps its value.   *)
SizeIsMapped ==
  \A p \in MProcs : Runs(p) => Mapped(pgdir[p]) = Below(sz[p])

(* No panic is reached: no page is freed twice, no address is mapped       *)
(* twice, and fork never meets a page that is missing below sz.            *)
MNoPanic == mpanic = ""

(* Memory through every failure half way: each page has one owner, a       *)
(* running process has what its size says, and no panic of vm.c or kalloc.c*)
(* is met.                                                                 *)
MemoryIsOwned == MTypeOK /\ PageAccounting /\ SizeIsMapped /\ MNoPanic
=============================================================================
