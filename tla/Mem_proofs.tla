------------------------------ MODULE Mem_proofs ------------------------------
(***************************************************************************)
(* For every number of processes and pages and every size of a page and of *)
(* the user's part of memory: kalloc.c, vm.c and exec.c never lose a page, *)
(* free it twice or give it to two owners, a running process has exactly   *)
(* the pages below its size, and no panic of theirs is reached.            *)
(*                                                                         *)
(* Each page has one holder (Owned), so every kfree finds its pages off    *)
(* the free list.  Has says which tables and stack a process has in each   *)
(* stage of fork, exec and sbrk; Loop how far the loop over its pages has  *)
(* come: what is mapped is what is below `a`.                              *)
(***************************************************************************)
EXTENDS Mem, FiniteSetTheorems, TLAPS

Page0 == Pages \cup {0}
Dirs == {PDX(v) : v \in VPage}
Spaces == [dir : Page0, kern : SUBSET Pages, tab : [Dirs -> Page0], pte : [VPage -> Page0]]
Building == {"load", "stack", "copy"}

MemTypes ==
  /\ freelist \in SUBSET Pages
  /\ pgdir \in [MProcs -> Spaces] /\ new \in [MProcs -> Spaces]
  /\ kstack \in [MProcs -> Page0]
  /\ sz \in [MProcs -> 0..KERNBASE-1] /\ goal \in [MProcs -> 0..KERNBASE-1]
  /\ a \in [MProcs -> Nat] /\ child \in [MProcs -> MProcs \cup {0}]
  /\ mst \in [MProcs -> {"unused", "embryo", "user", "grow", "zombie"} \cup Building]
  /\ mpanic = ""

(* What a process has in each state, and the child it makes                *)
Has(p) ==
  /\ mst[p] \in {"unused", "embryo"} => pgdir[p] = NoSpace
  /\ mst[p] \notin {"unused", "embryo"} => pgdir[p].dir # 0
  /\ mst[p] = "unused" <=> kstack[p] = 0
  /\ mst[p] \in Building => new[p].dir # 0
  /\ mst[p] \notin Building => new[p] = NoSpace
  /\ OnePlace(pgdir[p]) /\ OnePlace(new[p])

ChildInv ==
  \A p \in MProcs :
    /\ child[p] # 0 <=> mst[p] = "copy"
    /\ child[p] # 0 => mst[child[p]] = "embryo"
    /\ \A q \in MProcs : child[p] # 0 /\ child[p] = child[q] => p = q

(* How far the loops have come                                             *)
Upto(n) == {v \in VPage : v < n}
Loop(p) ==
  /\ mst[p] = "user" /\ pgdir[p].pte[0] # 0 => Mapped(pgdir[p]) = Below(sz[p])
  /\ mst[p] \in Building =>
       Mapped(pgdir[p]) = Below(sz[p]) /\ Mapped(new[p]) = Upto(a[p]) /\ a[p] <= RoundUp(goal[p])
  /\ mst[p] = "copy" => goal[p] = sz[p]
  /\ mst[p] = "grow" =>
       Mapped(pgdir[p]) = Upto(a[p]) /\ a[p] <= RoundUp(goal[p]) /\ RoundUp(sz[p]) <= a[p]

StateInv == \A p \in MProcs : Has(p) /\ Loop(p)

(* The pages of each holder, and that each page has one                    *)
Share == [h \in Holders |-> HasPages(h)]
OneHolder(I, P, H) == \A x \in P : \E h \in I : x \in H[h] /\ \A g \in I : x \in H[g] => g = h
Owned == OneHolder(Holders, Pages, Share)

MemInv == MemTypes /\ StateInv /\ ChildInv /\ Owned

-----------------------------------------------------------------------------
(* Sizes and pages                                                         *)

(* A page below n pages starts below n pages' bytes.                       *)
LEMMA Times ==
  ASSUME NEW v \in Nat, NEW w \in Nat
  PROVE  /\ v * PGSIZE \in Nat /\ (v + 1) * PGSIZE = v * PGSIZE + PGSIZE
         /\ v <= w => v * PGSIZE <= w * PGSIZE
<1>1. PGSIZE \in Nat \ {0} BY MemAssumption, Zenon
<1>2. v * PGSIZE \in Nat /\ (v + 1) * PGSIZE = v * PGSIZE + PGSIZE BY <1>1
<1>3. ASSUME v <= w PROVE v * PGSIZE <= w * PGSIZE
  <2> DEFINE k == w - v
  <2>1. k \in Nat /\ w = v + k BY <1>3
  <2> HIDE DEF k
  <2>2. w * PGSIZE = v * PGSIZE + k * PGSIZE BY <2>1, <1>1
  <2>3. k * PGSIZE \in Nat BY <2>1, <1>1
  <2> QED BY <2>2, <2>3, <1>2
<1> QED BY <1>2, <1>3, Zenon

(* PGROUNDUP(n) is the first page boundary at or above n.                  *)
LEMMA RoundUpIs ==
  ASSUME NEW n \in Nat
  PROVE  RoundUp(n) \in Nat /\ \A v \in Nat : v < RoundUp(n) <=> v * PGSIZE < n
<1> DEFINE m == n + PGSIZE - 1
           q == m \div PGSIZE
           r == m % PGSIZE
<1>1. PGSIZE \in Nat \ {0} BY MemAssumption, Zenon
<1>2. m \in Nat BY <1>1
<1> HIDE DEF m
<1>3. q \in Nat /\ r \in 0..PGSIZE-1 /\ m = PGSIZE * q + r BY <1>1, <1>2, SMTT(20)
<1>4. RoundUp(n) = q BY Zenon DEF RoundUp, m
<1> HIDE DEF q, r
<1>5. m = q * PGSIZE + r /\ q * PGSIZE \in Nat BY <1>1, <1>3
<1>6. m = n + PGSIZE - 1 BY Zenon DEF m
<1> SUFFICES ASSUME NEW v \in Nat PROVE v < q <=> v * PGSIZE < n BY <1>3, <1>4, Zenon
<1>7. v * PGSIZE \in Nat /\ (v + 1) * PGSIZE = v * PGSIZE + PGSIZE BY Times, Zenon
<1>8. CASE v < q
  <2>1. v + 1 \in Nat /\ v + 1 <= q BY <1>8, <1>3
  <2>2. (v + 1) * PGSIZE <= q * PGSIZE BY <2>1, <1>3, Times, Zenon
  <2> QED BY <2>2, <1>1, <1>3, <1>5, <1>6, <1>7, <1>8
<1>9. CASE q <= v
  <2>1. q * PGSIZE <= v * PGSIZE BY <1>9, <1>3, Times, Zenon
  <2> QED BY <2>1, <1>1, <1>3, <1>5, <1>6, <1>7, <1>9
<1> QED BY <1>3, <1>8, <1>9

(* User addresses are those of VPage.                                      *)
LEMMA UserPage ==
  /\ NVP \in Nat /\ 0 \in VPage /\ VPage \subseteq Nat /\ 0 \in 0..KERNBASE-1
  /\ \A v \in Nat : v * PGSIZE < KERNBASE <=> v \in VPage
  /\ \A v \in Nat, n \in 0..KERNBASE-1 : v * PGSIZE < n => v \in VPage
<1>1. KERNBASE \in Nat /\ KERNBASE = NVP * PGSIZE /\ PGSIZE < KERNBASE /\ PGSIZE \in Nat \ {0}
  BY MemAssumption, Zenon
<1>2. NVP \in Nat BY <1>1 DEF NVP
<1>3. NVP # 0 BY <1>1
<1>4. \A v \in Nat : v * PGSIZE < KERNBASE <=> v < NVP
  <2> SUFFICES ASSUME NEW v \in Nat PROVE v * PGSIZE < KERNBASE <=> v < NVP BY Zenon
  <2>1. v * PGSIZE \in Nat /\ (v + 1) * PGSIZE = v * PGSIZE + PGSIZE BY Times, Zenon
  <2>2. CASE v < NVP
    <3>1. v + 1 \in Nat /\ v + 1 <= NVP BY <2>2, <1>2
    <3>2. (v + 1) * PGSIZE <= NVP * PGSIZE BY <3>1, <1>2, Times, Zenon
    <3> QED BY <3>2, <2>1, <2>2, <1>1
  <2>3. CASE NVP <= v
    <3>1. NVP * PGSIZE <= v * PGSIZE BY <2>3, <1>2, Times, Zenon
    <3> QED BY <3>1, <2>1, <2>3, <1>1, <1>2
  <2> QED BY <2>2, <2>3, <1>2
<1>5. \A v \in Nat : v \in VPage <=> v < NVP BY <1>2 DEF VPage
<1>6. \A v \in Nat, n \in 0..KERNBASE-1 : v * PGSIZE < n => v * PGSIZE < KERNBASE
  <2> SUFFICES ASSUME NEW v \in Nat, NEW n \in 0..KERNBASE-1, v * PGSIZE < n PROVE v * PGSIZE < KERNBASE
    BY Zenon
  <2>1. v * PGSIZE \in Nat BY Times, Zenon
  <2> QED BY <2>1, <1>1
<1>7. 0 \in VPage /\ VPage \subseteq Nat /\ 0 \in 0..KERNBASE-1 BY <1>1, <1>2, <1>3 DEF VPage
<1> QED BY <1>2, <1>4, <1>5, <1>6, <1>7, Zenon

(* The pages below a size are those below its page boundary.               *)
LEMMA BelowIs ==
  ASSUME NEW n \in Nat PROVE Below(n) = Upto(RoundUp(n))
BY RoundUpIs, UserPage, Zenon DEF Below, Upto

-----------------------------------------------------------------------------
(* What the operations on a page table do to its pages                     *)

(* The four places of a table where a page may be                          *)
Uses(s, x) ==
  \/ x = s.dir
  \/ x \in s.kern
  \/ \E d \in Dirs : x = s.tab[d]
  \/ \E v \in VPage : x = s.pte[v]

(* A page is a table's when it is in one of its four places.               *)
LEMMA OwnIs ==
  ASSUME NEW s \in Spaces
  PROVE  /\ Own(s) \subseteq Pages
         /\ \A x : x \in Own(s) <=> x # 0 /\ Uses(s, x)
<1>1. 0 \notin Pages BY MemAssumption, Zenon
<1>2. /\ s.dir \in Page0 /\ s.kern \in SUBSET Pages /\ DOMAIN s.tab = Dirs
      /\ \A d \in Dirs : s.tab[d] \in Page0
      /\ \A v \in VPage : s.pte[v] \in Page0
  BY Zenon DEF Spaces
<1>3. \A x : x \in Own(s) <=>
        \/ x = s.dir /\ x # 0
        \/ x \in s.kern
        \/ (\E d \in Dirs : x = s.tab[d]) /\ x # 0
        \/ \E v \in VPage : s.pte[v] # 0 /\ x = s.pte[v]
  BY <1>2, Zenon DEF Own, Tables, Mapped
<1>4. \A x : x \in Own(s) <=> x # 0 /\ Uses(s, x) BY <1>1, <1>2, <1>3, Zenon DEF Uses
<1>5. Own(s) \subseteq Pages BY <1>2, <1>4 DEF Page0, Uses
<1> QED BY <1>4, <1>5, Zenon

(* No table has no pages.                                                  *)
LEMMA NoSpaceIs ==
  NoSpace \in Spaces /\ Own(NoSpace) = {} /\ Mapped(NoSpace) = {} /\ OnePlace(NoSpace)
<1>1. NoSpace \in Spaces BY Zenon DEF NoSpace, Spaces, Page0, Dirs
<1>2. /\ NoSpace.dir = 0 /\ NoSpace.kern = {} /\ \A d \in Dirs : NoSpace.tab[d] = 0
      /\ \A v \in VPage : NoSpace.pte[v] = 0
  BY Zenon DEF NoSpace, Dirs
<1>3. Own(NoSpace) = {} BY <1>1, <1>2, OwnIs, Zenon DEF Uses
<1>4. Mapped(NoSpace) = {} BY <1>2, Zenon DEF Mapped
<1>5. DOMAIN NoSpace.tab = Dirs BY <1>1, Zenon DEF Spaces
<1>6. OnePlace(NoSpace) BY <1>2, <1>4, <1>5, Zenon DEF OnePlace, Tables, PagesOf
<1> QED BY <1>1, <1>3, <1>4, <1>6, Zenon

(* freevm frees what the table has.                                        *)
LEMMA FreevmIs ==
  ASSUME NEW s \in Spaces, s.dir # 0
  PROVE  freevm(s) = Own(s)
<1>1. RoundUp(0) \in Nat /\ \A v \in Nat : v < RoundUp(0) <=> v * PGSIZE < 0 BY RoundUpIs, Zenon
<1>2. \A v \in Nat : v * PGSIZE \in Nat BY Times, Zenon
<1>3. \A v \in Nat : RoundUp(0) <= v BY <1>1, <1>2
<1>4. Victims(s, KERNBASE, 0) = Mapped(s) BY <1>3, UserPage, Zenon DEF Victims, Mapped
<1> QED BY <1>4, Zenon DEF freevm, Own, PagesOf

(* A place in the table says which page is there, and only there.          *)
LEMMA OnePlaceIs ==
  ASSUME NEW s \in Spaces
  PROVE  OnePlace(s) <=>
           /\ \A d, e \in Dirs : s.tab[d] = s.tab[e] /\ s.tab[d] # 0 => d = e
           /\ \A v, w \in VPage : s.pte[v] = s.pte[w] /\ s.pte[v] # 0 => v = w
           /\ s.dir \notin s.kern
           /\ \A d \in Dirs : s.tab[d] # 0 => s.tab[d] # s.dir /\ s.tab[d] \notin s.kern
           /\ \A v \in VPage : s.pte[v] # 0 => s.pte[v] # s.dir /\ s.pte[v] \notin s.kern
           /\ \A v \in VPage, d \in Dirs : s.pte[v] # 0 => s.pte[v] # s.tab[d]
<1>1. DOMAIN s.tab = Dirs BY Zenon DEF Spaces
<1>2. Tables(s) \cap ({s.dir} \cup s.kern) = {} <=>
        \A d \in Dirs : s.tab[d] # 0 => s.tab[d] # s.dir /\ s.tab[d] \notin s.kern
  BY <1>1, Zenon DEF Tables
<1>3. PagesOf(s, Mapped(s)) \cap ({s.dir} \cup s.kern \cup Tables(s)) = {} <=>
        /\ \A v \in VPage : s.pte[v] # 0 => s.pte[v] # s.dir /\ s.pte[v] \notin s.kern
        /\ \A v \in VPage, d \in Dirs : s.pte[v] # 0 => s.pte[v] # s.tab[d]
  BY <1>1, Zenon DEF Tables, PagesOf, Mapped
<1>4. (\A v, w \in Mapped(s) : s.pte[v] = s.pte[w] => v = w) <=>
        \A v, w \in VPage : s.pte[v] = s.pte[w] /\ s.pte[v] # 0 => v = w
  BY Zenon DEF Mapped
<1> QED BY <1>1, <1>2, <1>3, <1>4, Zenon DEF OnePlace

(* mappages adds the page, and the page table it had to allocate.          *)
LEMMA MapIs ==
  ASSUME NEW s \in Spaces, NEW v \in VPage, s.pte[v] = 0, OnePlace(s),
         NEW mem \in Pages \ Own(s), NEW tab,
         NeedsTable(s, v) => tab \in Pages \ Own(s) /\ tab # mem
  PROVE  LET t == Map(s, v, mem, tab) IN
           /\ t \in Spaces /\ t.dir = s.dir /\ OnePlace(t)
           /\ Mapped(t) = Mapped(s) \cup {v}
           /\ Own(t) = Own(s) \cup (IF NeedsTable(s, v) THEN {mem, tab} ELSE {mem})
<1> DEFINE t == Map(s, v, mem, tab)
           b == PDX(v)
<1>0. 0 \notin Pages BY MemAssumption, Zenon
<1>1. /\ s.dir \in Page0 /\ s.kern \in SUBSET Pages /\ s.tab \in [Dirs -> Page0] /\ s.pte \in [VPage -> Page0]
  BY Zenon DEF Spaces
<1>2. b \in Dirs BY Zenon DEF Dirs
<1>3. NeedsTable(s, v) <=> s.tab[b] = 0 BY Zenon DEF NeedsTable
<1>4. t = [s EXCEPT !.pte[v] = mem, !.tab[b] = IF NeedsTable(s, v) THEN tab ELSE @] BY Zenon DEF Map
<1> HIDE DEF t, b
<1>5. /\ t.dir = s.dir /\ t.kern = s.kern
      /\ t.pte = [s.pte EXCEPT ![v] = mem]
      /\ t.tab = [s.tab EXCEPT ![b] = IF NeedsTable(s, v) THEN tab ELSE @]
      /\ t = [dir |-> t.dir, kern |-> t.kern, tab |-> t.tab, pte |-> t.pte]
  BY <1>4, Zenon DEF Spaces
<1>6. mem \in Page0 /\ (NeedsTable(s, v) => tab \in Page0) BY Zenon DEF Page0
<1>7. t.tab \in [Dirs -> Page0] /\ t.pte \in [VPage -> Page0] BY <1>1, <1>2, <1>5, <1>6
<1>8. t \in Spaces BY <1>1, <1>5, <1>7, Zenon DEF Spaces
<1>9. /\ \A w \in VPage : t.pte[w] = IF w = v THEN mem ELSE s.pte[w]
      /\ \A d \in Dirs : t.tab[d] = IF d = b /\ NeedsTable(s, v) THEN tab ELSE s.tab[d]
  BY <1>1, <1>2, <1>5, Zenon
<1>10. Mapped(t) = Mapped(s) \cup {v} BY <1>0, <1>9, Zenon DEF Mapped
<1>11. Own(t) = Own(s) \cup (IF NeedsTable(s, v) THEN {mem, tab} ELSE {mem})
  <2> SUFFICES ASSUME NEW x PROVE x \in Own(t) <=> x \in Own(s) \/ x = mem \/ (NeedsTable(s, v) /\ x = tab)
    BY Zenon
  <2>1. (\E w \in VPage : x = t.pte[w]) /\ x # 0 <=> (x = mem \/ \E w \in VPage : x = s.pte[w]) /\ x # 0
    BY <1>9, Zenon
  <2>2. (\E d \in Dirs : x = t.tab[d]) /\ x # 0 <=>
        ((NeedsTable(s, v) /\ x = tab) \/ \E d \in Dirs : x = s.tab[d]) /\ x # 0
    BY <1>2, <1>3, <1>9, Zenon
  <2>3. mem # 0 /\ (NeedsTable(s, v) => tab # 0) BY <1>0, Zenon
  <2>4. x # 0 => (Uses(t, x) <=> Uses(s, x) \/ x = mem \/ (NeedsTable(s, v) /\ x = tab))
    BY <2>1, <2>2, <1>5, Zenon DEF Uses
  <2> QED BY <1>8, <2>3, <2>4, OwnIs, Zenon
<1>12. OnePlace(t)
  <2>1. /\ \A d, e \in Dirs : s.tab[d] = s.tab[e] /\ s.tab[d] # 0 => d = e
        /\ \A u, w \in VPage : s.pte[u] = s.pte[w] /\ s.pte[u] # 0 => u = w
        /\ s.dir \notin s.kern
        /\ \A d \in Dirs : s.tab[d] # 0 => s.tab[d] # s.dir /\ s.tab[d] \notin s.kern
        /\ \A u \in VPage : s.pte[u] # 0 => s.pte[u] # s.dir /\ s.pte[u] \notin s.kern
        /\ \A u \in VPage, d \in Dirs : s.pte[u] # 0 => s.pte[u] # s.tab[d]
    BY OnePlaceIs, Zenon
  <2>2. \A x \in Pages \ Own(s) : /\ x # 0 /\ x # s.dir /\ x \notin s.kern
                                  /\ \A d \in Dirs : x # s.tab[d]
                                  /\ \A u \in VPage : x # s.pte[u]
    BY <1>0, OwnIs, Zenon DEF Uses
  <2>3. /\ mem # 0 /\ mem # s.dir /\ mem \notin s.kern
        /\ \A d \in Dirs : mem # s.tab[d]
        /\ \A u \in VPage : mem # s.pte[u]
    BY <2>2, Zenon
  <2>4. NeedsTable(s, v) => /\ tab # mem /\ tab # 0 /\ tab # s.dir /\ tab \notin s.kern
                            /\ \A d \in Dirs : tab # s.tab[d]
                            /\ \A u \in VPage : tab # s.pte[u]
    BY <2>2, Zenon
  <2>5. \A d, e \in Dirs : t.tab[d] = t.tab[e] /\ t.tab[d] # 0 => d = e BY <1>9, <2>1, <2>4
  <2>6. \A u, w \in VPage : t.pte[u] = t.pte[w] /\ t.pte[u] # 0 => u = w BY <1>9, <2>1, <2>3
  <2>7. \A d \in Dirs : t.tab[d] # 0 => t.tab[d] # t.dir /\ t.tab[d] \notin t.kern
    BY <1>5, <1>9, <2>1, <2>4, Zenon
  <2>8. \A u \in VPage : t.pte[u] # 0 => t.pte[u] # t.dir /\ t.pte[u] \notin t.kern
    BY <1>5, <1>9, <2>1, <2>3, Zenon
  <2>9. \A u \in VPage, d \in Dirs : t.pte[u] # 0 => t.pte[u] # t.tab[d]
    BY <1>9, <2>1, <2>3, <2>4
  <2>10. t.dir \notin t.kern BY <1>5, <2>1, Zenon
  <2> QED BY <1>8, <2>5, <2>6, <2>7, <2>8, <2>9, <2>10, OnePlaceIs, Zenon
<1> QED BY <1>5, <1>8, <1>10, <1>11, <1>12, Zenon DEF t

(* deallocuvm takes the pages out of the table, and nothing else.          *)
LEMMA WithoutIs ==
  ASSUME NEW s \in Spaces, OnePlace(s), NEW V \in SUBSET Mapped(s)
  PROVE  /\ Without(s, V) \in Spaces /\ Without(s, V).dir = s.dir /\ OnePlace(Without(s, V))
         /\ Mapped(Without(s, V)) = Mapped(s) \ V
         /\ PagesOf(s, V) \subseteq Own(s)
         /\ Own(Without(s, V)) = Own(s) \ PagesOf(s, V)
<1> DEFINE t == Without(s, V)
<1>0. 0 \notin Pages /\ V \subseteq VPage /\ \A v \in V : s.pte[v] # 0 BY MemAssumption, Zenon DEF Mapped
<1>1. /\ s.dir \in Page0 /\ s.kern \in SUBSET Pages /\ s.tab \in [Dirs -> Page0] /\ s.pte \in [VPage -> Page0]
  BY Zenon DEF Spaces
<1>2. /\ t.dir = s.dir /\ t.kern = s.kern /\ t.tab = s.tab
      /\ t.pte = [v \in VPage |-> IF v \in V THEN 0 ELSE s.pte[v]]
      /\ t = [dir |-> t.dir, kern |-> t.kern, tab |-> t.tab, pte |-> t.pte]
  BY DEF Spaces, Without
<1> HIDE DEF t
<1>3. t.pte \in [VPage -> Page0] BY <1>1, <1>2, Zenon DEF Page0
<1>4. t \in Spaces BY <1>1, <1>2, <1>3, Zenon DEF Spaces
<1>5. \A w \in VPage : t.pte[w] = IF w \in V THEN 0 ELSE s.pte[w] BY <1>2, Zenon
<1>6. Mapped(t) = Mapped(s) \ V BY <1>5, Zenon DEF Mapped
<1>7. /\ \A d, e \in Dirs : s.tab[d] = s.tab[e] /\ s.tab[d] # 0 => d = e
      /\ \A u, w \in VPage : s.pte[u] = s.pte[w] /\ s.pte[u] # 0 => u = w
      /\ s.dir \notin s.kern
      /\ \A d \in Dirs : s.tab[d] # 0 => s.tab[d] # s.dir /\ s.tab[d] \notin s.kern
      /\ \A u \in VPage : s.pte[u] # 0 => s.pte[u] # s.dir /\ s.pte[u] \notin s.kern
      /\ \A u \in VPage, d \in Dirs : s.pte[u] # 0 => s.pte[u] # s.tab[d]
  BY OnePlaceIs, Zenon
<1>8. OnePlace(t)
  <2>1. \A u, w \in VPage : t.pte[u] = t.pte[w] /\ t.pte[u] # 0 => u = w BY <1>5, <1>7, Zenon
  <2>2. \A u \in VPage : t.pte[u] # 0 => t.pte[u] # t.dir /\ t.pte[u] \notin t.kern
    BY <1>2, <1>5, <1>7, Zenon
  <2>3. \A u \in VPage, d \in Dirs : t.pte[u] # 0 => t.pte[u] # t.tab[d] BY <1>2, <1>5, <1>7
  <2>4. /\ \A d, e \in Dirs : t.tab[d] = t.tab[e] /\ t.tab[d] # 0 => d = e
        /\ t.dir \notin t.kern
        /\ \A d \in Dirs : t.tab[d] # 0 => t.tab[d] # t.dir /\ t.tab[d] \notin t.kern
    BY <1>2, <1>7
  <2> QED BY <1>4, <2>1, <2>2, <2>3, <2>4, OnePlaceIs, Zenon
<1>9. PagesOf(s, V) \subseteq Own(s) BY <1>0, OwnIs, Zenon DEF PagesOf, Uses
<1>10. Own(t) = Own(s) \ PagesOf(s, V)
  <2> SUFFICES ASSUME NEW x PROVE x \in Own(t) <=> x \in Own(s) /\ ~ \E v \in V : x = s.pte[v]
    BY Zenon DEF PagesOf
  <2>1. x # 0 => ((\E w \in VPage : x = t.pte[w]) <=> (\E w \in VPage : x = s.pte[w]) /\ ~ \E v \in V : x = s.pte[v])
    BY <1>0, <1>5, <1>7, Zenon
  <2>2. x # 0 /\ (\E v \in V : x = s.pte[v]) => x # s.dir /\ x \notin s.kern /\ \A d \in Dirs : x # s.tab[d]
    BY <1>0, <1>7
  <2>3. x # 0 => (Uses(t, x) <=> Uses(s, x) /\ ~ \E v \in V : x = s.pte[v])
    BY <2>1, <2>2, <1>2, Zenon DEF Uses
  <2> QED BY <1>4, <2>3, OwnIs, Zenon
<1> QED BY <1>2, <1>4, <1>6, <1>8, <1>9, <1>10, Zenon DEF t

(* A finite set has subsets of every smaller size.                         *)
LEMMA SubsetOfSize ==
  ASSUME NEW f, IsFiniteSet(f), NEW n \in Nat, n <= Cardinality(f)
  PROVE  \E S \in SUBSET f : Cardinality(S) = n
<1> DEFINE m == Cardinality(f)
<1>1. m \in Nat /\ ExistsBijection(1..m, f) BY FS_CardinalityType, Zenon
<1>2. PICK h \in Bijection(1..m, f) : TRUE BY <1>1, Zenon DEF ExistsBijection
<1>3. h \in [1..m -> f] /\ \A i, j \in 1..m : h[i] = h[j] => i = j
  BY <1>2, Zenon DEF Bijection, Injection, IsInjective
<1>4. 1..n \subseteq 1..m BY <1>1
<1> HIDE DEF m
<1> DEFINE S == {h[j] : j \in 1..n}
           g == [j \in 1..n |-> h[j]]
<1>5. S \in SUBSET f BY <1>3, <1>4
<1>6. g \in Bijection(1..n, S)
  <2>1. g \in [1..n -> S] BY Zenon
  <2>2. \A i, j \in 1..n : g[i] = g[j] => i = j BY <1>3, <1>4, Zenon
  <2>3. \A x \in S : \E j \in 1..n : g[j] = x BY Zenon
  <2> HIDE DEF g, S
  <2> QED BY <2>1, <2>2, <2>3, Zenon DEF Bijection, Injection, Surjection, IsInjective
<1>7. IsFiniteSet(1..n) /\ Cardinality(1..n) = n BY FS_Interval
<1>8. Cardinality(S) = n BY <1>6, <1>7, FS_Bijection, Zenon DEF ExistsBijection
<1> QED BY <1>5, <1>8, Zenon

(* setupkvm takes its pages from the list, and maps none of the user's.    *)
LEMMA SetupIs ==
  ASSUME NEW f \in SUBSET Pages, CanSetup(f)
  PROVE  /\ setupkvm(f) \in Spaces /\ setupkvm(f).dir # 0 /\ OnePlace(setupkvm(f))
         /\ Mapped(setupkvm(f)) = {}
         /\ Own(setupkvm(f)) \subseteq f /\ Cardinality(Own(setupkvm(f))) = 1 + NKPT
<1> DEFINE S == SetupPages(f)
           x == Some(S)
           s == setupkvm(f)
<1>0. 0 \notin Pages /\ NKPT \in Nat /\ IsFiniteSet(Pages) BY MemAssumption, Zenon
<1>1. IsFiniteSet(f) /\ 1 + NKPT \in Nat BY <1>0, FS_Subset
<1>2. S \in SUBSET f /\ Cardinality(S) = 1 + NKPT
  <2>1. 1 + NKPT <= Cardinality(f) BY <1>0, <1>1, FS_CardinalityType, Zenon DEF CanSetup
  <2>2. \E T \in SUBSET f : Cardinality(T) = 1 + NKPT BY <1>1, <2>1, SubsetOfSize, Zenon
  <2> QED BY <2>2, Zenon DEF SetupPages
<1>3. s = [NoSpace EXCEPT !.dir = x, !.kern = S \ {x}] BY Zenon DEF setupkvm
<1>4. x \in S
  <2>1. S # {} BY <1>0, <1>2, FS_EmptySet
  <2> QED BY <2>1, Zenon DEF Some
<1> HIDE DEF s, x, S
<1>5. /\ s.dir = x /\ s.kern = S \ {x} /\ s.tab = NoSpace.tab /\ s.pte = NoSpace.pte
      /\ s = [dir |-> s.dir, kern |-> s.kern, tab |-> s.tab, pte |-> s.pte]
  BY <1>3, Zenon DEF NoSpace
<1>6. /\ \A d \in Dirs : s.tab[d] = 0
      /\ \A v \in VPage : s.pte[v] = 0
      /\ s.tab \in [Dirs -> Page0] /\ s.pte \in [VPage -> Page0]
  BY <1>5, Zenon DEF NoSpace, Dirs, Page0
<1>7. s \in Spaces
  <2>1. s.dir \in Page0 /\ s.kern \in SUBSET Pages BY <1>2, <1>4, <1>5, Zenon DEF Page0
  <2> QED BY <2>1, <1>5, <1>6, Zenon DEF Spaces
<1>8. s.dir # 0 BY <1>0, <1>2, <1>4, <1>5, Zenon
<1>9. OnePlace(s)
  <2>1. s.dir \notin s.kern BY <1>5, Zenon
  <2> QED BY <1>6, <1>7, <2>1, OnePlaceIs, Zenon
<1>10. Mapped(s) = {} BY <1>6, Zenon DEF Mapped
<1>11. Own(s) = S
  <2> SUFFICES ASSUME NEW y PROVE y \in Own(s) <=> y \in S BY Zenon
  <2>1. y \in Own(s) <=> y # 0 /\ Uses(s, y) BY <1>7, OwnIs, Zenon
  <2>2. y # 0 => (Uses(s, y) <=> y \in S) BY <1>4, <1>5, <1>6 DEF Uses
  <2>3. y \in S => y # 0 BY <1>0, <1>2, Zenon
  <2> QED BY <2>1, <2>2, <2>3, Zenon
<1> QED BY <1>2, <1>7, <1>8, <1>9, <1>10, <1>11, Zenon DEF s

-----------------------------------------------------------------------------
(* One holder for each page                                                *)

(* A step that changes the pages of the holders C only keeps one holder    *)
(* for each page when it does so among them.                               *)
LEMMA Reshuffle ==
  ASSUME NEW I, NEW P, NEW H, NEW G, NEW C \in SUBSET I,
         OneHolder(I, P, H),
         \A h \in I : h \notin C => G[h] = H[h],
         \A x \in P : (\E h \in C : x \in H[h]) <=> (\E h \in C : x \in G[h]),
         \A x \in P : \A g, h \in C : x \in G[g] /\ x \in G[h] => g = h
  PROVE  OneHolder(I, P, G)
<1> SUFFICES ASSUME NEW x \in P PROVE \E h \in I : x \in G[h] /\ \A g \in I : x \in G[g] => g = h
  BY Zenon DEF OneHolder
<1>1. PICK h \in I : x \in H[h] /\ \A g \in I : x \in H[g] => g = h BY Zenon DEF OneHolder
<1>2. CASE h \in C
  <2>1. PICK k \in C : x \in G[k] BY <1>1, <1>2, Zenon
  <2>2. \A g \in I : x \in G[g] => g = k BY <1>1, <1>2, <2>1, Zenon
  <2> QED BY <2>1, <2>2, Zenon
<1>3. CASE h \notin C
  <2>1. x \in G[h] BY <1>1, <1>3, Zenon
  <2>2. \A g \in C : x \notin G[g] BY <1>1, <1>3, Zenon
  <2>3. \A g \in I : x \in G[g] => g = h BY <1>1, <2>2, Zenon
  <2> QED BY <2>1, <2>3, Zenon
<1> QED BY <1>2, <1>3, Zenon

(* The same for three holders, or two                                      *)
LEMMA Trio ==
  ASSUME NEW I, NEW P, NEW H, NEW G, NEW i \in I, NEW j \in I, NEW k \in I,
         i # j, i # k, j # k,
         OneHolder(I, P, H),
         \A h \in I : h \notin {i, j, k} => G[h] = H[h],
         G[i] \cup G[j] \cup G[k] = H[i] \cup H[j] \cup H[k],
         G[i] \cap G[j] = {}, G[i] \cap G[k] = {}, G[j] \cap G[k] = {}
  PROVE  OneHolder(I, P, G)
<1> DEFINE C == {i, j, k}
<1>1. C \in SUBSET I BY Zenon
<1>2. \A x \in P : (\E h \in C : x \in H[h]) <=> (\E h \in C : x \in G[h])
  <2> SUFFICES ASSUME NEW x \in P PROVE (\E h \in C : x \in H[h]) <=> (\E h \in C : x \in G[h])
    BY Zenon
  <2>1. (\E h \in C : x \in H[h]) <=> x \in H[i] \cup H[j] \cup H[k] BY Zenon
  <2>2. (\E h \in C : x \in G[h]) <=> x \in G[i] \cup G[j] \cup G[k] BY Zenon
  <2> QED BY <2>1, <2>2, Zenon
<1>3. \A x \in P : \A g, h \in C : x \in G[g] /\ x \in G[h] => g = h
  <2> SUFFICES ASSUME NEW x \in P, NEW g \in C, NEW h \in C, x \in G[g], x \in G[h] PROVE g = h
    BY Zenon
  <2>1. ~(x \in G[i] /\ x \in G[j]) /\ ~(x \in G[i] /\ x \in G[k]) /\ ~(x \in G[j] /\ x \in G[k])
    BY Zenon
  <2> QED BY <2>1
<1> HIDE DEF C
<1>4. \A h \in I : h \notin C => G[h] = H[h] BY Zenon DEF C
<1> QED BY <1>1, <1>2, <1>3, <1>4, Reshuffle

(* Pages that move between two holders still have one holder each.         *)
LEMMA Pair ==
  ASSUME NEW I, NEW P, NEW H, NEW G, NEW i \in I, NEW j \in I, i # j,
         OneHolder(I, P, H),
         \A h \in I : h \notin {i, j} => G[h] = H[h],
         G[i] \cup G[j] = H[i] \cup H[j], G[i] \cap G[j] = {}
  PROVE  OneHolder(I, P, G)
<1> DEFINE C == {i, j}
<1>1. C \in SUBSET I BY Zenon
<1>2. \A x \in P : (\E h \in C : x \in H[h]) <=> (\E h \in C : x \in G[h])
  <2> SUFFICES ASSUME NEW x \in P PROVE (\E h \in C : x \in H[h]) <=> (\E h \in C : x \in G[h])
    BY Zenon
  <2>1. (\E h \in C : x \in H[h]) <=> x \in H[i] \cup H[j] BY Zenon
  <2>2. (\E h \in C : x \in G[h]) <=> x \in G[i] \cup G[j] BY Zenon
  <2> QED BY <2>1, <2>2, Zenon
<1>3. \A x \in P : \A g, h \in C : x \in G[g] /\ x \in G[h] => g = h
  <2> SUFFICES ASSUME NEW x \in P, NEW g \in C, NEW h \in C, x \in G[g], x \in G[h] PROVE g = h
    BY Zenon
  <2>1. ~(x \in G[i] /\ x \in G[j]) BY Zenon
  <2> QED BY <2>1
<1> HIDE DEF C
<1>4. \A h \in I : h \notin C => G[h] = H[h] BY Zenon DEF C
<1> QED BY <1>1, <1>2, <1>3, <1>4, Reshuffle

(* What the holders have, before and after a step                          *)
Free == <<"free", 0>>

(* What each holder has: the free list, a kernel stack, a page table, or   *)
(* one under construction.                                                 *)
LEMMA ShareIs ==
  /\ Free \in Holders /\ Share[Free] = freelist
  /\ \A p \in MProcs :
       /\ <<"kstack", p>> \in Holders /\ Share[<<"kstack", p>>] = {kstack[p]} \ {0}
       /\ <<"pgdir", p>> \in Holders /\ Share[<<"pgdir", p>>] = Own(pgdir[p])
       /\ <<"new", p>> \in Holders /\ Share[<<"new", p>>] = Own(new[p])
  /\ \A h \in Holders : \/ h = Free
                        \/ \E p \in MProcs : h \in {<<"kstack", p>>, <<"pgdir", p>>, <<"new", p>>}
<1>1. Free \in Holders /\ Share[Free] = freelist BY Zenon DEF Share, Holders, HasPages, Free
<1>2. ASSUME NEW p \in MProcs
      PROVE  /\ <<"kstack", p>> \in Holders /\ Share[<<"kstack", p>>] = {kstack[p]} \ {0}
             /\ <<"pgdir", p>> \in Holders /\ Share[<<"pgdir", p>>] = Own(pgdir[p])
             /\ <<"new", p>> \in Holders /\ Share[<<"new", p>>] = Own(new[p])
  BY Zenon DEF Share, Holders, HasPages
<1>3. \A h \in Holders : \/ h = Free
                         \/ \E p \in MProcs : h \in {<<"kstack", p>>, <<"pgdir", p>>, <<"new", p>>}
  BY DEF Holders, Free
<1> QED BY <1>1, <1>2, <1>3, Zenon

(* The same after a step                                                   *)
LEMMA ShareIsNext ==
  /\ Share'[Free] = freelist'
  /\ \A p \in MProcs :
       /\ Share'[<<"kstack", p>>] = {kstack'[p]} \ {0}
       /\ Share'[<<"pgdir", p>>] = Own(pgdir'[p])
       /\ Share'[<<"new", p>>] = Own(new'[p])
<1>1. Share'[Free] = freelist' BY Zenon DEF Share, Holders, HasPages, Free
<1>2. ASSUME NEW p \in MProcs
      PROVE  /\ Share'[<<"kstack", p>>] = {kstack'[p]} \ {0}
             /\ Share'[<<"pgdir", p>>] = Own(pgdir'[p])
             /\ Share'[<<"new", p>>] = Own(new'[p])
  BY Zenon DEF Share, Holders, HasPages
<1> QED BY <1>1, <1>2, Zenon

(* The holders whose pages a step leaves alone                             *)
LEMMA OthersSame ==
  ASSUME NEW C, freelist' = freelist \/ Free \in C,
         \A q \in MProcs : /\ kstack'[q] = kstack[q] \/ <<"kstack", q>> \in C
                           /\ pgdir'[q] = pgdir[q] \/ <<"pgdir", q>> \in C
                           /\ new'[q] = new[q] \/ <<"new", q>> \in C
  PROVE  \A h \in Holders : h \notin C => Share'[h] = Share[h]
<1> SUFFICES ASSUME NEW h \in Holders, h \notin C PROVE Share'[h] = Share[h] BY Zenon
<1>1. CASE h = Free BY <1>1, ShareIs, ShareIsNext, Zenon
<1>2. ASSUME NEW q \in MProcs, h = <<"kstack", q>> PROVE Share'[h] = Share[h]
  BY <1>2, ShareIs, ShareIsNext, Zenon
<1>3. ASSUME NEW q \in MProcs, h = <<"pgdir", q>> PROVE Share'[h] = Share[h]
  BY <1>3, ShareIs, ShareIsNext, Zenon
<1>4. ASSUME NEW q \in MProcs, h = <<"new", q>> PROVE Share'[h] = Share[h]
  BY <1>4, ShareIs, ShareIsNext, Zenon
<1> QED BY <1>1, <1>2, <1>3, <1>4, ShareIs, Zenon

(* A step that moves no page                                               *)
LEMMA SharesKept == ASSUME Owned, UNCHANGED <<freelist, kstack, pgdir, new>> PROVE Owned'
<1>1. freelist' = freelist /\ kstack' = kstack /\ pgdir' = pgdir /\ new' = new BY Zenon
<1>2. \A h \in Holders : Share'[h] = Share[h]
  <2> DEFINE C == {}
  <2> HIDE DEF C
  <2>1. \A h \in Holders : h \notin C => Share'[h] = Share[h] BY <1>1, OthersSame, Zenon
  <2> QED BY <2>1, Zenon DEF C
<1> QED BY <1>2, Zenon DEF Owned, OneHolder

(* Holders have no page in common.                                         *)
LEMMA Apart ==
  ASSUME MemTypes, Owned, NEW p \in MProcs
  PROVE  /\ freelist \cap Own(pgdir[p]) = {} /\ freelist \cap Own(new[p]) = {}
         /\ kstack[p] # 0 => kstack[p] \in Pages /\ kstack[p] \notin freelist
         /\ Own(pgdir[p]) \subseteq Pages /\ Own(new[p]) \subseteq Pages
         /\ \A q \in MProcs :
              /\ Own(pgdir[p]) \cap Own(new[q]) = {}
              /\ kstack[p] \notin Own(pgdir[q]) /\ kstack[p] \notin Own(new[q])
<1>1. freelist \subseteq Pages BY Zenon DEF MemTypes
<1>2. \A q \in MProcs : /\ pgdir[q] \in Spaces /\ new[q] \in Spaces
                        /\ kstack[q] \in Page0
  BY Zenon DEF MemTypes
<1>3. \A q \in MProcs : /\ Own(pgdir[q]) \subseteq Pages /\ Own(new[q]) \subseteq Pages
                        /\ 0 \notin Own(pgdir[q]) /\ 0 \notin Own(new[q])
  BY <1>2, OwnIs, Zenon
<1>4. \A q \in MProcs : kstack[q] # 0 => kstack[q] \in Pages BY <1>2, Zenon DEF Page0
<1>5. \A g, h \in Holders : g # h => \A x \in Pages : ~(x \in Share[g] /\ x \in Share[h])
  BY Zenon DEF Owned, OneHolder
<1>6. \A q \in MProcs :
        /\ Free # <<"pgdir", q>> /\ Free # <<"new", q>> /\ Free # <<"kstack", q>>
        /\ \A r \in MProcs : /\ <<"pgdir", q>> # <<"new", r>> /\ <<"kstack", q>> # <<"pgdir", r>>
                             /\ <<"kstack", q>> # <<"new", r>>
  BY Zenon DEF Free
<1>7. \A x \in Pages : /\ ~(x \in Share[Free] /\ x \in Share[<<"pgdir", p>>])
                       /\ ~(x \in Share[Free] /\ x \in Share[<<"new", p>>])
                       /\ ~(x \in Share[Free] /\ x \in Share[<<"kstack", p>>])
  BY <1>5, <1>6, ShareIs, Zenon
<1>8. freelist \cap Own(pgdir[p]) = {} /\ freelist \cap Own(new[p]) = {}
  <2>1. /\ Share[Free] = freelist /\ Share[<<"pgdir", p>>] = Own(pgdir[p])
        /\ Share[<<"new", p>>] = Own(new[p])
    BY ShareIs, Zenon
  <2> QED BY <1>1, <1>7, <2>1, Zenon
<1>9. kstack[p] # 0 => kstack[p] \notin freelist BY <1>4, <1>7, ShareIs, Zenon
<1>10. ASSUME NEW q \in MProcs
       PROVE  /\ Own(pgdir[p]) \cap Own(new[q]) = {}
              /\ kstack[p] \notin Own(pgdir[q]) /\ kstack[p] \notin Own(new[q])
  <2>1. \A x \in Pages : /\ ~(x \in Share[<<"pgdir", p>>] /\ x \in Share[<<"new", q>>])
                         /\ ~(x \in Share[<<"kstack", p>>] /\ x \in Share[<<"pgdir", q>>])
                         /\ ~(x \in Share[<<"kstack", p>>] /\ x \in Share[<<"new", q>>])
    BY <1>5, <1>6, ShareIs, Zenon
  <2>2. Own(pgdir[p]) \cap Own(new[q]) = {}
    <3>1. Share[<<"pgdir", p>>] = Own(pgdir[p]) /\ Share[<<"new", q>>] = Own(new[q]) BY ShareIs, Zenon
    <3> QED BY <1>3, <2>1, <3>1, Zenon
  <2>3. kstack[p] \notin Own(pgdir[q]) BY <1>3, <1>4, <2>1, ShareIs, Zenon
  <2>4. kstack[p] \notin Own(new[q]) BY <1>3, <1>4, <2>1, ShareIs, Zenon
  <2> QED BY <2>2, <2>3, <2>4, Zenon
<1> QED BY <1>3, <1>4, <1>7, <1>8, <1>9, <1>10, Zenon

-----------------------------------------------------------------------------
(* A step of one process, that concerns no child                           *)
Alone(p) ==
  \A q \in MProcs : q # p =>
    /\ mst'[q] = mst[q] /\ pgdir'[q] = pgdir[q] /\ new'[q] = new[q] /\ kstack'[q] = kstack[q]
    /\ sz'[q] = sz[q] /\ goal'[q] = goal[q] /\ a'[q] = a[q]

(* Such a step only has to be right for the process that takes it.         *)
LEMMA AloneKeeps ==
  ASSUME MemTypes, StateInv, ChildInv, NEW p \in MProcs, Alone(p), Has(p)', Loop(p)', child' = child,
         mst'[p] = mst[p] \/ (mst[p] \notin {"embryo", "copy"} /\ mst'[p] # "copy")
  PROVE  StateInv' /\ ChildInv'
<1>1. ASSUME NEW q \in MProcs PROVE Has(q)' /\ Loop(q)'
  <2>1. CASE q = p BY <2>1, Zenon
  <2>2. CASE q # p
    <3>1. /\ mst'[q] = mst[q] /\ pgdir'[q] = pgdir[q] /\ new'[q] = new[q] /\ kstack'[q] = kstack[q]
          /\ sz'[q] = sz[q] /\ goal'[q] = goal[q] /\ a'[q] = a[q]
      BY <2>2, Zenon DEF Alone
    <3>2. Has(q) /\ Loop(q) BY Zenon DEF StateInv
    <3>3. Has(q)' BY <3>1, <3>2, Zenon DEF Has
    <3>4. Loop(q)' BY <3>1, <3>2, Zenon DEF Loop
    <3> QED BY <3>3, <3>4, Zenon
  <2> QED BY <2>1, <2>2, Zenon
<1>2. \A q \in MProcs : q # p => mst'[q] = mst[q] BY Zenon DEF Alone
<1>3. \A q \in MProcs : child[q] # 0 => child[q] \in MProcs BY Zenon DEF MemTypes
<1>4. ChildInv' BY <1>2, <1>3, Zenon DEF ChildInv
<1> QED BY <1>1, <1>4, Zenon DEF StateInv

(* exit leaves the memory to the parent's wait.                            *)
LEMMA ExitKeeps == ASSUME MemInv, NEW p \in MProcs, exit(p) PROVE MemInv'
<1> USE DEF MemInv
<1>1. mst[p] = "user" /\ mst' = [mst EXCEPT ![p] = "zombie"]
      /\ UNCHANGED <<freelist, pgdir, sz, kstack, new, a, goal, child, mpanic>>
  BY Zenon DEF exit, to
<1>2. \A q \in MProcs : mst'[q] = IF q = p THEN "zombie" ELSE mst[q] BY <1>1, Zenon DEF MemTypes
<1>3. MemTypes' BY <1>1, Zenon DEF MemTypes
<1>4. Alone(p) BY <1>1, <1>2, Zenon DEF Alone
<1>5. Has(p) /\ Loop(p) BY Zenon DEF StateInv
<1>6. Has(p)' BY <1>1, <1>2, <1>5 DEF Has, Building
<1>7. Loop(p)' BY <1>1, <1>2, <1>5 DEF Loop, Building
<1>8. StateInv' /\ ChildInv' BY <1>1, <1>2, <1>4, <1>6, <1>7, AloneKeeps
<1>9. Owned' BY <1>1, SharesKept, Zenon
<1> QED BY <1>3, <1>8, <1>9, Zenon

-----------------------------------------------------------------------------
(* Pages that go from a holder to the free list, and the other way         *)
LEMMA GiveBack ==
  ASSUME Owned, NEW h \in Holders, h # Free, NEW T \in SUBSET Share[h], Share[h] \cap freelist = {},
         freelist' = freelist \cup T, Share'[h] = Share[h] \ T,
         \A g \in Holders : g \notin {Free, h} => Share'[g] = Share[g]
  PROVE  Owned'
<1>1. Free \in Holders /\ Share[Free] = freelist /\ Share'[Free] = freelist' BY ShareIs, ShareIsNext, Zenon
<1>2. Share'[Free] \cup Share'[h] = Share[Free] \cup Share[h] BY <1>1, Zenon
<1>3. Share'[Free] \cap Share'[h] = {} BY <1>1, Zenon
<1>4. OneHolder(Holders, Pages, Share) BY Zenon DEF Owned
<1>5. OneHolder(Holders, Pages, Share') BY <1>1, <1>2, <1>3, <1>4, Pair, Zenon
<1> QED BY <1>5, Zenon DEF Owned, OneHolder, Holders

(* kalloc moves pages from the free list to a holder.                      *)
LEMMA Take ==
  ASSUME Owned, NEW h \in Holders, h # Free, NEW T \in SUBSET freelist, Share[h] \cap freelist = {},
         freelist' = freelist \ T, Share'[h] = Share[h] \cup T,
         \A g \in Holders : g \notin {Free, h} => Share'[g] = Share[g]
  PROVE  Owned'
<1>1. Free \in Holders /\ Share[Free] = freelist /\ Share'[Free] = freelist' BY ShareIs, ShareIsNext, Zenon
<1>2. Share'[Free] \cup Share'[h] = Share[Free] \cup Share[h] BY <1>1, Zenon
<1>3. Share'[Free] \cap Share'[h] = {} BY <1>1, Zenon
<1>4. OneHolder(Holders, Pages, Share) BY Zenon DEF Owned
<1>5. OneHolder(Holders, Pages, Share') BY <1>1, <1>2, <1>3, <1>4, Pair, Zenon
<1> QED BY <1>5, Zenon DEF Owned, OneHolder, Holders

(* The same for the table of a process and for one under construction      *)
LEMMA PgdirGives ==
  ASSUME MemTypes, Owned, NEW p \in MProcs, NEW T \in SUBSET Own(pgdir[p]),
         freelist' = freelist \cup T, Own(pgdir'[p]) = Own(pgdir[p]) \ T,
         \A q \in MProcs : q # p => pgdir'[q] = pgdir[q], kstack' = kstack, new' = new
  PROVE  Owned'
<1> DEFINE h == <<"pgdir", p>>
<1>1. h \in Holders /\ Share[h] = Own(pgdir[p]) /\ Share'[h] = Own(pgdir'[p]) BY ShareIs, ShareIsNext, Zenon
<1>2. h # Free BY Zenon DEF Free
<1>3. Share[h] \cap freelist = {}
  <2>1. freelist \cap Own(pgdir[p]) = {} BY Apart, Zenon
  <2> HIDE DEF h
  <2> QED BY <1>1, <2>1, Zenon
<1>4. \A g \in Holders : g \notin {Free, h} => Share'[g] = Share[g]
  <2> DEFINE C == {Free, h}
  <2>1. Free \in C /\ \A q \in MProcs : pgdir'[q] = pgdir[q] \/ <<"pgdir", q>> \in C BY Zenon
  <2> HIDE DEF C
  <2>2. \A g \in Holders : g \notin C => Share'[g] = Share[g] BY <2>1, OthersSame, Zenon
  <2> QED BY <2>2, Zenon DEF C
<1> HIDE DEF h
<1>5. T \in SUBSET Share[h] /\ Share'[h] = Share[h] \ T BY <1>1, Zenon
<1> QED BY <1>1, <1>2, <1>3, <1>4, <1>5, GiveBack, Zenon

(* kfree of pages of a page table under construction.                      *)
LEMMA NewGives ==
  ASSUME MemTypes, Owned, NEW p \in MProcs, NEW T \in SUBSET Own(new[p]),
         freelist' = freelist \cup T, Own(new'[p]) = Own(new[p]) \ T,
         \A q \in MProcs : q # p => new'[q] = new[q], kstack' = kstack, pgdir' = pgdir
  PROVE  Owned'
<1> DEFINE h == <<"new", p>>
<1>1. h \in Holders /\ Share[h] = Own(new[p]) /\ Share'[h] = Own(new'[p]) BY ShareIs, ShareIsNext, Zenon
<1>2. h # Free BY Zenon DEF Free
<1>3. Share[h] \cap freelist = {}
  <2>1. freelist \cap Own(new[p]) = {} BY Apart, Zenon
  <2> HIDE DEF h
  <2> QED BY <1>1, <2>1, Zenon
<1>4. \A g \in Holders : g \notin {Free, h} => Share'[g] = Share[g]
  <2> DEFINE C == {Free, h}
  <2>1. Free \in C /\ \A q \in MProcs : new'[q] = new[q] \/ <<"new", q>> \in C BY Zenon
  <2> HIDE DEF C
  <2>2. \A g \in Holders : g \notin C => Share'[g] = Share[g] BY <2>1, OthersSame, Zenon
  <2> QED BY <2>2, Zenon DEF C
<1> HIDE DEF h
<1>5. T \in SUBSET Share[h] /\ Share'[h] = Share[h] \ T BY <1>1, Zenon
<1> QED BY <1>1, <1>2, <1>3, <1>4, <1>5, GiveBack, Zenon

(* kalloc of pages for the page table of a process.                        *)
LEMMA PgdirTakes ==
  ASSUME MemTypes, Owned, NEW p \in MProcs, NEW T \in SUBSET freelist,
         freelist' = freelist \ T, Own(pgdir'[p]) = Own(pgdir[p]) \cup T,
         \A q \in MProcs : q # p => pgdir'[q] = pgdir[q], kstack' = kstack, new' = new
  PROVE  Owned'
<1> DEFINE h == <<"pgdir", p>>
<1>1. h \in Holders /\ Share[h] = Own(pgdir[p]) /\ Share'[h] = Own(pgdir'[p]) BY ShareIs, ShareIsNext, Zenon
<1>2. h # Free BY Zenon DEF Free
<1>3. Share[h] \cap freelist = {}
  <2>1. freelist \cap Own(pgdir[p]) = {} BY Apart, Zenon
  <2> HIDE DEF h
  <2> QED BY <1>1, <2>1, Zenon
<1>4. \A g \in Holders : g \notin {Free, h} => Share'[g] = Share[g]
  <2> DEFINE C == {Free, h}
  <2>1. Free \in C /\ \A q \in MProcs : pgdir'[q] = pgdir[q] \/ <<"pgdir", q>> \in C BY Zenon
  <2> HIDE DEF C
  <2>2. \A g \in Holders : g \notin C => Share'[g] = Share[g] BY <2>1, OthersSame, Zenon
  <2> QED BY <2>2, Zenon DEF C
<1> HIDE DEF h
<1>5. Share'[h] = Share[h] \cup T BY <1>1, Zenon
<1> QED BY <1>1, <1>2, <1>3, <1>4, <1>5, Take, Zenon

(* kalloc of pages for a page table under construction.                    *)
LEMMA NewTakes ==
  ASSUME MemTypes, Owned, NEW p \in MProcs, NEW T \in SUBSET freelist,
         freelist' = freelist \ T, Own(new'[p]) = Own(new[p]) \cup T,
         \A q \in MProcs : q # p => new'[q] = new[q], kstack' = kstack, pgdir' = pgdir
  PROVE  Owned'
<1> DEFINE h == <<"new", p>>
<1>1. h \in Holders /\ Share[h] = Own(new[p]) /\ Share'[h] = Own(new'[p]) BY ShareIs, ShareIsNext, Zenon
<1>2. h # Free BY Zenon DEF Free
<1>3. Share[h] \cap freelist = {}
  <2>1. freelist \cap Own(new[p]) = {} BY Apart, Zenon
  <2> HIDE DEF h
  <2> QED BY <1>1, <2>1, Zenon
<1>4. \A g \in Holders : g \notin {Free, h} => Share'[g] = Share[g]
  <2> DEFINE C == {Free, h}
  <2>1. Free \in C /\ \A q \in MProcs : new'[q] = new[q] \/ <<"new", q>> \in C BY Zenon
  <2> HIDE DEF C
  <2>2. \A g \in Holders : g \notin C => Share'[g] = Share[g] BY <2>1, OthersSame, Zenon
  <2> QED BY <2>2, Zenon DEF C
<1> HIDE DEF h
<1>5. Share'[h] = Share[h] \cup T BY <1>1, Zenon
<1> QED BY <1>1, <1>2, <1>3, <1>4, <1>5, Take, Zenon

-----------------------------------------------------------------------------
(* sbrk                                                                    *)

(* PGROUNDUP is monotonic.                                                 *)
LEMMA RoundUpMono ==
  ASSUME NEW m \in Nat, NEW n \in Nat, m <= n
  PROVE  RoundUp(m) <= RoundUp(n)
<1> DEFINE r == RoundUp(n)
           s == RoundUp(m)
<1>1. r \in Nat /\ s \in Nat /\ (r < s <=> r * PGSIZE < m) /\ (r < r <=> r * PGSIZE < n)
  BY RoundUpIs, Zenon
<1>2. r * PGSIZE \in Nat BY <1>1, Times, Zenon
<1> HIDE DEF r, s
<1>3. s <= r BY <1>1, <1>2
<1> QED BY <1>3, Zenon DEF r, s

(* The end of a loop: everything below its goal is mapped.                 *)
LEMMA LoopDone ==
  ASSUME NEW n \in 0..KERNBASE-1, NEW b \in Nat, b <= RoundUp(n), ~(b * PGSIZE < n)
  PROVE  b = RoundUp(n) /\ Below(n) = Upto(b)
<1>1. n \in Nat BY MemAssumption
<1>2. RoundUp(n) \in Nat /\ (b < RoundUp(n) <=> b * PGSIZE < n) BY <1>1, RoundUpIs, Zenon
<1>3. b = RoundUp(n) BY <1>2
<1> QED BY <1>1, <1>3, BelowIs, Zenon

(* A loop's next page is a user page that is not mapped yet.               *)
LEMMA LoopMore ==
  ASSUME NEW n \in 0..KERNBASE-1, NEW b \in Nat, b * PGSIZE < n
  PROVE  /\ b \in VPage /\ b \notin Upto(b) /\ b \in Below(n)
         /\ Upto(b) \cup {b} = Upto(b + 1) /\ b + 1 <= RoundUp(n)
<1>1. n \in Nat BY MemAssumption
<1>2. b \in VPage BY UserPage, Zenon
<1>3. RoundUp(n) \in Nat /\ b < RoundUp(n) BY <1>1, RoundUpIs, Zenon
<1>4. b + 1 <= RoundUp(n) BY <1>3
<1>5. VPage \subseteq Nat BY UserPage, Zenon
<1>6. \A v \in VPage : v < b + 1 <=> v < b \/ v = b BY <1>5
<1>7. Upto(b) \cup {b} = Upto(b + 1) BY <1>2, <1>6, Zenon DEF Upto
<1>8. b \notin Upto(b) BY DEF Upto
<1>9. b \in Below(n) BY <1>2, Zenon DEF Below
<1> QED BY <1>2, <1>4, <1>7, <1>8, <1>9, Zenon

(* The end of a successful growth                                          *)
LEMMA GrownKeeps == ASSUME MemInv, NEW p \in MProcs, grown(p) PROVE MemInv'
<1> USE DEF MemInv
<1>1. /\ mst[p] = "grow" /\ ~(a[p] * PGSIZE < goal[p])
      /\ sz' = [sz EXCEPT ![p] = goal[p]] /\ mst' = [mst EXCEPT ![p] = "user"]
      /\ a' = [a EXCEPT ![p] = 0] /\ goal' = [goal EXCEPT ![p] = 0]
      /\ freelist' = freelist /\ pgdir' = pgdir /\ kstack' = kstack /\ new' = new
      /\ child' = child /\ mpanic' = mpanic
  BY Zenon DEF grown, to, Done, StartLoop, More
<1>2. \A q \in MProcs : /\ mst'[q] = IF q = p THEN "user" ELSE mst[q]
                        /\ sz'[q] = IF q = p THEN goal[p] ELSE sz[q]
                        /\ a'[q] = IF q = p THEN 0 ELSE a[q]
                        /\ goal'[q] = IF q = p THEN 0 ELSE goal[q]
  BY <1>1, Zenon DEF MemTypes
<1>3. MemTypes'
  <2>1. sz' \in [MProcs -> 0..KERNBASE-1] BY <1>1, Zenon DEF MemTypes
  <2>2. goal' \in [MProcs -> 0..KERNBASE-1] BY <1>1, UserPage, Zenon DEF MemTypes
  <2>3. a' \in [MProcs -> Nat] BY <1>1, Zenon DEF MemTypes
  <2>4. mst' \in [MProcs -> {"unused", "embryo", "user", "grow", "zombie"} \cup Building]
    BY <1>1, Zenon DEF MemTypes
  <2> QED BY <1>1, <2>1, <2>2, <2>3, <2>4, Zenon DEF MemTypes
<1>4. Alone(p) BY <1>1, <1>2, Zenon DEF Alone
<1>5. Has(p) /\ Loop(p) BY Zenon DEF StateInv
<1>6. Has(p)' BY <1>1, <1>2, <1>5 DEF Has, Building
<1>7. Loop(p)'
  <2>1. Mapped(pgdir[p]) = Upto(a[p]) /\ a[p] <= RoundUp(goal[p]) BY <1>1, <1>5, Zenon DEF Loop
  <2>2. goal[p] \in 0..KERNBASE-1 /\ a[p] \in Nat BY Zenon DEF MemTypes
  <2>3. Mapped(pgdir[p]) = Below(goal[p]) BY <1>1, <2>1, <2>2, LoopDone, Zenon
  <2> QED BY <1>1, <1>2, <2>3 DEF Loop, Building
<1>8. StateInv' /\ ChildInv' BY <1>1, <1>2, <1>4, <1>6, <1>7, AloneKeeps
<1>9. Owned' BY <1>1, SharesKept, Zenon
<1> QED BY <1>3, <1>8, <1>9, Zenon

(* Taking pages out from the top leaves those below the new size.          *)
LEMMA VictimsAre ==
  ASSUME NEW s \in Spaces, NEW from \in Nat, NEW upto \in Nat, NEW b \in Nat,
         Mapped(s) = Upto(b), RoundUp(upto) <= b, \A v \in Upto(b) : v * PGSIZE < from
  PROVE  Mapped(s) \ Victims(s, from, upto) = Below(upto)
<1>1. RoundUp(upto) \in Nat BY RoundUpIs, Zenon
<1>2. Below(upto) = Upto(RoundUp(upto)) BY BelowIs, Zenon
<1>3. VPage \subseteq Nat BY UserPage, Zenon
<1>4. Victims(s, from, upto) = {v \in Upto(b) : RoundUp(upto) <= v} BY Zenon DEF Victims
<1>5. \A v \in Nat : v < RoundUp(upto) <=> v < b /\ ~(RoundUp(upto) <= v) BY <1>1
<1> QED BY <1>2, <1>3, <1>4, <1>5, Zenon DEF Upto

(* growproc: the loop begins, or the pages above the new size go.          *)
LEMMA GrowprocKeeps ==
  ASSUME MemInv, NEW p \in MProcs, NEW n \in (1-MUINT)..(MUINT-1), growproc(p, n)
  PROVE  MemInv'
<1> USE DEF MemInv
<1> DEFINE newsz == uint(sz[p] + n)
<1>1. mst[p] = "user" /\ pgdir[p].pte[0] # 0 /\ kstack' = kstack /\ new' = new /\ child' = child
  BY Zenon DEF growproc, Runs
<1>2. Has(p) /\ Loop(p) BY Zenon DEF StateInv
<1>3. Mapped(pgdir[p]) = Below(sz[p]) BY <1>1, <1>2, Zenon DEF Loop
<1>4. sz[p] \in 0..KERNBASE-1 /\ sz[p] \in Nat /\ pgdir[p] \in Spaces
  <2>1. sz[p] \in 0..KERNBASE-1 /\ pgdir[p] \in Spaces BY Zenon DEF MemTypes
  <2>2. sz[p] \in Nat BY <2>1, MemAssumption
  <2> QED BY <2>1, <2>2, Zenon
<1>5. newsz \in Nat BY <1>4, MemAssumption DEF uint
<1>6. RoundUp(sz[p]) \in Nat /\ Below(sz[p]) = Upto(RoundUp(sz[p])) BY <1>4, RoundUpIs, BelowIs, Zenon
<1>7. CASE /\ Fits(newsz) /\ newsz >= sz[p]
           /\ StartLoop(p, RoundUp(sz[p]), newsz) /\ to(p, "grow")
           /\ UNCHANGED <<freelist, pgdir, sz, mpanic>>
  <2> HIDE DEF newsz
  <2>1. /\ a' = [a EXCEPT ![p] = RoundUp(sz[p])] /\ goal' = [goal EXCEPT ![p] = newsz]
        /\ mst' = [mst EXCEPT ![p] = "grow"]
        /\ freelist' = freelist /\ pgdir' = pgdir /\ sz' = sz /\ mpanic' = mpanic
    BY <1>7, Zenon DEF StartLoop, to
  <2>2. \A q \in MProcs : /\ mst'[q] = IF q = p THEN "grow" ELSE mst[q]
                          /\ a'[q] = IF q = p THEN RoundUp(sz[p]) ELSE a[q]
                          /\ goal'[q] = IF q = p THEN newsz ELSE goal[q]
    BY <2>1, Zenon DEF MemTypes
  <2>3. newsz \in 0..KERNBASE-1 /\ sz[p] <= newsz BY <1>4, <1>5, <1>7, MemAssumption DEF Fits
  <2>4. MemTypes'
    <3>1. goal' \in [MProcs -> 0..KERNBASE-1] BY <2>1, <2>3, Zenon DEF MemTypes
    <3>2. a' \in [MProcs -> Nat] BY <1>6, <2>1, Zenon DEF MemTypes
    <3>3. mst' \in [MProcs -> {"unused", "embryo", "user", "grow", "zombie"} \cup Building]
      BY <2>1, Zenon DEF MemTypes
    <3> QED BY <1>1, <2>1, <3>1, <3>2, <3>3, Zenon DEF MemTypes
  <2>5. Alone(p) BY <1>1, <2>1, <2>2, Zenon DEF Alone
  <2>6. Has(p)' BY <1>1, <1>2, <2>1, <2>2 DEF Has, Building
  <2>7. Loop(p)'
    <3>1. RoundUp(sz[p]) <= RoundUp(newsz) BY <1>4, <1>5, <2>3, RoundUpMono, Zenon
    <3>2. RoundUp(sz[p]) <= RoundUp(sz[p]) BY <1>6
    <3>3. /\ mst'[p] = "grow" /\ pgdir'[p] = pgdir[p] /\ a'[p] = RoundUp(sz[p]) /\ goal'[p] = newsz
          /\ sz'[p] = sz[p]
      BY <2>1, <2>2, Zenon
    <3> QED BY <1>3, <1>6, <3>1, <3>2, <3>3, Zenon DEF Loop, Building
  <2>8. StateInv' /\ ChildInv' BY <1>1, <2>2, <2>5, <2>6, <2>7, AloneKeeps, Zenon
  <2>9. Owned' BY <1>1, <2>1, SharesKept, Zenon
  <2> QED BY <2>4, <2>8, <2>9, Zenon
<1>8. CASE /\ newsz < sz[p]
           /\ LET V == Victims(pgdir[p], sz[p], newsz) IN
                /\ kfree(PagesOf(pgdir[p], V))
                /\ pgdir' = [pgdir EXCEPT ![p] = Without(@, V)]
           /\ sz' = [sz EXCEPT ![p] = IF newsz = 0 THEN @ ELSE newsz]
           /\ UNCHANGED <<mst, a, goal>>
  <2> HIDE DEF newsz
  <2> DEFINE V == Victims(pgdir[p], sz[p], newsz)
             T == PagesOf(pgdir[p], V)
             t == Without(pgdir[p], V)
  <2>1. /\ freelist' = freelist \cup T /\ mpanic' = (IF T \cap freelist # {} THEN "kfree" ELSE mpanic)
        /\ mst' = mst /\ a' = a /\ goal' = goal /\ newsz < sz[p]
    BY <1>8, Zenon DEF kfree
  <2>2. pgdir' = [pgdir EXCEPT ![p] = t] /\ sz' = [sz EXCEPT ![p] = IF newsz = 0 THEN sz[p] ELSE newsz]
    BY <1>8, Zenon
  <2>3. V \in SUBSET Mapped(pgdir[p]) BY Zenon DEF Victims
  <2>4. /\ t \in Spaces /\ t.dir = pgdir[p].dir /\ OnePlace(t)
        /\ Mapped(t) = Mapped(pgdir[p]) \ V
        /\ T \subseteq Own(pgdir[p]) /\ Own(t) = Own(pgdir[p]) \ T
    BY <1>2, <1>4, <2>3, WithoutIs, Zenon DEF Has
  <2>5. Mapped(t) = Below(newsz)
    <3> DEFINE b == RoundUp(sz[p])
    <3>1. RoundUp(newsz) <= b BY <1>4, <1>5, <2>1, RoundUpMono
    <3>2. \A v \in Upto(b) : v * PGSIZE < sz[p] BY <1>6, Zenon DEF Below
    <3>3. Mapped(pgdir[p]) = Upto(b) BY <1>3, <1>6, Zenon
    <3> HIDE DEF b, V, t
    <3>4. b \in Nat BY <1>6, Zenon DEF b
    <3>5. Mapped(pgdir[p]) \ Victims(pgdir[p], sz[p], newsz) = Below(newsz)
      BY <1>4, <1>5, <3>1, <3>2, <3>3, <3>4, VictimsAre, Zenon
    <3> QED BY <2>4, <3>5, Zenon DEF V
  <2> HIDE DEF V, T, t
  <2>6. T \cap freelist = {} /\ mpanic' = mpanic
    <3>1. freelist \cap Own(pgdir[p]) = {} BY Apart, Zenon
    <3>2. T \cap freelist = {} BY <3>1, <2>4, Zenon
    <3> QED BY <3>2, <2>1, Zenon
  <2>7. \A q \in MProcs : /\ pgdir'[q] = IF q = p THEN t ELSE pgdir[q]
                          /\ sz'[q] = IF q = p THEN (IF newsz = 0 THEN sz[p] ELSE newsz) ELSE sz[q]
    BY <2>2, Zenon DEF MemTypes
  <2>8. MemTypes'
    <3>1. pgdir' \in [MProcs -> Spaces] BY <2>2, <2>4, Zenon DEF MemTypes
    <3>2. newsz \in 0..KERNBASE-1 BY <1>4, <1>5, <2>1, MemAssumption
    <3>3. sz' \in [MProcs -> 0..KERNBASE-1] BY <1>4, <2>2, <3>2, Zenon DEF MemTypes
    <3>4. freelist' \in SUBSET Pages
      <4>1. Own(pgdir[p]) \subseteq Pages BY Apart, Zenon
      <4> QED BY <2>1, <2>4, <4>1, Zenon DEF MemTypes
    <3> QED BY <1>1, <2>1, <2>6, <3>1, <3>3, <3>4, Zenon DEF MemTypes
  <2>9. Alone(p) BY <1>1, <2>1, <2>7, Zenon DEF Alone
  <2>10. Has(p)' BY <1>1, <1>2, <2>1, <2>4, <2>7, Zenon DEF Has, Building
  <2>11. Loop(p)'
    <3>1. mst'[p] = "user" /\ pgdir'[p] = t BY <1>1, <2>1, <2>7, Zenon
    <3>2. CASE newsz = 0
      <4>1. Below(newsz) = {}
        <5>1. \A v \in VPage : v * PGSIZE \in Nat BY UserPage, Times, Zenon
        <5>2. \A v \in VPage : ~(v * PGSIZE < newsz) BY <3>2, <5>1
        <5> QED BY <5>2, Zenon DEF Below
      <4>2. t.pte[0] = 0 BY <2>5, <4>1, UserPage, Zenon DEF Mapped
      <4> QED BY <3>1, <4>2, Zenon DEF Loop, Building
    <3>3. CASE newsz # 0
      <4>1. sz'[p] = newsz BY <2>7, <3>3, Zenon
      <4> QED BY <2>5, <3>1, <4>1, Zenon DEF Loop, Building
    <3> QED BY <3>2, <3>3, Zenon
  <2>12. StateInv' /\ ChildInv' BY <1>1, <2>1, <2>9, <2>10, <2>11, AloneKeeps, Zenon
  <2>13. Owned'
    <3>1. Own(pgdir'[p]) = Own(pgdir[p]) \ T BY <2>4, <2>7, Zenon
    <3>2. \A q \in MProcs : q # p => pgdir'[q] = pgdir[q] BY <2>7, Zenon
    <3>3. T \in SUBSET Own(pgdir[p]) BY <2>4, Zenon
    <3> QED BY <1>1, <2>1, <3>1, <3>2, <3>3, PgdirGives, Zenon
  <2> QED BY <2>8, <2>12, <2>13, Zenon
<1> QED BY <1>7, <1>8, Zenon DEF growproc

-----------------------------------------------------------------------------
(* exec                                                                    *)

(* exec begins with a table of its own.                                    *)
LEMMA ExecKeeps ==
  ASSUME MemInv, NEW p \in MProcs, NEW memsz \in 1..KERNBASE-1, exec(p, memsz)
  PROVE  MemInv'
<1> USE DEF MemInv
<1> DEFINE s == setupkvm(freelist)
<1>1. /\ mst[p] = "user" /\ pgdir[p].pte[0] # 0 /\ CanSetup(freelist)
      /\ new' = [new EXCEPT ![p] = s] /\ freelist' = freelist \ Own(new'[p])
      /\ a' = [a EXCEPT ![p] = 0] /\ goal' = [goal EXCEPT ![p] = memsz]
      /\ mst' = [mst EXCEPT ![p] = "load"]
      /\ pgdir' = pgdir /\ sz' = sz /\ kstack' = kstack /\ child' = child /\ mpanic' = mpanic
  BY Zenon DEF exec, Runs, StartLoop, to
<1>2. freelist \in SUBSET Pages BY Zenon DEF MemTypes
<1>3. /\ s \in Spaces /\ s.dir # 0 /\ OnePlace(s) /\ Mapped(s) = {} /\ Own(s) \subseteq freelist
  BY <1>1, <1>2, SetupIs, Zenon
<1> HIDE DEF s
<1>4. \A q \in MProcs : /\ mst'[q] = IF q = p THEN "load" ELSE mst[q]
                        /\ new'[q] = IF q = p THEN s ELSE new[q]
                        /\ a'[q] = IF q = p THEN 0 ELSE a[q]
                        /\ goal'[q] = IF q = p THEN memsz ELSE goal[q]
  BY <1>1, Zenon DEF MemTypes
<1>5. MemTypes'
  <2>1. memsz \in 0..KERNBASE-1 BY MemAssumption
  <2>2. goal' \in [MProcs -> 0..KERNBASE-1] BY <1>1, <2>1, Zenon DEF MemTypes
  <2>3. a' \in [MProcs -> Nat] BY <1>1, Zenon DEF MemTypes
  <2>4. mst' \in [MProcs -> {"unused", "embryo", "user", "grow", "zombie"} \cup Building]
    BY <1>1, Zenon DEF MemTypes, Building
  <2>5. new' \in [MProcs -> Spaces] BY <1>1, <1>3, Zenon DEF MemTypes
  <2>6. freelist' \in SUBSET Pages BY <1>1, <1>2, Zenon
  <2> QED BY <1>1, <2>2, <2>3, <2>4, <2>5, <2>6, Zenon DEF MemTypes
<1>6. Alone(p) BY <1>1, <1>4, Zenon DEF Alone
<1>7. Has(p) /\ Loop(p) BY Zenon DEF StateInv
<1>8. Has(p)' BY <1>1, <1>3, <1>4, <1>7 DEF Has, Building
<1>9. Loop(p)'
  <2>1. Mapped(pgdir[p]) = Below(sz[p]) BY <1>1, <1>7, Zenon DEF Loop
  <2>2. VPage \subseteq Nat BY UserPage, Zenon
  <2>3. Upto(0) = {}
    <3>1. \A v \in VPage : ~(v < 0) BY <2>2
    <3> QED BY <3>1, Zenon DEF Upto
  <2>4. memsz \in Nat OBVIOUS
  <2>5. RoundUp(memsz) \in Nat BY <2>4, RoundUpIs, Zenon
  <2>6. 0 <= RoundUp(memsz) BY <2>5
  <2>7. /\ mst'[p] = "load" /\ pgdir'[p] = pgdir[p] /\ sz'[p] = sz[p] /\ new'[p] = s /\ a'[p] = 0
        /\ goal'[p] = memsz
    BY <1>1, <1>4, Zenon
  <2> QED BY <1>3, <2>1, <2>3, <2>6, <2>7, Zenon DEF Loop, Building
<1>10. StateInv' /\ ChildInv' BY <1>1, <1>4, <1>6, <1>8, <1>9, AloneKeeps
<1>11. Owned'
  <2>1. new[p] = NoSpace BY <1>1, <1>7, Zenon DEF Has, Building
  <2>2. Own(new'[p]) = Own(new[p]) \cup Own(s) BY <1>4, <2>1, NoSpaceIs, Zenon
  <2>3. freelist' = freelist \ Own(s) /\ Own(s) \in SUBSET freelist BY <1>1, <1>3, <1>4, Zenon
  <2>4. \A q \in MProcs : q # p => new'[q] = new[q] BY <1>4, Zenon
  <2> QED BY <1>1, <2>2, <2>3, <2>4, NewTakes, Zenon
<1> QED BY <1>5, <1>10, <1>11, Zenon

(* exec fails: the table it was making goes.                               *)
LEMMA ExecFails ==
  ASSUME MemInv, NEW p \in MProcs, mst[p] \in {"load", "stack"},
         kfree(freevm(new[p])), new' = [new EXCEPT ![p] = NoSpace], to(p, "user"), Done(p),
         UNCHANGED <<pgdir, sz, kstack, child>>
  PROVE  MemInv'
<1> USE DEF MemInv
<1>0. Has(p) /\ Loop(p) /\ new[p] \in Spaces BY Zenon DEF StateInv, MemTypes
<1>1. new[p].dir # 0 /\ mst[p] \in Building /\ mst[p] # "copy" BY <1>0, Zenon DEF Has, Building
<1>2. freevm(new[p]) = Own(new[p]) BY <1>0, <1>1, FreevmIs, Zenon
<1>3. freelist \cap Own(new[p]) = {} /\ Own(new[p]) \subseteq Pages BY Apart, Zenon
<1>4. /\ freelist' = freelist \cup Own(new[p]) /\ mpanic' = mpanic
      /\ mst' = [mst EXCEPT ![p] = "user"]
      /\ a' = [a EXCEPT ![p] = 0] /\ goal' = [goal EXCEPT ![p] = 0]
      /\ pgdir' = pgdir /\ sz' = sz /\ kstack' = kstack /\ child' = child
  <2>1. freelist' = freelist \cup Own(new[p]) /\ (Own(new[p]) \cap freelist = {} => mpanic' = mpanic)
    BY <1>2, Zenon DEF kfree
  <2>2. Own(new[p]) \cap freelist = {} BY <1>3, Zenon
  <2> QED BY <2>1, <2>2, Zenon DEF to, Done, StartLoop
<1>5. \A q \in MProcs : /\ mst'[q] = IF q = p THEN "user" ELSE mst[q]
                        /\ new'[q] = IF q = p THEN NoSpace ELSE new[q]
                        /\ a'[q] = IF q = p THEN 0 ELSE a[q]
                        /\ goal'[q] = IF q = p THEN 0 ELSE goal[q]
  BY <1>4, Zenon DEF MemTypes
<1>6. MemTypes'
  <2>2. goal' \in [MProcs -> 0..KERNBASE-1] BY <1>4, UserPage, Zenon DEF MemTypes
  <2>3. a' \in [MProcs -> Nat] BY <1>4, Zenon DEF MemTypes
  <2>4. mst' \in [MProcs -> {"unused", "embryo", "user", "grow", "zombie"} \cup Building]
    BY <1>4, Zenon DEF MemTypes
  <2>5. new' \in [MProcs -> Spaces] BY NoSpaceIs, Zenon DEF MemTypes
  <2>6. freelist' \in SUBSET Pages BY <1>3, <1>4, Zenon DEF MemTypes
  <2> QED BY <1>4, <2>2, <2>3, <2>4, <2>5, <2>6, Zenon DEF MemTypes
<1>7. Alone(p) BY <1>4, <1>5, Zenon DEF Alone
<1>8. Has(p)'
  <2>1. mst[p] \notin {"unused", "embryo"} BY Zenon
  <2>2. /\ pgdir[p].dir # 0 /\ kstack[p] # 0 /\ OnePlace(pgdir[p]) /\ OnePlace(NoSpace)
    BY <1>0, <2>1, NoSpaceIs, Zenon DEF Has
  <2>3. mst'[p] = "user" /\ new'[p] = NoSpace /\ pgdir'[p] = pgdir[p] /\ kstack'[p] = kstack[p]
    BY <1>4, <1>5, Zenon
  <2> QED BY <2>2, <2>3, Zenon DEF Has, Building
<1>9. Loop(p)'
  <2>1. Mapped(pgdir[p]) = Below(sz[p]) BY <1>0, <1>1, Zenon DEF Loop
  <2>2. mst'[p] = "user" /\ pgdir'[p] = pgdir[p] /\ sz'[p] = sz[p] BY <1>4, <1>5, Zenon
  <2> QED BY <2>1, <2>2, Zenon DEF Loop, Building
<1>10. StateInv' /\ ChildInv'
  <2>1. mst[p] \notin {"embryo", "copy"} /\ mst'[p] # "copy" BY <1>5, Zenon
  <2> QED BY <1>4, <1>7, <1>8, <1>9, <2>1, AloneKeeps, Zenon
<1>11. Owned'
  <2>1. Own(new'[p]) = Own(new[p]) \ Own(new[p]) BY <1>5, NoSpaceIs, Zenon
  <2>2. \A q \in MProcs : q # p => new'[q] = new[q] BY <1>5, Zenon
  <2>3. Own(new[p]) \in SUBSET Own(new[p]) BY Zenon
  <2> QED BY <1>4, <2>1, <2>2, <2>3, NewGives, Zenon
<1> QED BY <1>6, <1>10, <1>11, Zenon

(* exec's other errors                                                     *)
LEMMA ExecbadKeeps == ASSUME MemInv, NEW p \in MProcs, execbad(p) PROVE MemInv'
BY ExecFails, Zenon DEF execbad

(* exec has its segments, and goes on with the stack or fails.             *)
LEMMA LoadedKeeps == ASSUME MemInv, NEW p \in MProcs, loaded(p) PROVE MemInv'
<1> USE DEF MemInv
<1> DEFINE end == RoundUp(goal[p])
           top == (end + 2) * PGSIZE
<1>1. /\ mst[p] = "load" /\ ~(a[p] * PGSIZE < goal[p])
      /\ pgdir' = pgdir /\ sz' = sz /\ kstack' = kstack /\ child' = child
  BY Zenon DEF loaded, More
<1>2. CASE ~Fits(top)
  <2>1. /\ kfree(freevm(new[p])) /\ new' = [new EXCEPT ![p] = NoSpace]
        /\ to(p, "user") /\ Done(p)
    BY <1>2, Zenon DEF loaded
  <2>2. mst[p] \in {"load", "stack"} BY <1>1, Zenon
  <2>3. UNCHANGED <<pgdir, sz, kstack, child>> BY <1>1, Zenon
  <2> QED BY <2>1, <2>2, <2>3, ExecFails, Zenon
<1>3. CASE Fits(top)
  <2>1. /\ a' = [a EXCEPT ![p] = end] /\ goal' = [goal EXCEPT ![p] = top]
        /\ mst' = [mst EXCEPT ![p] = "stack"]
        /\ freelist' = freelist /\ new' = new /\ mpanic' = mpanic
    BY <1>3, Zenon DEF loaded, StartLoop, to
  <2>2. Has(p) /\ Loop(p) BY Zenon DEF StateInv
  <2>3. goal[p] \in 0..KERNBASE-1 /\ a[p] \in Nat BY Zenon DEF MemTypes
  <2>4. goal[p] \in Nat BY <2>3, MemAssumption
  <2>5. end \in Nat BY <2>4, RoundUpIs, Zenon
  <2>6. /\ Mapped(pgdir[p]) = Below(sz[p]) /\ Mapped(new[p]) = Upto(a[p]) /\ a[p] <= RoundUp(goal[p])
    BY <1>1, <2>2, Zenon DEF Loop, Building
  <2>7. a[p] = end BY <1>1, <2>3, <2>6, LoopDone, Zenon
  <2>8. top \in 0..KERNBASE-1
    <3> HIDE DEF end
    <3>1. end + 2 \in Nat BY <2>5
    <3>2. top \in Nat BY <3>1, Times, Zenon
    <3> HIDE DEF top
    <3> QED BY <1>3, <3>2, MemAssumption DEF Fits
  <2>9. end <= RoundUp(top)
    <3> HIDE DEF end
    <3> DEFINE r == RoundUp(top)
    <3>1. end + 2 \in Nat BY <2>5
    <3>2. top \in Nat BY <3>1, Times, Zenon
    <3>3. r \in Nat /\ (r < r <=> r * PGSIZE < top) BY <3>2, RoundUpIs, Zenon
    <3>4. r <= end + 2 => r * PGSIZE <= top BY <3>1, <3>3, Times, Zenon
    <3>5. ASSUME r < end PROVE FALSE
      <4>1. r + 1 \in Nat /\ r + 1 <= end + 2 BY <2>5, <3>3, <3>5
      <4>2. (r + 1) * PGSIZE <= top BY <3>1, <4>1, Times, Zenon
      <4>3. (r + 1) * PGSIZE = r * PGSIZE + PGSIZE /\ r * PGSIZE \in Nat BY <3>3, Times, Zenon
      <4>4. PGSIZE \in Nat \ {0} BY MemAssumption, Zenon
      <4> HIDE DEF r, top
      <4> QED BY <3>2, <3>3, <4>2, <4>3, <4>4
    <3> HIDE DEF r
    <3>6. end <= r BY <2>5, <3>3, <3>5
    <3> QED BY <3>6, Zenon DEF r
  <2> HIDE DEF end, top
  <2>10. \A q \in MProcs : /\ mst'[q] = IF q = p THEN "stack" ELSE mst[q]
                           /\ a'[q] = IF q = p THEN end ELSE a[q]
                           /\ goal'[q] = IF q = p THEN top ELSE goal[q]
    BY <2>1, Zenon DEF MemTypes
  <2>11. MemTypes'
    <3>1. goal' \in [MProcs -> 0..KERNBASE-1] BY <2>1, <2>8, Zenon DEF MemTypes
    <3>2. a' \in [MProcs -> Nat] BY <2>1, <2>5, Zenon DEF MemTypes
    <3>3. mst' \in [MProcs -> {"unused", "embryo", "user", "grow", "zombie"} \cup Building]
      BY <2>1, Zenon DEF MemTypes, Building
    <3> QED BY <1>1, <2>1, <3>1, <3>2, <3>3, Zenon DEF MemTypes
  <2>12. Alone(p) BY <1>1, <2>1, <2>10, Zenon DEF Alone
  <2>13. Has(p)' BY <1>1, <2>1, <2>2, <2>10 DEF Has, Building
  <2>14. Loop(p)'
    <3>1. /\ mst'[p] = "stack" /\ pgdir'[p] = pgdir[p] /\ sz'[p] = sz[p] /\ new'[p] = new[p]
          /\ a'[p] = end /\ goal'[p] = top
      BY <1>1, <2>1, <2>10, Zenon
    <3>2. Mapped(new[p]) = Upto(end) BY <2>6, <2>7, Zenon
    <3> QED BY <2>6, <2>9, <3>1, <3>2, Zenon DEF Loop, Building
  <2>15. StateInv' /\ ChildInv' BY <1>1, <2>10, <2>12, <2>13, <2>14, AloneKeeps, Zenon
  <2>16. Owned' BY <1>1, <2>1, SharesKept, Zenon
  <2> QED BY <2>11, <2>15, <2>16, Zenon
<1> QED BY <1>2, <1>3, Zenon

(* Three holders of which one gets the pages of the two others             *)
LEMMA Collect ==
  ASSUME Owned, NEW i \in Holders, NEW j \in Holders, NEW k \in Holders, i # j, i # k, j # k,
         Share[i] \cap Share[j] = {}, Share[i] \cap Share[k] = {}, Share[j] \cap Share[k] = {},
         \A g \in Holders : g \notin {i, j, k} => Share'[g] = Share[g],
         \/ Share'[i] = Share[i] \cup Share[j] \cup Share[k] /\ Share'[j] = {} /\ Share'[k] = {}
         \/ Share'[i] = Share[i] \cup Share[j] /\ Share'[j] = Share[k] /\ Share'[k] = {}
  PROVE  Owned'
<1>1. Share'[i] \cup Share'[j] \cup Share'[k] = Share[i] \cup Share[j] \cup Share[k] BY Zenon
<1>2. Share'[i] \cap Share'[j] = {} /\ Share'[i] \cap Share'[k] = {} /\ Share'[j] \cap Share'[k] = {}
  BY Zenon
<1>3. OneHolder(Holders, Pages, Share) BY Zenon DEF Owned
<1>4. OneHolder(Holders, Pages, Share') BY <1>1, <1>2, <1>3, Trio
<1> QED BY <1>4, Zenon DEF Owned, OneHolder, Holders

(* exec commits: the new table replaces the old one, whose pages go.       *)
LEMMA ExecdoneKeeps == ASSUME MemInv, NEW p \in MProcs, execdone(p) PROVE MemInv'
<1> USE DEF MemInv
<1>0. Has(p) /\ Loop(p) /\ pgdir[p] \in Spaces /\ new[p] \in Spaces /\ goal[p] \in 0..KERNBASE-1 /\ a[p] \in Nat
  BY Zenon DEF StateInv, MemTypes
<1>1. /\ mst[p] = "stack" /\ ~(a[p] * PGSIZE < goal[p])
      /\ pgdir' = [pgdir EXCEPT ![p] = new[p]] /\ sz' = [sz EXCEPT ![p] = goal[p]]
      /\ kfree(freevm(pgdir[p])) /\ new' = [new EXCEPT ![p] = NoSpace]
      /\ mst' = [mst EXCEPT ![p] = "user"]
      /\ a' = [a EXCEPT ![p] = 0] /\ goal' = [goal EXCEPT ![p] = 0]
      /\ kstack' = kstack /\ child' = child
  BY Zenon DEF execdone, More, to, Done, StartLoop
<1>2. /\ pgdir[p].dir # 0 /\ new[p].dir # 0 /\ kstack[p] # 0 /\ OnePlace(new[p])
      /\ Mapped(new[p]) = Upto(a[p]) /\ a[p] <= RoundUp(goal[p])
  BY <1>0, <1>1, Zenon DEF Has, Loop, Building
<1>3. freevm(pgdir[p]) = Own(pgdir[p]) BY <1>0, <1>2, FreevmIs, Zenon
<1>4. freelist \cap Own(pgdir[p]) = {} /\ Own(pgdir[p]) \subseteq Pages BY Apart, Zenon
<1>5. freelist' = freelist \cup Own(pgdir[p]) /\ mpanic' = mpanic
  <2>1. freelist' = freelist \cup Own(pgdir[p]) /\ (Own(pgdir[p]) \cap freelist = {} => mpanic' = mpanic)
    BY <1>1, <1>3, Zenon DEF kfree
  <2>2. Own(pgdir[p]) \cap freelist = {} BY <1>4, Zenon
  <2> QED BY <2>1, <2>2, Zenon
<1>6. \A q \in MProcs : /\ mst'[q] = IF q = p THEN "user" ELSE mst[q]
                        /\ pgdir'[q] = IF q = p THEN new[p] ELSE pgdir[q]
                        /\ new'[q] = IF q = p THEN NoSpace ELSE new[q]
                        /\ sz'[q] = IF q = p THEN goal[p] ELSE sz[q]
                        /\ a'[q] = IF q = p THEN 0 ELSE a[q]
                        /\ goal'[q] = IF q = p THEN 0 ELSE goal[q]
  BY <1>1, Zenon DEF MemTypes
<1>7. MemTypes'
  <2>1. sz' \in [MProcs -> 0..KERNBASE-1] BY <1>0, <1>1, Zenon DEF MemTypes
  <2>2. goal' \in [MProcs -> 0..KERNBASE-1] BY <1>1, UserPage, Zenon DEF MemTypes
  <2>3. a' \in [MProcs -> Nat] BY <1>1, Zenon DEF MemTypes
  <2>4. mst' \in [MProcs -> {"unused", "embryo", "user", "grow", "zombie"} \cup Building]
    BY <1>1, Zenon DEF MemTypes
  <2>5. new' \in [MProcs -> Spaces] BY <1>1, NoSpaceIs, Zenon DEF MemTypes
  <2>6. pgdir' \in [MProcs -> Spaces] BY <1>0, <1>1, Zenon DEF MemTypes
  <2>7. freelist' \in SUBSET Pages BY <1>4, <1>5, Zenon DEF MemTypes
  <2> QED BY <1>1, <1>5, <2>1, <2>2, <2>3, <2>4, <2>5, <2>6, <2>7, Zenon DEF MemTypes
<1>8. Alone(p) BY <1>1, <1>6, Zenon DEF Alone
<1>9. Has(p)'
  <2>1. mst'[p] = "user" /\ new'[p] = NoSpace /\ pgdir'[p] = new[p] /\ kstack'[p] = kstack[p]
    BY <1>1, <1>6, Zenon
  <2> QED BY <1>2, <2>1, NoSpaceIs, Zenon DEF Has, Building
<1>10. Loop(p)'
  <2>1. Mapped(new[p]) = Below(goal[p]) BY <1>0, <1>1, <1>2, LoopDone, Zenon
  <2>2. mst'[p] = "user" /\ pgdir'[p] = new[p] /\ sz'[p] = goal[p] BY <1>6, Zenon
  <2> QED BY <2>1, <2>2, Zenon DEF Loop, Building
<1>11. StateInv' /\ ChildInv'
  <2>1. mst[p] \notin {"embryo", "copy"} /\ mst'[p] # "copy" BY <1>1, <1>6
  <2> QED BY <1>1, <1>8, <1>9, <1>10, <2>1, AloneKeeps, Zenon
<1>12. Owned'
  <2> DEFINE j == <<"pgdir", p>>
             k == <<"new", p>>
  <2>1. /\ Free \in Holders /\ j \in Holders /\ k \in Holders
        /\ Share[Free] = freelist /\ Share[j] = Own(pgdir[p]) /\ Share[k] = Own(new[p])
    BY ShareIs, Zenon
  <2>2. Share'[Free] = freelist' /\ Share'[j] = Own(pgdir'[p]) /\ Share'[k] = Own(new'[p])
    BY ShareIsNext, Zenon
  <2>3. Free # j /\ Free # k /\ j # k BY Zenon DEF Free
  <2>4. Own(pgdir[p]) \cap Own(new[p]) = {} /\ freelist \cap Own(new[p]) = {} BY Apart, Zenon
  <2>5. pgdir'[p] = new[p] /\ new'[p] = NoSpace BY <1>6, Zenon
  <2>6. \A g \in Holders : g \notin {Free, j, k} => Share'[g] = Share[g]
    <3> DEFINE C == {Free, j, k}
    <3>1. Free \in C /\ \A q \in MProcs : /\ pgdir'[q] = pgdir[q] \/ <<"pgdir", q>> \in C
                                          /\ new'[q] = new[q] \/ <<"new", q>> \in C
      BY <1>6, Zenon
    <3> HIDE DEF C
    <3>2. \A g \in Holders : g \notin C => Share'[g] = Share[g] BY <1>1, <3>1, OthersSame, Zenon
    <3> QED BY <3>2, Zenon DEF C
  <2> HIDE DEF j, k
  <2>7. Share'[Free] = Share[Free] \cup Share[j] /\ Share'[j] = Share[k] /\ Share'[k] = {}
    BY <1>5, <2>1, <2>2, <2>5, NoSpaceIs, Zenon
  <2>8. Share[Free] \cap Share[j] = {} /\ Share[Free] \cap Share[k] = {} /\ Share[j] \cap Share[k] = {}
    BY <1>4, <2>1, <2>4, Zenon
  <2> QED BY <2>1, <2>3, <2>6, <2>7, <2>8, Collect
<1> QED BY <1>7, <1>11, <1>12, Zenon

-----------------------------------------------------------------------------
(* fork and wait                                                           *)

(* wait frees what a zombie has left.                                      *)
LEMMA WaitKeeps == ASSUME MemInv, NEW p \in MProcs, wait(p) PROVE MemInv'
<1> USE DEF MemInv
<1>0. Has(p) /\ Loop(p) /\ pgdir[p] \in Spaces /\ kstack[p] \in Page0 BY Zenon DEF StateInv, MemTypes
<1>1. /\ mst[p] = "zombie"
      /\ kfree(freevm(pgdir[p]) \cup {kstack[p]}) /\ kstack' = [kstack EXCEPT ![p] = 0]
      /\ pgdir' = [pgdir EXCEPT ![p] = NoSpace] /\ sz' = [sz EXCEPT ![p] = 0]
      /\ mst' = [mst EXCEPT ![p] = "unused"]
      /\ new' = new /\ a' = a /\ goal' = goal /\ child' = child
  BY Zenon DEF wait, to
<1>2. pgdir[p].dir # 0 /\ kstack[p] # 0 /\ new[p] = NoSpace BY <1>0, <1>1, Zenon DEF Has, Building
<1>3. freevm(pgdir[p]) = Own(pgdir[p]) BY <1>0, <1>2, FreevmIs, Zenon
<1>4. /\ freelist \cap Own(pgdir[p]) = {} /\ Own(pgdir[p]) \subseteq Pages
      /\ kstack[p] \in Pages /\ kstack[p] \notin freelist /\ kstack[p] \notin Own(pgdir[p])
  BY <1>2, Apart, Zenon
<1>5. freelist' = freelist \cup (Own(pgdir[p]) \cup {kstack[p]}) /\ mpanic' = mpanic
  <2> DEFINE T == Own(pgdir[p]) \cup {kstack[p]}
  <2>1. freelist' = freelist \cup T /\ (T \cap freelist = {} => mpanic' = mpanic)
    BY <1>1, <1>3, Zenon DEF kfree
  <2>2. T \cap freelist = {} BY <1>4, Zenon
  <2> QED BY <2>1, <2>2, Zenon
<1>6. \A q \in MProcs : /\ mst'[q] = IF q = p THEN "unused" ELSE mst[q]
                        /\ pgdir'[q] = IF q = p THEN NoSpace ELSE pgdir[q]
                        /\ kstack'[q] = IF q = p THEN 0 ELSE kstack[q]
                        /\ sz'[q] = IF q = p THEN 0 ELSE sz[q]
  BY <1>1, Zenon DEF MemTypes
<1>7. MemTypes'
  <2>1. sz' \in [MProcs -> 0..KERNBASE-1] BY <1>1, UserPage, Zenon DEF MemTypes
  <2>2. kstack' \in [MProcs -> Page0] BY <1>1, Zenon DEF MemTypes, Page0
  <2>4. mst' \in [MProcs -> {"unused", "embryo", "user", "grow", "zombie"} \cup Building]
    BY <1>1, Zenon DEF MemTypes
  <2>6. pgdir' \in [MProcs -> Spaces] BY <1>1, NoSpaceIs, Zenon DEF MemTypes
  <2>7. freelist' \in SUBSET Pages BY <1>4, <1>5, Zenon DEF MemTypes
  <2> QED BY <1>1, <1>5, <2>1, <2>2, <2>4, <2>6, <2>7, Zenon DEF MemTypes
<1>8. Alone(p) BY <1>1, <1>6, Zenon DEF Alone
<1>9. Has(p)'
  <2>1. mst'[p] = "unused" /\ new'[p] = NoSpace /\ pgdir'[p] = NoSpace /\ kstack'[p] = 0
    BY <1>1, <1>2, <1>6, Zenon
  <2> QED BY <2>1, NoSpaceIs, Zenon DEF Has, Building
<1>10. Loop(p)' BY <1>6, Zenon DEF Loop, Building
<1>11. StateInv' /\ ChildInv'
  <2>1. mst[p] \notin {"embryo", "copy"} /\ mst'[p] # "copy" BY <1>1, <1>6
  <2> QED BY <1>1, <1>8, <1>9, <1>10, <2>1, AloneKeeps, Zenon
<1>12. Owned'
  <2> DEFINE j == <<"pgdir", p>>
             k == <<"kstack", p>>
  <2>1. /\ Free \in Holders /\ j \in Holders /\ k \in Holders
        /\ Share[Free] = freelist /\ Share[j] = Own(pgdir[p]) /\ Share[k] = {kstack[p]} \ {0}
    BY ShareIs, Zenon
  <2>2. Share'[Free] = freelist' /\ Share'[j] = Own(pgdir'[p]) /\ Share'[k] = {kstack'[p]} \ {0}
    BY ShareIsNext, Zenon
  <2>3. Free # j /\ Free # k /\ j # k BY Zenon DEF Free
  <2>5. pgdir'[p] = NoSpace /\ kstack'[p] = 0 BY <1>6, Zenon
  <2>6. \A g \in Holders : g \notin {Free, j, k} => Share'[g] = Share[g]
    <3> DEFINE C == {Free, j, k}
    <3>1. Free \in C /\ \A q \in MProcs : /\ pgdir'[q] = pgdir[q] \/ <<"pgdir", q>> \in C
                                          /\ kstack'[q] = kstack[q] \/ <<"kstack", q>> \in C
      BY <1>6, Zenon
    <3> HIDE DEF C
    <3>2. \A g \in Holders : g \notin C => Share'[g] = Share[g] BY <1>1, <3>1, OthersSame, Zenon
    <3> QED BY <3>2, Zenon DEF C
  <2> HIDE DEF j, k
  <2>7. Share'[Free] = Share[Free] \cup Share[j] \cup Share[k] /\ Share'[j] = {} /\ Share'[k] = {}
    BY <1>2, <1>5, <2>1, <2>2, <2>5, NoSpaceIs
  <2>8. Share[Free] \cap Share[j] = {} /\ Share[Free] \cap Share[k] = {} /\ Share[j] \cap Share[k] = {}
    BY <1>4, <2>1, Zenon
  <2> QED BY <2>1, <2>3, <2>6, <2>7, <2>8, Collect
<1> QED BY <1>7, <1>11, <1>12, Zenon

(* One more page is mapped, in the table of sbrk's process or in the one   *)
(* under construction.                                                     *)
LEMMA MappagesKeeps == ASSUME MemInv, NEW p \in MProcs, mappages(p) PROVE MemInv'
<1> USE DEF MemInv
<1> DEFINE s == Table(p)
           b == a[p]
           mem == kalloc
           tab == IF NeedsTable(s, b) THEN Some(freelist \ {mem}) ELSE 0
           t == Map(s, b, mem, tab)
           T == IF NeedsTable(s, b) THEN {mem, tab} ELSE {mem}
<1>0. Has(p) /\ Loop(p) /\ pgdir[p] \in Spaces /\ new[p] \in Spaces /\ goal[p] \in 0..KERNBASE-1 /\ b \in Nat
      /\ freelist \in SUBSET Pages /\ sz[p] \in 0..KERNBASE-1
  BY Zenon DEF StateInv, MemTypes
<1>1. /\ mst[p] \in {"grow", "load", "stack", "copy"} /\ b * PGSIZE < goal[p]
      /\ Cardinality(freelist) >= (IF NeedsTable(s, b) THEN 2 ELSE 1)
      /\ mst' = mst /\ sz' = sz /\ kstack' = kstack /\ goal' = goal /\ child' = child
      /\ a' = [a EXCEPT ![p] = b + 1]
  BY Zenon DEF mappages, Looping, More, Enough, Needed
<1>2. /\ freelist' = freelist \ {mem, tab}
      /\ IF mst[p] = "grow" THEN pgdir' = [pgdir EXCEPT ![p] = t] /\ new' = new
                            ELSE new' = [new EXCEPT ![p] = t] /\ pgdir' = pgdir
      /\ mpanic' = (IF s.pte[b] # 0 THEN "remap"
                    ELSE IF mst[p] = "copy" /\ pgdir[p].pte[b] = 0 THEN "copyuvm: page not present"
                    ELSE mpanic)
  BY Zenon DEF mappages
<1>3. /\ b \in VPage /\ b \notin Upto(b) /\ b \in Below(goal[p])
      /\ Upto(b) \cup {b} = Upto(b + 1) /\ b + 1 <= RoundUp(goal[p])
  BY <1>0, <1>1, LoopMore, Zenon
<1>4. s \in Spaces /\ Mapped(s) = Upto(b) /\ OnePlace(s) /\ s = (IF mst[p] = "grow" THEN pgdir[p] ELSE new[p])
  <2>1. CASE mst[p] = "grow" BY <1>0, <2>1, Zenon DEF Table, Has, Loop
  <2>2. CASE mst[p] # "grow"
    <3>1. mst[p] \in Building BY <1>1, <2>2, Zenon DEF Building
    <3> QED BY <1>0, <2>2, <3>1, Zenon DEF Table, Has, Loop
  <2> QED BY <2>1, <2>2, Zenon
<1>5. s.pte[b] = 0 BY <1>3, <1>4, Zenon DEF Mapped
<1>6. /\ mem \in freelist /\ T \in SUBSET freelist /\ freelist' = freelist \ T
      /\ NeedsTable(s, b) => tab \in freelist /\ tab # mem
  <2> HIDE DEF s, b
  <2>1. IsFiniteSet(freelist) BY <1>0, MemAssumption, FS_Subset, Zenon
  <2>2. freelist # {} BY <1>1, <2>1, FS_EmptySet
  <2>3. mem \in freelist BY <2>2, Zenon DEF kalloc, Some
  <2>4. 0 \notin freelist BY <1>0, MemAssumption, Zenon
  <2>5. CASE NeedsTable(s, b)
    <3> HIDE DEF mem
    <3>1. IsFiniteSet(freelist \ {mem}) /\ Cardinality(freelist \ {mem}) = Cardinality(freelist) - 1
      BY <2>1, <2>3, FS_RemoveElement, Zenon
    <3>2. freelist \ {mem} # {} BY <1>1, <2>5, <3>1, <2>1, FS_EmptySet, FS_CardinalityType
    <3>3. Some(freelist \ {mem}) \in freelist \ {mem} BY <3>2, Zenon DEF Some
    <3> QED BY <1>2, <2>3, <2>5, <3>3, Zenon
  <2>6. CASE ~NeedsTable(s, b)
    <3>1. tab = 0 /\ T = {mem} BY <2>6, Zenon
    <3>2. freelist \ {mem, 0} = freelist \ {mem} BY <2>4, Zenon
    <3> QED BY <1>2, <2>3, <2>6, <3>1, <3>2, Zenon
  <2> QED BY <2>5, <2>6, Zenon
<1>7. freelist \cap Own(s) = {}
  <2>1. freelist \cap Own(pgdir[p]) = {} /\ freelist \cap Own(new[p]) = {} BY Apart, Zenon
  <2> QED BY <1>4, <2>1, Zenon
<1>8. /\ t \in Spaces /\ t.dir = s.dir /\ OnePlace(t) /\ Mapped(t) = Upto(b + 1) /\ Own(t) = Own(s) \cup T
  <2> HIDE DEF s, b, mem, tab
  <2>1. mem \in Pages \ Own(s) /\ (NeedsTable(s, b) => tab \in Pages \ Own(s) /\ tab # mem)
    BY <1>0, <1>6, <1>7, Zenon
  <2>2. LET u == Map(s, b, mem, tab) IN
          /\ u \in Spaces /\ u.dir = s.dir /\ OnePlace(u)
          /\ Mapped(u) = Mapped(s) \cup {b}
          /\ Own(u) = Own(s) \cup (IF NeedsTable(s, b) THEN {mem, tab} ELSE {mem})
    <3>1. s \in Spaces /\ b \in VPage /\ OnePlace(s) BY <1>3, <1>4, Zenon
    <3>2. mem \in Pages \ Own(s) BY <2>1, Zenon
    <3>3. NeedsTable(s, b) => tab \in Pages \ Own(s) /\ tab # mem BY <2>1, Zenon
    <3> QED BY ONLY <3>1, <3>2, <3>3, <1>5, MapIs, SMT
  <2> QED BY <1>3, <1>4, <2>2, Zenon
<1> HIDE DEF s, b, mem, tab, t, T
<1>9. mpanic' = mpanic
  <2>1. CASE mst[p] = "copy"
    <3>1. Mapped(pgdir[p]) = Below(goal[p]) BY <1>0, <2>1, Zenon DEF Loop, Building
    <3>2. pgdir[p].pte[b] # 0 BY <1>3, <3>1, Zenon DEF Mapped
    <3> QED BY <1>2, <1>5, <3>2, Zenon
  <2>2. CASE mst[p] # "copy" BY <1>2, <1>5, <2>2, Zenon
  <2> QED BY <2>1, <2>2, Zenon
<1>10. \A q \in MProcs : a'[q] = IF q = p THEN b + 1 ELSE a[q] BY <1>1, Zenon DEF MemTypes
<1>11. a' \in [MProcs -> Nat]
  <2>0. b \in Nat BY <1>0, Zenon
  <2>1. b + 1 \in Nat BY ONLY <2>0
  <2> QED BY <1>1, <2>1, Zenon DEF MemTypes
<1>12. freelist' \in SUBSET Pages BY <1>0, <1>6, Zenon
<1>13. CASE mst[p] = "grow"
  <2>1. pgdir' = [pgdir EXCEPT ![p] = t] /\ new' = new BY <1>2, <1>13, Zenon
  <2>2. \A q \in MProcs : pgdir'[q] = IF q = p THEN t ELSE pgdir[q] BY <2>1, Zenon DEF MemTypes
  <2>3. MemTypes'
    <3>1. pgdir' \in [MProcs -> Spaces] BY <1>8, <2>1, Zenon DEF MemTypes
    <3> QED BY <1>1, <1>9, <1>11, <1>12, <2>1, <3>1, Zenon DEF MemTypes
  <2>4. Alone(p) BY <1>1, <1>10, <2>1, <2>2, Zenon DEF Alone
  <2>5. mst'[p] = "grow" /\ new'[p] = new[p] /\ pgdir'[p] = t /\ kstack'[p] = kstack[p]
        /\ sz'[p] = sz[p] /\ goal'[p] = goal[p] /\ a'[p] = b + 1
    BY <1>1, <1>10, <1>13, <2>1, <2>2, Zenon
  <2>6. Has(p)'
    <3>1. t.dir # 0 /\ new[p] = NoSpace /\ kstack[p] # 0 /\ OnePlace(new[p])
      BY <1>0, <1>4, <1>8, <1>13, Zenon DEF Has, Building
    <3> QED BY <1>8, <2>5, <3>1, Zenon DEF Has, Building
  <2>7. Loop(p)'
    <3>1. RoundUp(sz[p]) <= b BY <1>0, <1>13, Zenon DEF Loop, b
    <3>2. sz[p] \in Nat
      <4>1. sz[p] \in 0..KERNBASE-1 BY <1>0, Zenon
      <4> QED BY ONLY <4>1, MemAssumption
    <3>3. RoundUp(sz[p]) \in Nat /\ b \in Nat BY <1>0, <3>2, RoundUpIs, Zenon
    <3>4. RoundUp(sz[p]) <= b + 1 BY ONLY <3>1, <3>3
    <3> QED BY <1>3, <1>8, <2>5, <3>4, Zenon DEF Loop, Building
  <2>8. StateInv' /\ ChildInv' BY <1>1, <2>4, <2>6, <2>7, AloneKeeps, Zenon
  <2>9. Owned'
    <3>1. Own(pgdir'[p]) = Own(pgdir[p]) \cup T BY <1>4, <1>8, <1>13, <2>2, Zenon
    <3>2. \A q \in MProcs : q # p => pgdir'[q] = pgdir[q] BY <2>2, Zenon
    <3> QED BY <1>1, <1>6, <2>1, <3>1, <3>2, PgdirTakes, Zenon
  <2> QED BY <2>3, <2>8, <2>9, Zenon
<1>14. CASE mst[p] # "grow"
  <2>0. mst[p] \in Building BY <1>1, <1>14, Zenon DEF Building
  <2>1. new' = [new EXCEPT ![p] = t] /\ pgdir' = pgdir BY <1>2, <1>14, Zenon
  <2>2. \A q \in MProcs : new'[q] = IF q = p THEN t ELSE new[q] BY <2>1, Zenon DEF MemTypes
  <2>3. MemTypes'
    <3>1. new' \in [MProcs -> Spaces] BY <1>8, <2>1, Zenon DEF MemTypes
    <3> QED BY <1>1, <1>9, <1>11, <1>12, <2>1, <3>1, Zenon DEF MemTypes
  <2>4. Alone(p) BY <1>1, <1>10, <2>1, <2>2, Zenon DEF Alone
  <2>5. mst'[p] = mst[p] /\ new'[p] = t /\ pgdir'[p] = pgdir[p] /\ kstack'[p] = kstack[p]
        /\ sz'[p] = sz[p] /\ goal'[p] = goal[p] /\ a'[p] = b + 1
    BY <1>1, <1>10, <2>1, <2>2, Zenon
  <2>6. Has(p)'
    <3>1. t.dir # 0 BY <1>0, <1>4, <1>8, <1>14, <2>0, Zenon DEF Has
    <3> QED BY <1>0, <1>8, <2>0, <2>5, <3>1, Zenon DEF Has
  <2>7. Loop(p)' BY <1>0, <1>3, <1>8, <1>14, <2>0, <2>5, Zenon DEF Loop, Building
  <2>8. StateInv' /\ ChildInv' BY <1>1, <2>4, <2>6, <2>7, AloneKeeps, Zenon
  <2>9. Owned'
    <3>1. Own(new'[p]) = Own(new[p]) \cup T BY <1>4, <1>8, <1>14, <2>2, Zenon
    <3>2. \A q \in MProcs : q # p => new'[q] = new[q] BY <2>2, Zenon
    <3> QED BY <1>1, <1>6, <2>1, <3>1, <3>2, NewTakes, Zenon
  <2> QED BY <2>3, <2>8, <2>9, Zenon
<1> QED BY <1>13, <1>14, Zenon


(* A step of fork concerns the parent and the child only.                  *)
LEMMA TwoKeep ==
  ASSUME StateInv, NEW p \in MProcs, NEW c \in MProcs, Has(p)', Loop(p)', Has(c)', Loop(c)',
         \A q \in MProcs : q # p /\ q # c =>
           /\ mst'[q] = mst[q] /\ pgdir'[q] = pgdir[q] /\ new'[q] = new[q] /\ kstack'[q] = kstack[q]
           /\ sz'[q] = sz[q] /\ goal'[q] = goal[q] /\ a'[q] = a[q]
  PROVE  StateInv'
<1>1. ASSUME NEW q \in MProcs PROVE Has(q)' /\ Loop(q)'
  <2>1. CASE q = p \/ q = c BY <2>1, Zenon
  <2>2. CASE q # p /\ q # c
    <3>1. /\ mst'[q] = mst[q] /\ pgdir'[q] = pgdir[q] /\ new'[q] = new[q] /\ kstack'[q] = kstack[q]
          /\ sz'[q] = sz[q] /\ goal'[q] = goal[q] /\ a'[q] = a[q]
      BY <2>2, Zenon
    <3>2. Has(q) /\ Loop(q) BY Zenon DEF StateInv
    <3>3. Has(q)' BY <3>1, <3>2, Zenon DEF Has
    <3>4. Loop(q)' BY <3>1, <3>2, Zenon DEF Loop
    <3> QED BY <3>3, <3>4, Zenon
  <2> QED BY <2>1, <2>2, Zenon
<1> QED BY <1>1, Zenon DEF StateInv

(* The parent of a child that is finished, or given up, has none.          *)
LEMMA ChildDone ==
  ASSUME MemTypes, ChildInv, NEW p \in MProcs, NEW c \in MProcs, c = child[p], NEW x \in {"user", "unused"},
         \A q \in MProcs : /\ mst'[q] = IF q = p THEN "user" ELSE IF q = c THEN x ELSE mst[q]
                           /\ child'[q] = IF q = p THEN 0 ELSE child[q]
  PROVE  ChildInv'
<1>0. 0 \notin MProcs BY MemAssumption, Zenon
<1>1. child[p] # 0 /\ mst[c] = "embryo" BY <1>0, Zenon DEF ChildInv
<1>2. x # "copy" /\ mst[c] # "copy" BY <1>1, Zenon
<1>3. ASSUME NEW q \in MProcs
      PROVE  /\ child'[q] # 0 <=> mst'[q] = "copy"
             /\ child'[q] # 0 => mst'[child'[q]] = "embryo"
             /\ \A r \in MProcs : child'[q] # 0 /\ child'[q] = child'[r] => q = r
  <2>1. CASE q = p BY <2>1, Zenon
  <2>2. CASE q # p
    <3>1. child'[q] = child[q] BY <2>2, Zenon
    <3>2. child[q] # 0 <=> mst[q] = "copy" BY Zenon DEF ChildInv
    <3>3. child'[q] # 0 <=> mst'[q] = "copy" BY <1>2, <2>2, <3>1, <3>2, Zenon
    <3>4. ASSUME child[q] # 0 PROVE mst'[child[q]] = "embryo"
      <4>1. child[q] # c BY <1>1, <2>2, <3>4, Zenon DEF ChildInv
      <4>0. child[q] \in MProcs \cup {0} BY Zenon DEF MemTypes
      <4>2. mst[child[q]] = "embryo" /\ child[q] \in MProcs BY <3>4, <4>0, Zenon DEF ChildInv
      <4>3. mst[p] = "copy" BY <1>1, Zenon DEF ChildInv
      <4>4. child[q] # p BY <4>2, <4>3, Zenon
      <4> QED BY <4>1, <4>2, <4>4, Zenon
    <3>5. ASSUME NEW r \in MProcs, child[q] # 0, child[q] = child'[r] PROVE q = r
      <4>1. child'[r] = child[r] BY <3>5, Zenon
      <4> QED BY <3>5, <4>1 DEF ChildInv
    <3> QED BY <3>1, <3>3, <3>4, <3>5, Zenon
  <2> QED BY <2>1, <2>2, Zenon
<1> QED BY <1>3, Zenon DEF ChildInv

(* fork ends: the child's table is the copy.                               *)
LEMMA ForkedKeeps == ASSUME MemInv, NEW p \in MProcs, NEW c \in MProcs, forked(p, c) PROVE MemInv'
<1> USE DEF MemInv
<1>0. /\ Has(p) /\ Loop(p) /\ Has(c) /\ Loop(c) /\ new[p] \in Spaces /\ sz[p] \in 0..KERNBASE-1
      /\ goal[p] \in 0..KERNBASE-1 /\ a[p] \in Nat
  BY Zenon DEF StateInv, MemTypes
<1>1. /\ ~(a[p] * PGSIZE < goal[p]) /\ c = child[p]
      /\ pgdir' = [pgdir EXCEPT ![c] = new[p]]
      /\ sz' = [sz EXCEPT ![c] = sz[p]]
      /\ new' = [new EXCEPT ![p] = NoSpace]
      /\ mst' = [mst EXCEPT ![p] = "user", ![c] = "user"]
      /\ child' = [child EXCEPT ![p] = 0]
      /\ a' = [a EXCEPT ![p] = 0] /\ goal' = [goal EXCEPT ![p] = 0]
      /\ freelist' = freelist /\ kstack' = kstack /\ mpanic' = mpanic
  BY Zenon DEF forked, More, Done, StartLoop
<1>2. mst[p] = "copy" /\ mst[c] = "embryo"
  <2>1. 0 \notin MProcs BY MemAssumption, Zenon
  <2> QED BY <1>1, <2>1, Zenon DEF ChildInv
<1>3. p # c BY <1>2, Zenon
<1>4. \A q \in MProcs : /\ mst'[q] = IF q = p THEN "user" ELSE IF q = c THEN "user" ELSE mst[q]
                        /\ pgdir'[q] = IF q = c THEN new[p] ELSE pgdir[q]
                        /\ new'[q] = IF q = p THEN NoSpace ELSE new[q]
                        /\ sz'[q] = IF q = c THEN sz[p] ELSE sz[q]
                        /\ child'[q] = IF q = p THEN 0 ELSE child[q]
                        /\ a'[q] = IF q = p THEN 0 ELSE a[q]
                        /\ goal'[q] = IF q = p THEN 0 ELSE goal[q]
  BY <1>1, <1>3, Zenon DEF MemTypes
<1>5. MemTypes'
  <2>1. goal' \in [MProcs -> 0..KERNBASE-1] BY <1>1, UserPage, Zenon DEF MemTypes
  <2>2. a' \in [MProcs -> Nat] BY <1>1, Zenon DEF MemTypes
  <2>3. sz' \in [MProcs -> 0..KERNBASE-1] BY <1>0, <1>1, Zenon DEF MemTypes
  <2>4. mst' \in [MProcs -> {"unused", "embryo", "user", "grow", "zombie"} \cup Building]
    BY <1>1, Zenon DEF MemTypes
  <2>5. new' \in [MProcs -> Spaces] BY <1>1, NoSpaceIs, Zenon DEF MemTypes
  <2>6. pgdir' \in [MProcs -> Spaces] BY <1>0, <1>1, Zenon DEF MemTypes
  <2>7. child' \in [MProcs -> MProcs \cup {0}] BY <1>1, Zenon DEF MemTypes
  <2> QED BY <1>1, <2>1, <2>2, <2>3, <2>4, <2>5, <2>6, <2>7, Zenon DEF MemTypes
<1>6. Has(p)' /\ Loop(p)'
  <2>1. /\ mst'[p] = "user" /\ pgdir'[p] = pgdir[p] /\ new'[p] = NoSpace /\ kstack'[p] = kstack[p]
        /\ sz'[p] = sz[p]
    BY <1>1, <1>3, <1>4, Zenon
  <2>2. pgdir[p].dir # 0 /\ kstack[p] # 0 /\ OnePlace(pgdir[p]) BY <1>0, <1>2, Zenon DEF Has
  <2>3. Mapped(pgdir[p]) = Below(sz[p]) BY <1>0, <1>2, Zenon DEF Loop, Building
  <2>4. Has(p)' BY <2>1, <2>2, NoSpaceIs, Zenon DEF Has, Building
  <2>5. Loop(p)' BY <2>1, <2>3, Zenon DEF Loop, Building
  <2> QED BY <2>4, <2>5, Zenon
<1>7. Has(c)' /\ Loop(c)'
  <2>1. /\ mst'[c] = "user" /\ pgdir'[c] = new[p] /\ new'[c] = new[c] /\ kstack'[c] = kstack[c]
        /\ sz'[c] = sz[p]
    BY <1>1, <1>3, <1>4, Zenon
  <2>2. new[p].dir # 0 /\ OnePlace(new[p]) BY <1>0, <1>2, Zenon DEF Has, Building
  <2>3. kstack[c] # 0 /\ new[c] = NoSpace BY <1>0, <1>2, Zenon DEF Has, Building
  <2>4. Mapped(new[p]) = Upto(a[p]) /\ a[p] <= RoundUp(goal[p]) /\ goal[p] = sz[p]
    BY <1>0, <1>2, Zenon DEF Loop, Building
  <2>5. Below(goal[p]) = Upto(a[p]) BY <1>0, <1>1, <2>4, LoopDone, Zenon
  <2>6. Has(c)' BY <2>1, <2>2, <2>3, NoSpaceIs, Zenon DEF Has, Building
  <2>7. Loop(c)' BY <2>1, <2>4, <2>5, Zenon DEF Loop, Building
  <2> QED BY <2>6, <2>7, Zenon
<1>8. StateInv'
  <2>1. ASSUME NEW q \in MProcs, q # p, q # c
        PROVE  /\ mst'[q] = mst[q] /\ pgdir'[q] = pgdir[q] /\ new'[q] = new[q] /\ kstack'[q] = kstack[q]
               /\ sz'[q] = sz[q] /\ goal'[q] = goal[q] /\ a'[q] = a[q]
    BY <1>1, <1>4, <2>1, Zenon
  <2> QED BY <1>6, <1>7, <2>1, TwoKeep, Zenon
<1>9. ChildInv'
  <2>1. \A q \in MProcs : /\ mst'[q] = IF q = p THEN "user" ELSE IF q = c THEN "user" ELSE mst[q]
                          /\ child'[q] = IF q = p THEN 0 ELSE child[q]
    BY <1>4, Zenon
  <2>2. c = child[p] BY <1>1, Zenon
  <2> QED BY <2>1, <2>2, ChildDone, Zenon
<1>10. Owned'
  <2> DEFINE i == <<"new", p>>
             j == <<"pgdir", c>>
  <2>1. /\ i \in Holders /\ j \in Holders
        /\ Share[i] = Own(new[p]) /\ Share[j] = Own(pgdir[c])
    BY ShareIs, Zenon
  <2>2. Share'[i] = Own(new'[p]) /\ Share'[j] = Own(pgdir'[c]) BY ShareIsNext, Zenon
  <2>3. i # j BY Zenon
  <2>4. pgdir[c] = NoSpace BY <1>0, <1>2, Zenon DEF Has
  <2>5. new'[p] = NoSpace /\ pgdir'[c] = new[p] BY <1>4, Zenon
  <2>6. \A g \in Holders : g \notin {i, j} => Share'[g] = Share[g]
    <3> DEFINE C == {i, j}
    <3>1. \A q \in MProcs : /\ pgdir'[q] = pgdir[q] \/ <<"pgdir", q>> \in C
                            /\ new'[q] = new[q] \/ <<"new", q>> \in C
      BY <1>4, Zenon
    <3> HIDE DEF C
    <3>2. \A g \in Holders : g \notin C => Share'[g] = Share[g] BY <1>1, <3>1, OthersSame, Zenon
    <3> QED BY <3>2, Zenon DEF C
  <2> HIDE DEF i, j
  <2>7. Share[j] = {} /\ Share'[i] = {} /\ Share'[j] = Share[i] BY <2>1, <2>2, <2>4, <2>5, NoSpaceIs, Zenon
  <2>8. Share'[i] \cup Share'[j] = Share[i] \cup Share[j] /\ Share'[i] \cap Share'[j] = {} BY <2>7, Zenon
  <2>9. OneHolder(Holders, Pages, Share) BY Zenon DEF Owned
  <2>10. OneHolder(Holders, Pages, Share') BY <2>1, <2>3, <2>6, <2>8, <2>9, Pair, Zenon
  <2> QED BY <2>10, Zenon DEF Owned, OneHolder, Holders
<1> QED BY <1>5, <1>8, <1>9, <1>10, Zenon


(* fork begins: the child gets a kernel stack, and a page table is begun.  *)
LEMMA ForkKeeps == ASSUME MemInv, NEW p \in MProcs, NEW c \in MProcs, fork(p, c) PROVE MemInv'
<1> USE DEF MemInv
<1> DEFINE x == kalloc
           f == freelist \ {x}
           s == setupkvm(f)
<1>0. /\ Has(p) /\ Loop(p) /\ Has(c) /\ Loop(c) /\ freelist \in SUBSET Pages /\ sz[p] \in 0..KERNBASE-1
  BY Zenon DEF StateInv, MemTypes
<1>1. /\ mst[p] = "user" /\ pgdir[p].pte[0] # 0 /\ mst[c] = "unused" /\ freelist # {} /\ CanSetup(f)
      /\ kstack' = [kstack EXCEPT ![c] = x] /\ new' = [new EXCEPT ![p] = s]
      /\ freelist' = f \ Own(new'[p])
      /\ mst' = [mst EXCEPT ![p] = "copy", ![c] = "embryo"]
      /\ a' = [a EXCEPT ![p] = 0] /\ goal' = [goal EXCEPT ![p] = sz[p]]
      /\ child' = [child EXCEPT ![p] = c]
      /\ pgdir' = pgdir /\ sz' = sz /\ mpanic' = mpanic
  BY Zenon DEF fork, Runs, StartLoop
<1>2. p # c BY <1>1, Zenon
<1>3. x \in freelist /\ x # 0 /\ f \in SUBSET Pages
  <2>1. x \in freelist BY <1>1, Zenon DEF kalloc, Some
  <2>2. 0 \notin Pages BY MemAssumption, Zenon
  <2> QED BY <1>0, <2>1, <2>2, Zenon
<1>4. s \in Spaces /\ s.dir # 0 /\ OnePlace(s) /\ Mapped(s) = {} /\ Own(s) \subseteq f
  BY <1>1, <1>3, SetupIs, Zenon
<1> HIDE DEF x, s
<1>5. \A q \in MProcs : /\ kstack'[q] = IF q = c THEN x ELSE kstack[q]
                        /\ new'[q] = IF q = p THEN s ELSE new[q]
                        /\ child'[q] = IF q = p THEN c ELSE child[q]
                        /\ a'[q] = IF q = p THEN 0 ELSE a[q]
                        /\ goal'[q] = IF q = p THEN sz[p] ELSE goal[q]
  BY <1>1, Zenon DEF MemTypes
<1>6. mst'[p] = "copy" /\ mst'[c] = "embryo" /\ \A q \in MProcs : q # p /\ q # c => mst'[q] = mst[q]
  BY <1>1, <1>2, Zenon DEF MemTypes
<1>7. MemTypes'
  <2>1. goal' \in [MProcs -> 0..KERNBASE-1] BY <1>0, <1>1, Zenon DEF MemTypes
  <2>2. a' \in [MProcs -> Nat] BY <1>1, Zenon DEF MemTypes
  <2>3. kstack' \in [MProcs -> Page0] BY <1>0, <1>1, <1>3, Zenon DEF MemTypes, Page0
  <2>4. mst' \in [MProcs -> {"unused", "embryo", "user", "grow", "zombie"} \cup Building]
    BY <1>1, Zenon DEF MemTypes, Building
  <2>5. new' \in [MProcs -> Spaces] BY <1>1, <1>4, Zenon DEF MemTypes
  <2>6. child' \in [MProcs -> MProcs \cup {0}] BY <1>1, Zenon DEF MemTypes
  <2>7. freelist' \in SUBSET Pages BY <1>1, <1>3, Zenon
  <2> QED BY <1>1, <2>1, <2>2, <2>3, <2>4, <2>5, <2>6, <2>7, Zenon DEF MemTypes
<1>8. Has(p)' /\ Loop(p)'
  <2>1. /\ pgdir'[p] = pgdir[p] /\ new'[p] = s /\ kstack'[p] = kstack[p] /\ sz'[p] = sz[p]
        /\ a'[p] = 0 /\ goal'[p] = sz[p]
    BY <1>1, <1>2, <1>5, Zenon
  <2>2. pgdir[p].dir # 0 /\ kstack[p] # 0 /\ OnePlace(pgdir[p]) BY <1>0, <1>1, Zenon DEF Has
  <2>3. Mapped(pgdir[p]) = Below(sz[p]) BY <1>0, <1>1, Zenon DEF Loop
  <2>4. Has(p)' BY <1>4, <1>6, <2>1, <2>2, Zenon DEF Has, Building
  <2>5. Upto(0) = {}
    <3>1. VPage \subseteq Nat BY UserPage, Zenon
    <3>2. \A v \in VPage : ~(v < 0) BY <3>1
    <3> QED BY <3>2, Zenon DEF Upto
  <2>6. sz[p] \in Nat BY <1>0, MemAssumption
  <2>7. RoundUp(sz[p]) \in Nat BY <2>6, RoundUpIs, Zenon
  <2>8. 0 <= RoundUp(sz[p]) BY <2>7
  <2>9. Loop(p)' BY <1>4, <1>6, <2>1, <2>3, <2>5, <2>8, Zenon DEF Loop, Building
  <2> QED BY <2>4, <2>9, Zenon
<1>9. Has(c)' /\ Loop(c)'
  <2>1. pgdir'[c] = pgdir[c] /\ new'[c] = new[c] /\ kstack'[c] = x BY <1>1, <1>2, <1>5, Zenon
  <2>2. pgdir[c] = NoSpace /\ new[c] = NoSpace BY <1>0, <1>1, Zenon DEF Has, Building
  <2>3. Has(c)' BY <1>3, <1>6, <2>1, <2>2, NoSpaceIs, Zenon DEF Has, Building
  <2>4. Loop(c)' BY <1>6, Zenon DEF Loop, Building
  <2> QED BY <2>3, <2>4, Zenon
<1>10. StateInv'
  <2>1. ASSUME NEW q \in MProcs, q # p, q # c
        PROVE  /\ mst'[q] = mst[q] /\ pgdir'[q] = pgdir[q] /\ new'[q] = new[q] /\ kstack'[q] = kstack[q]
               /\ sz'[q] = sz[q] /\ goal'[q] = goal[q] /\ a'[q] = a[q]
    BY <1>1, <1>5, <1>6, <2>1, Zenon
  <2> QED BY <1>8, <1>9, <2>1, TwoKeep, Zenon
<1>11. ChildInv'
  <2>0. 0 \notin MProcs BY MemAssumption, Zenon
  <2>1. child[c] = 0 /\ child[p] = 0
    <3>1. mst[c] # "copy" /\ mst[p] # "copy" BY <1>1, Zenon
    <3> QED BY <3>1, Zenon DEF ChildInv
  <2>2. \A q \in MProcs : child[q] # 0 => child[q] \notin {p, c}
    <3>1. mst[c] # "embryo" /\ mst[p] # "embryo" BY <1>1, Zenon
    <3> QED BY <3>1, Zenon DEF ChildInv
  <2>3. ASSUME NEW q \in MProcs
        PROVE  /\ child'[q] # 0 <=> mst'[q] = "copy"
               /\ child'[q] # 0 => mst'[child'[q]] = "embryo"
               /\ \A r \in MProcs : child'[q] # 0 /\ child'[q] = child'[r] => q = r
    <3>1. CASE q = p
      <4>1. child'[q] = c /\ c # 0 /\ mst'[q] = "copy" /\ mst'[child'[q]] = "embryo"
        BY <1>5, <1>6, <2>0, <3>1, Zenon
      <4>2. \A r \in MProcs : r # p => child'[r] # c
        <5>1. \A r \in MProcs : r # p => child'[r] = child[r] BY <1>5, Zenon
        <5>2. \A r \in MProcs : child[r] # c BY <2>2, <4>1, Zenon
        <5> QED BY <5>1, <5>2, Zenon
      <4> QED BY <3>1, <4>1, <4>2, Zenon
    <3>2. CASE q # p
      <4>1. child'[q] = child[q] BY <1>5, <3>2, Zenon
      <4>2. child[q] # 0 <=> mst'[q] = "copy"
        <5>1. CASE q = c BY <1>6, <2>1, <5>1, Zenon
        <5>2. CASE q # c BY <1>6, <3>2, <5>2, Zenon DEF ChildInv
        <5> QED BY <5>1, <5>2, Zenon
      <4>3. ASSUME child[q] # 0 PROVE mst'[child[q]] = "embryo"
        <5>0. child[q] \in MProcs \cup {0} BY Zenon DEF MemTypes
        <5>1. child[q] \in MProcs /\ mst[child[q]] = "embryo" BY <4>3, <5>0, Zenon DEF ChildInv
        <5> QED BY <1>6, <2>2, <4>3, <5>1, Zenon
      <4>4. ASSUME NEW r \in MProcs, child[q] # 0, child[q] = child'[r] PROVE q = r
        <5>1. r # p BY <1>5, <2>2, <4>4, Zenon
        <5>2. child'[r] = child[r] BY <1>5, <5>1, Zenon
        <5> QED BY <4>4, <5>2 DEF ChildInv
      <4> QED BY <4>1, <4>2, <4>3, <4>4, Zenon
    <3> QED BY <3>1, <3>2, Zenon
  <2> QED BY <2>3, Zenon DEF ChildInv
<1>12. Owned'
  <2> DEFINE j == <<"new", p>>
             k == <<"kstack", c>>
  <2>1. /\ Free \in Holders /\ j \in Holders /\ k \in Holders
        /\ Share[Free] = freelist /\ Share[j] = Own(new[p]) /\ Share[k] = {kstack[c]} \ {0}
    BY ShareIs, Zenon
  <2>2. Share'[Free] = freelist' /\ Share'[j] = Own(new'[p]) /\ Share'[k] = {kstack'[c]} \ {0}
    BY ShareIsNext, Zenon
  <2>3. Free # j /\ Free # k /\ j # k BY Zenon DEF Free
  <2>4. new[p] = NoSpace /\ kstack[c] = 0 BY <1>0, <1>1, Zenon DEF Has, Building
  <2>5. new'[p] = s /\ kstack'[c] = x BY <1>5, Zenon
  <2>6. \A g \in Holders : g \notin {Free, j, k} => Share'[g] = Share[g]
    <3> DEFINE C == {Free, j, k}
    <3>1. Free \in C /\ \A q \in MProcs : /\ new'[q] = new[q] \/ <<"new", q>> \in C
                                          /\ kstack'[q] = kstack[q] \/ <<"kstack", q>> \in C
      BY <1>5, Zenon
    <3> HIDE DEF C
    <3>2. \A g \in Holders : g \notin C => Share'[g] = Share[g] BY <1>1, <3>1, OthersSame, Zenon
    <3> QED BY <3>2, Zenon DEF C
  <2> HIDE DEF j, k
  <2>7. Share[Free] = freelist /\ Share[j] = {} /\ Share[k] = {} BY <2>1, <2>4, NoSpaceIs, Zenon
  <2>8. Share'[Free] = (freelist \ {x}) \ Own(s) /\ Share'[j] = Own(s) /\ Share'[k] = {x}
    BY <1>1, <1>3, <2>2, <2>5, Zenon
  <2>9. Own(s) \subseteq freelist \ {x} BY <1>4, Zenon
  <2>10. Share'[Free] \cup Share'[j] \cup Share'[k] = Share[Free] \cup Share[j] \cup Share[k]
    BY <1>3, <2>7, <2>8, <2>9, Zenon
  <2>11. Share'[Free] \cap Share'[j] = {} /\ Share'[Free] \cap Share'[k] = {} /\ Share'[j] \cap Share'[k] = {}
    BY <2>8, <2>9, Zenon
  <2>12. OneHolder(Holders, Pages, Share) BY Zenon DEF Owned
  <2>13. OneHolder(Holders, Pages, Share') BY <2>1, <2>3, <2>6, <2>10, <2>11, <2>12, Trio
  <2> QED BY <2>13, Zenon DEF Owned, OneHolder, Holders
<1> QED BY <1>7, <1>10, <1>11, <1>12, Zenon


(* allocuvm fails in sbrk: what it mapped goes.                            *)
LEMMA GrowFails ==
  ASSUME MemInv, NEW p \in MProcs, outofmemory(p), mst[p] = "grow"
  PROVE  MemInv'
<1> USE DEF MemInv
<1> DEFINE V == Undo(p)
           T == PagesOf(pgdir[p], V)
           t == Without(pgdir[p], V)
<1>0. /\ Has(p) /\ Loop(p) /\ pgdir[p] \in Spaces /\ sz[p] \in 0..KERNBASE-1 /\ goal[p] \in 0..KERNBASE-1
      /\ a[p] \in Nat
  BY Zenon DEF StateInv, MemTypes
<1>1. child[p] = 0
  <2>1. mst[p] # "copy" BY Zenon
  <2> QED BY <2>1, Zenon DEF ChildInv
<1>2. /\ freelist' = freelist \cup T /\ mpanic' = (IF T \cap freelist # {} THEN "kfree" ELSE mpanic)
      /\ pgdir' = [pgdir EXCEPT ![p] = t] /\ new' = new /\ kstack' = kstack /\ sz' = sz
      /\ mst' = [q \in MProcs |-> IF q = p THEN "user" ELSE IF q = child[p] THEN "unused" ELSE mst[q]]
      /\ child' = [child EXCEPT ![p] = 0]
      /\ a' = [a EXCEPT ![p] = 0] /\ goal' = [goal EXCEPT ![p] = 0]
  BY Zenon DEF outofmemory, kfree, Done, StartLoop
<1>3. V \in SUBSET Mapped(pgdir[p]) BY Zenon DEF Undo, Victims
<1>4. /\ t \in Spaces /\ t.dir = pgdir[p].dir /\ OnePlace(t)
      /\ Mapped(t) = Mapped(pgdir[p]) \ V
      /\ T \subseteq Own(pgdir[p]) /\ Own(t) = Own(pgdir[p]) \ T
  BY <1>0, <1>3, WithoutIs, Zenon DEF Has
<1>5. Mapped(t) = Below(sz[p])
  <2>1. sz[p] \in Nat /\ goal[p] \in Nat BY <1>0, MemAssumption
  <2>2. Mapped(pgdir[p]) = Upto(a[p]) /\ a[p] <= RoundUp(goal[p]) /\ RoundUp(sz[p]) <= a[p]
    BY <1>0, Zenon DEF Loop
  <2>3. \A v \in Upto(a[p]) : v * PGSIZE < goal[p]
    <3>1. RoundUp(goal[p]) \in Nat /\ \A v \in Nat : v < RoundUp(goal[p]) <=> v * PGSIZE < goal[p]
      BY <2>1, RoundUpIs, Zenon
    <3>2. Upto(a[p]) \subseteq Nat /\ \A v \in Upto(a[p]) : v < a[p] BY UserPage, Zenon DEF Upto
    <3>3. \A v \in Nat : v < a[p] => v < RoundUp(goal[p]) BY <1>0, <2>2, <3>1
    <3> QED BY <3>1, <3>2, <3>3, Zenon
  <2>4. Mapped(pgdir[p]) \ Victims(pgdir[p], goal[p], sz[p]) = Below(sz[p])
    <3> DEFINE b == a[p]
    <3>1. b \in Nat /\ Mapped(pgdir[p]) = Upto(b) /\ RoundUp(sz[p]) <= b BY <1>0, <2>2, Zenon
    <3>2. \A v \in Upto(b) : v * PGSIZE < goal[p] BY <2>3, Zenon
    <3> HIDE DEF b, V, T, t
    <3>3. pgdir[p] \in Spaces BY <1>0, Zenon
    <3> QED BY ONLY <3>3, <2>1, <3>1, <3>2, VictimsAre, Zenon
  <2> QED BY <1>4, <2>4, Zenon DEF Undo
<1> HIDE DEF V, T, t
<1>6. T \cap freelist = {} /\ mpanic' = mpanic
  <2>1. freelist \cap Own(pgdir[p]) = {} BY Apart, Zenon
  <2>2. T \cap freelist = {} BY <1>4, <2>1, Zenon
  <2> QED BY <1>2, <2>2, Zenon
<1>7. \A q \in MProcs : /\ mst'[q] = IF q = p THEN "user" ELSE mst[q]
                        /\ pgdir'[q] = IF q = p THEN t ELSE pgdir[q]
                        /\ a'[q] = IF q = p THEN 0 ELSE a[q]
                        /\ goal'[q] = IF q = p THEN 0 ELSE goal[q]
  <2>1. \A q \in MProcs : q # child[p] BY <1>1, MemAssumption, Zenon
  <2>2. \A q \in MProcs : mst'[q] = IF q = p THEN "user" ELSE mst[q] BY <1>2, <2>1, Zenon
  <2>3. \A q \in MProcs : /\ pgdir'[q] = IF q = p THEN t ELSE pgdir[q]
                          /\ a'[q] = IF q = p THEN 0 ELSE a[q]
                          /\ goal'[q] = IF q = p THEN 0 ELSE goal[q]
    BY <1>2, Zenon DEF MemTypes
  <2> QED BY <2>2, <2>3, Zenon
<1>8. child' = child BY <1>1, <1>2, Zenon DEF MemTypes
<1>9. MemTypes'
  <2>1. goal' \in [MProcs -> 0..KERNBASE-1] BY <1>2, UserPage, Zenon DEF MemTypes
  <2>2. a' \in [MProcs -> Nat] BY <1>2, Zenon DEF MemTypes
  <2>3. mst' \in [MProcs -> {"unused", "embryo", "user", "grow", "zombie"} \cup Building]
    <3>1. \A q \in MProcs : mst'[q] \in {"unused", "embryo", "user", "grow", "zombie"} \cup Building
      BY <1>7, Zenon DEF MemTypes
    <3> QED BY <1>2, <3>1, Zenon
  <2>4. pgdir' \in [MProcs -> Spaces] BY <1>2, <1>4, Zenon DEF MemTypes
  <2>5. freelist' \in SUBSET Pages
    <3>1. Own(pgdir[p]) \subseteq Pages BY Apart, Zenon
    <3> QED BY <1>2, <1>4, <3>1, Zenon DEF MemTypes
  <2> QED BY <1>2, <1>6, <1>8, <2>1, <2>2, <2>3, <2>4, <2>5, Zenon DEF MemTypes
<1>10. Alone(p) BY <1>2, <1>7, Zenon DEF Alone
<1>11. mst'[p] = "user" /\ pgdir'[p] = t /\ new'[p] = new[p] /\ kstack'[p] = kstack[p] /\ sz'[p] = sz[p]
  BY <1>2, <1>7, Zenon
<1>12. Has(p)'
  <2>1. pgdir[p].dir # 0 /\ kstack[p] # 0 /\ new[p] = NoSpace BY <1>0, Zenon DEF Has, Building
  <2> QED BY <1>4, <1>11, <2>1, NoSpaceIs, Zenon DEF Has, Building
<1>13. Loop(p)' BY <1>5, <1>11, Zenon DEF Loop, Building
<1>14. StateInv' /\ ChildInv'
  <2>1. mst[p] \notin {"embryo", "copy"} /\ mst'[p] # "copy" BY <1>11, Zenon
  <2> QED BY <1>8, <1>10, <1>12, <1>13, <2>1, AloneKeeps, Zenon
<1>15. Owned'
  <2>1. Own(pgdir'[p]) = Own(pgdir[p]) \ T /\ T \in SUBSET Own(pgdir[p]) BY <1>4, <1>11, Zenon
  <2>2. \A q \in MProcs : q # p => pgdir'[q] = pgdir[q] BY <1>7, Zenon
  <2> QED BY <1>2, <2>1, <2>2, PgdirGives, Zenon
<1> QED BY <1>9, <1>14, <1>15, Zenon


(* copyuvm fails: the copy and the child's kernel stack go.                *)
LEMMA CopyFails ==
  ASSUME MemInv, NEW p \in MProcs, outofmemory(p), mst[p] = "copy"
  PROVE  MemInv'
<1> USE DEF MemInv
<1> PICK c \in MProcs : c = child[p]
  <2>1. child[p] \in MProcs \cup {0} BY Zenon DEF MemTypes
  <2>2. child[p] # 0 BY Zenon DEF ChildInv
  <2> QED BY <2>1, <2>2, Zenon
<1>0. Has(p) /\ Loop(p) /\ new[p] \in Spaces /\ mst[c] = "embryo"
  <2>1. Has(p) /\ Loop(p) /\ new[p] \in Spaces BY Zenon DEF StateInv, MemTypes
  <2>2. mst[c] = "embryo" BY Zenon DEF ChildInv
  <2> QED BY <2>1, <2>2, Zenon
<1>1. p # c BY <1>0, Zenon
<1>2. Has(c) /\ Loop(c) BY <1>0, Zenon DEF StateInv
<1>3. kstack[c] # 0 /\ pgdir[c] = NoSpace /\ new[c] = NoSpace BY <1>0, <1>2, Zenon DEF Has, Building
<1>4. new[p].dir # 0 /\ pgdir[p].dir # 0 /\ kstack[p] # 0 /\ OnePlace(pgdir[p]) BY <1>0, Zenon DEF Has, Building
<1>5. Mapped(pgdir[p]) = Below(sz[p]) BY <1>0, Zenon DEF Loop, Building
<1>6. freevm(new[p]) = Own(new[p]) BY <1>0, <1>4, FreevmIs, Zenon
<1>7. /\ freelist \cap Own(new[p]) = {} /\ Own(new[p]) \subseteq Pages
      /\ kstack[c] \in Pages /\ kstack[c] \notin freelist /\ kstack[c] \notin Own(new[p])
  BY <1>0, <1>3, Apart, Zenon
<1>8. /\ kfree(freevm(new[p]) \cup {kstack[q] : q \in {c} \ {0}})
      /\ new' = [new EXCEPT ![p] = NoSpace]
      /\ kstack' = [q \in MProcs |-> IF q = c THEN 0 ELSE kstack[q]]
      /\ mst' = [q \in MProcs |-> IF q = p THEN "user" ELSE IF q = c THEN "unused" ELSE mst[q]]
      /\ child' = [child EXCEPT ![p] = 0]
      /\ a' = [a EXCEPT ![p] = 0] /\ goal' = [goal EXCEPT ![p] = 0]
      /\ pgdir' = pgdir /\ sz' = sz
  <2>1. mst[p] # "grow" BY Zenon
  <2> QED BY <2>1, Zenon DEF outofmemory, Done, StartLoop
<1>9. freelist' = freelist \cup (Own(new[p]) \cup {kstack[c]}) /\ mpanic' = mpanic
  <2> DEFINE T == Own(new[p]) \cup {kstack[c]}
  <2>1. c # 0 BY <1>0, MemAssumption, Zenon
  <2>2. {kstack[q] : q \in {c} \ {0}} = {kstack[c]} BY <2>1, Zenon
  <2>3. kfree(T) BY <1>6, <1>8, <2>2, Zenon
  <2>4. T \cap freelist = {} BY <1>7, Zenon
  <2> QED BY <2>3, <2>4, Zenon DEF kfree
<1>10. \A q \in MProcs : /\ mst'[q] = IF q = p THEN "user" ELSE IF q = c THEN "unused" ELSE mst[q]
                         /\ new'[q] = IF q = p THEN NoSpace ELSE new[q]
                         /\ kstack'[q] = IF q = c THEN 0 ELSE kstack[q]
                         /\ child'[q] = IF q = p THEN 0 ELSE child[q]
                         /\ a'[q] = IF q = p THEN 0 ELSE a[q]
                         /\ goal'[q] = IF q = p THEN 0 ELSE goal[q]
  BY <1>8, Zenon DEF MemTypes
<1>11. MemTypes'
  <2>1. goal' \in [MProcs -> 0..KERNBASE-1] BY <1>8, UserPage, Zenon DEF MemTypes
  <2>2. a' \in [MProcs -> Nat] BY <1>8, Zenon DEF MemTypes
  <2>3. kstack' \in [MProcs -> Page0] BY <1>8, Zenon DEF MemTypes, Page0
  <2>4. mst' \in [MProcs -> {"unused", "embryo", "user", "grow", "zombie"} \cup Building]
    BY <1>8, Zenon DEF MemTypes
  <2>5. new' \in [MProcs -> Spaces] BY <1>8, NoSpaceIs, Zenon DEF MemTypes
  <2>6. child' \in [MProcs -> MProcs \cup {0}] BY <1>8, Zenon DEF MemTypes
  <2>7. freelist' \in SUBSET Pages BY <1>7, <1>9, Zenon DEF MemTypes
  <2> QED BY <1>8, <1>9, <2>1, <2>2, <2>3, <2>4, <2>5, <2>6, <2>7, Zenon DEF MemTypes
<1>12. Has(p)' /\ Loop(p)'
  <2>1. /\ mst'[p] = "user" /\ pgdir'[p] = pgdir[p] /\ new'[p] = NoSpace /\ kstack'[p] = kstack[p]
        /\ sz'[p] = sz[p]
    BY <1>1, <1>8, <1>10, Zenon
  <2>2. Has(p)' BY <1>4, <2>1, NoSpaceIs, Zenon DEF Has, Building
  <2>3. Loop(p)' BY <1>5, <2>1, Zenon DEF Loop, Building
  <2> QED BY <2>2, <2>3, Zenon
<1>13. Has(c)' /\ Loop(c)'
  <2>1. mst'[c] = "unused" /\ pgdir'[c] = pgdir[c] /\ new'[c] = new[c] /\ kstack'[c] = 0
    BY <1>0, <1>1, <1>8, <1>10, Zenon
  <2>2. Has(c)' BY <1>3, <2>1, NoSpaceIs, Zenon DEF Has, Building
  <2>3. Loop(c)' BY <2>1, Zenon DEF Loop, Building
  <2> QED BY <2>2, <2>3, Zenon
<1>14. StateInv'
  <2>1. ASSUME NEW q \in MProcs, q # p, q # c
        PROVE  /\ mst'[q] = mst[q] /\ pgdir'[q] = pgdir[q] /\ new'[q] = new[q] /\ kstack'[q] = kstack[q]
               /\ sz'[q] = sz[q] /\ goal'[q] = goal[q] /\ a'[q] = a[q]
    BY <1>8, <1>10, <2>1, Zenon
  <2> QED BY <1>0, <1>12, <1>13, <2>1, TwoKeep, Zenon
<1>15. ChildInv'
  <2>1. \A q \in MProcs : /\ mst'[q] = IF q = p THEN "user" ELSE IF q = c THEN "unused" ELSE mst[q]
                          /\ child'[q] = IF q = p THEN 0 ELSE child[q]
    BY <1>10, Zenon
  <2> QED BY <2>1, ChildDone, Zenon
<1>16. Owned'
  <2> DEFINE j == <<"new", p>>
             k == <<"kstack", c>>
  <2>1. /\ Free \in Holders /\ j \in Holders /\ k \in Holders
        /\ Share[Free] = freelist /\ Share[j] = Own(new[p]) /\ Share[k] = {kstack[c]} \ {0}
    BY <1>0, ShareIs, Zenon
  <2>2. Share'[Free] = freelist' /\ Share'[j] = Own(new'[p]) /\ Share'[k] = {kstack'[c]} \ {0}
    BY <1>0, ShareIsNext, Zenon
  <2>3. Free # j /\ Free # k /\ j # k BY Zenon DEF Free
  <2>4. new'[p] = NoSpace /\ kstack'[c] = 0 BY <1>0, <1>10, Zenon
  <2>5. \A g \in Holders : g \notin {Free, j, k} => Share'[g] = Share[g]
    <3> DEFINE C == {Free, j, k}
    <3>1. Free \in C /\ \A q \in MProcs : /\ new'[q] = new[q] \/ <<"new", q>> \in C
                                          /\ kstack'[q] = kstack[q] \/ <<"kstack", q>> \in C
      BY <1>10, Zenon
    <3> HIDE DEF C
    <3>2. \A g \in Holders : g \notin C => Share'[g] = Share[g] BY <1>8, <3>1, OthersSame, Zenon
    <3> QED BY <3>2, Zenon DEF C
  <2> HIDE DEF j, k
  <2>6. Share'[Free] = Share[Free] \cup Share[j] \cup Share[k] /\ Share'[j] = {} /\ Share'[k] = {}
    BY <1>3, <1>9, <2>1, <2>2, <2>4, NoSpaceIs
  <2>7. Share[Free] \cap Share[j] = {} /\ Share[Free] \cap Share[k] = {} /\ Share[j] \cap Share[k] = {}
    BY <1>7, <2>1, Zenon
  <2> QED BY <2>1, <2>3, <2>5, <2>6, <2>7, Collect
<1> QED BY <1>11, <1>14, <1>15, <1>16, Zenon

(* An allocation fails: whoever met it is back in user mode as before.     *)
LEMMA OutofmemoryKeeps == ASSUME MemInv, NEW p \in MProcs, outofmemory(p) PROVE MemInv'
<1>1. mst[p] \in {"grow", "load", "stack", "copy"} BY Zenon DEF outofmemory, Looping
<1>2. CASE mst[p] = "grow" BY <1>2, GrowFails, Zenon
<1>3. CASE mst[p] = "copy" BY <1>3, CopyFails, Zenon
<1>4. CASE mst[p] \in {"load", "stack"}
  <2>0. child[p] = 0 /\ 0 \notin MProcs
    <3>1. mst[p] # "copy" BY <1>4, Zenon
    <3> QED BY <3>1, MemAssumption, Zenon DEF MemInv, ChildInv
  <2>1. /\ kfree(freevm(new[p]) \cup {kstack[q] : q \in {child[p]} \ {0}})
        /\ new' = [new EXCEPT ![p] = NoSpace]
        /\ kstack' = [q \in MProcs |-> IF q = child[p] THEN 0 ELSE kstack[q]]
        /\ mst' = [q \in MProcs |-> IF q = p THEN "user" ELSE IF q = child[p] THEN "unused" ELSE mst[q]]
        /\ child' = [child EXCEPT ![p] = 0] /\ Done(p) /\ pgdir' = pgdir /\ sz' = sz
    <3>1. mst[p] # "grow" BY <1>4, Zenon
    <3> QED BY <3>1, Zenon DEF outofmemory
  <2>2. {kstack[q] : q \in {child[p]} \ {0}} = {} BY <2>0, Zenon
  <2>3. kfree(freevm(new[p])) BY <2>1, <2>2, Zenon DEF kfree
  <2>4. \A q \in MProcs : q # child[p] BY <2>0, Zenon
  <2>5. kstack' = kstack BY <2>1, <2>4, Zenon DEF MemInv, MemTypes
  <2>6. mst' = [mst EXCEPT ![p] = "user"] BY <2>1, <2>4, Zenon DEF MemInv, MemTypes
  <2>7. child' = child BY <2>0, <2>1, Zenon DEF MemInv, MemTypes
  <2> QED BY <1>4, <2>1, <2>3, <2>5, <2>6, <2>7, ExecFails, Zenon DEF to
<1> QED BY <1>1, <1>2, <1>3, <1>4, Zenon


-----------------------------------------------------------------------------
(* userinit and inituvm leave the first process with one page, and every   *)
(* other page free.                                                        *)
LEMMA MemStarts == ASSUME MInit PROVE MemInv
<1> DEFINE x == Some(Pages)
           g == Pages \ {x}
           s == setupkvm(g)
           f == g \ Own(s)
           y == Some(f)
           z == Some(f \ {y})
           t == Map(s, 0, y, z)
<1>0. /\ IsFiniteSet(Pages) /\ 0 \notin Pages /\ NKPT \in Nat /\ Cardinality(Pages) >= 4 + NKPT
      /\ 1 \in MProcs /\ 0 \notin MProcs /\ PGSIZE \in Nat \ {0} /\ KERNBASE \in Nat /\ PGSIZE < KERNBASE
  BY MemAssumption, Zenon
<1>1. x \in Pages
  <2>1. Pages # {} BY <1>0, FS_EmptySet
  <2> QED BY <2>1, Zenon DEF Some
<1>2. IsFiniteSet(g) /\ Cardinality(g) = Cardinality(Pages) - 1 /\ g \in SUBSET Pages
  <2> HIDE DEF x
  <2> QED BY <1>0, <1>1, FS_RemoveElement, Zenon
<1>3. CanSetup(g)
  <2> HIDE DEF g
  <2> QED BY <1>0, <1>2, FS_CardinalityType DEF CanSetup
<1>4. /\ s \in Spaces /\ s.dir # 0 /\ OnePlace(s) /\ Mapped(s) = {}
      /\ Own(s) \subseteq g /\ Cardinality(Own(s)) = 1 + NKPT
  <2> HIDE DEF g
  <2> QED BY <1>2, <1>3, SetupIs, Zenon
<1>5. IsFiniteSet(f) /\ Cardinality(f) >= 2
  <2> HIDE DEF g, s
  <2>1. IsFiniteSet(Own(s)) BY <1>2, <1>4, FS_Subset, Zenon
  <2>2. g \cap Own(s) = Own(s) BY <1>4, Zenon
  <2>3. IsFiniteSet(f) /\ Cardinality(f) = Cardinality(g) - Cardinality(g \cap Own(s))
    BY <1>2, FS_Difference, Zenon
  <2>4. Cardinality(f) = Cardinality(Pages) - 1 - (1 + NKPT) BY <1>2, <1>4, <2>2, <2>3, Zenon
  <2> QED BY <1>0, <2>3, <2>4, FS_CardinalityType
<1>6. y \in f /\ z \in f /\ z # y
  <2> HIDE DEF f
  <2>1. f # {} BY <1>5, FS_EmptySet
  <2>2. y \in f BY <2>1, Zenon DEF Some
  <2> HIDE DEF y
  <2>3. IsFiniteSet(f \ {y}) /\ Cardinality(f \ {y}) = Cardinality(f) - 1 BY <1>5, <2>2, FS_RemoveElement, Zenon
  <2>4. f \ {y} # {} BY <1>5, <2>3, FS_EmptySet, FS_CardinalityType
  <2>5. z \in f \ {y} BY <2>4, Zenon DEF Some
  <2> QED BY <2>2, <2>5, Zenon
<1>7. /\ t \in Spaces /\ t.dir # 0 /\ OnePlace(t) /\ Mapped(t) = {0} /\ Own(t) \subseteq g
  <2> HIDE DEF g, s, y, z
  <2>1. 0 \in VPage /\ s.pte[0] = 0
    <3>1. 0 \in VPage /\ 0 \notin Mapped(s) BY <1>4, UserPage, Zenon
    <3> QED BY <3>1, Zenon DEF Mapped
  <2>2. y \in Pages \ Own(s) /\ z \in Pages \ Own(s) /\ z # y BY <1>2, <1>6, Zenon
  <2>3. /\ t \in Spaces /\ t.dir = s.dir /\ OnePlace(t) /\ Mapped(t) = Mapped(s) \cup {0}
        /\ Own(t) = Own(s) \cup (IF NeedsTable(s, 0) THEN {y, z} ELSE {y})
    BY <1>4, <2>1, <2>2, MapIs, SMT
  <2>4. Own(t) \subseteq Own(s) \cup {y, z} BY <2>3, Zenon
  <2>5. y \in g /\ z \in g BY <1>6, Zenon
  <2> HIDE DEF t
  <2>6. Own(t) \subseteq g BY <1>4, <2>4, <2>5, Zenon
  <2>7. Mapped(t) = {0} BY <1>4, <2>3, Zenon
  <2> QED BY <1>4, <2>3, <2>6, <2>7, Zenon
<1>8. Below(PGSIZE) = {0}
  <2>1. 0 \in VPage /\ VPage \subseteq Nat BY UserPage, Zenon
  <2>2. ASSUME NEW v \in VPage PROVE v * PGSIZE < PGSIZE <=> v = 0
    <3>0. v \in Nat BY <2>1, Zenon
    <3>1. CASE v = 0 BY <1>0, <3>1
    <3>2. CASE v # 0
      <4>1. 1 \in Nat /\ 1 <= v BY <3>0, <3>2
      <4>2. 1 * PGSIZE <= v * PGSIZE /\ v * PGSIZE \in Nat BY <3>0, <4>1, Times, Zenon
      <4> QED BY <1>0, <3>2, <4>2
    <3> QED BY <3>1, <3>2, Zenon
  <2> QED BY <2>1, <2>2, Zenon DEF Below
<1>9. /\ kstack = [p \in MProcs |-> IF p = 1 THEN x ELSE 0]
      /\ pgdir = [p \in MProcs |-> IF p = 1 THEN t ELSE NoSpace]
      /\ freelist = g \ Own(t)
      /\ mst = [p \in MProcs |-> IF p = 1 THEN "user" ELSE "unused"]
      /\ sz = [p \in MProcs |-> IF p = 1 THEN PGSIZE ELSE 0]
      /\ new = [p \in MProcs |-> NoSpace]
      /\ a = [p \in MProcs |-> 0] /\ goal = [p \in MProcs |-> 0]
      /\ child = [p \in MProcs |-> 0]
  BY Zenon DEF MInit
<1> HIDE DEF x, g, t
<1>10. MemTypes
  <2>1. freelist \in SUBSET Pages BY <1>2, <1>9, Zenon
  <2>2. pgdir \in [MProcs -> Spaces] /\ new \in [MProcs -> Spaces] BY <1>7, <1>9, NoSpaceIs, Zenon
  <2>3. kstack \in [MProcs -> Page0] BY <1>1, <1>9, Zenon DEF Page0
  <2>4. PGSIZE \in 0..KERNBASE-1 BY <1>0
  <2>5. sz \in [MProcs -> 0..KERNBASE-1] /\ goal \in [MProcs -> 0..KERNBASE-1]
    BY <1>9, <2>4, UserPage, Zenon
  <2>6. a \in [MProcs -> Nat] BY <1>9, Zenon
  <2>7. child \in [MProcs -> MProcs \cup {0}] BY <1>9, Zenon
  <2>8. mst \in [MProcs -> {"unused", "embryo", "user", "grow", "zombie"} \cup Building] BY <1>9, Zenon
  <2>9. mpanic = "" BY Zenon DEF MInit
  <2> QED BY <2>1, <2>2, <2>3, <2>5, <2>6, <2>7, <2>8, <2>9, Zenon DEF MemTypes
<1>11. StateInv
  <2>1. ASSUME NEW p \in MProcs PROVE Has(p) /\ Loop(p)
    <3>1. CASE p = 1
      <4>1. mst[p] = "user" /\ pgdir[p] = t /\ new[p] = NoSpace /\ kstack[p] = x /\ sz[p] = PGSIZE
        BY <1>9, <3>1, Zenon
      <4>2. x # 0 BY <1>0, <1>1, Zenon
      <4>3. Has(p) BY <1>7, <4>1, <4>2, NoSpaceIs, Zenon DEF Has, Building
      <4>4. Loop(p) BY <1>7, <1>8, <4>1, Zenon DEF Loop, Building
      <4> QED BY <4>3, <4>4, Zenon
    <3>2. CASE p # 1
      <4>1. mst[p] = "unused" /\ pgdir[p] = NoSpace /\ new[p] = NoSpace /\ kstack[p] = 0
        BY <1>9, <3>2, Zenon
      <4>2. Has(p) BY <4>1, NoSpaceIs, Zenon DEF Has, Building
      <4>3. Loop(p) BY <4>1, Zenon DEF Loop, Building
      <4> QED BY <4>2, <4>3, Zenon
    <3> QED BY <3>1, <3>2, Zenon
  <2> QED BY <2>1, Zenon DEF StateInv
<1>12. ChildInv
  <2>1. \A p \in MProcs : child[p] = 0 /\ mst[p] # "copy" BY <1>9, Zenon
  <2> QED BY <2>1, Zenon DEF ChildInv
<1>13. Owned
  <2> DEFINE j == <<"pgdir", 1>>
             k == <<"kstack", 1>>
  <2>1. /\ Free \in Holders /\ j \in Holders /\ k \in Holders
        /\ Share[Free] = g \ Own(t) /\ Share[j] = Own(t) /\ Share[k] = {x}
    <3>1. /\ Free \in Holders /\ j \in Holders /\ k \in Holders
          /\ Share[Free] = freelist /\ Share[j] = Own(pgdir[1]) /\ Share[k] = {kstack[1]} \ {0}
      BY <1>0, ShareIs, Zenon
    <3>2. pgdir[1] = t /\ kstack[1] = x BY <1>0, <1>9, Zenon
    <3>3. {x} \ {0} = {x} BY <1>0, <1>1, Zenon
    <3> QED BY <1>9, <3>1, <3>2, <3>3, Zenon
  <2>2. \A h \in Holders : h \notin {Free, j, k} => Share[h] = {}
    <3>1. ASSUME NEW p \in MProcs
          PROVE  /\ p # 1 => Share[<<"pgdir", p>>] = {} /\ Share[<<"kstack", p>>] = {}
                 /\ Share[<<"new", p>>] = {}
      <4>1. /\ Share[<<"pgdir", p>>] = Own(pgdir[p]) /\ Share[<<"kstack", p>>] = {kstack[p]} \ {0}
            /\ Share[<<"new", p>>] = Own(new[p])
        BY ShareIs, Zenon
      <4>2. new[p] = NoSpace /\ (p # 1 => pgdir[p] = NoSpace /\ kstack[p] = 0) BY <1>9, Zenon
      <4> QED BY <4>1, <4>2, NoSpaceIs, Zenon
    <3> QED BY <3>1, ShareIs, Zenon
  <2> HIDE DEF j, k
  <2>3. ASSUME NEW w \in Pages
        PROVE  \E h \in Holders : w \in Share[h] /\ \A i \in Holders : w \in Share[i] => i = h
    <3>1. \A i \in Holders : w \in Share[i] => i \in {Free, j, k} BY <2>2, Zenon
    <3>2. x \notin Own(t) /\ x \notin g BY <1>7, Zenon DEF g
    <3>3. CASE w = x
      <4>1. w \in Share[k] /\ w \notin Share[Free] /\ w \notin Share[j] BY <2>1, <3>2, <3>3, Zenon
      <4> QED BY <2>1, <3>1, <4>1, Zenon
    <3>4. CASE w \in Own(t)
      <4>1. w \in Share[j] /\ w \notin Share[Free] /\ w \notin Share[k] BY <2>1, <3>2, <3>4, Zenon
      <4> QED BY <2>1, <3>1, <4>1, Zenon
    <3>5. CASE w # x /\ w \notin Own(t)
      <4>0. w \in g BY <3>5, Zenon DEF g
      <4>1. w \in Share[Free] /\ w \notin Share[j] /\ w \notin Share[k] BY <2>1, <3>5, <4>0, Zenon
      <4> QED BY <2>1, <3>1, <4>1, Zenon
    <3> QED BY <3>3, <3>4, <3>5, Zenon
  <2> QED BY <2>3, Zenon DEF Owned, OneHolder
<1> QED BY <1>10, <1>11, <1>12, <1>13, Zenon DEF MemInv

(* Every step of every process keeps the invariant.                        *)
LEMMA MemKeeps == ASSUME MemInv, [MNext]_mvars PROVE MemInv'
<1>1. ASSUME NEW p \in MProcs, NEW n \in (1-MUINT)..(MUINT-1), growproc(p, n) PROVE MemInv'
  BY <1>1, GrowprocKeeps, Zenon
<1>2. ASSUME NEW p \in MProcs, NEW memsz \in 1..KERNBASE-1, exec(p, memsz) PROVE MemInv'
  BY <1>2, ExecKeeps, Zenon
<1>3. ASSUME NEW p \in MProcs, NEW q \in MProcs, fork(p, q) PROVE MemInv' BY <1>3, ForkKeeps, Zenon
<1>4. ASSUME NEW p \in MProcs, NEW q \in MProcs, forked(p, q) PROVE MemInv' BY <1>4, ForkedKeeps, Zenon
<1>5. ASSUME NEW p \in MProcs, mappages(p) PROVE MemInv' BY <1>5, MappagesKeeps, Zenon
<1>6. ASSUME NEW p \in MProcs, outofmemory(p) PROVE MemInv' BY <1>6, OutofmemoryKeeps, Zenon
<1>7. ASSUME NEW p \in MProcs, grown(p) PROVE MemInv' BY <1>7, GrownKeeps, Zenon
<1>8. ASSUME NEW p \in MProcs, loaded(p) PROVE MemInv' BY <1>8, LoadedKeeps, Zenon
<1>9. ASSUME NEW p \in MProcs, execbad(p) PROVE MemInv' BY <1>9, ExecbadKeeps, Zenon
<1>10. ASSUME NEW p \in MProcs, execdone(p) PROVE MemInv' BY <1>10, ExecdoneKeeps, Zenon
<1>11. ASSUME NEW p \in MProcs, exit(p) PROVE MemInv' BY <1>11, ExitKeeps, Zenon
<1>12. ASSUME NEW p \in MProcs, wait(p) PROVE MemInv' BY <1>12, WaitKeeps, Zenon
<1>13. CASE UNCHANGED mvars
  <2>1. /\ freelist' = freelist /\ mst' = mst /\ pgdir' = pgdir /\ sz' = sz /\ kstack' = kstack
        /\ new' = new /\ a' = a /\ goal' = goal /\ child' = child /\ mpanic' = mpanic
    BY <1>13, Zenon DEF mvars
  <2>2. MemTypes' BY <2>1, Zenon DEF MemInv, MemTypes
  <2>3. StateInv' BY <2>1, Zenon DEF MemInv, StateInv, Has, Loop
  <2>4. ChildInv' BY <2>1, Zenon DEF MemInv, ChildInv
  <2>5. Owned' BY <2>1, SharesKept, Zenon DEF MemInv
  <2> QED BY <2>2, <2>3, <2>4, <2>5, Zenon DEF MemInv
<1> QED BY <1>1, <1>2, <1>3, <1>4, <1>5, <1>6, <1>7, <1>8, <1>9, <1>10, <1>11, <1>12, <1>13, Zenon DEF MNext

(* The invariant gives what is to be shown.                                *)
LEMMA MemInvIsOwned == ASSUME MemInv PROVE MemoryIsOwned
<1> USE DEF MemInv
<1>1. \A p \in MProcs : /\ pgdir[p] \in Spaces /\ new[p] \in Spaces
                        /\ kstack[p] \in Page0 /\ sz[p] \in 0..KERNBASE-1
                        /\ Own(pgdir[p]) \subseteq Pages /\ Own(new[p]) \subseteq Pages
  <2>1. \A p \in MProcs : pgdir[p] \in Spaces /\ new[p] \in Spaces /\ kstack[p] \in Page0 /\ sz[p] \in 0..KERNBASE-1
    BY Zenon DEF MemTypes
  <2> QED BY <2>1, OwnIs, Zenon
<1>2. freelist \subseteq Pages BY Zenon DEF MemTypes
<1>3. MTypeOK BY Zenon DEF MTypeOK, MemTypes, Page0
<1>4. PageAccounting
  <2>1. \A h \in Holders : Share[h] \subseteq Pages
    <3>1. ASSUME NEW p \in MProcs
          PROVE  /\ Share[<<"kstack", p>>] \subseteq Pages /\ Share[<<"pgdir", p>>] \subseteq Pages
                 /\ Share[<<"new", p>>] \subseteq Pages
      <4>1. /\ Share[<<"pgdir", p>>] = Own(pgdir[p]) /\ Share[<<"kstack", p>>] = {kstack[p]} \ {0}
            /\ Share[<<"new", p>>] = Own(new[p])
        BY ShareIs, Zenon
      <4> QED BY <1>1, <4>1, Zenon DEF Page0
    <3>2. Share[Free] \subseteq Pages BY <1>2, ShareIs, Zenon
    <3> QED BY <3>1, <3>2, ShareIs, Zenon
  <2>2. Share = [h \in Holders |-> HasPages(h)] BY Zenon DEF Share
  <2> HIDE DEF Share
  <2>3. Share \in [Holders -> SUBSET Pages]
    <3>1. \A h \in Holders : Share[h] = HasPages(h) BY <2>2, Zenon
    <3>2. \A h \in Holders : HasPages(h) \in SUBSET Pages BY <2>1, <3>1, Zenon
    <3> QED BY <2>2, <3>2, Zenon
  <2>4. \A x \in Pages : \E h \in Holders : x \in Share[h] /\ \A g \in Holders : x \in Share[g] => g = h
    BY Zenon DEF Owned, OneHolder
  <2>5. \A p \in MProcs : OnePlace(pgdir[p]) /\ OnePlace(new[p]) BY Zenon DEF StateInv, Has
  <2> QED BY <2>2, <2>3, <2>4, <2>5, Zenon DEF PageAccounting
<1>5. SizeIsMapped BY Zenon DEF SizeIsMapped, Runs, StateInv, Loop
<1>6. MNoPanic BY Zenon DEF MNoPanic, MemTypes
<1> QED BY <1>3, <1>4, <1>5, <1>6, Zenon DEF MemoryIsOwned

(* Memory is accounted for: whatever processes call sbrk, fork, exec and   *)
(* exit, in whatever order the loops of allocuvm and copyuvm interleave    *)
(* and whichever kalloc fails, every physical page is on the free list or  *)
(* in exactly one place of one owner, a process that runs has exactly the  *)
(* pages below proc->sz, and kfree, mappages and copyuvm never panic.      *)
THEOREM MemoryOwned == MSpec => []MemoryIsOwned
<1>1. MInit => MemInv BY MemStarts, Zenon
<1>2. MemInv /\ [MNext]_mvars => MemInv' BY MemKeeps, Zenon
<1>3. MemInv => MemoryIsOwned BY MemInvIsOwned, Zenon
<1> QED BY <1>1, <1>2, <1>3, PTL DEF MSpec
===============================================================================
