-------------------------- MODULE FileTable_proofs --------------------------
(***************************************************************************)
(* For every number of processes, files, descriptors and pipe pages, the   *)
(* reference counts of the file table are right (FilesCounted).            *)
(*                                                                         *)
(* RefsAreDescriptors is not inductive alone.  That fileclose never meets  *)
(* a count of 0 follows from it only because a dup that has installed its  *)
(* descriptor and not counted it has another descriptor for the same file  *)
(* (DupInv).  That a pipe's end is closed once needs that no two files     *)
(* have the same end (EndInv), which needs that a file without a type has  *)
(* one owner when it gets its type (NoneInv).                              *)
(***************************************************************************)
EXTENDS FileTable, FiniteSetTheorems, WellFoundedInduction, TLAPS

(* The program counters of a process, and the places where a call has a    *)
(* file in rf, in wf, or has files to close.                               *)
HasRf == {"filealloc2", "kalloc", "fdalloc", "fdalloc2", "filedup"}
HasWf == {"kalloc", "fdalloc2"}
Idle == {"unused", "embryo", "user", "filealloc", "fork"}
PCs == Idle \cup HasRf \cup {"close", "exit"}

FileRec == [ref : Nat, type : {"FD_NONE", "FD_PIPE", "FD_INODE"},
            page : PipePages \cup {0}, writable : BOOLEAN]

TypeInv ==
  /\ ftable \in [File -> FileRec]
  /\ ofile \in [FProcs -> [Fd -> 0..NFILE]]
  /\ fpc \in [FProcs -> PCs]
  /\ rf \in [FProcs -> 0..NFILE] /\ wf \in [FProcs -> 0..NFILE]
  /\ closing \in [FProcs -> Seq(File)] /\ \A p \in FProcs : Len(closing[p]) <= 2
  /\ ff \in [FProcs -> FileRec]
  /\ ofd \in [FProcs -> 0..NOFILE] /\ kid \in [FProcs -> FProcs \cup {0}]
  /\ pipeends \in [PipePages -> SUBSET {"r", "w"}] /\ irefs \in Int

(* What a process has in its hands, by the place where it is               *)
HandInv == \A p \in FProcs :
  /\ rf[p] # 0 <=> fpc[p] \in HasRf
  /\ wf[p] # 0 <=> fpc[p] \in HasWf
  /\ fpc[p] \notin {"close", "exit"} => closing[p] = <<>> /\ ff[p].type = "FD_NONE"
  /\ fpc[p] = "exit" /\ closing[p] # <<>> =>
       ofd[p] < NOFILE /\ ofile[p][ofd[p]] # 0 /\ closing[p] = <<ofile[p][ofd[p]]>>

(* A process that does not exist has no descriptors, nor has the child in  *)
(* a fork those that were not copied; exit has closed those below ofd.     *)
ProcInv ==
  /\ \A p \in FProcs : fpc[p] = "unused" => \A d \in Fd : ofile[p][d] = 0
  /\ \A p \in FProcs : fpc[p] = "exit" => \A d \in Fd : d < ofd[p] => ofile[p][d] = 0
  /\ \A p \in FProcs : fpc[p] = "fork" =>
       kid[p] \in FProcs /\ fpc[kid[p]] = "embryo"
       /\ \A d \in Fd : d >= ofd[p] => ofile[kid[p]][d] = 0
  /\ \A p, q \in FProcs : fpc[p] = "fork" /\ fpc[q] = "fork" /\ kid[p] = kid[q] => p = q

(* A dup that has not counted its descriptor has the one it copied, too.   *)
DupInv == \A p \in FProcs : fpc[p] = "filedup" =>
  \E d, e \in Fd : d # e /\ ofile[p][d] = rf[p] /\ ofile[p][e] = rf[p]

(* Files without a type are in no descriptor table and have one owner.     *)
NoneInv ==
  /\ \A f \in File : ftable[f].ref = 0 => ftable[f].type = "FD_NONE"
  /\ \A f \in File : ftable[f].type = "FD_NONE" => ftable[f].ref <= 1
  /\ \A p \in FProcs, d \in Fd : ofile[p][d] # 0 => ftable[ofile[p][d]].type # "FD_NONE"
  /\ \A p \in FProcs : fpc[p] \in {"filealloc2", "kalloc", "fdalloc"} => ftable[rf[p]].type = "FD_NONE"
  /\ \A p \in FProcs : fpc[p] = "kalloc" => ftable[wf[p]].type = "FD_NONE"
  /\ \A p \in FProcs : fpc[p] = "fdalloc2" =>
       ftable[rf[p]].type # "FD_NONE" /\ ftable[wf[p]].type # "FD_NONE"

(* The ends of pipes are those of files and of files being closed, each    *)
(* of one of them.                                                         *)
IsEnd(x, g, e) == x.type = "FD_PIPE" /\ x.page = g /\ End(x) = e
HasPage ==
  /\ \A f \in File : ftable[f].type = "FD_PIPE" => ftable[f].page \in PipePages
  /\ \A p \in FProcs : ff[p].type = "FD_PIPE" => ff[p].page \in PipePages
EndsOpen == \A g \in PipePages, e \in {"r", "w"} :
  e \in pipeends[g] <=> \/ \E f \in File : IsEnd(ftable[f], g, e)
                        \/ \E p \in FProcs : IsEnd(ff[p], g, e)
EndsApart == \A g \in PipePages, e \in {"r", "w"} :
  /\ \A f, h \in File : IsEnd(ftable[f], g, e) /\ IsEnd(ftable[h], g, e) => f = h
  /\ \A p, q \in FProcs : IsEnd(ff[p], g, e) /\ IsEnd(ff[q], g, e) => p = q
  /\ \A f \in File, p \in FProcs : ~(IsEnd(ftable[f], g, e) /\ IsEnd(ff[p], g, e))
EndInv == HasPage /\ EndsOpen /\ EndsApart

(* Inode references are those of files, of files being closed and of calls *)
(* that have not yet given theirs to a file.                               *)
InodeFiles == {f \in File : ftable[f].type = "FD_INODE"}
InodeLast == {p \in FProcs : ff[p].type = "FD_INODE"}
InodeCalls == {p \in FProcs : fpc[p] \in {"filealloc", "fdalloc"}}
InodeInv == irefs = Cardinality(InodeFiles) + Cardinality(InodeLast) + Cardinality(InodeCalls)

FInv ==
  /\ TypeInv /\ HandInv /\ ProcInv /\ DupInv /\ NoneInv /\ EndInv /\ InodeInv
  /\ RefsAreDescriptors /\ FNoPanic

-----------------------------------------------------------------------------
(* filealloc and fdalloc take the first free place: there is one.          *)
LEMMA MinIn ==
  ASSUME NEW S \in SUBSET Nat, S # {}
  PROVE  Min(S) \in S
<1>1. PICK n \in S : \A m \in S : ~(<<m, n>> \in OpToRel(<, Nat))
  BY NatLessThanWellFounded, WFMin, Zenon
<1>2. \A m \in S : ~(m < n) BY <1>1, Zenon DEF OpToRel
<1>3. \A m \in S : n <= m BY <1>2
<1> QED BY <1>3, Zenon DEF Min

(* The sets that are counted are finite.                                   *)
LEMMA Finite ==
  /\ \A S \in SUBSET FProcs : IsFiniteSet(S) /\ Cardinality(S) \in Nat
  /\ \A S \in SUBSET File : IsFiniteSet(S) /\ Cardinality(S) \in Nat
  /\ \A S \in SUBSET (FProcs \X Fd) : IsFiniteSet(S) /\ Cardinality(S) \in Nat
  /\ \A S \in SUBSET (FProcs \X (1..2)) : IsFiniteSet(S) /\ Cardinality(S) \in Nat
<1>1. NFILE \in Int /\ NOFILE - 1 \in Int /\ 0 \in Int /\ 1 \in Int /\ 2 \in Int BY FAssumption
<1>2. IsFiniteSet(FProcs) BY FAssumption, Zenon
<1>3. IsFiniteSet(File) /\ IsFiniteSet(Fd) /\ IsFiniteSet(1..2)
  BY <1>1, FS_Interval, Zenon DEF File, Fd
<1>4. IsFiniteSet(FProcs \X Fd) /\ IsFiniteSet(FProcs \X (1..2))
  BY <1>2, <1>3, FS_Product, Zenon
<1>5. ASSUME NEW U, IsFiniteSet(U), NEW S \in SUBSET U PROVE IsFiniteSet(S) /\ Cardinality(S) \in Nat
  BY <1>5, FS_Subset, FS_CardinalityType, Zenon
<1> QED BY <1>2, <1>3, <1>4, <1>5, Zenon

(* 1 for a place that names f                                              *)
Is(f, v) == IF f = v THEN 1 ELSE 0

(* Two sets that differ in x at most.                                      *)
LEMMA OneCell ==
  ASSUME NEW S, NEW T, NEW x, IsFiniteSet(S), IsFiniteSet(T), S \ {x} = T \ {x}
  PROVE  Cardinality(T) + (IF x \in S THEN 1 ELSE 0) = Cardinality(S) + (IF x \in T THEN 1 ELSE 0)
<1>1. /\ Cardinality(S \ {x}) = IF x \in S THEN Cardinality(S) - 1 ELSE Cardinality(S)
      /\ Cardinality(T \ {x}) = IF x \in T THEN Cardinality(T) - 1 ELSE Cardinality(T)
  BY FS_RemoveElement, Zenon
<1>2. Cardinality(S) \in Nat /\ Cardinality(T) \in Nat BY FS_CardinalityType, Zenon
<1>3. Cardinality(S \ {x}) = Cardinality(T \ {x}) BY Zenon
<1> QED BY <1>1, <1>2, <1>3

(* The places of a descriptor table that name f; one of them changes.      *)
Cells(of, f) == {pd \in FProcs \X Fd : of[pd[1]][pd[2]] = f}
SameBut(of, of2, q, d) == \A r \in FProcs, e \in Fd : r # q \/ e # d => of2[r][e] = of[r][e]

(* A descriptor changes: the old file has one descriptor less, the new one *)
(* one more.                                                               *)
LEMMA DescriptorChange ==
  ASSUME NEW of, NEW of2, NEW q \in FProcs, NEW d \in Fd, NEW f, SameBut(of, of2, q, d)
  PROVE  Cardinality(Cells(of2, f)) + Is(f, of[q][d]) = Cardinality(Cells(of, f)) + Is(f, of2[q][d])
<1> DEFINE S == Cells(of, f)  T == Cells(of2, f)  x == <<q, d>>
<1>1. S \in SUBSET (FProcs \X Fd) /\ T \in SUBSET (FProcs \X Fd) BY Zenon DEF Cells
<1>2. S \ {x} = T \ {x}
  <2> SUFFICES ASSUME NEW r \in FProcs, NEW e \in Fd
               PROVE  <<r, e>> \in S \ {x} <=> <<r, e>> \in T \ {x} BY <1>1
  <2>1. CASE r = q /\ e = d BY <2>1, Zenon
  <2>2. CASE r # q \/ e # d
    <3>1. of2[r][e] = of[r][e] BY <2>2, Zenon DEF SameBut
    <3>2. <<r, e>> \in S <=> of[r][e] = f BY Zenon DEF Cells
    <3>3. <<r, e>> \in T <=> of2[r][e] = f BY Zenon DEF Cells
    <3>4. <<r, e>> # x BY <2>2, Zenon
    <3> QED BY <3>1, <3>2, <3>3, <3>4, Zenon
  <2> QED BY <2>1, <2>2, Zenon
<1>3. x \in S <=> f = of[q][d] BY Zenon DEF Cells
<1>4. x \in T <=> f = of2[q][d] BY Zenon DEF Cells
<1>5. IsFiniteSet(S) /\ IsFiniteSet(T) BY <1>1, Finite, Zenon
<1> HIDE DEF S, T, x
<1>6. Cardinality(T) + (IF x \in S THEN 1 ELSE 0) = Cardinality(S) + (IF x \in T THEN 1 ELSE 0)
  BY <1>2, <1>5, OneCell, Zenon
<1> QED BY <1>3, <1>4, <1>6, Zenon DEF Is, S, T

(* The references process p has in its hands, those of a sequence of files *)
(* to close first.                                                         *)
Listed(f, s) == (IF 1 \in DOMAIN s THEN Is(f, s[1]) ELSE 0) + (IF 2 \in DOMAIN s THEN Is(f, s[2]) ELSE 0)
Mine(p, f) == (IF fpc[p] = "filedup" THEN 0 - Is(f, rf[p]) ELSE Is(f, rf[p])) + Is(f, wf[p])
              + (IF fpc[p] = "exit" THEN 0 ELSE Listed(f, closing[p]))
InHands(f) == Cardinality(InRf(f)) + Cardinality(InWf(f)) + Cardinality(InClosing(f))
              - Cardinality(Uncounted(f))

(* The others keep what they have in their hands.                          *)
OthersKeep(p) == \A q \in FProcs : q # p =>
  /\ rf'[q] = rf[q] /\ wf'[q] = wf[q] /\ closing'[q] = closing[q]
  /\ fpc'[q] = "filedup" <=> fpc[q] = "filedup"
  /\ fpc'[q] = "exit" <=> fpc[q] = "exit"

(* A step of p changes what is in all hands by what it changes in its own. *)
LEMMA HandsChange ==
  ASSUME TypeInv, TypeInv', NEW p \in FProcs, NEW f \in File, OthersKeep(p)
  PROVE  InHands(f)' + Mine(p, f) = InHands(f) + Mine(p, f)'
<1> USE DEF OthersKeep
<1>1. Cardinality(InRf(f)') + (IF p \in InRf(f) THEN 1 ELSE 0)
      = Cardinality(InRf(f)) + (IF p \in InRf(f)' THEN 1 ELSE 0)
  <2>1. InRf(f) \in SUBSET FProcs /\ InRf(f)' \in SUBSET FProcs BY Zenon DEF InRf
  <2>2. InRf(f) \ {p} = InRf(f)' \ {p} BY Zenon DEF InRf
  <2>3. IsFiniteSet(InRf(f)) /\ IsFiniteSet(InRf(f)') BY <2>1, Finite, Zenon
  <2> QED BY <2>2, <2>3, OneCell, Zenon
<1>2. Cardinality(InWf(f)') + (IF p \in InWf(f) THEN 1 ELSE 0)
      = Cardinality(InWf(f)) + (IF p \in InWf(f)' THEN 1 ELSE 0)
  <2>1. InWf(f) \in SUBSET FProcs /\ InWf(f)' \in SUBSET FProcs BY Zenon DEF InWf
  <2>2. InWf(f) \ {p} = InWf(f)' \ {p} BY Zenon DEF InWf
  <2>3. IsFiniteSet(InWf(f)) /\ IsFiniteSet(InWf(f)') BY <2>1, Finite, Zenon
  <2> QED BY <2>2, <2>3, OneCell, Zenon
<1>3. Cardinality(Uncounted(f)') + (IF p \in Uncounted(f) THEN 1 ELSE 0)
      = Cardinality(Uncounted(f)) + (IF p \in Uncounted(f)' THEN 1 ELSE 0)
  <2>1. Uncounted(f) \in SUBSET FProcs /\ Uncounted(f)' \in SUBSET FProcs BY Zenon DEF Uncounted
  <2>2. Uncounted(f) \ {p} = Uncounted(f)' \ {p} BY Zenon DEF Uncounted
  <2>3. IsFiniteSet(Uncounted(f)) /\ IsFiniteSet(Uncounted(f)') BY <2>1, Finite, Zenon
  <2> QED BY <2>2, <2>3, OneCell, Zenon
<1>4. Cardinality(InClosing(f)') + (IF fpc[p] = "exit" THEN 0 ELSE Listed(f, closing[p]))
      = Cardinality(InClosing(f)) + (IF fpc'[p] = "exit" THEN 0 ELSE Listed(f, closing'[p]))
  <2> DEFINE S == InClosing(f)  T == InClosing(f)'  x == <<p, 1>>  y == <<p, 2>>
             M == (S \ {x}) \cup (T \cap {x})
  <2>1. S \in SUBSET (FProcs \X (1..2)) /\ T \in SUBSET (FProcs \X (1..2)) BY Zenon DEF InClosing
  <2>2. M \in SUBSET (FProcs \X (1..2)) BY <2>1, Zenon
  <2>3. S \ {x} = M \ {x} BY Zenon
  <2>4. M \ {y} = T \ {y}
    <3> SUFFICES ASSUME NEW r \in FProcs, NEW k \in 1..2
                 PROVE  <<r, k>> \in M \ {y} <=> <<r, k>> \in T \ {y}
      <4>1. M \ {y} \in SUBSET (FProcs \X (1..2)) /\ T \ {y} \in SUBSET (FProcs \X (1..2))
        BY <2>1, <2>2, Zenon
      <4> HIDE DEF M, T, y
      <4>2. \A r \in FProcs, k \in 1..2 : <<r, k>> \in M \ {y} <=> <<r, k>> \in T \ {y} BY Zenon
      <4> DEFINE A == M \ {y}  B == T \ {y}
      <4>3. A \in SUBSET (FProcs \X (1..2)) /\ B \in SUBSET (FProcs \X (1..2)) BY <4>1, Zenon
      <4>4. \A r \in FProcs, k \in 1..2 : <<r, k>> \in A <=> <<r, k>> \in B BY <4>2, Zenon
      <4> HIDE DEF A, B
      <4>5. ASSUME NEW z \in FProcs \X (1..2) PROVE z \in A <=> z \in B
        <5>1. PICK r \in FProcs, k \in 1..2 : z = <<r, k>> OBVIOUS
        <5> QED BY <5>1, <4>4, Zenon
      <4>6. A = B BY <4>3, <4>5, Zenon
      <4> QED BY <4>6, Zenon DEF A, B
    <3>1. CASE r = p /\ k = 2 BY <3>1, Zenon
    <3>2. CASE r = p /\ k = 1
      <4>1. x \in M <=> x \in T BY Zenon
      <4> QED BY <4>1, <3>2, Zenon
    <3>3. CASE r # p
      <4>1. <<r, k>> # x /\ <<r, k>> # y BY <3>3, Zenon
      <4>2. <<r, k>> \in S <=> <<r, k>> \in T BY <3>3, Zenon DEF InClosing
      <4> QED BY <4>1, <4>2, Zenon
    <3>4. k = 1 \/ k = 2 OBVIOUS
    <3> QED BY <3>1, <3>2, <3>3, <3>4, Zenon
  <2>5. IsFiniteSet(S) /\ IsFiniteSet(M) /\ IsFiniteSet(T)
        /\ Cardinality(S) \in Nat /\ Cardinality(M) \in Nat /\ Cardinality(T) \in Nat
    BY <2>1, <2>2, Finite, Zenon
  <2>6. x \in S <=> fpc[p] # "exit" /\ 1 \in DOMAIN closing[p] /\ f = closing[p][1] BY DEF InClosing
  <2>7. x \in T <=> fpc'[p] # "exit" /\ 1 \in DOMAIN closing'[p] /\ f = closing'[p][1] BY DEF InClosing
  <2>8. y \in S <=> fpc[p] # "exit" /\ 2 \in DOMAIN closing[p] /\ f = closing[p][2] BY DEF InClosing
  <2>9. y \in T <=> fpc'[p] # "exit" /\ 2 \in DOMAIN closing'[p] /\ f = closing'[p][2] BY DEF InClosing
  <2>10. (x \in M <=> x \in T) /\ (y \in M <=> y \in S)
    <3>1. x # y OBVIOUS
    <3> QED BY <3>1, Zenon
  <2> HIDE DEF S, T, M, x, y
  <2>11. Cardinality(M) + (IF x \in S THEN 1 ELSE 0) = Cardinality(S) + (IF x \in M THEN 1 ELSE 0)
    BY <2>3, <2>5, OneCell, Zenon
  <2>12. Cardinality(T) + (IF y \in M THEN 1 ELSE 0) = Cardinality(M) + (IF y \in T THEN 1 ELSE 0)
    BY <2>4, <2>5, OneCell, Zenon
  <2>13. Cardinality(T) + (IF x \in S THEN 1 ELSE 0) + (IF y \in S THEN 1 ELSE 0)
         = Cardinality(S) + (IF x \in T THEN 1 ELSE 0) + (IF y \in T THEN 1 ELSE 0)
    BY <2>5, <2>10, <2>11, <2>12
  <2>14. (IF fpc[p] = "exit" THEN 0 ELSE Listed(f, closing[p]))
         = (IF x \in S THEN 1 ELSE 0) + (IF y \in S THEN 1 ELSE 0)
    BY <2>6, <2>8 DEF Listed, Is
  <2>15. (IF fpc'[p] = "exit" THEN 0 ELSE Listed(f, closing'[p]))
         = (IF x \in T THEN 1 ELSE 0) + (IF y \in T THEN 1 ELSE 0)
    BY <2>7, <2>9 DEF Listed, Is
  <2>16. Cardinality(T) + (IF fpc[p] = "exit" THEN 0 ELSE Listed(f, closing[p]))
         = Cardinality(S) + (IF fpc'[p] = "exit" THEN 0 ELSE Listed(f, closing'[p]))
    BY <2>5, <2>13, <2>14, <2>15
  <2> QED BY <2>16, Zenon DEF S, T
<1>5. /\ p \in InRf(f) <=> fpc[p] # "filedup" /\ f = rf[p]
      /\ p \in InRf(f)' <=> fpc'[p] # "filedup" /\ f = rf'[p]
      /\ p \in Uncounted(f) <=> fpc[p] = "filedup" /\ f = rf[p]
      /\ p \in Uncounted(f)' <=> fpc'[p] = "filedup" /\ f = rf'[p]
      /\ p \in InWf(f) <=> f = wf[p]
      /\ p \in InWf(f)' <=> f = wf'[p]
  BY Zenon DEF InRf, InWf, Uncounted
<1>6. /\ Cardinality(InRf(f)) \in Nat /\ Cardinality(InRf(f)') \in Nat
      /\ Cardinality(InWf(f)) \in Nat /\ Cardinality(InWf(f)') \in Nat
      /\ Cardinality(Uncounted(f)) \in Nat /\ Cardinality(Uncounted(f)') \in Nat
      /\ Cardinality(InClosing(f)) \in Nat /\ Cardinality(InClosing(f)') \in Nat
  BY Finite, Zenon DEF InRf, InWf, Uncounted, InClosing
<1>7. Listed(f, closing[p]) \in Nat /\ Listed(f, closing'[p]) \in Nat BY DEF Listed, Is
<1> DEFINE L == IF fpc[p] = "exit" THEN 0 ELSE Listed(f, closing[p])
           L2 == IF fpc'[p] = "exit" THEN 0 ELSE Listed(f, closing'[p])
           r == IF p \in InRf(f) THEN 1 ELSE 0      r2 == IF p \in InRf(f)' THEN 1 ELSE 0
           w == IF p \in InWf(f) THEN 1 ELSE 0      w2 == IF p \in InWf(f)' THEN 1 ELSE 0
           u == IF p \in Uncounted(f) THEN 1 ELSE 0 u2 == IF p \in Uncounted(f)' THEN 1 ELSE 0
<1>8. Mine(p, f) = r + w - u + L /\ Mine(p, f)' = r2 + w2 - u2 + L2
  <2> HIDE DEF L, L2
  <2>1. Mine(p, f) = (IF fpc[p] = "filedup" THEN 0 - Is(f, rf[p]) ELSE Is(f, rf[p])) + Is(f, wf[p]) + L
    BY Zenon DEF Mine, L
  <2>2. Mine(p, f)' = (IF fpc'[p] = "filedup" THEN 0 - Is(f, rf'[p]) ELSE Is(f, rf'[p])) + Is(f, wf'[p]) + L2
    BY Zenon DEF Mine, L2
  <2>3. L \in Nat /\ L2 \in Nat BY <1>7, Zenon DEF L, L2
  <2> QED BY <2>1, <2>2, <2>3, <1>5 DEF Is
<1>9. r \in Nat /\ w \in Nat /\ u \in Nat /\ r2 \in Nat /\ w2 \in Nat /\ u2 \in Nat BY Zenon
<1>10. L \in Nat /\ L2 \in Nat BY <1>7, Zenon
<1> HIDE DEF L, L2, r, w, u, r2, w2, u2
<1>11. /\ Cardinality(InRf(f)') + r = Cardinality(InRf(f)) + r2
       /\ Cardinality(InWf(f)') + w = Cardinality(InWf(f)) + w2
       /\ Cardinality(Uncounted(f)') + u = Cardinality(Uncounted(f)) + u2
       /\ Cardinality(InClosing(f)') + L = Cardinality(InClosing(f)) + L2
  BY <1>1, <1>2, <1>3, <1>4, Zenon DEF L, L2, r, w, u, r2, w2, u2
<1> DEFINE a == Cardinality(InRf(f))  b == Cardinality(InWf(f))
           c == Cardinality(InClosing(f))  d == Cardinality(Uncounted(f))
           a2 == Cardinality(InRf(f)')  b2 == Cardinality(InWf(f)')
           c2 == Cardinality(InClosing(f)')  d2 == Cardinality(Uncounted(f)')
<1>12. InHands(f) = a + b + c - d /\ InHands(f)' = a2 + b2 + c2 - d2 BY Zenon DEF InHands
<1> HIDE DEF a, b, c, d, a2, b2, c2, d2
<1>13. /\ a \in Nat /\ b \in Nat /\ c \in Nat /\ d \in Nat
       /\ a2 \in Nat /\ b2 \in Nat /\ c2 \in Nat /\ d2 \in Nat
       /\ a2 + r = a + r2 /\ b2 + w = b + w2 /\ d2 + u = d + u2 /\ c2 + L = c + L2
  BY <1>6, <1>11, Zenon DEF a, b, c, d, a2, b2, c2, d2
<1>14. a2 = a + r2 - r BY <1>9, <1>13
<1>15. b2 = b + w2 - w BY <1>9, <1>13
<1>16. c2 = c + L2 - L BY <1>10, <1>13
<1>17. d2 = d + u2 - u BY <1>9, <1>13
<1>18. (a2 + b2 + c2 - d2) + (r + w - u + L) = (a + b + c - d) + (r2 + w2 - u2 + L2)
  BY <1>9, <1>10, <1>13, <1>14, <1>15, <1>16, <1>17, SMTT(30)
<1> QED BY <1>8, <1>12, <1>18, Zenon

(* A step keeps the counts right when it changes a file's count by what it *)
(* changes in the descriptors and in its hands.                            *)
LEMMA RefsChange ==
  ASSUME RefsAreDescriptors, TypeInv, TypeInv', NEW p \in FProcs, OthersKeep(p),
         \A f \in File : ftable'[f].ref + Mine(p, f) + Cardinality(Cells(ofile, f))
                         = ftable[f].ref + Mine(p, f)' + Cardinality(Cells(ofile', f))
  PROVE  RefsAreDescriptors'
<1> SUFFICES ASSUME NEW f \in File
             PROVE  ftable'[f].ref = Cardinality(Cells(ofile', f)) + InHands(f)'
  <2>1. \A f \in File : Descriptors(f)' = Cells(ofile', f) BY Zenon DEF Descriptors, Cells
  <2>2. ASSUME NEW f \in File
        PROVE  /\ Cardinality(InRf(f)') \in Nat /\ Cardinality(InWf(f)') \in Nat
               /\ Cardinality(InClosing(f)') \in Nat /\ Cardinality(Uncounted(f)') \in Nat
               /\ Cardinality(Descriptors(f)') \in Nat
    BY Finite, Zenon DEF InRf, InWf, InClosing, Uncounted, Descriptors
  <2> QED BY <2>1, <2>2 DEF RefsAreDescriptors, InHands
<1>1. InHands(f)' + Mine(p, f) = InHands(f) + Mine(p, f)' BY HandsChange, Zenon
<1>2. Descriptors(f) = Cells(ofile, f) BY Zenon DEF Descriptors, Cells
<1>3. /\ Cardinality(InRf(f)) \in Nat /\ Cardinality(InWf(f)) \in Nat
      /\ Cardinality(InClosing(f)) \in Nat /\ Cardinality(Uncounted(f)) \in Nat
      /\ Cardinality(InRf(f)') \in Nat /\ Cardinality(InWf(f)') \in Nat
      /\ Cardinality(InClosing(f)') \in Nat /\ Cardinality(Uncounted(f)') \in Nat
  BY Finite, Zenon DEF InRf, InWf, InClosing, Uncounted
<1>4. Cardinality(Cells(ofile, f)) \in Nat /\ Cardinality(Cells(ofile', f)) \in Nat
  BY Finite, Zenon DEF Cells
<1>5. ftable[f].ref = Cardinality(Cells(ofile, f)) + InHands(f)
  BY <1>2, <1>3, <1>4 DEF RefsAreDescriptors, InHands
<1>6. InHands(f) \in Int /\ InHands(f)' \in Int BY <1>3 DEF InHands
<1>7. Mine(p, f) \in Int /\ Mine(p, f)' \in Int
  <2>1. Listed(f, closing[p]) \in Int /\ Listed(f, closing'[p]) \in Int BY DEF Listed, Is
  <2> QED BY <2>1 DEF Mine, Is
<1>8. ftable[f].ref \in Nat /\ ftable'[f].ref \in Nat BY Zenon DEF TypeInv, FileRec
<1> DEFINE m == Mine(p, f)  m2 == Mine(p, f)'  h == InHands(f)  h2 == InHands(f)'
           c == Cardinality(Cells(ofile, f))  c2 == Cardinality(Cells(ofile', f))
<1>9. /\ m \in Int /\ m2 \in Int /\ h \in Int /\ h2 \in Int /\ c \in Nat /\ c2 \in Nat
      /\ h2 + m = h + m2 /\ ftable[f].ref = c + h /\ ftable'[f].ref + m + c = ftable[f].ref + m2 + c2
  BY <1>1, <1>4, <1>5, <1>6, <1>7, Zenon
<1> HIDE DEF m, m2, h, h2, c, c2
<1>10. ftable'[f].ref = c2 + h2 BY <1>8, <1>9
<1> QED BY <1>10, Zenon DEF c2, h2

(* A file that a descriptor or a call has is counted at least once: dup    *)
(* counts late, but has the descriptor that it copies.                     *)
LEMMA Named ==
  ASSUME RefsAreDescriptors, TypeInv, DupInv, NEW f \in File,
         Descriptors(f) # {} \/ InRf(f) # {} \/ InWf(f) # {} \/ InClosing(f) # {}
  PROVE  ftable[f].ref >= 1
<1> DEFINE D == Descriptors(f)  U == Uncounted(f)
<1>1. /\ IsFiniteSet(D) /\ Cardinality(D) \in Nat /\ IsFiniteSet(U) /\ Cardinality(U) \in Nat
      /\ IsFiniteSet(InRf(f)) /\ Cardinality(InRf(f)) \in Nat
      /\ IsFiniteSet(InWf(f)) /\ Cardinality(InWf(f)) \in Nat
      /\ IsFiniteSet(InClosing(f)) /\ Cardinality(InClosing(f)) \in Nat
  BY Finite, Zenon DEF InRf, InWf, InClosing, Uncounted, Descriptors
<1>2. ftable[f].ref = Cardinality(D) + Cardinality(InRf(f)) + Cardinality(InWf(f))
                      + Cardinality(InClosing(f)) - Cardinality(U)
  BY Zenon DEF RefsAreDescriptors
<1>3. CASE U = {}
  <2>1. Cardinality(U) = 0 BY <1>3, FS_EmptySet, Zenon
  <2>2. Cardinality(D) # 0 \/ Cardinality(InRf(f)) # 0 \/ Cardinality(InWf(f)) # 0
        \/ Cardinality(InClosing(f)) # 0
    BY <1>1, FS_EmptySet, Zenon
  <2> HIDE DEF D, U
  <2> QED BY <1>1, <1>2, <2>1, <2>2
<1>4. CASE U # {}
  <2> DEFINE lo(p) == CHOOSE d \in Fd : ofile[p][d] = f
             h == [p \in U |-> <<p, lo(p)>>]
  <2>1. ASSUME NEW p \in U
        PROVE  /\ p \in FProcs /\ lo(p) \in Fd /\ ofile[p][lo(p)] = f
               /\ \E e \in Fd : e # lo(p) /\ ofile[p][e] = f
    <3>1. PICK d, e \in Fd : d # e /\ ofile[p][d] = f /\ ofile[p][e] = f BY Zenon DEF DupInv, Uncounted
    <3> QED BY <3>1, Zenon DEF Uncounted
  <2>2. PICK q \in U : TRUE BY <1>4, Zenon
  <2>3. PICK e \in Fd : e # lo(q) /\ ofile[q][e] = f BY <2>1, Zenon
  <2> DEFINE x == <<q, e>>
  <2>4. x \in D BY <2>1, <2>3, Zenon DEF Descriptors
  <2>5. \A p \in U : <<p, lo(p)>> \in D \ {x}
    <3> SUFFICES ASSUME NEW p \in U PROVE <<p, lo(p)>> \in D \ {x} BY Zenon
    <3> HIDE DEF lo
    <3>1. <<p, lo(p)>> \in D BY <2>1, Zenon DEF Descriptors
    <3>2. <<p, lo(p)>> # <<q, e>> BY <2>3, Zenon
    <3> QED BY <3>1, <3>2, Zenon
  <2>6. h \in Injection(U, D \ {x})
    <3> HIDE DEF D, U, x, lo
    <3>1. h \in [U -> D \ {x}] BY <2>5, Zenon
    <3>2. \A p, r \in U : h[p] = h[r] => p = r BY Zenon
    <3> QED BY <3>1, <3>2, Zenon DEF Injection, IsInjective
  <2> HIDE DEF D, U, x, h
  <2>7. IsFiniteSet(D \ {x}) /\ Cardinality(D \ {x}) = Cardinality(D) - 1
    BY <1>1, <2>4, FS_RemoveElement, Zenon
  <2>8. Cardinality(U) <= Cardinality(D \ {x}) BY <2>6, <2>7, FS_Injection, Zenon
  <2> QED BY <1>1, <1>2, <2>7, <2>8
<1> QED BY <1>3, <1>4, Zenon

(* A file without a type is in the hands of one call at most, in one place.*)
LEMMA NoneAlone ==
  ASSUME RefsAreDescriptors, TypeInv, DupInv, NoneInv, NEW f \in File, ftable[f].type = "FD_NONE"
  PROVE  /\ \A p, q \in FProcs : fpc[p] # "filedup" /\ fpc[q] # "filedup" /\ rf[p] = f /\ rf[q] = f => p = q
         /\ \A p, q \in FProcs : wf[p] = f /\ wf[q] = f => p = q
         /\ \A p, q \in FProcs : ~(fpc[p] # "filedup" /\ rf[p] = f /\ wf[q] = f)
<1> DEFINE R == InRf(f)  W == InWf(f)  C == InClosing(f)
<1>1. /\ IsFiniteSet(R) /\ Cardinality(R) \in Nat /\ IsFiniteSet(W) /\ Cardinality(W) \in Nat
      /\ Cardinality(C) \in Nat
  BY Finite, Zenon DEF InRf, InWf, InClosing
<1>2. f # 0 BY DEF File
<1>3. Descriptors(f) = {}
  <2> SUFFICES ASSUME NEW p \in FProcs, NEW d \in Fd, ofile[p][d] = f PROVE FALSE BY Zenon DEF Descriptors
  <2> QED BY <1>2, Zenon DEF NoneInv
<1>4. Uncounted(f) = {}
  <2> SUFFICES ASSUME NEW p \in FProcs, fpc[p] = "filedup", rf[p] = f PROVE FALSE BY Zenon DEF Uncounted
  <2>1. PICK d \in Fd : ofile[p][d] = f BY Zenon DEF DupInv
  <2> QED BY <1>2, <2>1, Zenon DEF NoneInv
<1>5. ftable[f].ref = Cardinality({}) + Cardinality(R) + Cardinality(W) + Cardinality(C) - Cardinality({})
  BY <1>3, <1>4, Zenon DEF RefsAreDescriptors
<1>6. Cardinality({}) = 0 BY FS_EmptySet, Zenon
<1>7. ftable[f].ref <= 1 BY Zenon DEF NoneInv
<1> HIDE DEF R, W, C
<1>8. (Cardinality(R) = 0 \/ Cardinality(R) = 1) /\ (Cardinality(W) = 0 \/ Cardinality(W) = 1)
      /\ (Cardinality(R) = 0 \/ Cardinality(W) = 0)
  BY <1>1, <1>5, <1>6, <1>7
<1>9. /\ R = {} \/ \E x : R = {x}
      /\ W = {} \/ \E x : W = {x}
      /\ R = {} \/ W = {}
  BY <1>1, <1>8, FS_EmptySet, FS_Singleton, Zenon
<1>10. /\ \A p, q : p \in R /\ q \in R => p = q
       /\ \A p, q : p \in W /\ q \in W => p = q
       /\ \A p, q : ~(p \in R /\ q \in W)
  BY <1>9, Zenon
<1>11. \A p \in FProcs : /\ p \in R <=> fpc[p] # "filedup" /\ rf[p] = f
                         /\ p \in W <=> wf[p] = f
  BY Zenon DEF R, W, InRf, InWf
<1> QED BY <1>10, <1>11, Zenon

(* Steps that change no end of a pipe.                                     *)
LEMMA EndsAlike ==
  ASSUME EndInv, HasPage', pipeends' = pipeends,
         \A f \in File, g \in PipePages, e \in {"r", "w"} :
           IsEnd(ftable'[f], g, e) <=> IsEnd(ftable[f], g, e),
         \A p \in FProcs, g \in PipePages, e \in {"r", "w"} :
           IsEnd(ff'[p], g, e) <=> IsEnd(ff[p], g, e)
  PROVE  EndInv'
<1>1. EndsOpen'
  <2> SUFFICES ASSUME NEW g \in PipePages, NEW e \in {"r", "w"}
               PROVE  e \in pipeends'[g] <=> \/ \E f \in File : IsEnd(ftable'[f], g, e)
                                             \/ \E p \in FProcs : IsEnd(ff'[p], g, e)
    BY Zenon DEF EndsOpen
  <2> QED BY Zenon DEF EndInv, EndsOpen
<1>2. EndsApart'
  <2> SUFFICES ASSUME NEW g \in PipePages, NEW e \in {"r", "w"}
               PROVE  /\ \A f, h \in File : IsEnd(ftable'[f], g, e) /\ IsEnd(ftable'[h], g, e) => f = h
                      /\ \A p, q \in FProcs : IsEnd(ff'[p], g, e) /\ IsEnd(ff'[q], g, e) => p = q
                      /\ \A f \in File, p \in FProcs : ~(IsEnd(ftable'[f], g, e) /\ IsEnd(ff'[p], g, e))
    BY Zenon DEF EndsApart
  <2>1. \A f \in File : IsEnd(ftable'[f], g, e) <=> IsEnd(ftable[f], g, e) BY Zenon
  <2>2. \A p \in FProcs : IsEnd(ff'[p], g, e) <=> IsEnd(ff[p], g, e) BY Zenon
  <2> QED BY <2>1, <2>2 DEF EndInv, EndsApart
<1> QED BY <1>1, <1>2, Zenon DEF EndInv

(* Steps that touch no type of a file and close nothing keep the ends of   *)
(* pipes.                                                                  *)
SameKinds == \A f \in File :
  /\ ftable'[f].type = ftable[f].type
  /\ ftable'[f].page = ftable[f].page /\ ftable'[f].writable = ftable[f].writable

(* A step that changes no type, page or direction of a file keeps the ends *)
(* of the pipes apart.                                                     *)
LEMMA EndsSame ==
  ASSUME EndInv, SameKinds, ff' = ff, pipeends' = pipeends
  PROVE  EndInv'
<1>1. \A f \in File, g \in PipePages, e \in {"r", "w"} :
        IsEnd(ftable'[f], g, e) <=> IsEnd(ftable[f], g, e)
  BY Zenon DEF SameKinds, IsEnd, End
<1>2. HasPage' BY Zenon DEF EndInv, HasPage, SameKinds
<1> QED BY <1>1, <1>2, EndsAlike, Zenon

(* ... and the references of inodes.                                       *)
LEMMA InodesSame ==
  ASSUME InodeInv, SameKinds, ff' = ff, irefs' = irefs,
         \A p \in FProcs : fpc'[p] \in {"filealloc", "fdalloc"} <=> fpc[p] \in {"filealloc", "fdalloc"}
  PROVE  InodeInv'
<1>1. InodeFiles' = InodeFiles BY Zenon DEF InodeFiles, SameKinds
<1>2. InodeLast' = InodeLast BY Zenon DEF InodeLast
<1>3. InodeCalls' = InodeCalls BY Zenon DEF InodeCalls
<1> QED BY <1>1, <1>2, <1>3, Zenon DEF InodeInv

(* A dup in progress is not disturbed by steps that leave its process and  *)
(* its descriptors alone.                                                  *)
LEMMA DupsSame ==
  ASSUME DupInv, \A q \in FProcs : fpc'[q] = "filedup" =>
           fpc[q] = "filedup" /\ rf'[q] = rf[q] /\ \A d \in Fd : ofile'[q][d] = ofile[q][d]
  PROVE  DupInv'
<1> SUFFICES ASSUME NEW q \in FProcs, fpc'[q] = "filedup"
             PROVE  \E d, e \in Fd : d # e /\ ofile'[q][d] = rf'[q] /\ ofile'[q][e] = rf'[q]
  BY Zenon DEF DupInv
<1>1. PICK d, e \in Fd : d # e /\ ofile[q][d] = rf[q] /\ ofile[q][e] = rf[q] BY Zenon DEF DupInv
<1> QED BY <1>1, Zenon

-----------------------------------------------------------------------------
(* userinit: the first process has no open files.                          *)
LEMMA FStart == FInit => FInv
<1> SUFFICES ASSUME FInit PROVE FInv BY Zenon
<1> USE DEF FInit
<1>0. NFILE \in Nat /\ NOFILE \in Nat BY FAssumption, Zenon
<1>1. NoFile \in FileRec BY Zenon DEF NoFile, FileRec
<1>2. TypeInv
  <2>1. 0 \in 0..NFILE /\ 0 \in 0..NOFILE BY <1>0
  <2>2. ftable \in [File -> FileRec] /\ ff \in [FProcs -> FileRec] BY <1>1, Zenon
  <2>3. ofile \in [FProcs -> [Fd -> 0..NFILE]] BY <2>1, Zenon
  <2>4. fpc \in [FProcs -> PCs] BY Zenon DEF PCs, Idle
  <2>5. closing \in [FProcs -> Seq(File)] /\ \A p \in FProcs : Len(closing[p]) <= 2 OBVIOUS
  <2>6. pipeends \in [PipePages -> SUBSET {"r", "w"}] BY Zenon
  <2> QED BY <2>1, <2>2, <2>3, <2>4, <2>5, <2>6 DEF TypeInv
<1>3. HandInv
  <2>1. \A p \in FProcs : fpc[p] \in {"user", "unused"} BY Zenon
  <2> QED BY <2>1, Zenon DEF HandInv, HasRf, HasWf, NoFile
<1>4. ProcInv /\ DupInv
  <2>1. \A p \in FProcs : fpc[p] \in {"user", "unused"} BY Zenon
  <2>2. \A p \in FProcs, d \in Fd : ofile[p][d] = 0 BY Zenon
  <2> QED BY <2>1, <2>2, Zenon DEF ProcInv, DupInv
<1>5. NoneInv
  <2>1. \A p \in FProcs : fpc[p] \in {"user", "unused"} BY Zenon
  <2>2. \A p \in FProcs, d \in Fd : ofile[p][d] = 0 BY Zenon
  <2>3. \A f \in File : ftable[f].ref = 0 /\ ftable[f].type = "FD_NONE" BY Zenon DEF NoFile
  <2> QED BY <2>1, <2>2, <2>3 DEF NoneInv
<1>6. EndInv
  <2>1. \A f \in File : ftable[f].type = "FD_NONE" BY Zenon DEF NoFile
  <2>2. \A p \in FProcs : ff[p].type = "FD_NONE" BY Zenon DEF NoFile
  <2>3. \A g \in PipePages : pipeends[g] = {} BY Zenon
  <2> QED BY <2>1, <2>2, <2>3, Zenon DEF EndInv, HasPage, EndsOpen, EndsApart, IsEnd
<1>7. InodeInv
  <2>1. InodeFiles = {} /\ InodeLast = {} BY Zenon DEF InodeFiles, InodeLast, NoFile
  <2>2. InodeCalls = {} BY Zenon DEF InodeCalls
  <2>3. Cardinality({}) = 0 BY FS_EmptySet, Zenon
  <2> QED BY <2>1, <2>2, <2>3 DEF InodeInv
<1>8. RefsAreDescriptors
  <2> SUFFICES ASSUME NEW f \in File
               PROVE  ftable[f].ref = Cardinality(Descriptors(f)) + Cardinality(InRf(f))
                        + Cardinality(InWf(f)) + Cardinality(InClosing(f)) - Cardinality(Uncounted(f))
    BY Zenon DEF RefsAreDescriptors
  <2>1. f # 0 BY DEF File
  <2>2. Descriptors(f) = {} BY <2>1, Zenon DEF Descriptors
  <2>3. InRf(f) = {} /\ InWf(f) = {} /\ Uncounted(f) = {} BY <2>1, Zenon DEF InRf, InWf, Uncounted
  <2>4. InClosing(f) = {} BY DEF InClosing
  <2>5. Cardinality({}) = 0 BY FS_EmptySet, Zenon
  <2>6. ftable[f].ref = 0 BY Zenon DEF NoFile
  <2> QED BY <2>2, <2>3, <2>4, <2>5, <2>6
<1> QED BY <1>2, <1>3, <1>4, <1>5, <1>6, <1>7, <1>8, Zenon DEF FInv, FNoPanic

(* sys_open has the inode and no file yet.                                 *)
LEMMA OpenKeeps ==
  ASSUME FInv, NEW p \in FProcs, sys_open(p)
  PROVE  FInv'
<1> USE DEF FInv
<1>1. /\ fpc[p] = "user" /\ fpc' = [fpc EXCEPT ![p] = "filealloc"] /\ irefs' = irefs + 1
      /\ UNCHANGED <<ftable, ofile, rf, wf, closing, ff, ofd, kid, pipeends, fpanic>>
  BY Zenon DEF sys_open, Doing, to, calls
<1>2. \A q \in FProcs : fpc'[q] = IF q = p THEN "filealloc" ELSE fpc[q] BY <1>1, Zenon DEF TypeInv
<1>3. TypeInv'
  <2>1. fpc' \in [FProcs -> PCs] BY <1>1, Zenon DEF TypeInv, PCs, Idle
  <2>2. irefs' \in Int BY <1>1 DEF TypeInv
  <2> QED BY <1>1, <2>1, <2>2, Zenon DEF TypeInv
<1>4. HandInv' BY <1>1, <1>2 DEF HandInv, HasRf, HasWf
<1>5. ProcInv' BY <1>1, <1>2 DEF ProcInv
<1>6. DupInv' BY <1>1, <1>2, DupsSame
<1>7. NoneInv' BY <1>1, <1>2 DEF NoneInv
<1>8. EndInv' BY <1>1, EndsSame, Zenon DEF SameKinds
<1>9. InodeInv'
  <2>1. InodeFiles' = InodeFiles /\ InodeLast' = InodeLast BY <1>1, Zenon DEF InodeFiles, InodeLast
  <2>2. InodeCalls' = InodeCalls \cup {p} /\ p \notin InodeCalls BY <1>1, <1>2, Zenon DEF InodeCalls
  <2>3. Cardinality(InodeCalls') = Cardinality(InodeCalls) + 1 BY <2>2, Finite, FS_AddElement, Zenon DEF InodeCalls
  <2>4. Cardinality(InodeFiles) \in Nat /\ Cardinality(InodeLast) \in Nat /\ Cardinality(InodeCalls) \in Nat
    BY Finite, Zenon DEF InodeFiles, InodeLast, InodeCalls
  <2> QED BY <1>1, <2>1, <2>3, <2>4 DEF InodeInv
<1>10. RefsAreDescriptors'
  <2>1. OthersKeep(p) BY <1>1, <1>2, Zenon DEF OthersKeep
  <2>2. \A f \in File : Mine(p, f)' = Mine(p, f) BY <1>1, <1>2 DEF Mine
  <2> QED BY <1>1, <1>3, <2>1, <2>2, RefsChange, Zenon
<1> QED BY <1>1, <1>3, <1>4, <1>5, <1>6, <1>7, <1>8, <1>9, <1>10, Zenon DEF FNoPanic

(* filealloc gives out a free file, which then has one reference and no    *)
(* type.                                                                   *)
LEMMA Takes ==
  ASSUME TypeInv, NoneInv, FreeFiles # {}, ftable' = Taken(Min(FreeFiles))
  PROVE  /\ Min(FreeFiles) \in File /\ Min(FreeFiles) # 0
         /\ ftable[Min(FreeFiles)].ref = 0 /\ ftable[Min(FreeFiles)].type = "FD_NONE"
         /\ ftable' \in [File -> FileRec]
         /\ SameKinds
         /\ \A f \in File : ftable'[f].ref = IF f = Min(FreeFiles) THEN 1 ELSE ftable[f].ref
<1> DEFINE m == Min(FreeFiles)
<1>1. FreeFiles \in SUBSET Nat BY DEF FreeFiles, File
<1>2. m \in FreeFiles BY <1>1, MinIn, Zenon
<1>3. m \in File /\ ftable[m].ref = 0 BY <1>2, Zenon DEF FreeFiles
<1>4. m # 0 BY <1>3 DEF File
<1>5. ftable' = [ftable EXCEPT ![m].ref = 1] BY Zenon DEF Taken
<1> HIDE DEF m
<1>6. \A f \in File : ftable[f] \in FileRec BY Zenon DEF TypeInv
<1>7. \A f \in File : ftable'[f] = IF f = m THEN [ftable[f] EXCEPT !.ref = 1] ELSE ftable[f]
  BY <1>5, Zenon DEF TypeInv
<1>8. [ftable[m] EXCEPT !.ref = 1] \in FileRec BY <1>3, <1>6, Zenon DEF FileRec
<1>9. ftable' \in [File -> FileRec] BY <1>3, <1>5, <1>8, Zenon DEF TypeInv
<1>10. \A f \in File : /\ ftable'[f].ref = IF f = m THEN 1 ELSE ftable[f].ref
                       /\ ftable'[f].type = ftable[f].type /\ ftable'[f].page = ftable[f].page
                       /\ ftable'[f].writable = ftable[f].writable
  BY <1>6, <1>7, Zenon DEF FileRec
<1> QED BY <1>3, <1>4, <1>9, <1>10, Zenon DEF NoneInv, SameKinds, m

(* Counts are numbers.                                                     *)
LEMMA RefNat ==
  ASSUME TypeInv
  PROVE  \A f \in File : f # 0 /\ ftable[f].ref \in Nat
<1>1. \A f \in File : ftable[f] \in FileRec BY Zenon DEF TypeInv
<1> QED BY <1>1 DEF File, FileRec

(* So are the references in hand.                                          *)
LEMMA MineInt ==
  ASSUME NEW p, NEW f
  PROVE  Mine(p, f) \in Int /\ Mine(p, f)' \in Int
<1>1. Listed(f, closing[p]) \in Int /\ Listed(f, closing'[p]) \in Int BY DEF Listed, Is
<1> QED BY <1>1 DEF Mine, Is

(* What names a file names one of the table.                               *)
LEMMA InTable ==
  ASSUME TypeInv, HandInv
  PROVE  /\ \A p \in FProcs, d \in Fd : ofile[p][d] # 0 => ofile[p][d] \in File
         /\ \A p \in FProcs : fpc[p] \in {"filealloc2", "kalloc", "fdalloc", "fdalloc2", "filedup"} => rf[p] \in File
         /\ \A p \in FProcs : fpc[p] \in {"kalloc", "fdalloc2"} => wf[p] \in File
<1>1. /\ \A p \in FProcs, d \in Fd : ofile[p][d] # 0 => ofile[p][d] \in File
      /\ \A p \in FProcs : rf[p] # 0 => rf[p] \in File
      /\ \A p \in FProcs : wf[p] # 0 => wf[p] \in File
  BY DEF TypeInv, File
<1> QED BY <1>1, Zenon DEF HandInv, HasRf, HasWf

(* open takes a file, or gives its inode back when there is none.          *)
LEMMA OpenFileKeeps ==
  ASSUME FInv, NEW p \in FProcs, openfile(p)
  PROVE  FInv'
<1> USE DEF FInv
<1>1. /\ fpc[p] = "filealloc"
      /\ UNCHANGED <<ofile, wf, closing, ff, ofd, kid, pipeends, fpanic>>
  BY Zenon DEF openfile, Doing
<1>2. Cardinality(InodeFiles) \in Nat /\ Cardinality(InodeLast) \in Nat /\ Cardinality(InodeCalls) \in Nat
  BY Finite, Zenon DEF InodeFiles, InodeLast, InodeCalls
<1>3. CASE FreeFiles = {}
  <2>1. fpc' = [fpc EXCEPT ![p] = "user"] /\ irefs' = irefs - 1 /\ UNCHANGED <<ftable, rf>>
    BY <1>3, Zenon DEF openfile, to
  <2>2. \A q \in FProcs : fpc'[q] = IF q = p THEN "user" ELSE fpc[q] BY <2>1, Zenon DEF TypeInv
  <2>3. TypeInv'
    <3>1. fpc' \in [FProcs -> PCs] BY <2>1, Zenon DEF TypeInv, PCs, Idle
    <3>2. irefs' \in Int BY <2>1 DEF TypeInv
    <3> QED BY <1>1, <2>1, <3>1, <3>2, Zenon DEF TypeInv
  <2>4. HandInv' BY <1>1, <2>1, <2>2 DEF HandInv, HasRf, HasWf
  <2>5. ProcInv' BY <1>1, <2>1, <2>2 DEF ProcInv
  <2>6. DupInv' BY <1>1, <2>1, <2>2, DupsSame
  <2>7. NoneInv' BY <1>1, <2>1, <2>2 DEF NoneInv
  <2>8. EndInv' BY <1>1, <2>1, EndsSame, Zenon DEF SameKinds
  <2>9. InodeInv'
    <3>1. InodeFiles' = InodeFiles /\ InodeLast' = InodeLast BY <1>1, <2>1, Zenon DEF InodeFiles, InodeLast
    <3>2. InodeCalls' = InodeCalls \ {p} /\ p \in InodeCalls BY <1>1, <2>2, Zenon DEF InodeCalls
    <3>3. Cardinality(InodeCalls') = Cardinality(InodeCalls) - 1
      BY <3>2, Finite, FS_RemoveElement, Zenon DEF InodeCalls
    <3> QED BY <1>2, <2>1, <3>1, <3>3 DEF InodeInv
  <2>10. RefsAreDescriptors'
    <3>1. OthersKeep(p) BY <1>1, <2>1, <2>2, Zenon DEF OthersKeep
    <3>2. \A f \in File : Mine(p, f)' = Mine(p, f) BY <1>1, <2>1, <2>2 DEF Mine
    <3> QED BY <1>1, <2>1, <2>3, <3>1, <3>2, RefsChange, Zenon
  <2> QED BY <1>1, <2>3, <2>4, <2>5, <2>6, <2>7, <2>8, <2>9, <2>10, Zenon DEF FNoPanic
<1>4. CASE FreeFiles # {}
  <2> DEFINE m == Min(FreeFiles)
  <2>1. /\ ftable' = Taken(m) /\ rf' = [rf EXCEPT ![p] = m] /\ fpc' = [fpc EXCEPT ![p] = "fdalloc"]
        /\ irefs' = irefs
    BY <1>4, Zenon DEF openfile, to
  <2>2. /\ m \in File /\ m # 0 /\ ftable[m].ref = 0 /\ ftable[m].type = "FD_NONE"
        /\ ftable' \in [File -> FileRec] /\ SameKinds
        /\ \A f \in File : ftable'[f].ref = IF f = m THEN 1 ELSE ftable[f].ref
    BY <1>4, <2>1, Takes, Zenon
  <2> HIDE DEF m
  <2>3. \A q \in FProcs : /\ fpc'[q] = IF q = p THEN "fdalloc" ELSE fpc[q]
                          /\ rf'[q] = IF q = p THEN m ELSE rf[q]
    BY <2>1, Zenon DEF TypeInv
  <2>4. TypeInv'
    <3>1. fpc' \in [FProcs -> PCs] BY <2>1, Zenon DEF TypeInv, PCs, HasRf
    <3>2. rf' \in [FProcs -> 0..NFILE] BY <2>1, <2>2 DEF TypeInv, File
    <3> QED BY <1>1, <2>1, <2>2, <3>1, <3>2, Zenon DEF TypeInv
  <2>5. HandInv' BY <1>1, <2>2, <2>3 DEF HandInv, HasRf, HasWf
  <2>6. ProcInv' BY <1>1, <2>3 DEF ProcInv
  <2>7. DupInv' BY <1>1, <2>3, DupsSame, Zenon
  <2>8. NoneInv'
    <3>1. \A q \in FProcs : q # p => fpc'[q] = fpc[q] /\ rf'[q] = rf[q] /\ wf'[q] = wf[q] BY <1>1, <2>3, Zenon
    <3>2. fpc'[p] = "fdalloc" /\ rf'[p] = m BY <2>3, Zenon
    <3>3. \A f \in File : (f = m \/ ftable'[f].ref = ftable[f].ref) /\ ftable'[f].type = ftable[f].type
      BY <2>2, Zenon DEF SameKinds
    <3>4. ftable'[m].ref = 1 BY <2>2, Zenon
    <3> QED BY <1>1, <2>2, <3>1, <3>2, <3>3, <3>4, InTable DEF NoneInv
  <2>9. EndInv' BY <1>1, <2>2, EndsSame, Zenon
  <2>10. InodeInv' BY <1>1, <2>1, <2>2, <2>3, InodesSame, Zenon
  <2>11. RefsAreDescriptors'
    <3>1. OthersKeep(p) BY <1>1, <2>3, Zenon DEF OthersKeep
    <3>2. \A f \in File : ftable'[f].ref + Mine(p, f) = ftable[f].ref + Mine(p, f)'
      <4> SUFFICES ASSUME NEW f \in File PROVE ftable'[f].ref + Mine(p, f) = ftable[f].ref + Mine(p, f)' BY Zenon
      <4>1. rf[p] = 0 /\ f # 0 BY <1>1 DEF HandInv, HasRf, File
      <4>2. Listed(f, closing[p]) \in Int BY DEF Listed, Is
      <4>3. ftable[f].ref \in Nat BY Zenon DEF TypeInv, FileRec
      <4> QED BY <1>1, <2>2, <2>3, <4>1, <4>2, <4>3 DEF Mine, Is
    <3> QED BY <1>1, <2>1, <2>4, <3>1, <3>2, RefsChange, Zenon
  <2> QED BY <1>1, <2>4, <2>5, <2>6, <2>7, <2>8, <2>9, <2>10, <2>11, Zenon DEF FNoPanic
<1> QED BY <1>3, <1>4, Zenon

(* open gives its file a descriptor and a type; without a descriptor the   *)
(* file, which has no type yet, is closed and the inode given back.        *)
LEMMA OpenFdKeeps ==
  ASSUME FInv, NEW p \in FProcs, openfd(p)
  PROVE  FInv'
<1> USE DEF FInv
<1> DEFINE f0 == rf[p]
<1>1. /\ fpc[p] = "fdalloc" /\ rf' = [rf EXCEPT ![p] = 0]
      /\ UNCHANGED <<wf, ff, ofd, kid, pipeends, fpanic>>
  BY Zenon DEF openfd, Doing
<1>2. Cardinality(InodeFiles) \in Nat /\ Cardinality(InodeLast) \in Nat /\ Cardinality(InodeCalls) \in Nat
  BY Finite, Zenon DEF InodeFiles, InodeLast, InodeCalls
<1>3. f0 \in File /\ ftable[f0].type = "FD_NONE" /\ f0 # 0
  <2>1. f0 \in File BY <1>1, InTable, Zenon
  <2> QED BY <1>1, <2>1 DEF NoneInv, File
<1>4. closing[p] = <<>> /\ wf[p] = 0 BY <1>1, Zenon DEF HandInv, HasWf
<1>5. \A q \in FProcs : rf'[q] = IF q = p THEN 0 ELSE rf[q] BY <1>1, Zenon DEF TypeInv
<1>6. rf' \in [FProcs -> 0..NFILE] BY <1>1, FAssumption DEF TypeInv
<1>7. CASE FreeFds(p) = {}
  <2>1. /\ closing' = [closing EXCEPT ![p] = <<f0>>] /\ fpc' = [fpc EXCEPT ![p] = "close"]
        /\ irefs' = irefs - 1 /\ UNCHANGED <<ftable, ofile>>
    BY <1>7, Zenon DEF openfd, CloseAll, to
  <2> HIDE DEF f0
  <2>2. \A q \in FProcs : /\ fpc'[q] = IF q = p THEN "close" ELSE fpc[q]
                          /\ closing'[q] = IF q = p THEN <<f0>> ELSE closing[q]
    BY <2>1, Zenon DEF TypeInv
  <2>3. TypeInv'
    <3>1. fpc' \in [FProcs -> PCs] BY <2>1, Zenon DEF TypeInv, PCs
    <3>2. irefs' \in Int BY <2>1 DEF TypeInv
    <3>3. closing' \in [FProcs -> Seq(File)] /\ \A q \in FProcs : Len(closing'[q]) <= 2
      <4>1. <<f0>> \in Seq(File) /\ Len(<<f0>>) = 1 BY <1>3
      <4> QED BY <2>1, <2>2, <4>1 DEF TypeInv
    <3> QED BY <1>1, <1>6, <2>1, <3>1, <3>2, <3>3, Zenon DEF TypeInv
  <2>4. HandInv' BY <1>1, <1>4, <1>5, <2>1, <2>2 DEF HandInv, HasRf, HasWf
  <2>5. ProcInv' BY <1>1, <2>1, <2>2 DEF ProcInv
  <2>6. DupInv' BY <1>1, <1>5, <2>1, <2>2, DupsSame
  <2>7. NoneInv' BY <1>1, <1>5, <2>1, <2>2 DEF NoneInv
  <2>8. EndInv' BY <1>1, <2>1, EndsSame, Zenon DEF SameKinds
  <2>9. InodeInv'
    <3>1. InodeFiles' = InodeFiles /\ InodeLast' = InodeLast BY <1>1, <2>1, Zenon DEF InodeFiles, InodeLast
    <3>2. InodeCalls' = InodeCalls \ {p} /\ p \in InodeCalls BY <1>1, <2>2, Zenon DEF InodeCalls
    <3>3. Cardinality(InodeCalls') = Cardinality(InodeCalls) - 1
      BY <3>2, Finite, FS_RemoveElement, Zenon DEF InodeCalls
    <3> QED BY <1>2, <2>1, <3>1, <3>3 DEF InodeInv
  <2>10. RefsAreDescriptors'
    <3>1. OthersKeep(p) BY <1>1, <1>5, <2>2, Zenon DEF OthersKeep
    <3>2. \A f \in File : Mine(p, f)' = Mine(p, f)
      <4> SUFFICES ASSUME NEW f \in File PROVE Mine(p, f)' = Mine(p, f) BY Zenon
      <4>1. Listed(f, <<>>) = 0 /\ Listed(f, <<f0>>) = Is(f, f0) BY DEF Listed, Is
      <4>2. f # 0 BY DEF File
      <4> QED BY <1>1, <1>4, <1>5, <2>2, <4>1, <4>2 DEF Mine, Is, f0
    <3> QED BY <1>1, <2>1, <2>3, <3>1, <3>2, RefsChange, Zenon
  <2> QED BY <1>1, <2>3, <2>4, <2>5, <2>6, <2>7, <2>8, <2>9, <2>10, Zenon DEF FNoPanic
<1>8. CASE FreeFds(p) # {}
  <2> DEFINE d0 == Min(FreeFds(p))
  <2>1. /\ ofile' = [ofile EXCEPT ![p][d0] = f0] /\ ftable' = [ftable EXCEPT ![f0].type = "FD_INODE"]
        /\ fpc' = [fpc EXCEPT ![p] = "user"] /\ UNCHANGED <<closing, irefs>>
    BY <1>8, Zenon DEF openfd, to
  <2>2. d0 \in Fd /\ ofile[p][d0] = 0
    <3>1. FreeFds(p) \in SUBSET Nat BY DEF FreeFds, Fd
    <3> QED BY <1>8, <3>1, MinIn, Zenon DEF FreeFds
  <2> HIDE DEF f0, d0
  <2>3. \A q \in FProcs : fpc'[q] = IF q = p THEN "user" ELSE fpc[q] BY <2>1, Zenon DEF TypeInv
  <2>4. \A q \in FProcs, d \in Fd : ofile'[q][d] = IF q = p /\ d = d0 THEN f0 ELSE ofile[q][d]
    BY <2>1, <2>2, Zenon DEF TypeInv
  <2>5. /\ ftable' \in [File -> FileRec]
        /\ \A f \in File : /\ ftable'[f].ref = ftable[f].ref /\ ftable'[f].page = ftable[f].page
                           /\ ftable'[f].writable = ftable[f].writable
                           /\ ftable'[f].type = IF f = f0 THEN "FD_INODE" ELSE ftable[f].type
    <3>1. \A f \in File : ftable[f] \in FileRec BY Zenon DEF TypeInv
    <3>2. \A f \in File : ftable'[f] = IF f = f0 THEN [ftable[f] EXCEPT !.type = "FD_INODE"] ELSE ftable[f]
      BY <2>1, Zenon DEF TypeInv
    <3>3. [ftable[f0] EXCEPT !.type = "FD_INODE"] \in FileRec BY <1>3, <3>1, Zenon DEF FileRec
    <3>4. ftable' \in [File -> FileRec] BY <1>3, <2>1, <3>3, Zenon DEF TypeInv
    <3>5. \A f \in File : /\ ftable'[f].ref = ftable[f].ref /\ ftable'[f].page = ftable[f].page
                          /\ ftable'[f].writable = ftable[f].writable
                          /\ ftable'[f].type = IF f = f0 THEN "FD_INODE" ELSE ftable[f].type
      BY <3>1, <3>2, Zenon DEF FileRec
    <3> QED BY <3>4, <3>5, Zenon
  <2>6. TypeInv'
    <3>1. fpc' \in [FProcs -> PCs] BY <2>1, Zenon DEF TypeInv, PCs, Idle
    <3>2. ofile' \in [FProcs -> [Fd -> 0..NFILE]]
      <4>1. f0 \in 0..NFILE BY <1>3 DEF File
      <4> QED BY <2>1, <2>2, <4>1, Zenon DEF TypeInv
    <3> QED BY <1>1, <1>6, <2>1, <2>5, <3>1, <3>2, Zenon DEF TypeInv
  <2>7. HandInv' BY <1>1, <1>4, <1>5, <2>1, <2>3, <2>4 DEF HandInv, HasRf, HasWf
  <2>8. ProcInv' BY <1>1, <2>3, <2>4 DEF ProcInv
  <2>9. DupInv' BY <1>1, <1>5, <2>3, <2>4, DupsSame, Zenon
  <2>10. NoneInv'
    <3>1. \A q \in FProcs : fpc[q] # "filedup" /\ rf[q] = f0 => q = p BY <1>1, <1>3, NoneAlone, Zenon DEF f0
    <3>2. \A q \in FProcs : wf[q] # f0 BY <1>1, <1>3, NoneAlone, Zenon DEF f0
    <3>3. \A f \in File : f # f0 => ftable'[f].type = ftable[f].type BY <2>5, Zenon
    <3>4. ftable'[f0].type # "FD_NONE" BY <1>3, <2>5, Zenon
    <3>5. \A f \in File : ftable'[f].ref = ftable[f].ref BY <2>5, Zenon
    <3>6. /\ \A f \in File : ftable'[f].ref = 0 => ftable'[f].type = "FD_NONE"
          /\ \A f \in File : ftable'[f].type = "FD_NONE" => ftable'[f].ref <= 1
      <4>1. ftable[f0].ref # 0
        <5>1. p \in InRf(f0) BY <1>1, Zenon DEF InRf, f0
        <5> QED BY <5>1, <1>3, Named, RefNat
      <4> QED BY <1>3, <3>3, <3>4, <3>5, <4>1 DEF NoneInv
    <3>7. \A q \in FProcs, d \in Fd : ofile'[q][d] # 0 => ftable'[ofile'[q][d]].type # "FD_NONE"
      BY <2>4, <3>3, <3>4, InTable DEF NoneInv
    <3>8. \A q \in FProcs : q # p => fpc'[q] = fpc[q] /\ rf'[q] = rf[q] /\ wf'[q] = wf[q]
      BY <1>1, <1>5, <2>3, Zenon
    <3>9. fpc'[p] = "user" BY <2>3, Zenon
    <3>10. \A q \in FProcs : fpc'[q] \in {"filealloc2", "kalloc", "fdalloc"} => ftable'[rf'[q]].type = "FD_NONE"
      BY <3>1, <3>3, <3>8, <3>9, InTable DEF NoneInv
    <3>11. \A q \in FProcs : fpc'[q] = "kalloc" => ftable'[wf'[q]].type = "FD_NONE"
      BY <3>2, <3>3, <3>8, <3>9, InTable DEF NoneInv
    <3>12. \A q \in FProcs : fpc'[q] = "fdalloc2" =>
             ftable'[rf'[q]].type # "FD_NONE" /\ ftable'[wf'[q]].type # "FD_NONE"
      BY <3>3, <3>4, <3>8, <3>9, InTable DEF NoneInv
    <3> QED BY <3>6, <3>7, <3>10, <3>11, <3>12, Zenon DEF NoneInv
  <2>11. EndInv'
    <3>1. \A f \in File, g \in PipePages, e \in {"r", "w"} :
            IsEnd(ftable'[f], g, e) <=> IsEnd(ftable[f], g, e)
      BY <1>3, <2>5, Zenon DEF IsEnd, End
    <3>2. HasPage' BY <1>1, <1>3, <2>5, Zenon DEF EndInv, HasPage
    <3> QED BY <1>1, <3>1, <3>2, EndsAlike, Zenon
  <2>12. InodeInv'
    <3>1. InodeLast' = InodeLast BY <1>1, Zenon DEF InodeLast
    <3>2. InodeCalls' = InodeCalls \ {p} /\ p \in InodeCalls BY <1>1, <2>3, Zenon DEF InodeCalls
    <3>3. Cardinality(InodeCalls') = Cardinality(InodeCalls) - 1
      BY <3>2, Finite, FS_RemoveElement, Zenon DEF InodeCalls
    <3>4. InodeFiles' = InodeFiles \cup {f0} /\ f0 \notin InodeFiles BY <1>3, <2>5, Zenon DEF InodeFiles
    <3>5. Cardinality(InodeFiles') = Cardinality(InodeFiles) + 1
      BY <3>4, Finite, FS_AddElement, Zenon DEF InodeFiles
    <3> QED BY <1>2, <2>1, <3>1, <3>3, <3>5 DEF InodeInv
  <2>13. RefsAreDescriptors'
    <3>1. OthersKeep(p) BY <1>1, <1>5, <2>1, <2>3, Zenon DEF OthersKeep
    <3>2. ASSUME NEW f \in File
          PROVE  ftable'[f].ref + Mine(p, f) + Cardinality(Cells(ofile, f))
                 = ftable[f].ref + Mine(p, f)' + Cardinality(Cells(ofile', f))
      <4>1. f # 0 /\ ftable[f].ref \in Nat BY RefNat, Zenon
      <4>2. Cardinality(Cells(ofile', f)) + Is(f, 0) = Cardinality(Cells(ofile, f)) + Is(f, f0)
        <5>1. SameBut(ofile, ofile', p, d0) BY <2>4, Zenon DEF SameBut
        <5>2. ofile'[p][d0] = f0 BY <2>2, <2>4, Zenon
        <5>3. Cardinality(Cells(ofile', f)) + Is(f, ofile[p][d0]) = Cardinality(Cells(ofile, f)) + Is(f, ofile'[p][d0])
          BY <2>2, <5>1, DescriptorChange
        <5> QED BY <2>2, <5>2, <5>3, Zenon
      <4>3. Listed(f, <<>>) = 0 BY DEF Listed
      <4>4. Mine(p, f) = Is(f, f0) /\ Mine(p, f)' = 0
        BY <1>1, <1>4, <1>5, <2>1, <2>3, <4>1, <4>3 DEF Mine, Is, f0
      <4>5. Cardinality(Cells(ofile, f)) \in Nat /\ Cardinality(Cells(ofile', f)) \in Nat
        BY Finite, Zenon DEF Cells
      <4> QED BY <2>5, <4>1, <4>2, <4>4, <4>5 DEF Is
    <3> QED BY <2>6, <3>1, <3>2, RefsChange, Zenon
  <2> QED BY <1>1, <2>6, <2>7, <2>8, <2>9, <2>10, <2>11, <2>12, <2>13, Zenon DEF FNoPanic
<1> QED BY <1>7, <1>8, Zenon

(* sys_pipe takes the file of the read end.                                *)
LEMMA PipeKeeps ==
  ASSUME FInv, NEW p \in FProcs, sys_pipe(p)
  PROVE  FInv'
<1> USE DEF FInv
<1> DEFINE m == Min(FreeFiles)
<1>1. /\ fpc[p] = "user" /\ FreeFiles # {}
      /\ ftable' = Taken(m) /\ rf' = [rf EXCEPT ![p] = m] /\ fpc' = [fpc EXCEPT ![p] = "filealloc2"]
      /\ UNCHANGED <<ofile, wf, closing, ff, ofd, kid, pipeends, irefs, fpanic>>
  BY Zenon DEF sys_pipe, Doing, to, objects
<1>2. /\ m \in File /\ m # 0 /\ ftable[m].ref = 0 /\ ftable[m].type = "FD_NONE"
      /\ ftable' \in [File -> FileRec] /\ SameKinds
      /\ \A f \in File : ftable'[f].ref = IF f = m THEN 1 ELSE ftable[f].ref
  BY <1>1, Takes, Zenon
<1> HIDE DEF m
<1>3. \A q \in FProcs : /\ fpc'[q] = IF q = p THEN "filealloc2" ELSE fpc[q]
                        /\ rf'[q] = IF q = p THEN m ELSE rf[q]
  BY <1>1, Zenon DEF TypeInv
<1>4. TypeInv'
  <2>1. fpc' \in [FProcs -> PCs] BY <1>1, Zenon DEF TypeInv, PCs, HasRf
  <2>2. rf' \in [FProcs -> 0..NFILE] BY <1>1, <1>2 DEF TypeInv, File
  <2> QED BY <1>1, <1>2, <2>1, <2>2, Zenon DEF TypeInv
<1>5. HandInv' BY <1>1, <1>2, <1>3 DEF HandInv, HasRf, HasWf
<1>6. ProcInv' BY <1>1, <1>3 DEF ProcInv
<1>7. DupInv' BY <1>1, <1>3, DupsSame
<1>8. NoneInv'
  <2>1. \A q \in FProcs : q # p => fpc'[q] = fpc[q] /\ rf'[q] = rf[q] /\ wf'[q] = wf[q] BY <1>1, <1>3, Zenon
  <2>2. fpc'[p] = "filealloc2" /\ rf'[p] = m BY <1>3, Zenon
  <2>3. \A f \in File : (f = m \/ ftable'[f].ref = ftable[f].ref) /\ ftable'[f].type = ftable[f].type
    BY <1>2, Zenon DEF SameKinds
  <2>4. ftable'[m].ref = 1 BY <1>2, Zenon
  <2> QED BY <1>1, <1>2, <2>1, <2>2, <2>3, <2>4, InTable DEF NoneInv
<1>9. EndInv' BY <1>1, <1>2, EndsSame, Zenon
<1>10. InodeInv' BY <1>1, <1>2, <1>3, InodesSame
<1>11. RefsAreDescriptors'
  <2>1. OthersKeep(p) BY <1>1, <1>3, Zenon DEF OthersKeep
  <2>2. ASSUME NEW f \in File PROVE ftable'[f].ref + Mine(p, f) = ftable[f].ref + Mine(p, f)'
    <3>1. f # 0 /\ ftable[f].ref \in Nat BY RefNat, Zenon
    <3>2. rf[p] = 0 BY <1>1, Zenon DEF HandInv, HasRf
    <3>3. Listed(f, closing[p]) \in Int BY DEF Listed, Is
    <3> QED BY <1>1, <1>2, <1>3, <3>1, <3>2, <3>3 DEF Mine, Is
  <2> QED BY <1>1, <1>4, <2>1, <2>2, RefsChange, Zenon
<1> QED BY <1>1, <1>4, <1>5, <1>6, <1>7, <1>8, <1>9, <1>10, <1>11, Zenon DEF FNoPanic

(* A call gives up: the files it has in rf and wf become those to close.   *)
LEMMA GiveUpKeeps ==
  ASSUME FInv, NEW p \in FProcs, fpc[p] \in {"filealloc2", "kalloc", "fdalloc2"},
         rf' = [rf EXCEPT ![p] = 0], wf' = [wf EXCEPT ![p] = 0],
         closing' = [closing EXCEPT ![p] = IF fpc[p] = "filealloc2" THEN <<rf[p]>> ELSE <<rf[p], wf[p]>>],
         fpc' = [fpc EXCEPT ![p] = "close"],
         UNCHANGED <<ftable, ofile, ff, ofd, kid, pipeends, irefs, fpanic>>
  PROVE  FInv'
<1> USE DEF FInv
<1> DEFINE s == IF fpc[p] = "filealloc2" THEN <<rf[p]>> ELSE <<rf[p], wf[p]>>
<1>1. \A q \in FProcs : /\ fpc'[q] = IF q = p THEN "close" ELSE fpc[q]
                        /\ rf'[q] = IF q = p THEN 0 ELSE rf[q]
                        /\ wf'[q] = IF q = p THEN 0 ELSE wf[q]
                        /\ closing'[q] = IF q = p THEN s ELSE closing[q]
  BY Zenon DEF TypeInv
<1>2. /\ rf[p] \in File /\ (fpc[p] # "filealloc2" => wf[p] \in File)
      /\ (fpc[p] = "filealloc2" => wf[p] = 0) /\ closing[p] = <<>>
  BY InTable, Zenon DEF HandInv, HasWf
<1>3. s \in Seq(File) /\ Len(s) <= 2 BY <1>2
<1>4. TypeInv'
  <2>1. fpc' \in [FProcs -> PCs] BY Zenon DEF TypeInv, PCs
  <2>2. rf' \in [FProcs -> 0..NFILE] /\ wf' \in [FProcs -> 0..NFILE] BY FAssumption DEF TypeInv
  <2>3. closing' \in [FProcs -> Seq(File)] /\ \A q \in FProcs : Len(closing'[q]) <= 2
    <3> HIDE DEF s
    <3>1. closing' = [closing EXCEPT ![p] = s] BY Zenon DEF s
    <3>2. closing' \in [FProcs -> Seq(File)] BY <1>3, <3>1, Zenon DEF TypeInv
    <3>3. \A q \in FProcs : Len(closing'[q]) <= 2 BY <1>1, <1>3, Zenon DEF TypeInv
    <3> QED BY <3>2, <3>3, Zenon
  <2> QED BY <2>1, <2>2, <2>3, Zenon DEF TypeInv
<1>5. HandInv' BY <1>1 DEF HandInv, HasRf, HasWf
<1>6. ProcInv' BY <1>1 DEF ProcInv
<1>7. DupInv' BY <1>1, DupsSame
<1>8. NoneInv' BY <1>1 DEF NoneInv
<1>9. EndInv' BY EndsSame, Zenon DEF SameKinds
<1>10. InodeInv' BY <1>1, InodesSame DEF SameKinds
<1>11. RefsAreDescriptors'
  <2>1. OthersKeep(p) BY <1>1, Zenon DEF OthersKeep
  <2>2. ASSUME NEW f \in File PROVE Mine(p, f)' = Mine(p, f)
    <3>1. f # 0 BY RefNat, Zenon
    <3>2. Listed(f, <<>>) = 0 BY DEF Listed
    <3>3. Listed(f, s) = Is(f, rf[p]) + Is(f, wf[p]) BY <1>2, <3>1 DEF Listed, Is
    <3> HIDE DEF s
    <3>4. Mine(p, f) = Is(f, rf[p]) + Is(f, wf[p]) BY <1>2, <3>2 DEF Mine, Is
    <3>5. Mine(p, f)' = Listed(f, s) BY <1>1, <3>1, <3>3 DEF Mine, Is
    <3> QED BY <3>3, <3>4, <3>5, Zenon
  <2> QED BY <1>4, <2>1, <2>2, RefsChange, Zenon
<1> QED BY <1>4, <1>5, <1>6, <1>7, <1>8, <1>9, <1>10, <1>11, Zenon DEF FNoPanic

(* ... and that of the write end.                                          *)
LEMMA PipeFileKeeps ==
  ASSUME FInv, NEW p \in FProcs, pipefile(p)
  PROVE  FInv'
<1> USE DEF FInv
<1> DEFINE m == Min(FreeFiles)
<1>1. fpc[p] = "filealloc2" /\ UNCHANGED <<ofile, ff, ofd, kid, pipeends, irefs, fpanic>>
  BY Zenon DEF pipefile, Doing, objects
<1>2. wf[p] = 0 /\ closing[p] = <<>> /\ rf[p] \in File /\ ftable[rf[p]].type = "FD_NONE"
  BY <1>1, InTable, Zenon DEF HandInv, HasWf, NoneInv
<1>3. CASE FreeFiles = {}
  <2>1. /\ closing' = [closing EXCEPT ![p] = <<rf[p]>>] /\ fpc' = [fpc EXCEPT ![p] = "close"]
        /\ rf' = [rf EXCEPT ![p] = 0] /\ UNCHANGED <<ftable, wf>>
    BY <1>3, Zenon DEF pipefile, CloseAll, to
  <2>2. wf' = [wf EXCEPT ![p] = 0] BY <1>2, <2>1, Zenon DEF TypeInv
  <2> QED BY <1>1, <2>1, <2>2, GiveUpKeeps, Zenon
<1>4. CASE FreeFiles # {}
  <2>1. /\ ftable' = Taken(m) /\ wf' = [wf EXCEPT ![p] = m] /\ fpc' = [fpc EXCEPT ![p] = "kalloc"]
        /\ UNCHANGED <<rf, closing>>
    BY <1>4, Zenon DEF pipefile, to
  <2>2. /\ m \in File /\ m # 0 /\ ftable[m].ref = 0 /\ ftable[m].type = "FD_NONE"
        /\ ftable' \in [File -> FileRec] /\ SameKinds
        /\ \A f \in File : ftable'[f].ref = IF f = m THEN 1 ELSE ftable[f].ref
    BY <1>4, <2>1, Takes, Zenon
  <2> HIDE DEF m
  <2>3. \A q \in FProcs : /\ fpc'[q] = IF q = p THEN "kalloc" ELSE fpc[q]
                          /\ wf'[q] = IF q = p THEN m ELSE wf[q]
    BY <2>1, Zenon DEF TypeInv
  <2>4. TypeInv'
    <3>1. fpc' \in [FProcs -> PCs] BY <2>1, Zenon DEF TypeInv, PCs, HasRf
    <3>2. wf' \in [FProcs -> 0..NFILE] BY <2>1, <2>2 DEF TypeInv, File
    <3> QED BY <1>1, <2>1, <2>2, <3>1, <3>2, Zenon DEF TypeInv
  <2>5. HandInv' BY <1>1, <2>1, <2>2, <2>3 DEF HandInv, HasRf, HasWf
  <2>6. ProcInv' BY <1>1, <2>3 DEF ProcInv
  <2>7. DupInv' BY <1>1, <2>1, <2>3, DupsSame
  <2>8. NoneInv'
    <3>1. \A q \in FProcs : q # p => fpc'[q] = fpc[q] /\ rf'[q] = rf[q] /\ wf'[q] = wf[q] BY <2>1, <2>3, Zenon
    <3>2. fpc'[p] = "kalloc" /\ rf'[p] = rf[p] /\ wf'[p] = m BY <2>1, <2>3, Zenon
    <3>3. \A f \in File : (f = m \/ ftable'[f].ref = ftable[f].ref) /\ ftable'[f].type = ftable[f].type
      BY <2>2, Zenon DEF SameKinds
    <3>4. ftable'[m].ref = 1 BY <2>2, Zenon
    <3> QED BY <1>1, <1>2, <2>2, <3>1, <3>2, <3>3, <3>4, InTable DEF NoneInv
  <2>9. EndInv' BY <1>1, <2>2, EndsSame, Zenon
  <2>10. InodeInv' BY <1>1, <2>2, <2>3, InodesSame, Zenon
  <2>11. RefsAreDescriptors'
    <3>1. OthersKeep(p) BY <2>1, <2>3, Zenon DEF OthersKeep
    <3>2. ASSUME NEW f \in File PROVE ftable'[f].ref + Mine(p, f) = ftable[f].ref + Mine(p, f)'
      <4>1. f # 0 /\ ftable[f].ref \in Nat BY RefNat, Zenon
      <4>2. Listed(f, closing[p]) \in Int BY DEF Listed, Is
      <4> QED BY <1>1, <1>2, <2>1, <2>2, <2>3, <4>1, <4>2 DEF Mine, Is
    <3> QED BY <1>1, <2>4, <3>1, <3>2, RefsChange, Zenon
  <2> QED BY <1>1, <2>4, <2>5, <2>6, <2>7, <2>8, <2>9, <2>10, <2>11, Zenon DEF FNoPanic
<1> QED BY <1>3, <1>4, Zenon

(* pipealloc: a page makes the two files ends of a pipe; without one they  *)
(* are closed.                                                             *)
LEMMA PipePageKeeps ==
  ASSUME FInv, NEW p \in FProcs, pipepage(p)
  PROVE  FInv'
<1> USE DEF FInv
<1>1. fpc[p] = "kalloc" /\ UNCHANGED <<ofile, ff, ofd, kid, irefs, fpanic>>
  BY Zenon DEF pipepage, Doing
<1>2. CASE /\ CloseAll(p, <<rf[p], wf[p]>>)
           /\ rf' = [rf EXCEPT ![p] = 0] /\ wf' = [wf EXCEPT ![p] = 0]
           /\ UNCHANGED <<ftable, pipeends>>
  <2>1. closing' = [closing EXCEPT ![p] = <<rf[p], wf[p]>>] /\ fpc' = [fpc EXCEPT ![p] = "close"]
    BY <1>2, Zenon DEF CloseAll, to
  <2> QED BY <1>1, <1>2, <2>1, GiveUpKeeps, Zenon
<1>3. ASSUME NEW g \in PipePages, pipeends[g] = {}, pipeends' = [pipeends EXCEPT ![g] = {"r", "w"}],
             ftable' = [ftable EXCEPT ![rf[p]] = PipeFile(rf[p], g, FALSE),
                                      ![wf[p]] = PipeFile(wf[p], g, TRUE)],
             fpc' = [fpc EXCEPT ![p] = "fdalloc2"], UNCHANGED <<rf, wf, closing>>
      PROVE  FInv'
  <2> DEFINE fr == rf[p]  fw == wf[p]
  <2>1. /\ fr \in File /\ fw \in File /\ ftable[fr].type = "FD_NONE" /\ ftable[fw].type = "FD_NONE"
        /\ fr # fw /\ fr # 0 /\ fw # 0
    <3>1. /\ fr \in File /\ fw \in File /\ ftable[fr].type = "FD_NONE" /\ ftable[fw].type = "FD_NONE"
      BY <1>1, InTable, Zenon DEF NoneInv
    <3>2. fr # fw BY <1>1, <3>1, NoneAlone, Zenon
    <3> QED BY <3>1, <3>2, RefNat, Zenon
  <2>2. /\ \A q \in FProcs : fpc[q] # "filedup" /\ (rf[q] = fr \/ rf[q] = fw) => q = p
        /\ \A q \in FProcs : wf[q] = fr \/ wf[q] = fw => q = p
    BY <1>1, <2>1, NoneAlone, Zenon
  <2> HIDE DEF fr, fw
  <2>3. \A q \in FProcs : fpc'[q] = IF q = p THEN "fdalloc2" ELSE fpc[q] BY <1>3, Zenon DEF TypeInv
  <2>4. \A f \in File : ftable[f] \in FileRec BY Zenon DEF TypeInv
  <2>5. \A f \in File : ftable'[f] = IF f = fw THEN PipeFile(fw, g, TRUE)
                                     ELSE IF f = fr THEN PipeFile(fr, g, FALSE) ELSE ftable[f]
    BY <1>3, <2>1, Zenon DEF TypeInv, fr, fw
  <2>6. \A f \in File, w \in BOOLEAN :
          /\ PipeFile(f, g, w) \in FileRec /\ PipeFile(f, g, w).ref = ftable[f].ref
          /\ PipeFile(f, g, w).type = "FD_PIPE" /\ PipeFile(f, g, w).page = g
          /\ PipeFile(f, g, w).writable = w
    <3> SUFFICES ASSUME NEW f \in File, NEW w \in BOOLEAN
                 PROVE  /\ PipeFile(f, g, w) \in FileRec /\ PipeFile(f, g, w).ref = ftable[f].ref
                        /\ PipeFile(f, g, w).type = "FD_PIPE" /\ PipeFile(f, g, w).page = g
                        /\ PipeFile(f, g, w).writable = w
      BY Zenon
    <3>1. ftable[f] \in FileRec BY <2>4, Zenon
    <3> QED BY <3>1, Zenon DEF PipeFile, FileRec
  <2>7. /\ ftable'[fr].type = "FD_PIPE" /\ ftable'[fr].page = g /\ ftable'[fr].writable = FALSE
        /\ ftable'[fw].type = "FD_PIPE" /\ ftable'[fw].page = g /\ ftable'[fw].writable = TRUE
        /\ \A f \in File : f # fr /\ f # fw => ftable'[f] = ftable[f]
        /\ \A f \in File : ftable'[f].ref = ftable[f].ref
    BY <2>1, <2>5, <2>6, Zenon
  <2>8. TypeInv'
    <3>1. fpc' \in [FProcs -> PCs] BY <1>3, Zenon DEF TypeInv, PCs, HasRf
    <3>2. ftable' \in [File -> FileRec]
      <4>1. DOMAIN ftable' = File /\ ftable' = [f \in File |-> ftable'[f]] BY <1>3, Zenon DEF TypeInv
      <4>2. \A f \in File : ftable'[f] \in FileRec BY <2>1, <2>4, <2>5, <2>6, Zenon
      <4> QED BY <4>1, <4>2, Zenon
    <3>3. pipeends' \in [PipePages -> SUBSET {"r", "w"}] BY <1>3, Zenon DEF TypeInv
    <3> QED BY <1>1, <1>3, <3>1, <3>2, <3>3, Zenon DEF TypeInv
  <2>9. HandInv' BY <1>1, <1>3, <2>3 DEF HandInv, HasRf, HasWf
  <2>10. ProcInv' BY <1>1, <2>3 DEF ProcInv
  <2>11. DupInv' BY <1>1, <1>3, <2>3, DupsSame
  <2>12. NoneInv'
    <3>1. \A f \in File : f # fr /\ f # fw => ftable'[f].type = ftable[f].type BY <2>7, Zenon
    <3>2. ftable'[fr].type # "FD_NONE" /\ ftable'[fw].type # "FD_NONE" BY <2>7, Zenon
    <3>3. \A f \in File : ftable'[f].ref = ftable[f].ref BY <2>7, Zenon
    <3>4. /\ \A f \in File : ftable'[f].ref = 0 => ftable'[f].type = "FD_NONE"
          /\ \A f \in File : ftable'[f].type = "FD_NONE" => ftable'[f].ref <= 1
      <4>1. ftable[fr].ref # 0 /\ ftable[fw].ref # 0
        <5>1. p \in InRf(fr) /\ p \in InWf(fw) BY <1>1, Zenon DEF InRf, InWf, fr, fw
        <5> QED BY <5>1, <2>1, Named, RefNat
      <4> QED BY <2>1, <3>1, <3>2, <3>3, <4>1 DEF NoneInv
    <3>5. \A q \in FProcs, d \in Fd : ofile[q][d] # 0 => ftable'[ofile[q][d]].type # "FD_NONE"
      BY <3>1, <3>2, InTable DEF NoneInv
    <3>6. \A q \in FProcs : q # p => fpc'[q] = fpc[q] BY <2>3, Zenon
    <3>7. fpc'[p] = "fdalloc2" BY <2>3, Zenon
    <3>8. \A q \in FProcs : fpc'[q] \in {"filealloc2", "kalloc", "fdalloc"} => ftable'[rf[q]].type = "FD_NONE"
      BY <2>2, <3>1, <3>6, <3>7, InTable, Zenon DEF NoneInv
    <3>9. \A q \in FProcs : fpc'[q] = "kalloc" => ftable'[wf[q]].type = "FD_NONE"
      BY <2>2, <3>1, <3>6, <3>7, InTable, Zenon DEF NoneInv
    <3>10. \A q \in FProcs : fpc'[q] = "fdalloc2" =>
             ftable'[rf[q]].type # "FD_NONE" /\ ftable'[wf[q]].type # "FD_NONE"
      BY <3>1, <3>2, <3>6, <3>7, InTable, Zenon DEF NoneInv, fr, fw
    <3>11. ofile' = ofile /\ rf' = rf /\ wf' = wf BY <1>1, <1>3, Zenon
    <3> HIDE DEF FInv
    <3> QED BY <3>4, <3>5, <3>8, <3>9, <3>10, <3>11, Zenon DEF NoneInv
  <2>13. EndInv'
    <3>1. HasPage' BY <1>1, <2>7, Zenon DEF EndInv, HasPage
    <3>2. \A e \in {"r", "w"} : /\ \A f \in File : ~IsEnd(ftable[f], g, e)
                                /\ \A q \in FProcs : ~IsEnd(ff[q], g, e)
      BY <1>3, Zenon DEF EndInv, EndsOpen
    <3>3. \A h \in PipePages : pipeends'[h] = IF h = g THEN {"r", "w"} ELSE pipeends[h]
      BY <1>3, Zenon DEF TypeInv
    <3>4. /\ \A h, e : IsEnd(ftable'[fr], h, e) <=> h = g /\ e = "r"
          /\ \A h, e : IsEnd(ftable'[fw], h, e) <=> h = g /\ e = "w"
      BY <2>7, Zenon DEF IsEnd, End
    <3>5. \A h, e : ~IsEnd(ftable[fr], h, e) /\ ~IsEnd(ftable[fw], h, e) BY <2>1, Zenon DEF IsEnd
    <3>6. \A f \in File, h \in PipePages, e \in {"r", "w"} :
            IsEnd(ftable'[f], h, e) <=> IF h = g THEN f = IF e = "r" THEN fr ELSE fw
                                                 ELSE IsEnd(ftable[f], h, e)
      <4> SUFFICES ASSUME NEW f \in File, NEW h \in PipePages, NEW e \in {"r", "w"}
                   PROVE  IsEnd(ftable'[f], h, e) <=> IF h = g THEN f = IF e = "r" THEN fr ELSE fw
                                                               ELSE IsEnd(ftable[f], h, e)
        BY Zenon
      <4>1. CASE f = fr BY <4>1, <2>1, <3>4, <3>5, Zenon
      <4>2. CASE f = fw BY <4>2, <2>1, <3>4, <3>5, Zenon
      <4>3. CASE f # fr /\ f # fw BY <4>3, <2>7, <3>2, Zenon
      <4> QED BY <4>1, <4>2, <4>3, Zenon
    <3>7. EndsOpen'
      <4> SUFFICES ASSUME NEW h \in PipePages, NEW e \in {"r", "w"}
                   PROVE  e \in pipeends'[h] <=> \/ \E f \in File : IsEnd(ftable'[f], h, e)
                                                 \/ \E q \in FProcs : IsEnd(ff[q], h, e)
        BY <1>1, Zenon DEF EndsOpen
      <4>1. CASE h = g BY <4>1, <2>1, <3>3, <3>6, Zenon
      <4>2. CASE h # g
        <5>1. pipeends'[h] = pipeends[h] BY <4>2, <3>3, Zenon
        <5>2. \A f \in File : IsEnd(ftable'[f], h, e) <=> IsEnd(ftable[f], h, e) BY <4>2, <3>6, Zenon
        <5> QED BY <5>1, <5>2, Zenon DEF EndInv, EndsOpen
      <4> QED BY <4>1, <4>2, Zenon
    <3>8. EndsApart'
      <4> SUFFICES ASSUME NEW h \in PipePages, NEW e \in {"r", "w"}
                   PROVE  /\ \A f, k \in File : IsEnd(ftable'[f], h, e) /\ IsEnd(ftable'[k], h, e) => f = k
                          /\ \A q, r \in FProcs : IsEnd(ff[q], h, e) /\ IsEnd(ff[r], h, e) => q = r
                          /\ \A f \in File, q \in FProcs : ~(IsEnd(ftable'[f], h, e) /\ IsEnd(ff[q], h, e))
        BY <1>1, Zenon DEF EndsApart
      <4>1. CASE h = g BY <4>1, <3>2, <3>6, Zenon
      <4>2. CASE h # g
        <5>1. \A f \in File : IsEnd(ftable'[f], h, e) <=> IsEnd(ftable[f], h, e) BY <4>2, <3>6, Zenon
        <5> QED BY <5>1, Zenon DEF EndInv, EndsApart
      <4> QED BY <4>1, <4>2, Zenon
    <3> QED BY <3>1, <3>7, <3>8, Zenon DEF EndInv
  <2>14. InodeInv'
    <3>1. InodeFiles' = InodeFiles BY <2>1, <2>7, Zenon DEF InodeFiles
    <3>2. InodeLast' = InodeLast BY <1>1, Zenon DEF InodeLast
    <3>3. InodeCalls' = InodeCalls BY <1>1, <2>3, Zenon DEF InodeCalls
    <3> QED BY <1>1, <3>1, <3>2, <3>3, Zenon DEF InodeInv
  <2>15. RefsAreDescriptors'
    <3>1. OthersKeep(p) BY <1>3, <2>3, Zenon DEF OthersKeep
    <3>2. \A f \in File : Mine(p, f)' = Mine(p, f) BY <1>1, <1>3, <2>3 DEF Mine
    <3> QED BY <1>1, <2>7, <2>8, <3>1, <3>2, RefsChange, Zenon
  <2> QED BY <1>1, <2>8, <2>9, <2>10, <2>11, <2>12, <2>13, <2>14, <2>15, Zenon DEF FNoPanic
<1> QED BY <1>2, <1>3, Zenon DEF pipepage, to

(* sys_pipe gives both files a descriptor, or none.                        *)
LEMMA PipeFdKeeps ==
  ASSUME FInv, NEW p \in FProcs, pipefd(p)
  PROVE  FInv'
<1> USE DEF FInv
<1>1. /\ fpc[p] = "fdalloc2" /\ rf' = [rf EXCEPT ![p] = 0] /\ wf' = [wf EXCEPT ![p] = 0]
      /\ UNCHANGED <<ftable, ff, ofd, kid, pipeends, irefs, fpanic>>
  BY Zenon DEF pipefd, Doing, objects
<1>2. CASE Cardinality(FreeFds(p)) < 2
  <2>1. /\ closing' = [closing EXCEPT ![p] = <<rf[p], wf[p]>>] /\ fpc' = [fpc EXCEPT ![p] = "close"]
        /\ ofile' = ofile
    BY <1>2, Zenon DEF pipefd, CloseAll, to, HalfDone
  <2> QED BY <1>1, <2>1, GiveUpKeeps, Zenon
<1>3. CASE ~(Cardinality(FreeFds(p)) < 2)
  <2> DEFINE d0 == Min(FreeFds(p))  d1 == Min(FreeFds(p) \ {d0})  fr == rf[p]  fw == wf[p]
  <2>1. /\ ofile' = [ofile EXCEPT ![p][d0] = fr, ![p][d1] = fw]
        /\ fpc' = [fpc EXCEPT ![p] = "user"] /\ closing' = closing
    BY <1>3, Zenon DEF pipefd, to
  <2>2. d0 \in Fd /\ d1 \in Fd /\ d0 # d1 /\ ofile[p][d0] = 0 /\ ofile[p][d1] = 0
    <3>1. FreeFds(p) \in SUBSET Nat /\ FreeFds(p) \in SUBSET Fd BY DEF FreeFds, Fd
    <3>2. IsFiniteSet(Fd) BY FAssumption, FS_Interval DEF Fd
    <3>3. IsFiniteSet(FreeFds(p)) /\ Cardinality(FreeFds(p)) \in Nat
      BY <3>1, <3>2, FS_Subset, FS_CardinalityType, Zenon
    <3>4. FreeFds(p) # {}
      <4>1. Cardinality({}) = 0 BY FS_EmptySet, Zenon
      <4>2. Cardinality(FreeFds(p)) # 0 BY <1>3, <3>3
      <4> QED BY <4>1, <4>2, Zenon
    <3>5. d0 \in FreeFds(p) BY <3>1, <3>4, MinIn, Zenon
    <3> HIDE DEF d0
    <3>6. FreeFds(p) \ {d0} # {}
      <4>1. FreeFds(p) \ {d0} = {} => FreeFds(p) = {d0} BY <3>5, Zenon
      <4>2. Cardinality({d0}) = 1 BY FS_Singleton, Zenon
      <4>3. Cardinality(FreeFds(p)) # 1 BY <1>3, <3>3
      <4> QED BY <4>1, <4>2, <4>3, Zenon
    <3>7. d1 \in FreeFds(p) \ {d0}
      <4> DEFINE S == FreeFds(p) \ {d0}
      <4>1. S \in SUBSET Nat /\ S # {} BY <3>1, <3>6, Zenon
      <4> HIDE DEF S
      <4>2. Min(S) \in S BY <4>1, MinIn, Zenon
      <4> QED BY <4>2, Zenon DEF S
    <3> HIDE DEF d1
    <3> QED BY <3>1, <3>5, <3>7, Zenon DEF FreeFds
  <2>3. /\ fr \in File /\ fw \in File /\ ftable[fr].type # "FD_NONE" /\ ftable[fw].type # "FD_NONE"
        /\ closing[p] = <<>>
    BY <1>1, InTable, Zenon DEF NoneInv, HandInv
  <2> HIDE DEF d0, d1, fr, fw
  <2>4. \A q \in FProcs : /\ fpc'[q] = IF q = p THEN "user" ELSE fpc[q]
                          /\ rf'[q] = IF q = p THEN 0 ELSE rf[q]
                          /\ wf'[q] = IF q = p THEN 0 ELSE wf[q]
    BY <1>1, <2>1, Zenon DEF TypeInv
  <2> DEFINE of1 == [ofile EXCEPT ![p][d0] = fr]
  <2>5. of1 \in [FProcs -> [Fd -> 0..NFILE]]
    <3>1. fr \in 0..NFILE BY <2>3 DEF File
    <3> QED BY <2>2, <3>1, Zenon DEF TypeInv
  <2>6. \A q \in FProcs, d \in Fd : of1[q][d] = IF q = p /\ d = d0 THEN fr ELSE ofile[q][d]
    BY <2>2, Zenon DEF TypeInv
  <2>7. ofile' = [of1 EXCEPT ![p][d1] = fw] BY <2>1, Zenon
  <2> HIDE DEF of1
  <2>8. \A q \in FProcs, d \in Fd : ofile'[q][d] = IF q = p /\ d = d1 THEN fw ELSE of1[q][d]
    BY <2>2, <2>5, <2>7, Zenon
  <2>9. TypeInv'
    <3>1. fpc' \in [FProcs -> PCs] BY <2>1, Zenon DEF TypeInv, PCs, Idle
    <3>2. rf' \in [FProcs -> 0..NFILE] /\ wf' \in [FProcs -> 0..NFILE] BY <1>1, FAssumption DEF TypeInv
    <3>3. ofile' \in [FProcs -> [Fd -> 0..NFILE]]
      <4>1. fw \in 0..NFILE BY <2>3 DEF File
      <4> QED BY <2>2, <2>5, <2>7, <4>1, Zenon
    <3> QED BY <1>1, <2>1, <3>1, <3>2, <3>3, Zenon DEF TypeInv
  <2>10. \A q \in FProcs : q # p => \A d \in Fd : ofile'[q][d] = ofile[q][d] BY <2>6, <2>8, Zenon
  <2>11. HandInv' BY <1>1, <2>1, <2>4, <2>10 DEF HandInv, HasRf, HasWf, TypeInv
  <2>12. ProcInv'
    <3>1. ASSUME NEW q \in FProcs, fpc'[q] = "fork"
          PROVE  /\ q # p /\ kid[q] \in FProcs /\ fpc[kid[q]] = "embryo" /\ kid[q] # p
                 /\ \A d \in Fd : d >= ofd[q] => ofile'[kid[q]][d] = 0
      BY <1>1, <2>4, <2>10, <3>1 DEF ProcInv
    <3> QED BY <1>1, <2>4, <2>10, <3>1 DEF ProcInv
  <2>13. DupInv' BY <2>4, <2>10, DupsSame, Zenon
  <2>14. NoneInv'
    <3>1. \A q \in FProcs, d \in Fd : ofile'[q][d] # 0 => ftable[ofile'[q][d]].type # "FD_NONE"
      BY <2>3, <2>6, <2>8 DEF NoneInv
    <3> QED BY <1>1, <2>4, <3>1 DEF NoneInv
  <2>15. EndInv' BY <1>1, EndsSame, Zenon DEF SameKinds
  <2>16. InodeInv' BY <1>1, <2>4, InodesSame, Zenon DEF SameKinds
  <2>17. RefsAreDescriptors'
    <3>1. OthersKeep(p) BY <2>1, <2>4, Zenon DEF OthersKeep
    <3>2. ASSUME NEW f \in File
          PROVE  Mine(p, f) + Cardinality(Cells(ofile, f)) = Mine(p, f)' + Cardinality(Cells(ofile', f))
      <4>1. f # 0 BY RefNat, Zenon
      <4>2. Cardinality(Cells(of1, f)) + Is(f, 0) = Cardinality(Cells(ofile, f)) + Is(f, fr)
        <5>1. SameBut(ofile, of1, p, d0) BY <2>6, Zenon DEF SameBut
        <5>2. of1[p][d0] = fr BY <2>2, <2>6, Zenon
        <5>3. Cardinality(Cells(of1, f)) + Is(f, ofile[p][d0]) = Cardinality(Cells(ofile, f)) + Is(f, of1[p][d0])
          BY <2>2, <5>1, DescriptorChange
        <5> QED BY <2>2, <5>2, <5>3, Zenon
      <4>3. Cardinality(Cells(ofile', f)) + Is(f, 0) = Cardinality(Cells(of1, f)) + Is(f, fw)
        <5>1. SameBut(of1, ofile', p, d1) BY <2>8, Zenon DEF SameBut
        <5>2. ofile'[p][d1] = fw /\ of1[p][d1] = 0 BY <2>2, <2>6, <2>8, Zenon
        <5>3. Cardinality(Cells(ofile', f)) + Is(f, of1[p][d1]) = Cardinality(Cells(of1, f)) + Is(f, ofile'[p][d1])
          BY <2>2, <5>1, DescriptorChange
        <5> QED BY <5>2, <5>3, Zenon
      <4>4. Listed(f, <<>>) = 0 BY DEF Listed
      <4>5. Mine(p, f) = Is(f, fr) + Is(f, fw) /\ Mine(p, f)' = 0
        BY <1>1, <2>1, <2>3, <2>4, <4>1, <4>4 DEF Mine, Is, fr, fw
      <4>6. Cardinality(Cells(ofile, f)) \in Nat /\ Cardinality(Cells(ofile', f)) \in Nat
            /\ Cardinality(Cells(of1, f)) \in Nat
        BY Finite, Zenon DEF Cells
      <4> QED BY <4>1, <4>2, <4>3, <4>5, <4>6 DEF Is
    <3>3. \A f \in File : ftable[f].ref \in Nat /\ Mine(p, f) \in Int /\ Mine(p, f)' \in Int
                          /\ Cardinality(Cells(ofile, f)) \in Nat /\ Cardinality(Cells(ofile', f)) \in Nat
      BY <2>9, RefNat, MineInt, Finite, Zenon DEF Cells
    <3>4. \A f \in File : ftable'[f].ref + Mine(p, f) + Cardinality(Cells(ofile, f))
                          = ftable[f].ref + Mine(p, f)' + Cardinality(Cells(ofile', f))
      <4> SUFFICES ASSUME NEW f \in File
                   PROVE  ftable'[f].ref + Mine(p, f) + Cardinality(Cells(ofile, f))
                          = ftable[f].ref + Mine(p, f)' + Cardinality(Cells(ofile', f))
        BY Zenon
      <4>1. Mine(p, f) + Cardinality(Cells(ofile, f)) = Mine(p, f)' + Cardinality(Cells(ofile', f))
        BY <3>2, Zenon
      <4>2. ftable'[f].ref = ftable[f].ref BY <1>1, Zenon
      <4>3. /\ ftable[f].ref \in Nat /\ Mine(p, f) \in Int /\ Mine(p, f)' \in Int
            /\ Cardinality(Cells(ofile, f)) \in Nat /\ Cardinality(Cells(ofile', f)) \in Nat
        BY <3>3, Zenon
      <4> QED BY <4>1, <4>2, <4>3
    <3> QED BY <2>9, <3>1, <3>4, RefsChange, Zenon
  <2> QED BY <1>1, <2>9, <2>11, <2>12, <2>13, <2>14, <2>15, <2>16, <2>17, Zenon DEF FNoPanic
<1> QED BY <1>2, <1>3, Zenon

(* sys_dup: the new descriptor is there, filedup has not counted it.       *)
LEMMA DupKeeps ==
  ASSUME FInv, NEW p \in FProcs, NEW d \in Fd, sys_dup(p, d)
  PROVE  FInv'
<1> USE DEF FInv
<1> DEFINE d0 == Min(FreeFds(p))  f0 == ofile[p][d]
<1>1. /\ fpc[p] = "user" /\ f0 # 0 /\ FreeFds(p) # {}
      /\ ofile' = [ofile EXCEPT ![p][d0] = f0] /\ rf' = [rf EXCEPT ![p] = f0]
      /\ fpc' = [fpc EXCEPT ![p] = "filedup"]
      /\ UNCHANGED <<ftable, wf, closing, ff, ofd, kid, pipeends, irefs, fpanic>>
  BY Zenon DEF sys_dup, Doing, to, objects
<1>2. d0 \in Fd /\ ofile[p][d0] = 0
  <2>1. FreeFds(p) \in SUBSET Nat BY DEF FreeFds, Fd
  <2> QED BY <1>1, <2>1, MinIn, Zenon DEF FreeFds
<1>3. f0 \in File /\ ftable[f0].type # "FD_NONE" /\ f0 \in 0..NFILE
  <2>1. f0 \in File BY <1>1, InTable, Zenon
  <2> QED BY <1>1, <2>1 DEF NoneInv, File
<1>4. rf[p] = 0 /\ wf[p] = 0 /\ closing[p] = <<>> BY <1>1, Zenon DEF HandInv, HasRf, HasWf
<1>5. d0 # d BY <1>1, <1>2, Zenon
<1>6. ofile[p][d] = f0 BY Zenon
<1> HIDE DEF d0, f0
<1>7. \A q \in FProcs : /\ fpc'[q] = IF q = p THEN "filedup" ELSE fpc[q]
                        /\ rf'[q] = IF q = p THEN f0 ELSE rf[q]
  BY <1>1, Zenon DEF TypeInv
<1>8. \A q \in FProcs, e \in Fd : ofile'[q][e] = IF q = p /\ e = d0 THEN f0 ELSE ofile[q][e]
  BY <1>1, <1>2, Zenon DEF TypeInv
<1>9. \A q \in FProcs : q # p => \A e \in Fd : ofile'[q][e] = ofile[q][e] BY <1>8, Zenon
<1>10. TypeInv'
  <2>1. fpc' \in [FProcs -> PCs] BY <1>1, Zenon DEF TypeInv, PCs, HasRf
  <2>2. rf' \in [FProcs -> 0..NFILE] BY <1>1, <1>3, Zenon DEF TypeInv
  <2>3. ofile' \in [FProcs -> [Fd -> 0..NFILE]] BY <1>1, <1>2, <1>3, Zenon DEF TypeInv
  <2> QED BY <1>1, <2>1, <2>2, <2>3, Zenon DEF TypeInv
<1>11. HandInv' BY <1>1, <1>4, <1>7, <1>9 DEF HandInv, HasRf, HasWf, TypeInv
<1>12. ProcInv'
  <2>1. ASSUME NEW q \in FProcs, fpc'[q] = "fork"
        PROVE  /\ q # p /\ kid[q] \in FProcs /\ fpc[kid[q]] = "embryo" /\ kid[q] # p
               /\ \A e \in Fd : e >= ofd[q] => ofile'[kid[q]][e] = 0
    BY <1>1, <1>7, <1>9, <2>1 DEF ProcInv
  <2> QED BY <1>1, <1>7, <1>9, <2>1 DEF ProcInv
<1>13. DupInv'
  <2> SUFFICES ASSUME NEW q \in FProcs, fpc'[q] = "filedup"
               PROVE  \E a, b \in Fd : a # b /\ ofile'[q][a] = rf'[q] /\ ofile'[q][b] = rf'[q]
    BY Zenon DEF DupInv
  <2>1. CASE q = p
    <3>1. ofile'[p][d0] = f0 /\ ofile'[p][d] = f0 /\ rf'[p] = f0 BY <1>2, <1>5, <1>6, <1>7, <1>8, Zenon
    <3> QED BY <2>1, <3>1, <1>2, <1>5, Zenon
  <2>2. CASE q # p
    <3>1. PICK a, b \in Fd : a # b /\ ofile[q][a] = rf[q] /\ ofile[q][b] = rf[q] BY <1>7, <2>2, Zenon DEF DupInv
    <3> QED BY <2>2, <3>1, <1>7, <1>9, Zenon
  <2> QED BY <2>1, <2>2, Zenon
<1>14. NoneInv'
  <2>1. \A q \in FProcs, e \in Fd : ofile'[q][e] # 0 => ftable[ofile'[q][e]].type # "FD_NONE"
    BY <1>3, <1>8 DEF NoneInv
  <2> QED BY <1>1, <1>7, <2>1 DEF NoneInv
<1>15. EndInv' BY <1>1, EndsSame, Zenon DEF SameKinds
<1>16. InodeInv' BY <1>1, <1>7, InodesSame DEF SameKinds
<1>17. RefsAreDescriptors'
  <2>1. OthersKeep(p) BY <1>1, <1>7, Zenon DEF OthersKeep
  <2>2. ASSUME NEW f \in File
        PROVE  ftable'[f].ref + Mine(p, f) + Cardinality(Cells(ofile, f))
               = ftable[f].ref + Mine(p, f)' + Cardinality(Cells(ofile', f))
    <3>1. f # 0 /\ ftable[f].ref \in Nat /\ ftable'[f].ref = ftable[f].ref BY <1>1, RefNat, Zenon
    <3>2. Cardinality(Cells(ofile', f)) + Is(f, 0) = Cardinality(Cells(ofile, f)) + Is(f, f0)
      <4>1. SameBut(ofile, ofile', p, d0) BY <1>8, Zenon DEF SameBut
      <4>2. ofile'[p][d0] = f0 BY <1>2, <1>8, Zenon
      <4>3. Cardinality(Cells(ofile', f)) + Is(f, ofile[p][d0]) = Cardinality(Cells(ofile, f)) + Is(f, ofile'[p][d0])
        BY <1>2, <4>1, DescriptorChange
      <4> QED BY <1>2, <4>2, <4>3, Zenon
    <3>3. Listed(f, <<>>) = 0 BY DEF Listed
    <3>4. Mine(p, f) = 0 /\ Mine(p, f)' = 0 - Is(f, f0)
      BY <1>1, <1>4, <1>7, <3>1, <3>3 DEF Mine, Is
    <3>5. Cardinality(Cells(ofile, f)) \in Nat /\ Cardinality(Cells(ofile', f)) \in Nat BY Finite, Zenon DEF Cells
    <3> QED BY <3>1, <3>2, <3>4, <3>5 DEF Is
  <2> QED BY <1>10, <2>1, <2>2, RefsChange, Zenon
<1> QED BY <1>1, <1>10, <1>11, <1>12, <1>13, <1>14, <1>15, <1>16, <1>17, Zenon DEF FNoPanic

(* filedup adds one reference; types stay.                                 *)
LEMMA Dups ==
  ASSUME TypeInv, NEW f0 \in File, ftable' = Duped(f0)
  PROVE  /\ ftable' \in [File -> FileRec] /\ SameKinds
         /\ \A f \in File : ftable'[f].ref = IF f = f0 THEN ftable[f].ref + 1 ELSE ftable[f].ref
<1>1. ftable' = [ftable EXCEPT ![f0].ref = @ + 1] BY Zenon DEF Duped
<1>2. \A f \in File : ftable[f] \in FileRec BY Zenon DEF TypeInv
<1>3. ftable[f0].ref + 1 \in Nat BY RefNat
<1>4. [ftable[f0] EXCEPT !.ref = @ + 1] \in FileRec BY <1>2, <1>3, Zenon DEF FileRec
<1>5. \A f \in File : ftable'[f] = IF f = f0 THEN [ftable[f] EXCEPT !.ref = @ + 1] ELSE ftable[f]
  BY <1>1, Zenon DEF TypeInv
<1>6. ftable' \in [File -> FileRec] BY <1>1, <1>4, Zenon DEF TypeInv
<1>7. \A f \in File : /\ ftable'[f].ref = IF f = f0 THEN ftable[f].ref + 1 ELSE ftable[f].ref
                      /\ ftable'[f].type = ftable[f].type /\ ftable'[f].page = ftable[f].page
                      /\ ftable'[f].writable = ftable[f].writable
  BY <1>2, <1>5, Zenon DEF FileRec
<1> QED BY <1>6, <1>7, Zenon DEF SameKinds

(* ... which sys_dup does last.                                            *)
LEMMA DupRefKeeps ==
  ASSUME FInv, NEW p \in FProcs, dupref(p)
  PROVE  FInv'
<1> USE DEF FInv
<1> DEFINE f0 == rf[p]
<1>1. /\ fpc[p] = "filedup" /\ ftable' = Duped(f0) /\ fpanic = "none"
      /\ fpanic' = IF ftable[f0].ref < 1 THEN "filedup" ELSE fpanic
      /\ rf' = [rf EXCEPT ![p] = 0] /\ fpc' = [fpc EXCEPT ![p] = "user"]
      /\ UNCHANGED <<ofile, wf, closing, ff, ofd, kid, pipeends, irefs>>
  BY Zenon DEF dupref, filedup, Doing, to, objects
<1>2. f0 \in File /\ f0 # 0 BY <1>1, InTable, RefNat, Zenon
<1>3. PICK d \in Fd : ofile[p][d] = f0 BY <1>1, Zenon DEF DupInv
<1>4. ftable[f0].type # "FD_NONE" BY <1>2, <1>3, Zenon DEF NoneInv
<1>5. ftable[f0].ref >= 1
  <2>1. <<p, d>> \in Descriptors(f0) BY <1>3, Zenon DEF Descriptors
  <2> QED BY <1>2, <2>1, Named, Zenon
<1>6. fpanic' = "none" BY <1>1, <1>2, <1>5, RefNat
<1>7. wf[p] = 0 /\ closing[p] = <<>> BY <1>1, Zenon DEF HandInv, HasWf
<1>8. rf[p] = f0 BY Zenon
<1> HIDE DEF f0
<1>9. /\ ftable' \in [File -> FileRec] /\ SameKinds
      /\ \A f \in File : ftable'[f].ref = IF f = f0 THEN ftable[f].ref + 1 ELSE ftable[f].ref
  BY <1>1, <1>2, Dups, Zenon
<1>10. \A q \in FProcs : /\ fpc'[q] = IF q = p THEN "user" ELSE fpc[q]
                         /\ rf'[q] = IF q = p THEN 0 ELSE rf[q]
  BY <1>1, Zenon DEF TypeInv
<1>11. TypeInv'
  <2>1. fpc' \in [FProcs -> PCs] BY <1>1, Zenon DEF TypeInv, PCs, Idle
  <2>2. rf' \in [FProcs -> 0..NFILE] BY <1>1, FAssumption DEF TypeInv
  <2> QED BY <1>1, <1>9, <2>1, <2>2, Zenon DEF TypeInv
<1>12. HandInv' BY <1>1, <1>7, <1>10 DEF HandInv, HasRf, HasWf
<1>13. ProcInv' BY <1>1, <1>10 DEF ProcInv
<1>14. DupInv' BY <1>1, <1>10, DupsSame
<1>15. NoneInv'
  <2>1. \A f \in File : ftable'[f].type = ftable[f].type BY <1>9, Zenon DEF SameKinds
  <2>2. \A f \in File : f # f0 => ftable'[f].ref = ftable[f].ref BY <1>9, Zenon
  <2>3. ftable'[f0].ref # 0 BY <1>2, <1>9, RefNat
  <2> QED BY <1>1, <1>4, <1>10, <2>1, <2>2, <2>3, InTable DEF NoneInv
<1>16. EndInv' BY <1>1, <1>9, EndsSame, Zenon
<1>17. InodeInv' BY <1>1, <1>9, <1>10, InodesSame
<1>18. RefsAreDescriptors'
  <2>1. OthersKeep(p) BY <1>1, <1>10, Zenon DEF OthersKeep
  <2>2. ASSUME NEW f \in File PROVE ftable'[f].ref + Mine(p, f) = ftable[f].ref + Mine(p, f)'
    <3>1. f # 0 /\ ftable[f].ref \in Nat BY RefNat, Zenon
    <3>2. Listed(f, <<>>) = 0 BY DEF Listed
    <3> QED BY <1>1, <1>7, <1>8, <1>9, <1>10, <3>1, <3>2 DEF Mine, Is
  <2> QED BY <1>1, <1>11, <2>1, <2>2, RefsChange, Zenon
<1> QED BY <1>6, <1>11, <1>12, <1>13, <1>14, <1>15, <1>16, <1>17, <1>18, Zenon DEF FNoPanic

(* sys_close clears the descriptor, then closes the file.                  *)
LEMMA CloseFdKeeps ==
  ASSUME FInv, NEW p \in FProcs, NEW d \in Fd, closefd(p, d)
  PROVE  FInv'
<1> USE DEF FInv
<1> DEFINE f0 == ofile[p][d]
<1>1. /\ fpc[p] = "user" /\ f0 # 0 /\ ofile' = [ofile EXCEPT ![p][d] = 0]
      /\ closing' = [closing EXCEPT ![p] = <<f0>>] /\ fpc' = [fpc EXCEPT ![p] = "close"]
      /\ UNCHANGED <<ftable, rf, wf, ff, ofd, kid, pipeends, irefs, fpanic>>
  BY Zenon DEF closefd, Doing, CloseAll, to, objects
<1>2. f0 \in File BY <1>1, InTable, Zenon
<1>3. rf[p] = 0 /\ wf[p] = 0 /\ closing[p] = <<>> BY <1>1, Zenon DEF HandInv, HasRf, HasWf
<1>4. ofile[p][d] = f0 BY Zenon
<1> HIDE DEF f0
<1>5. \A q \in FProcs : /\ fpc'[q] = IF q = p THEN "close" ELSE fpc[q]
                        /\ closing'[q] = IF q = p THEN <<f0>> ELSE closing[q]
  BY <1>1, Zenon DEF TypeInv
<1>6. \A q \in FProcs, e \in Fd : ofile'[q][e] = IF q = p /\ e = d THEN 0 ELSE ofile[q][e]
  BY <1>1, Zenon DEF TypeInv
<1>7. \A q \in FProcs : q # p => \A e \in Fd : ofile'[q][e] = ofile[q][e] BY <1>6, Zenon
<1>8. TypeInv'
  <2>1. fpc' \in [FProcs -> PCs] BY <1>1, Zenon DEF TypeInv, PCs
  <2>2. <<f0>> \in Seq(File) /\ Len(<<f0>>) <= 2 BY <1>2
  <2>3. closing' \in [FProcs -> Seq(File)] BY <1>1, <2>2, Zenon DEF TypeInv
  <2>4. \A q \in FProcs : Len(closing'[q]) <= 2 BY <1>5, <2>2, Zenon DEF TypeInv
  <2>5. 0 \in 0..NFILE BY FAssumption
  <2>6. ofile' \in [FProcs -> [Fd -> 0..NFILE]] BY <1>1, <2>5, Zenon DEF TypeInv
  <2> QED BY <1>1, <2>1, <2>3, <2>4, <2>6, Zenon DEF TypeInv
<1>9. HandInv'
  <2>1. ASSUME NEW q \in FProcs, fpc'[q] = "exit", closing'[q] # <<>>
        PROVE  ofd[q] < NOFILE /\ ofile'[q][ofd[q]] # 0 /\ closing'[q] = <<ofile'[q][ofd[q]]>>
    <3>1. q # p /\ fpc[q] = "exit" /\ closing[q] # <<>> /\ closing'[q] = closing[q] BY <1>5, <2>1, Zenon
    <3>2. ofd[q] < NOFILE /\ ofile[q][ofd[q]] # 0 /\ closing[q] = <<ofile[q][ofd[q]]>> BY <3>1, Zenon DEF HandInv
    <3>3. ofd[q] \in Fd BY <3>2, FAssumption DEF TypeInv, Fd
    <3> QED BY <1>7, <3>1, <3>2, <3>3, Zenon
  <2> QED BY <1>1, <1>3, <1>5, <2>1 DEF HandInv, HasRf, HasWf
<1>10. ProcInv'
  <2>1. ASSUME NEW q \in FProcs, fpc'[q] = "fork"
        PROVE  /\ q # p /\ kid[q] \in FProcs /\ fpc[kid[q]] = "embryo" /\ kid[q] # p
               /\ \A e \in Fd : e >= ofd[q] => ofile'[kid[q]][e] = 0
    BY <1>1, <1>5, <1>7, <2>1 DEF ProcInv
  <2> QED BY <1>1, <1>5, <1>7, <2>1 DEF ProcInv
<1>11. DupInv' BY <1>1, <1>5, <1>7, DupsSame
<1>12. NoneInv'
  <2>1. \A q \in FProcs, e \in Fd : ofile'[q][e] # 0 => ftable[ofile'[q][e]].type # "FD_NONE"
    BY <1>6 DEF NoneInv
  <2> QED BY <1>1, <1>5, <2>1 DEF NoneInv
<1>13. EndInv' BY <1>1, EndsSame, Zenon DEF SameKinds
<1>14. InodeInv' BY <1>1, <1>5, InodesSame DEF SameKinds
<1>15. RefsAreDescriptors'
  <2>1. OthersKeep(p) BY <1>1, <1>5, Zenon DEF OthersKeep
  <2>2. ASSUME NEW f \in File
        PROVE  ftable'[f].ref + Mine(p, f) + Cardinality(Cells(ofile, f))
               = ftable[f].ref + Mine(p, f)' + Cardinality(Cells(ofile', f))
    <3>1. f # 0 /\ ftable[f].ref \in Nat /\ ftable'[f].ref = ftable[f].ref BY <1>1, RefNat, Zenon
    <3>2. Cardinality(Cells(ofile', f)) + Is(f, f0) = Cardinality(Cells(ofile, f)) + Is(f, 0)
      <4>1. SameBut(ofile, ofile', p, d) BY <1>6, Zenon DEF SameBut
      <4>2. ofile'[p][d] = 0 BY <1>6, Zenon
      <4>3. Cardinality(Cells(ofile', f)) + Is(f, ofile[p][d]) = Cardinality(Cells(ofile, f)) + Is(f, ofile'[p][d])
        BY <4>1, DescriptorChange
      <4> QED BY <1>4, <4>2, <4>3, Zenon
    <3>3. Listed(f, <<>>) = 0 /\ Listed(f, <<f0>>) = Is(f, f0) BY DEF Listed, Is
    <3>4. Mine(p, f) = 0 /\ Mine(p, f)' = Is(f, f0)
      BY <1>1, <1>3, <1>5, <3>1, <3>3 DEF Mine, Is
    <3>5. Cardinality(Cells(ofile, f)) \in Nat /\ Cardinality(Cells(ofile', f)) \in Nat BY Finite, Zenon DEF Cells
    <3> QED BY <3>1, <3>2, <3>4, <3>5 DEF Is
  <2> QED BY <1>8, <2>1, <2>2, RefsChange, Zenon
<1> QED BY <1>1, <1>8, <1>9, <1>10, <1>11, <1>12, <1>13, <1>14, <1>15, Zenon DEF FNoPanic

(* Steps that change program counters, loop variables and children of fork *)
(* and leave files, descriptors and what calls hold alone.                 *)
Moves(p, q) ==
  /\ fpc[q] \in {"unused", "embryo", "user", "fork"} \/ (fpc[q] \in {"close", "exit"} /\ closing[q] = <<>>)
  /\ fpc'[q] \in {"unused", "embryo", "user", "fork"} \/ (fpc'[q] = "exit" /\ q = p)
  /\ fpc[q] = "exit" => q = p

(* Processes that fork, exit or are reaped with empty hands change no      *)
(* count.                                                                  *)
LEMMA MovesKeep ==
  ASSUME FInv, TypeInv', HandInv', ProcInv', NEW p \in FProcs,
         UNCHANGED <<ftable, ofile, rf, wf, closing, ff, pipeends, irefs, fpanic>>,
         \A q \in FProcs : fpc'[q] = fpc[q] \/ Moves(p, q)
  PROVE  FInv'
<1> USE DEF FInv
<1>1. \A q \in FProcs : fpc'[q] = fpc[q] \/ /\ fpc[q] \in {"unused", "embryo", "user", "fork", "close", "exit"}
                                            /\ fpc'[q] \in {"unused", "embryo", "user", "fork", "exit"}
  BY Zenon DEF Moves
<1>2. DupInv' BY <1>1, DupsSame, Zenon
<1>3. NoneInv' BY <1>1, Zenon DEF NoneInv
<1>4. EndInv' BY EndsSame, Zenon DEF SameKinds
<1>5. InodeInv'
  <2>1. \A q \in FProcs : fpc'[q] \in {"filealloc", "fdalloc"} <=> fpc[q] \in {"filealloc", "fdalloc"} BY <1>1, Zenon
  <2> QED BY <2>1, InodesSame, Zenon DEF SameKinds
<1>6. RefsAreDescriptors'
  <2>1. OthersKeep(p)
    <3>1. \A q \in FProcs : q # p => fpc'[q] = "exit" <=> fpc[q] = "exit" BY Zenon DEF Moves
    <3>2. \A q \in FProcs : fpc'[q] = "filedup" <=> fpc[q] = "filedup" BY <1>1, Zenon
    <3> QED BY <3>1, <3>2, Zenon DEF OthersKeep
  <2>2. ASSUME NEW f \in File PROVE Mine(p, f)' = Mine(p, f)
    <3>1. Listed(f, <<>>) = 0 BY DEF Listed
    <3>2. fpc'[p] = "filedup" <=> fpc[p] = "filedup" BY <1>1, Zenon
    <3>3. fpc'[p] = fpc[p] \/ closing[p] = <<>>
      <4>1. fpc[p] \in {"unused", "embryo", "user", "fork"} => closing[p] = <<>> BY Zenon DEF HandInv
      <4> QED BY <4>1, Zenon DEF Moves
    <3> QED BY <3>1, <3>2, <3>3, Zenon DEF Mine
  <2> QED BY <2>1, <2>2, RefsChange, Zenon
<1> QED BY <1>2, <1>3, <1>4, <1>5, <1>6, Zenon DEF FNoPanic

(* close returns.                                                          *)
LEMMA ClosedKeeps ==
  ASSUME FInv, NEW p \in FProcs, closed(p)
  PROVE  FInv'
<1> USE DEF FInv
<1>1. /\ fpc[p] = "close" /\ closing[p] = <<>> /\ ff[p].type = "FD_NONE"
      /\ fpc' = [fpc EXCEPT ![p] = "user"]
      /\ UNCHANGED <<ftable, ofile, rf, wf, closing, ff, ofd, kid, pipeends, irefs, fpanic>>
  BY Zenon DEF closed, Doing, to, calls, objects
<1>2. \A q \in FProcs : fpc'[q] = IF q = p THEN "user" ELSE fpc[q] BY <1>1, Zenon DEF TypeInv
<1>3. TypeInv'
  <2>1. fpc' \in [FProcs -> PCs] BY <1>1, Zenon DEF TypeInv, PCs, Idle
  <2> QED BY <1>1, <2>1, Zenon DEF TypeInv
<1>4. HandInv' BY <1>1, <1>2 DEF HandInv, HasRf, HasWf
<1>5. ProcInv' BY <1>1, <1>2 DEF ProcInv
<1>6. \A q \in FProcs : fpc'[q] = fpc[q] \/ Moves(p, q) BY <1>1, <1>2, Zenon DEF Moves
<1> QED BY <1>1, <1>3, <1>4, <1>5, <1>6, MovesKeep, Zenon

(* exit starts with the first descriptor.                                  *)
LEMMA ExitKeeps ==
  ASSUME FInv, NEW p \in FProcs, exit(p)
  PROVE  FInv'
<1> USE DEF FInv
<1>1. /\ fpc[p] = "user" /\ fpc' = [fpc EXCEPT ![p] = "exit"] /\ ofd' = [ofd EXCEPT ![p] = 0]
      /\ UNCHANGED <<ftable, ofile, rf, wf, closing, ff, kid, pipeends, irefs, fpanic>>
  BY Zenon DEF exit, Doing, to, objects
<1>2. \A q \in FProcs : /\ fpc'[q] = IF q = p THEN "exit" ELSE fpc[q]
                        /\ ofd'[q] = IF q = p THEN 0 ELSE ofd[q]
  BY <1>1, Zenon DEF TypeInv
<1>3. closing[p] = <<>> BY <1>1, Zenon DEF HandInv
<1>4. TypeInv'
  <2>1. fpc' \in [FProcs -> PCs] BY <1>1, Zenon DEF TypeInv, PCs
  <2>2. 0 \in 0..NOFILE BY FAssumption
  <2>3. ofd' \in [FProcs -> 0..NOFILE] BY <1>1, <2>2, Zenon DEF TypeInv
  <2> QED BY <1>1, <2>1, <2>3, Zenon DEF TypeInv
<1>5. HandInv' BY <1>1, <1>2, <1>3 DEF HandInv, HasRf, HasWf
<1>6. ProcInv'
  <2>1. \A e \in Fd : ~(e < 0) BY DEF Fd
  <2> QED BY <1>1, <1>2, <2>1 DEF ProcInv
<1>7. \A q \in FProcs : fpc'[q] = fpc[q] \/ Moves(p, q) BY <1>1, <1>2, <1>3, Zenon DEF Moves
<1> QED BY <1>1, <1>4, <1>5, <1>6, <1>7, MovesKeep, Zenon

(* exit goes to its next open descriptor, and ends after the last.         *)
LEMMA ExitFdKeeps ==
  ASSUME FInv, NEW p \in FProcs, exitfd(p)
  PROVE  FInv'
<1> USE DEF FInv
<1> DEFINE d0 == ofd[p]  f0 == ofile[p][d0]
<1>1. /\ fpc[p] = "exit" /\ closing[p] = <<>> /\ ff[p].type = "FD_NONE"
      /\ UNCHANGED <<ftable, ofile, rf, wf, ff, kid, pipeends, irefs, fpanic>>
  BY Zenon DEF exitfd, Doing, objects
<1>2. rf[p] = 0 /\ wf[p] = 0 BY <1>1, Zenon DEF HandInv, HasRf, HasWf
<1>3. CASE d0 = NOFILE
  <2>1. fpc' = [fpc EXCEPT ![p] = "unused"] /\ ofd' = [ofd EXCEPT ![p] = 0] /\ closing' = closing
    BY <1>3, Zenon DEF exitfd, to
  <2>2. \A q \in FProcs : /\ fpc'[q] = IF q = p THEN "unused" ELSE fpc[q]
                          /\ ofd'[q] = IF q = p THEN 0 ELSE ofd[q]
    BY <2>1, Zenon DEF TypeInv
  <2>3. TypeInv'
    <3>1. fpc' \in [FProcs -> PCs] BY <2>1, Zenon DEF TypeInv, PCs, Idle
    <3>2. 0 \in 0..NOFILE BY FAssumption
    <3>3. ofd' \in [FProcs -> 0..NOFILE] BY <2>1, <3>2, Zenon DEF TypeInv
    <3> QED BY <1>1, <2>1, <3>1, <3>3, Zenon DEF TypeInv
  <2>4. HandInv' BY <1>1, <1>2, <2>1, <2>2 DEF HandInv, HasRf, HasWf
  <2>5. ProcInv'
    <3>1. \A e \in Fd : e < NOFILE BY FAssumption DEF Fd
    <3>2. \A e \in Fd : ofile[p][e] = 0 BY <1>1, <1>3, <3>1, Zenon DEF ProcInv
    <3> QED BY <1>1, <2>1, <2>2, <3>2 DEF ProcInv
  <2>6. \A q \in FProcs : fpc'[q] = fpc[q] \/ Moves(p, q) BY <1>1, <2>2, Zenon DEF Moves
  <2> QED BY <1>1, <2>1, <2>3, <2>4, <2>5, <2>6, MovesKeep, Zenon
<1>4. CASE d0 # NOFILE
  <2>1. /\ closing' = [closing EXCEPT ![p] = IF f0 = 0 THEN <<>> ELSE <<f0>>]
        /\ ofd' = [ofd EXCEPT ![p] = IF f0 = 0 THEN @ + 1 ELSE @] /\ fpc' = fpc
    BY <1>4, Zenon DEF exitfd
  <2>2. d0 \in Fd /\ d0 \in 0..NOFILE /\ d0 + 1 \in 0..NOFILE /\ d0 < NOFILE
    BY <1>4, FAssumption DEF TypeInv, Fd
  <2>3. \A q \in FProcs : /\ closing'[q] = IF q = p THEN (IF f0 = 0 THEN <<>> ELSE <<f0>>) ELSE closing[q]
                          /\ ofd'[q] = IF q = p THEN (IF f0 = 0 THEN d0 + 1 ELSE d0) ELSE ofd[q]
    BY <2>1, Zenon DEF TypeInv
  <2>4. f0 # 0 => f0 \in File BY <2>2, InTable, Zenon
  <2>5. ofile[p][d0] = f0 /\ ofd[p] = d0 BY Zenon
  <2> HIDE DEF d0, f0
  <2>6. TypeInv'
    <3>1. <<>> \in Seq(File) /\ Len(<<>>) <= 2 /\ (f0 # 0 => <<f0>> \in Seq(File) /\ Len(<<f0>>) <= 2) BY <2>4
    <3>2. closing' \in [FProcs -> Seq(File)] BY <2>1, <3>1, Zenon DEF TypeInv
    <3>3. \A q \in FProcs : Len(closing'[q]) <= 2 BY <2>3, <3>1, Zenon DEF TypeInv
    <3>4. ofd' \in [FProcs -> 0..NOFILE] BY <2>1, <2>2, <2>5, Zenon DEF TypeInv
    <3> QED BY <1>1, <2>1, <3>2, <3>3, <3>4, Zenon DEF TypeInv
  <2>7. HandInv'
    <3>1. closing'[p] # <<>> =>
            ofd'[p] < NOFILE /\ ofile'[p][ofd'[p]] # 0 /\ closing'[p] = <<ofile'[p][ofd'[p]]>>
      BY <1>1, <2>2, <2>3, <2>5, Zenon
    <3> QED BY <1>1, <1>2, <2>1, <2>3, <3>1 DEF HandInv
  <2>8. ProcInv'
    <3>1. \A e \in Fd : e < ofd'[p] => ofile[p][e] = 0
      <4>1. \A e \in Fd : e < d0 + 1 => e < d0 \/ e = d0 BY <2>2 DEF Fd
      <4> QED BY <1>1, <2>3, <2>5, <4>1, Zenon DEF ProcInv
    <3> QED BY <1>1, <2>1, <2>3, <3>1 DEF ProcInv
  <2>9. DupInv' /\ NoneInv' BY <1>1, <2>1, Zenon DEF DupInv, NoneInv
  <2>10. EndInv' BY <1>1, EndsSame, Zenon DEF SameKinds
  <2>11. InodeInv' BY <1>1, <2>1, InodesSame, Zenon DEF SameKinds
  <2>12. RefsAreDescriptors'
    <3>1. OthersKeep(p) BY <1>1, <2>1, <2>3, Zenon DEF OthersKeep
    <3>2. \A f \in File : Mine(p, f)' = Mine(p, f) BY <1>1, <2>1, Zenon DEF Mine
    <3> QED BY <1>1, <2>6, <3>1, <3>2, RefsChange, Zenon
  <2> QED BY <1>1, <2>6, <2>7, <2>8, <2>9, <2>10, <2>11, <2>12, Zenon DEF FNoPanic
<1> QED BY <1>3, <1>4, Zenon

(* allocproc gives fork a process without descriptors.                     *)
LEMMA ForkKeeps ==
  ASSUME FInv, NEW p \in FProcs, NEW k \in FProcs, fork(p, k)
  PROVE  FInv'
<1> USE DEF FInv
<1>0. /\ fpc' = [fpc EXCEPT ![p] = "fork", ![k] = "embryo"]
      /\ kid' = [kid EXCEPT ![p] = k] /\ ofd' = [ofd EXCEPT ![p] = 0]
  BY Zenon DEF fork
<1>1. /\ fpc[p] = "user" /\ fpc[k] = "unused" /\ p # k
      /\ UNCHANGED <<ftable, ofile, rf, wf, closing, ff, pipeends, irefs, fpanic>>
  BY Zenon DEF fork, Doing, objects
<1>2. \A q \in FProcs : /\ fpc'[q] = IF q = k THEN "embryo" ELSE IF q = p THEN "fork" ELSE fpc[q]
                        /\ kid'[q] = IF q = p THEN k ELSE kid[q]
                        /\ ofd'[q] = IF q = p THEN 0 ELSE ofd[q]
  BY <1>0, <1>1, Zenon DEF TypeInv
<1>3. TypeInv'
  <2>1. fpc' \in [FProcs -> PCs] BY <1>0, Zenon DEF TypeInv, PCs, Idle
  <2>2. 0 \in 0..NOFILE BY FAssumption
  <2>3. ofd' \in [FProcs -> 0..NOFILE] BY <1>0, <2>2, Zenon DEF TypeInv
  <2>4. kid' \in [FProcs -> FProcs \cup {0}] BY <1>0, Zenon DEF TypeInv
  <2> QED BY <1>1, <2>1, <2>3, <2>4, Zenon DEF TypeInv
<1>4. HandInv' BY <1>1, <1>2 DEF HandInv, HasRf, HasWf
<1>5. ProcInv'
  <2>1. \A e \in Fd : ofile[k][e] = 0 BY <1>1, Zenon DEF ProcInv
  <2>2. ASSUME NEW q \in FProcs, fpc'[q] = "fork", q # p
        PROVE  /\ fpc[q] = "fork" /\ kid[q] \in FProcs /\ fpc[kid[q]] = "embryo" /\ kid'[q] = kid[q]
               /\ fpc'[kid[q]] = "embryo" /\ kid[q] # k /\ ofd'[q] = ofd[q]
               /\ \A e \in Fd : e >= ofd[q] => ofile[kid[q]][e] = 0
    BY <1>1, <1>2, <2>2 DEF ProcInv
  <2>3. \A q, r \in FProcs : fpc'[q] = "fork" /\ fpc'[r] = "fork" /\ kid'[q] = kid'[r] => q = r
    BY <1>2, <2>2 DEF ProcInv
  <2>4. \A q \in FProcs : fpc'[q] = "fork" =>
          kid'[q] \in FProcs /\ fpc'[kid'[q]] = "embryo" /\ \A e \in Fd : e >= ofd'[q] => ofile[kid'[q]][e] = 0
    BY <1>1, <1>2, <2>1, <2>2
  <2> QED BY <1>1, <1>2, <2>3, <2>4 DEF ProcInv
<1>6. \A q \in FProcs : fpc'[q] = fpc[q] \/ Moves(p, q) BY <1>1, <1>2, Zenon DEF Moves
<1> QED BY <1>1, <1>3, <1>4, <1>5, <1>6, MovesKeep, Zenon

(* The child runs when all descriptors are copied.                         *)
LEMMA ForkedKeeps ==
  ASSUME FInv, NEW p \in FProcs, forked(p)
  PROVE  FInv'
<1> USE DEF FInv
<1> DEFINE k == kid[p]
<1>0. /\ fpc' = [fpc EXCEPT ![p] = "user", ![k] = "user"]
      /\ kid' = [kid EXCEPT ![p] = 0] /\ ofd' = [ofd EXCEPT ![p] = 0]
  BY Zenon DEF forked
<1>1. /\ fpc[p] = "fork"
      /\ UNCHANGED <<ftable, ofile, rf, wf, closing, ff, pipeends, irefs, fpanic>>
  BY Zenon DEF forked, Doing, objects
<1>2. k \in FProcs /\ fpc[k] = "embryo" BY <1>1, Zenon DEF ProcInv
<1>3. \A q \in FProcs : /\ fpc'[q] = IF q = k \/ q = p THEN "user" ELSE fpc[q]
                        /\ kid'[q] = IF q = p THEN 0 ELSE kid[q]
                        /\ ofd'[q] = IF q = p THEN 0 ELSE ofd[q]
  BY <1>0, <1>2, Zenon DEF TypeInv
<1>4. TypeInv'
  <2>1. fpc' \in [FProcs -> PCs] BY <1>0, Zenon DEF TypeInv, PCs, Idle
  <2>2. 0 \in 0..NOFILE BY FAssumption
  <2>3. ofd' \in [FProcs -> 0..NOFILE] BY <1>0, <2>2, Zenon DEF TypeInv
  <2>4. kid' \in [FProcs -> FProcs \cup {0}] BY <1>0, Zenon DEF TypeInv
  <2> QED BY <1>1, <2>1, <2>3, <2>4, Zenon DEF TypeInv
<1>5. HandInv' BY <1>1, <1>2, <1>3 DEF HandInv, HasRf, HasWf
<1>6. ProcInv'
  <2>1. ASSUME NEW q \in FProcs, fpc'[q] = "fork"
        PROVE  /\ fpc[q] = "fork" /\ q # p /\ kid[q] \in FProcs /\ fpc[kid[q]] = "embryo" /\ kid'[q] = kid[q]
               /\ kid[q] # k /\ fpc'[kid[q]] = "embryo" /\ ofd'[q] = ofd[q]
               /\ \A e \in Fd : e >= ofd[q] => ofile[kid[q]][e] = 0
    BY <1>1, <1>3, <2>1 DEF ProcInv
  <2> QED BY <1>1, <1>3, <2>1 DEF ProcInv
<1>7. \A q \in FProcs : fpc'[q] = fpc[q] \/ Moves(p, q) BY <1>1, <1>2, <1>3, Zenon DEF Moves
<1> QED BY <1>1, <1>4, <1>5, <1>6, <1>7, MovesKeep, Zenon

(* fork gives the child a descriptor and counts it, in one step.           *)
LEMMA ForkFdKeeps ==
  ASSUME FInv, NEW p \in FProcs, forkfd(p)
  PROVE  FInv'
<1> USE DEF FInv
<1> DEFINE k == kid[p]  d0 == ofd[p]  f0 == ofile[p][d0]
<1>0. ofile' = [ofile EXCEPT ![k][d0] = f0] /\ ofd' = [ofd EXCEPT ![p] = d0 + 1] BY Zenon DEF forkfd
<1>1. /\ fpc[p] = "fork" /\ d0 < NOFILE
      /\ UNCHANGED <<fpc, rf, wf, closing, ff, kid, pipeends, irefs>>
  BY Zenon DEF forkfd, Doing, objects
<1>2. d0 \in Fd /\ d0 \in Nat /\ d0 + 1 \in 0..NOFILE
  <2>1. d0 \in 0..NOFILE BY Zenon DEF TypeInv
  <2> QED BY <1>1, <2>1, FAssumption DEF Fd
<1>3. k \in FProcs /\ fpc[k] = "embryo" /\ ofile[k][d0] = 0
  <2>1. d0 >= d0 BY <1>2
  <2> QED BY <1>1, <1>2, <2>1, Zenon DEF ProcInv
<1>4. f0 # 0 => f0 \in File /\ ftable[f0].type # "FD_NONE" /\ ftable[f0].ref >= 1
  <2> SUFFICES ASSUME f0 # 0 PROVE f0 \in File /\ ftable[f0].type # "FD_NONE" /\ ftable[f0].ref >= 1 BY Zenon
  <2>1. f0 \in File BY <1>2, InTable, Zenon
  <2>2. ftable[f0].type # "FD_NONE" BY <1>2, Zenon DEF NoneInv
  <2>3. <<p, d0>> \in Descriptors(f0) BY <1>2, Zenon DEF Descriptors
  <2> QED BY <2>1, <2>2, <2>3, Named, Zenon
<1>5. /\ ftable' \in [File -> FileRec] /\ SameKinds /\ fpanic' = "none"
      /\ \A f \in File : ftable'[f].ref = IF f = f0 THEN ftable[f].ref + 1 ELSE ftable[f].ref
  <2>1. CASE f0 = 0
    <3>1. ftable' = ftable /\ fpanic' = fpanic BY <2>1, Zenon DEF forkfd
    <3>2. \A f \in File : f # f0 BY <2>1, RefNat, Zenon
    <3> QED BY <3>1, <3>2, Zenon DEF SameKinds, TypeInv, FNoPanic
  <2>2. CASE f0 # 0
    <3>1. ftable' = Duped(f0) /\ fpanic' = IF ftable[f0].ref < 1 THEN "filedup" ELSE fpanic
      BY <2>2, Zenon DEF forkfd, filedup
    <3>2. ~(ftable[f0].ref < 1) BY <1>4, <2>2, RefNat
    <3> QED BY <1>4, <2>2, <3>1, <3>2, Dups, Zenon DEF FNoPanic
  <2> QED BY <2>1, <2>2, Zenon
<1>6. f0 \in 0..NFILE BY <1>2, Zenon DEF TypeInv
<1>7. ofile[p][d0] = f0 /\ ofd[p] = d0 /\ kid[p] = k BY Zenon
<1> HIDE DEF k, d0, f0
<1>8. \A q \in FProcs : ofd'[q] = IF q = p THEN d0 + 1 ELSE ofd[q] BY <1>0, Zenon DEF TypeInv
<1>9. \A q \in FProcs, e \in Fd : ofile'[q][e] = IF q = k /\ e = d0 THEN f0 ELSE ofile[q][e]
  BY <1>0, <1>2, <1>3, Zenon DEF TypeInv
<1>10. \A q \in FProcs : q # k => \A e \in Fd : ofile'[q][e] = ofile[q][e] BY <1>9, Zenon
<1>11. TypeInv'
  <2>1. ofile' \in [FProcs -> [Fd -> 0..NFILE]] BY <1>0, <1>2, <1>3, <1>6, Zenon DEF TypeInv
  <2>2. ofd' \in [FProcs -> 0..NOFILE] BY <1>0, <1>2, Zenon DEF TypeInv
  <2> QED BY <1>1, <1>5, <2>1, <2>2, Zenon DEF TypeInv
<1>12. HandInv'
  <2>1. ASSUME NEW q \in FProcs, fpc[q] = "exit", closing[q] # <<>>
        PROVE  ofd'[q] < NOFILE /\ ofile'[q][ofd'[q]] # 0 /\ closing[q] = <<ofile'[q][ofd'[q]]>>
    <3>1. ofd[q] < NOFILE /\ ofile[q][ofd[q]] # 0 /\ closing[q] = <<ofile[q][ofd[q]]>> BY <2>1, Zenon DEF HandInv
    <3>2. ofd[q] \in 0..NOFILE BY Zenon DEF TypeInv
    <3>3. ofd[q] \in Fd BY <3>1, <3>2, FAssumption DEF Fd
    <3>4. q # p /\ q # k BY <1>1, <1>3, <2>1, Zenon
    <3> QED BY <1>8, <1>10, <3>1, <3>3, <3>4, Zenon
  <2> QED BY <1>1, <2>1, Zenon DEF HandInv
<1>13. ProcInv'
  <2>1. \A q \in FProcs : fpc[q] = "unused" => \A e \in Fd : ofile'[q][e] = 0
    BY <1>3, <1>10 DEF ProcInv
  <2>2. \A q \in FProcs : fpc[q] = "exit" => \A e \in Fd : e < ofd'[q] => ofile'[q][e] = 0
    BY <1>1, <1>3, <1>8, <1>10 DEF ProcInv
  <2>3. ASSUME NEW q \in FProcs, fpc[q] = "fork"
        PROVE  /\ kid[q] \in FProcs /\ fpc[kid[q]] = "embryo"
               /\ \A e \in Fd : e >= ofd'[q] => ofile'[kid[q]][e] = 0
    <3>1. kid[q] \in FProcs /\ fpc[kid[q]] = "embryo" /\ \A e \in Fd : e >= ofd[q] => ofile[kid[q]][e] = 0
      BY <2>3, Zenon DEF ProcInv
    <3>2. CASE q = p
      <4>1. \A e \in Fd : e >= d0 + 1 => e >= d0 /\ e # d0 BY <1>2 DEF Fd
      <4> QED BY <1>3, <1>7, <1>8, <1>9, <3>1, <3>2, <4>1, Zenon
    <3>3. CASE q # p
      <4>1. kid[q] # k BY <1>1, <1>7, <2>3, <3>3, Zenon DEF ProcInv
      <4> QED BY <1>8, <1>10, <3>1, <3>3, <4>1, Zenon
    <3> QED BY <3>2, <3>3, Zenon
  <2> QED BY <1>1, <2>1, <2>2, <2>3, Zenon DEF ProcInv
<1>14. DupInv'
  <2>1. \A q \in FProcs : fpc[q] = "filedup" => q # k BY <1>3, Zenon
  <2> QED BY <1>1, <1>10, <2>1, DupsSame, Zenon
<1>15. NoneInv'
  <2>1. \A f \in File : ftable'[f].type = ftable[f].type BY <1>5, Zenon DEF SameKinds
  <2>2. \A q \in FProcs, e \in Fd : ofile'[q][e] # 0 => ftable'[ofile'[q][e]].type # "FD_NONE"
    <3> SUFFICES ASSUME NEW q \in FProcs, NEW e \in Fd, ofile'[q][e] # 0
                 PROVE  ftable'[ofile'[q][e]].type # "FD_NONE" BY Zenon
    <3>1. CASE q = k /\ e = d0 BY <1>4, <1>9, <2>1, <3>1, Zenon
    <3>2. CASE ~(q = k /\ e = d0)
      <4>1. ofile'[q][e] = ofile[q][e] BY <1>9, <3>2, Zenon
      <4>2. ofile[q][e] \in File /\ ftable[ofile[q][e]].type # "FD_NONE" BY <4>1, InTable, Zenon DEF NoneInv
      <4> QED BY <2>1, <4>1, <4>2, Zenon
    <3> QED BY <3>1, <3>2, Zenon
  <2>3. \A f \in File : ftable'[f].ref = 0 => ftable'[f].type = "FD_NONE"
    BY <1>5, <2>1, RefNat DEF NoneInv
  <2>4. \A f \in File : ftable'[f].type = "FD_NONE" => ftable'[f].ref <= 1
    BY <1>4, <1>5, <2>1, RefNat, Zenon DEF NoneInv
  <2> QED BY <1>1, <2>1, <2>2, <2>3, <2>4, InTable, Zenon DEF NoneInv
<1>16. EndInv' BY <1>1, <1>5, EndsSame, Zenon
<1>17. InodeInv' BY <1>1, <1>5, InodesSame, Zenon
<1>18. RefsAreDescriptors'
  <2>1. OthersKeep(p) BY <1>1, Zenon DEF OthersKeep
  <2>2. ASSUME NEW f \in File
        PROVE  ftable'[f].ref + Mine(p, f) + Cardinality(Cells(ofile, f))
               = ftable[f].ref + Mine(p, f)' + Cardinality(Cells(ofile', f))
    <3>1. f # 0 /\ ftable[f].ref \in Nat BY RefNat, Zenon
    <3>2. Cardinality(Cells(ofile', f)) + Is(f, 0) = Cardinality(Cells(ofile, f)) + Is(f, f0)
      <4>0. k \in FProcs /\ d0 \in Fd BY <1>2, <1>3, Zenon
      <4>1. SameBut(ofile, ofile', k, d0) BY <1>9, Zenon DEF SameBut
      <4>2. ofile'[k][d0] = f0 BY <1>2, <1>3, <1>9, Zenon
      <4>3. Cardinality(Cells(ofile', f)) + Is(f, ofile[k][d0]) = Cardinality(Cells(ofile, f)) + Is(f, ofile'[k][d0])
        BY <4>0, <4>1, DescriptorChange
      <4> QED BY <1>3, <4>2, <4>3, Zenon
    <3>3. Mine(p, f)' = Mine(p, f) BY <1>1, Zenon DEF Mine
    <3>4. Cardinality(Cells(ofile, f)) \in Nat /\ Cardinality(Cells(ofile', f)) \in Nat BY Finite, Zenon DEF Cells
    <3>5. Mine(p, f) \in Int BY MineInt, Zenon
    <3> QED BY <1>5, <3>1, <3>2, <3>3, <3>4, <3>5 DEF Is
  <2> QED BY <1>11, <2>1, <2>2, RefsChange, Zenon
<1> QED BY <1>5, <1>11, <1>12, <1>13, <1>14, <1>15, <1>16, <1>17, <1>18, Zenon DEF FNoPanic

(* A file without references is named by nobody.                           *)
Nobody(f) ==
  /\ \A p \in FProcs, d \in Fd : ofile[p][d] # f
  /\ \A p \in FProcs : wf[p] # f /\ (fpc[p] # "filedup" => rf[p] # f)

(* A file whose count is 0 is named by no descriptor and by no call.       *)
LEMMA Unnamed == RefsAreDescriptors /\ TypeInv /\ DupInv => \A f \in File : ftable[f].ref = 0 => Nobody(f)
<1> SUFFICES ASSUME RefsAreDescriptors, TypeInv, DupInv, NEW f \in File, ftable[f].ref = 0 PROVE Nobody(f)
  BY Zenon
<1>1. ~(ftable[f].ref >= 1) OBVIOUS
<1>2. Descriptors(f) = {} /\ InRf(f) = {} /\ InWf(f) = {} BY <1>1, Named, Zenon
<1>3. ASSUME NEW p \in FProcs, NEW d \in Fd, ofile[p][d] = f PROVE FALSE
  <2>1. <<p, d>> \in Descriptors(f) BY <1>3, Zenon DEF Descriptors
  <2> QED BY <2>1, <1>2, Zenon
<1> QED BY <1>2, <1>3, Zenon DEF InRf, InWf, Nobody

(* fileclose takes one reference; with the last one it empties the file    *)
(* and keeps what it was.                                                  *)
LEMMA CloseTakes ==
  ASSUME FInv, NEW p \in FProcs, fileclose(p)
  PROVE  LET f0 == Head(closing[p]) IN
         /\ f0 \in File /\ ftable[f0].ref >= 1 /\ fpanic' = "none"
         /\ fpc[p] \in {"close", "exit"}
         /\ ftable' \in [File -> FileRec] /\ ff' \in [FProcs -> FileRec]
         /\ \A f \in File : ftable'[f].ref = IF f = f0 THEN ftable[f].ref - 1 ELSE ftable[f].ref
         /\ \A f \in File : f # f0 => ftable'[f] = ftable[f]
         /\ \A q \in FProcs : q # p => ff'[q] = ff[q]
         /\ ftable[f0].ref > 1 =>
              /\ ftable'[f0].type = ftable[f0].type /\ ftable'[f0].page = ftable[f0].page
              /\ ftable'[f0].writable = ftable[f0].writable /\ ff'[p].type = "FD_NONE"
         /\ ftable[f0].ref = 1 => ftable'[f0].type = "FD_NONE" /\ ff'[p] = ftable[f0]
<1> USE DEF FInv
<1> DEFINE f0 == Head(closing[p])
<1>1. /\ closing[p] # <<>> /\ fpanic = "none"
      /\ fpanic' = IF ftable[f0].ref < 1 THEN "fileclose" ELSE fpanic
      /\ ftable' = [ftable EXCEPT ![f0] = IF ftable[f0].ref > 1 THEN [ftable[f0] EXCEPT !.ref = @ - 1] ELSE NoFile]
      /\ ff' = [ff EXCEPT ![p] = IF ftable[f0].ref > 1 THEN NoFile ELSE ftable[f0]]
  BY Zenon DEF fileclose, Emptied
<1>2. closing[p] \in Seq(File) BY Zenon DEF TypeInv
<1>3. f0 \in File /\ f0 = closing[p][1] /\ 1 \in DOMAIN closing[p] BY <1>1, <1>2
<1>4. fpc[p] \in {"close", "exit"} BY <1>1, Zenon DEF HandInv
<1>5. ftable[f0].ref >= 1
  <2>1. CASE fpc[p] = "close"
    <3>1. <<p, 1>> \in InClosing(f0) BY <1>3, <2>1 DEF InClosing
    <3> QED BY <1>3, <3>1, Named, Zenon
  <2>2. CASE fpc[p] = "exit"
    <3>1. ofd[p] < NOFILE /\ closing[p] = <<ofile[p][ofd[p]]>> BY <1>1, <2>2, Zenon DEF HandInv
    <3>2. ofd[p] \in 0..NOFILE BY Zenon DEF TypeInv
    <3>3. ofd[p] \in Fd BY <3>1, <3>2, FAssumption DEF Fd
    <3>4. ofile[p][ofd[p]] = f0 BY <3>1
    <3>5. <<p, ofd[p]>> \in Descriptors(f0) BY <3>3, <3>4, Zenon DEF Descriptors
    <3> QED BY <1>3, <3>5, Named, Zenon
  <2> QED BY <1>4, <2>1, <2>2, Zenon
<1> HIDE DEF f0
<1>6. ftable[f0].ref \in Nat /\ ftable[f0] \in FileRec BY <1>3, RefNat, Zenon DEF TypeInv
<1>7. fpanic' = "none" BY <1>1, <1>5, <1>6
<1>8. NoFile \in FileRec BY Zenon DEF NoFile, FileRec
<1> DEFINE x == IF ftable[f0].ref > 1 THEN [ftable[f0] EXCEPT !.ref = @ - 1] ELSE NoFile
<1>9. /\ x \in FileRec /\ x.ref = ftable[f0].ref - 1
      /\ ftable[f0].ref > 1 => x.type = ftable[f0].type /\ x.page = ftable[f0].page
                               /\ x.writable = ftable[f0].writable
      /\ ftable[f0].ref = 1 => x.type = "FD_NONE"
  <2>1. CASE ftable[f0].ref > 1
    <3>1. x = [ftable[f0] EXCEPT !.ref = @ - 1] BY <2>1, Zenon
    <3>2. ftable[f0].ref - 1 \in Nat /\ ftable[f0].ref # 1 BY <1>6, <2>1
    <3> HIDE DEF x
    <3>3. x \in FileRec /\ x.ref = ftable[f0].ref - 1 BY <1>6, <3>1, <3>2, Zenon DEF FileRec
    <3>4. x.type = ftable[f0].type /\ x.page = ftable[f0].page /\ x.writable = ftable[f0].writable
      BY <1>6, <3>1, Zenon DEF FileRec
    <3> QED BY <3>2, <3>3, <3>4, Zenon
  <2>2. CASE ~(ftable[f0].ref > 1)
    <3>1. x = NoFile BY <2>2, Zenon
    <3>2. ftable[f0].ref = 1 BY <1>5, <1>6, <2>2
    <3> HIDE DEF x
    <3> QED BY <1>8, <2>2, <3>1, <3>2 DEF NoFile
  <2> QED BY <2>1, <2>2, Zenon
<1>10. ftable' = [ftable EXCEPT ![f0] = x] BY <1>1, Zenon
<1> HIDE DEF x
<1>11. ftable' \in [File -> FileRec] BY <1>9, <1>10, Zenon DEF TypeInv
<1>12. \A f \in File : ftable'[f] = IF f = f0 THEN x ELSE ftable[f] BY <1>10, Zenon DEF TypeInv
<1>13. \A f \in File : ftable'[f].ref = IF f = f0 THEN ftable[f].ref - 1 ELSE ftable[f].ref
  BY <1>9, <1>12, Zenon
<1>14. ff' \in [FProcs -> FileRec] BY <1>1, <1>6, <1>8, Zenon DEF TypeInv
<1>15. \A q \in FProcs : ff'[q] = IF q = p THEN (IF ftable[f0].ref > 1 THEN NoFile ELSE ftable[f0]) ELSE ff[q]
  BY <1>1, Zenon DEF TypeInv
<1>16. ftable[f0].ref > 1 => ff'[p].type = "FD_NONE" BY <1>15 DEF NoFile
<1>17. ftable[f0].ref = 1 => ff'[p] = ftable[f0] BY <1>15
<1>18. \A q \in FProcs : q # p => ff'[q] = ff[q] BY <1>15, Zenon
<1>19. /\ f0 \in File /\ ftable[f0].ref >= 1 /\ fpanic' = "none"
       /\ fpc[p] \in {"close", "exit"}
       /\ ftable' \in [File -> FileRec] /\ ff' \in [FProcs -> FileRec]
       /\ \A f \in File : ftable'[f].ref = IF f = f0 THEN ftable[f].ref - 1 ELSE ftable[f].ref
       /\ \A f \in File : f # f0 => ftable'[f] = ftable[f]
       /\ \A q \in FProcs : q # p => ff'[q] = ff[q]
       /\ ftable[f0].ref > 1 =>
            /\ ftable'[f0].type = ftable[f0].type /\ ftable'[f0].page = ftable[f0].page
            /\ ftable'[f0].writable = ftable[f0].writable /\ ff'[p].type = "FD_NONE"
       /\ ftable[f0].ref = 1 => ftable'[f0].type = "FD_NONE" /\ ff'[p] = ftable[f0]
  BY <1>3, <1>4, <1>5, <1>7, <1>9, <1>11, <1>12, <1>13, <1>14, <1>16, <1>17, <1>18, Zenon
<1> QED BY <1>19, Zenon DEF f0

(* ... so the counts stay right, and with the last reference the end of a  *)
(* pipe and the reference of an inode go from the file to fileclose's copy.*)
LEMMA FileCloseKeeps ==
  ASSUME FInv, NEW p \in FProcs, fileclose(p)
  PROVE  FInv'
<1> USE DEF FInv
<1> DEFINE f0 == Head(closing[p])  d0 == ofd[p]
<1>1. /\ closing[p] # <<>> /\ ff[p].type = "FD_NONE" /\ closing' = [closing EXCEPT ![p] = Tail(closing[p])]
      /\ UNCHANGED <<fpc, rf, wf, kid, pipeends, irefs>>
  BY Zenon DEF fileclose, objects
<1>2. /\ f0 \in File /\ ftable[f0].ref >= 1 /\ fpanic' = "none"
      /\ fpc[p] \in {"close", "exit"}
      /\ ftable' \in [File -> FileRec] /\ ff' \in [FProcs -> FileRec]
      /\ \A f \in File : ftable'[f].ref = IF f = f0 THEN ftable[f].ref - 1 ELSE ftable[f].ref
      /\ \A f \in File : f # f0 => ftable'[f] = ftable[f]
      /\ \A q \in FProcs : q # p => ff'[q] = ff[q]
      /\ ftable[f0].ref > 1 =>
           /\ ftable'[f0].type = ftable[f0].type /\ ftable'[f0].page = ftable[f0].page
           /\ ftable'[f0].writable = ftable[f0].writable /\ ff'[p].type = "FD_NONE"
      /\ ftable[f0].ref = 1 => ftable'[f0].type = "FD_NONE" /\ ff'[p] = ftable[f0]
  BY CloseTakes, Zenon
<1>3. closing[p] \in Seq(File) /\ Len(closing[p]) <= 2 BY Zenon DEF TypeInv
<1>4. Tail(closing[p]) \in Seq(File) /\ Len(Tail(closing[p])) <= 2 BY <1>1, <1>3
<1>5. \A f : Listed(f, Tail(closing[p])) + Is(f, f0) = Listed(f, closing[p])
  BY <1>1, <1>3 DEF Listed, Is
<1>6. fpc[p] = "exit" => /\ d0 \in Fd /\ d0 + 1 \in 0..NOFILE /\ ofile[p][d0] = f0 /\ Tail(closing[p]) = <<>>
                         /\ ofile' = [ofile EXCEPT ![p][d0] = 0] /\ ofd' = [ofd EXCEPT ![p] = d0 + 1]
  <2> SUFFICES ASSUME fpc[p] = "exit"
               PROVE  /\ d0 \in Fd /\ d0 + 1 \in 0..NOFILE /\ ofile[p][d0] = f0 /\ Tail(closing[p]) = <<>>
                      /\ ofile' = [ofile EXCEPT ![p][d0] = 0] /\ ofd' = [ofd EXCEPT ![p] = d0 + 1]
    BY Zenon
  <2>1. ofile' = [ofile EXCEPT ![p][d0] = 0] /\ ofd' = [ofd EXCEPT ![p] = d0 + 1] BY Zenon DEF fileclose
  <2>2. d0 < NOFILE /\ closing[p] = <<ofile[p][d0]>> BY <1>1, Zenon DEF HandInv
  <2>3. d0 \in 0..NOFILE BY Zenon DEF TypeInv
  <2>4. d0 \in Fd /\ d0 + 1 \in 0..NOFILE BY <2>2, <2>3, FAssumption DEF Fd
  <2>5. ofile[p][d0] = f0 /\ Tail(closing[p]) = <<>> BY <2>2
  <2> QED BY <2>1, <2>4, <2>5, Zenon
<1>7. fpc[p] # "exit" => ofile' = ofile /\ ofd' = ofd BY Zenon DEF fileclose
<1>8. ofd[p] = d0 BY Zenon
<1>9. \A q \in FProcs : closing'[q] = IF q = p THEN Tail(closing[p]) ELSE closing[q] BY <1>1, Zenon DEF TypeInv
<1> HIDE DEF f0, d0
<1>10. \A q \in FProcs, e \in Fd :
         ofile'[q][e] = IF q = p /\ fpc[p] = "exit" /\ e = d0 THEN 0 ELSE ofile[q][e]
  <2>1. CASE fpc[p] = "exit"
    <3>1. ofile' = [ofile EXCEPT ![p][d0] = 0] /\ d0 \in Fd BY <1>6, <2>1, Zenon
    <3> QED BY <2>1, <3>1, Zenon DEF TypeInv
  <2> QED BY <1>7, <2>1, Zenon
<1>11. \A q \in FProcs : ofd'[q] = IF q = p /\ fpc[p] = "exit" THEN d0 + 1 ELSE ofd[q]
  <2>1. CASE fpc[p] = "exit" BY <1>6, <2>1, Zenon DEF TypeInv
  <2> QED BY <1>7, <2>1, Zenon
<1>12. \A q \in FProcs : q # p => \A e \in Fd : ofile'[q][e] = ofile[q][e] BY <1>10, Zenon
<1>13. TypeInv'
  <2>1. closing' \in [FProcs -> Seq(File)] BY <1>1, <1>4, Zenon DEF TypeInv
  <2>2. \A q \in FProcs : Len(closing'[q]) <= 2 BY <1>4, <1>9, Zenon DEF TypeInv
  <2>3. ofile' \in [FProcs -> [Fd -> 0..NFILE]]
    <3>1. CASE fpc[p] = "exit"
      <4>1. 0 \in 0..NFILE BY FAssumption
      <4>2. ofile' = [ofile EXCEPT ![p][d0] = 0] BY <1>6, <3>1, Zenon
      <4> QED BY <4>1, <4>2, Zenon DEF TypeInv
    <3> QED BY <1>7, <3>1, Zenon DEF TypeInv
  <2>4. ofd' \in [FProcs -> 0..NOFILE]
    <3>1. CASE fpc[p] = "exit" BY <1>6, <3>1, Zenon DEF TypeInv
    <3> QED BY <1>7, <3>1, Zenon DEF TypeInv
  <2> QED BY <1>1, <1>2, <2>1, <2>2, <2>3, <2>4, Zenon DEF TypeInv
<1>14. HandInv'
  <2>1. ASSUME NEW q \in FProcs, fpc[q] = "exit", closing'[q] # <<>>
        PROVE  ofd'[q] < NOFILE /\ ofile'[q][ofd'[q]] # 0 /\ closing'[q] = <<ofile'[q][ofd'[q]]>>
    <3>1. q # p BY <1>6, <1>9, <2>1, Zenon
    <3>2. closing'[q] = closing[q] /\ ofd'[q] = ofd[q] BY <1>9, <1>11, <3>1, Zenon
    <3>3. ofd[q] < NOFILE /\ ofile[q][ofd[q]] # 0 /\ closing[q] = <<ofile[q][ofd[q]]>>
      BY <2>1, <3>2, Zenon DEF HandInv
    <3>4. ofd[q] \in 0..NOFILE BY Zenon DEF TypeInv
    <3>5. ofd[q] \in Fd BY <3>3, <3>4, FAssumption DEF Fd
    <3> QED BY <1>12, <3>1, <3>2, <3>3, <3>5, Zenon
  <2>2. \A q \in FProcs : fpc[q] \notin {"close", "exit"} => closing'[q] = <<>> /\ ff'[q].type = "FD_NONE"
    <3>1. \A q \in FProcs : fpc[q] \notin {"close", "exit"} =>
             q # p /\ closing[q] = <<>> /\ ff[q].type = "FD_NONE"
      BY <1>2, Zenon DEF HandInv
    <3> QED BY <1>2, <1>9, <3>1, Zenon
  <2>3. /\ fpc' = fpc /\ rf' = rf /\ wf' = wf
        /\ \A q \in FProcs : (rf[q] # 0 <=> fpc[q] \in HasRf) /\ (wf[q] # 0 <=> fpc[q] \in HasWf)
    BY <1>1, Zenon DEF HandInv
  <2> QED BY <2>1, <2>2, <2>3, Zenon DEF HandInv
<1>15. ProcInv'
  <2>1. \A q \in FProcs : fpc[q] = "unused" => \A e \in Fd : ofile'[q][e] = 0
    BY <1>10 DEF ProcInv
  <2>2. \A q \in FProcs : fpc[q] = "exit" => \A e \in Fd : e < ofd'[q] => ofile'[q][e] = 0
    <3> SUFFICES ASSUME NEW q \in FProcs, fpc[q] = "exit", NEW e \in Fd, e < ofd'[q] PROVE ofile'[q][e] = 0
      BY Zenon
    <3>1. e < ofd[q] => ofile[q][e] = 0 BY Zenon DEF ProcInv
    <3>2. CASE q = p
      <4>1. e < d0 + 1 BY <1>11, <3>2, Zenon
      <4>2. e < d0 \/ e = d0 BY <1>6, <3>2, <4>1 DEF Fd
      <4> QED BY <1>8, <1>10, <3>1, <3>2, <4>2, Zenon
    <3>3. CASE q # p BY <1>11, <1>12, <3>1, <3>3, Zenon
    <3> QED BY <3>2, <3>3, Zenon
  <2>3. ASSUME NEW q \in FProcs, fpc[q] = "fork"
        PROVE  /\ q # p /\ kid[q] \in FProcs /\ fpc[kid[q]] = "embryo" /\ kid[q] # p
               /\ \A e \in Fd : e >= ofd'[q] => ofile'[kid[q]][e] = 0
    BY <1>2, <1>11, <1>12, <2>3 DEF ProcInv
  <2> QED BY <1>1, <2>1, <2>2, <2>3, Zenon DEF ProcInv
<1>16. DupInv'
  <2>1. \A q \in FProcs : fpc[q] = "filedup" => q # p BY <1>2, Zenon
  <2> QED BY <1>1, <1>12, <2>1, DupsSame, Zenon
<1>17. RefsAreDescriptors'
  <2>1. OthersKeep(p) BY <1>1, <1>9, Zenon DEF OthersKeep
  <2>2. ASSUME NEW f \in File
        PROVE  ftable'[f].ref + Mine(p, f) + Cardinality(Cells(ofile, f))
               = ftable[f].ref + Mine(p, f)' + Cardinality(Cells(ofile', f))
    <3>1. f # 0 /\ ftable[f].ref \in Nat /\ ftable'[f].ref = ftable[f].ref - Is(f, f0)
      BY <1>2, RefNat DEF Is
    <3>2. rf[p] = 0 /\ wf[p] = 0 BY <1>2, Zenon DEF HandInv, HasRf, HasWf
    <3>3. Cardinality(Cells(ofile, f)) \in Nat /\ Cardinality(Cells(ofile', f)) \in Nat BY Finite, Zenon DEF Cells
    <3>4. CASE fpc[p] = "exit"
      <4>1. Mine(p, f) = 0 /\ Mine(p, f)' = 0 BY <1>1, <3>1, <3>2, <3>4 DEF Mine, Is
      <4>2. SameBut(ofile, ofile', p, d0) BY <1>10, Zenon DEF SameBut
      <4>0. d0 \in Fd BY <1>6, <3>4, Zenon
      <4>3. ofile[p][d0] = f0 BY <1>6, <3>4, Zenon
      <4>4. ofile'[p][d0] = 0 BY <1>10, <3>4, <4>0, Zenon
      <4>5. Cardinality(Cells(ofile', f)) + Is(f, ofile[p][d0]) = Cardinality(Cells(ofile, f)) + Is(f, ofile'[p][d0])
        BY <4>0, <4>2, DescriptorChange
      <4>6. Cardinality(Cells(ofile', f)) + Is(f, f0) = Cardinality(Cells(ofile, f)) + Is(f, 0)
        BY <4>3, <4>4, <4>5, Zenon
      <4> QED BY <3>1, <3>3, <4>1, <4>6 DEF Is
    <3>5. CASE fpc[p] # "exit"
      <4>1. Mine(p, f) = Listed(f, closing[p]) /\ Mine(p, f)' = Listed(f, Tail(closing[p]))
        <5>1. closing'[p] = Tail(closing[p]) /\ fpc'[p] = fpc[p] /\ rf'[p] = 0 /\ wf'[p] = 0 /\ fpc[p] # "filedup"
          BY <1>1, <1>2, <1>9, <3>2, Zenon
        <5>2. Listed(f, closing[p]) \in Nat /\ Listed(f, Tail(closing[p])) \in Nat BY DEF Listed, Is
        <5> QED BY <3>1, <3>2, <3>5, <5>1, <5>2 DEF Mine, Is
      <4>2. Listed(f, Tail(closing[p])) + Is(f, f0) = Listed(f, closing[p]) BY <1>5, Zenon
      <4>3. Listed(f, closing[p]) \in Nat /\ Listed(f, Tail(closing[p])) \in Nat BY DEF Listed, Is
      <4>4. ofile' = ofile BY <1>7, <3>5, Zenon
      <4> QED BY <3>1, <3>3, <4>1, <4>2, <4>3, <4>4 DEF Is
    <3> QED BY <3>4, <3>5, Zenon
  <2> QED BY <1>13, <2>1, <2>2, RefsChange, Zenon
<1>18. ftable[f0].ref = 1 \/ ftable[f0].ref > 1 BY <1>2, RefNat
<1>19. NoneInv'
  <2>1. \A f \in File : ftable'[f].ref = 0 => Nobody(f)'
    <3>1. (RefsAreDescriptors /\ TypeInv /\ DupInv => \A f \in File : ftable[f].ref = 0 => Nobody(f))'
      BY Unnamed, PTL
    <3> QED BY <1>13, <1>16, <1>17, <3>1, Zenon
  <2>2. \A f \in File : ftable'[f].type = ftable[f].type \/ (ftable'[f].type = "FD_NONE" /\ f = f0 /\ ftable'[f].ref = 0)
    BY <1>2, <1>18, RefNat
  <2>3. \A f \in File : ftable'[f].ref = 0 => ftable'[f].type = "FD_NONE"
    BY <1>2, <1>18, RefNat DEF NoneInv
  <2>4. \A f \in File : ftable'[f].type = "FD_NONE" => ftable'[f].ref <= 1
    BY <1>2, <2>2, RefNat DEF NoneInv
  <2>5. ASSUME NEW q \in FProcs, NEW e \in Fd, ofile'[q][e] # 0 PROVE ftable'[ofile'[q][e]].type # "FD_NONE"
    <3>1. ofile'[q][e] = ofile[q][e] BY <1>10, <2>5, Zenon
    <3>2. ofile[q][e] \in File /\ ftable[ofile[q][e]].type # "FD_NONE" BY <2>5, <3>1, InTable, Zenon DEF NoneInv
    <3>3. \A f : f = ofile'[q][e] => ~Nobody(f)' BY Zenon DEF Nobody
    <3> QED BY <2>1, <2>2, <3>1, <3>2, <3>3, Zenon
  <2>6. ASSUME NEW q \in FProcs, fpc[q] \in {"filealloc2", "kalloc", "fdalloc"} PROVE ftable'[rf[q]].type = "FD_NONE"
    <3>1. rf[q] \in File /\ ftable[rf[q]].type = "FD_NONE" BY <2>6, InTable, Zenon DEF NoneInv
    <3> QED BY <2>2, <3>1, Zenon
  <2>7. ASSUME NEW q \in FProcs, fpc[q] = "kalloc" PROVE ftable'[wf[q]].type = "FD_NONE"
    <3>1. wf[q] \in File /\ ftable[wf[q]].type = "FD_NONE" BY <2>7, InTable, Zenon DEF NoneInv
    <3> QED BY <2>2, <3>1, Zenon
  <2>8. ASSUME NEW q \in FProcs, fpc[q] = "fdalloc2"
        PROVE  ftable'[rf[q]].type # "FD_NONE" /\ ftable'[wf[q]].type # "FD_NONE"
    <3>1. /\ rf[q] \in File /\ ftable[rf[q]].type # "FD_NONE"
          /\ wf[q] \in File /\ ftable[wf[q]].type # "FD_NONE" BY <2>8, InTable, Zenon DEF NoneInv
    <3>2. \A f : f = rf[q] \/ f = wf[q] => ~Nobody(f)'
      <4>1. fpc'[q] # "filedup" /\ rf'[q] = rf[q] /\ wf'[q] = wf[q] BY <1>1, <2>8, Zenon
      <4> QED BY <4>1, Zenon DEF Nobody
    <3> QED BY <2>1, <2>2, <3>1, <3>2, Zenon
  <2>9. fpc' = fpc /\ rf' = rf /\ wf' = wf BY <1>1, Zenon
  <2> QED BY <2>3, <2>4, <2>5, <2>6, <2>7, <2>8, <2>9, Zenon DEF NoneInv
<1>20. EndInv'
  <2>1. CASE ftable[f0].ref > 1
    <3>1. /\ \A f \in File : /\ ftable'[f].type = ftable[f].type /\ ftable'[f].page = ftable[f].page
                             /\ ftable'[f].writable = ftable[f].writable
          /\ \A q \in FProcs : q # p => ff'[q] = ff[q]
          /\ ff'[p].type = "FD_NONE"
      BY <1>2, <2>1, Zenon
    <3>2. \A f \in File, g \in PipePages, e \in {"r", "w"} : IsEnd(ftable'[f], g, e) <=> IsEnd(ftable[f], g, e)
      BY <3>1, Zenon DEF IsEnd, End
    <3>3. \A q \in FProcs, g \in PipePages, e \in {"r", "w"} : IsEnd(ff'[q], g, e) <=> IsEnd(ff[q], g, e)
      <4>1. \A g \in PipePages, e \in {"r", "w"} : ~IsEnd(ff'[p], g, e) /\ ~IsEnd(ff[p], g, e)
        BY <1>1, <3>1, Zenon DEF IsEnd
      <4> QED BY <3>1, <4>1, Zenon
    <3>4. HasPage' BY <3>1, Zenon DEF EndInv, HasPage
    <3> QED BY <1>1, <3>2, <3>3, <3>4, EndsAlike, Zenon
  <2>2. CASE ftable[f0].ref = 1
    <3>1. /\ \A f \in File : f # f0 => ftable'[f] = ftable[f]
          /\ \A q \in FProcs : q # p => ff'[q] = ff[q]
          /\ ff'[p] = ftable[f0] /\ f0 \in File
      BY <1>2, <2>2, Zenon
    <3>2. /\ \A g \in PipePages, e \in {"r", "w"} : ~IsEnd(ff[p], g, e) /\ ~IsEnd(ftable'[f0], g, e)
      BY <1>1, <1>2, <2>2, Zenon DEF IsEnd
    <3>3. HasPage' BY <1>2, <2>2, <3>1, Zenon DEF EndInv, HasPage
    <3>4. EndsOpen'
      <4> SUFFICES ASSUME NEW g \in PipePages, NEW e \in {"r", "w"}
                   PROVE  e \in pipeends'[g] <=> \/ \E f \in File : IsEnd(ftable'[f], g, e)
                                                 \/ \E q \in FProcs : IsEnd(ff'[q], g, e)
        BY Zenon DEF EndsOpen
      <4>1. e \in pipeends'[g] <=> \/ \E f \in File : IsEnd(ftable[f], g, e)
                                   \/ \E q \in FProcs : IsEnd(ff[q], g, e)
        BY <1>1, Zenon DEF EndInv, EndsOpen
      <4>2. ~IsEnd(ff[p], g, e) /\ ~IsEnd(ftable'[f0], g, e) /\ (IsEnd(ff'[p], g, e) <=> IsEnd(ftable[f0], g, e))
        BY <3>1, <3>2, Zenon
      <4> QED BY <3>1, <4>1, <4>2, Zenon
    <3>5. EndsApart'
      <4> SUFFICES ASSUME NEW g \in PipePages, NEW e \in {"r", "w"}
                   PROVE  /\ \A f, h \in File : IsEnd(ftable'[f], g, e) /\ IsEnd(ftable'[h], g, e) => f = h
                          /\ \A q, r \in FProcs : IsEnd(ff'[q], g, e) /\ IsEnd(ff'[r], g, e) => q = r
                          /\ \A f \in File, q \in FProcs : ~(IsEnd(ftable'[f], g, e) /\ IsEnd(ff'[q], g, e))
        BY Zenon DEF EndsApart
      <4>1. /\ \A f, h \in File : IsEnd(ftable[f], g, e) /\ IsEnd(ftable[h], g, e) => f = h
            /\ \A q, r \in FProcs : IsEnd(ff[q], g, e) /\ IsEnd(ff[r], g, e) => q = r
            /\ \A f \in File, q \in FProcs : ~(IsEnd(ftable[f], g, e) /\ IsEnd(ff[q], g, e))
        BY Zenon DEF EndInv, EndsApart
      <4>2. ~IsEnd(ff[p], g, e) /\ ~IsEnd(ftable'[f0], g, e) /\ (IsEnd(ff'[p], g, e) <=> IsEnd(ftable[f0], g, e))
        BY <3>1, <3>2, Zenon
      <4>3. \A f \in File : IsEnd(ftable'[f], g, e) => f # f0 /\ IsEnd(ftable[f], g, e) BY <3>1, <4>2, Zenon
      <4>4. \A q \in FProcs : IsEnd(ff'[q], g, e) => q = p \/ IsEnd(ff[q], g, e) BY <3>1, Zenon
      <4> QED BY <3>1, <4>1, <4>2, <4>3, <4>4, Zenon
    <3> QED BY <3>3, <3>4, <3>5, Zenon DEF EndInv
  <2> QED BY <1>18, <2>1, <2>2, Zenon
<1>21. InodeInv'
  <2>1. InodeCalls' = InodeCalls BY <1>1, Zenon DEF InodeCalls
  <2>2. IsFiniteSet(InodeFiles) /\ IsFiniteSet(InodeLast)
        /\ Cardinality(InodeFiles) \in Nat /\ Cardinality(InodeLast) \in Nat /\ Cardinality(InodeCalls) \in Nat
    BY Finite, Zenon DEF InodeFiles, InodeLast, InodeCalls
  <2>3. p \notin InodeLast BY <1>1, Zenon DEF InodeLast
  <2>4. CASE ftable[f0].ref > 1 \/ ftable[f0].type # "FD_INODE"
    <3>1. ftable'[f0].type = "FD_INODE" <=> ftable[f0].type = "FD_INODE" BY <1>2, <1>18, <2>4, Zenon
    <3>2. ff'[p].type # "FD_INODE" BY <1>2, <1>18, <2>4, Zenon
    <3>3. InodeFiles' = InodeFiles BY <1>2, <3>1, Zenon DEF InodeFiles
    <3>4. InodeLast' = InodeLast BY <1>2, <2>3, <3>2, Zenon DEF InodeLast
    <3> QED BY <1>1, <2>1, <3>3, <3>4, Zenon DEF InodeInv
  <2>5. CASE ftable[f0].ref = 1 /\ ftable[f0].type = "FD_INODE"
    <3>1. ftable'[f0].type # "FD_INODE" /\ ff'[p].type = "FD_INODE" BY <1>2, <2>5, Zenon
    <3>2. InodeFiles' = InodeFiles \ {f0} /\ f0 \in InodeFiles BY <1>2, <2>5, <3>1, Zenon DEF InodeFiles
    <3>3. InodeLast' = InodeLast \cup {p} BY <1>2, <2>3, <3>1, Zenon DEF InodeLast
    <3>4. Cardinality(InodeFiles') = Cardinality(InodeFiles) - 1 BY <2>2, <3>2, FS_RemoveElement, Zenon
    <3>5. Cardinality(InodeLast') = Cardinality(InodeLast) + 1 BY <2>2, <2>3, <3>3, FS_AddElement, Zenon
    <3> QED BY <1>1, <2>1, <2>2, <3>4, <3>5 DEF InodeInv
  <2> QED BY <1>18, <2>4, <2>5, Zenon
<1> QED BY <1>2, <1>13, <1>14, <1>15, <1>16, <1>17, <1>19, <1>20, <1>21, Zenon DEF FNoPanic

(* pipeclose or iput of what fileclose kept: nobody else has that end.     *)
LEMMA CloseObjectKeeps ==
  ASSUME FInv, NEW p \in FProcs, closeobject(p)
  PROVE  FInv'
<1> USE DEF FInv
<1>1. /\ ff[p].type # "FD_NONE" /\ ff' = [ff EXCEPT ![p] = NoFile]
      /\ UNCHANGED <<ftable, ofile, fpc, rf, wf, closing, ofd, kid, fpanic>>
  BY Zenon DEF closeobject
<1>2. /\ ff[p].type = "FD_PIPE" =>
           pipeends' = [pipeends EXCEPT ![ff[p].page] = pipeends[ff[p].page] \ {End(ff[p])}] /\ irefs' = irefs
      /\ ff[p].type # "FD_PIPE" => irefs' = irefs - 1 /\ pipeends' = pipeends
  BY Zenon DEF closeobject
<1>3. \A q \in FProcs : ff'[q] = IF q = p THEN NoFile ELSE ff[q] BY <1>1, Zenon DEF TypeInv
<1>4. NoFile \in FileRec /\ NoFile.type = "FD_NONE" BY Zenon DEF NoFile, FileRec
<1>5. ff[p] \in FileRec BY Zenon DEF TypeInv
<1>6. ff[p].type = "FD_PIPE" \/ ff[p].type = "FD_INODE" BY <1>1, <1>5, Zenon DEF FileRec
<1>7. TypeInv'
  <2>1. ff' \in [FProcs -> FileRec] BY <1>1, <1>4, Zenon DEF TypeInv
  <2>2. pipeends' \in [PipePages -> SUBSET {"r", "w"}]
    <3>1. CASE ff[p].type = "FD_PIPE"
      <4>1. ff[p].page \in PipePages BY <3>1, Zenon DEF EndInv, HasPage
      <4>2. pipeends[ff[p].page] \ {End(ff[p])} \in SUBSET {"r", "w"} BY <4>1, Zenon DEF TypeInv
      <4> QED BY <1>2, <3>1, <4>2, Zenon DEF TypeInv
    <3> QED BY <1>2, <3>1, Zenon DEF TypeInv
  <2>3. irefs' \in Int BY <1>2 DEF TypeInv
  <2> QED BY <1>1, <2>1, <2>2, <2>3, Zenon DEF TypeInv
<1>8. HandInv'
  <2>1. \A q \in FProcs : ff[q].type = "FD_NONE" => ff'[q].type = "FD_NONE" BY <1>3, <1>4, Zenon
  <2> QED BY <1>1, <2>1, Zenon DEF HandInv
<1>9. ProcInv' /\ DupInv' /\ NoneInv'
  <2>1. ProcInv' BY <1>1, Zenon DEF ProcInv
  <2>2. DupInv' BY <1>1, Zenon DEF DupInv
  <2>3. NoneInv' BY <1>1, Zenon DEF NoneInv
  <2> QED BY <2>1, <2>2, <2>3, Zenon
<1>10. \A g, e : ~IsEnd(ff'[p], g, e) BY <1>3, <1>4, Zenon DEF IsEnd
<1>11. EndInv'
  <2>1. HasPage' BY <1>1, <1>3, <1>4, Zenon DEF EndInv, HasPage
  <2>2. EndsApart'
    <3> SUFFICES ASSUME NEW g \in PipePages, NEW e \in {"r", "w"}
                 PROVE  /\ \A f, h \in File : IsEnd(ftable[f], g, e) /\ IsEnd(ftable[h], g, e) => f = h
                        /\ \A q, r \in FProcs : IsEnd(ff'[q], g, e) /\ IsEnd(ff'[r], g, e) => q = r
                        /\ \A f \in File, q \in FProcs : ~(IsEnd(ftable[f], g, e) /\ IsEnd(ff'[q], g, e))
      BY <1>1, Zenon DEF EndsApart
    <3>1. /\ \A f, h \in File : IsEnd(ftable[f], g, e) /\ IsEnd(ftable[h], g, e) => f = h
          /\ \A q, r \in FProcs : IsEnd(ff[q], g, e) /\ IsEnd(ff[r], g, e) => q = r
          /\ \A f \in File, q \in FProcs : ~(IsEnd(ftable[f], g, e) /\ IsEnd(ff[q], g, e))
      BY Zenon DEF EndInv, EndsApart
    <3>2. \A q \in FProcs : IsEnd(ff'[q], g, e) => IsEnd(ff[q], g, e) BY <1>3, <1>10, Zenon
    <3> QED BY <3>1, <3>2, Zenon
  <2>3. EndsOpen'
    <3> SUFFICES ASSUME NEW g \in PipePages, NEW e \in {"r", "w"}
                 PROVE  e \in pipeends'[g] <=> \/ \E f \in File : IsEnd(ftable[f], g, e)
                                               \/ \E q \in FProcs : IsEnd(ff'[q], g, e)
      BY <1>1, Zenon DEF EndsOpen
    <3>1. e \in pipeends[g] <=> \/ \E f \in File : IsEnd(ftable[f], g, e)
                                \/ \E q \in FProcs : IsEnd(ff[q], g, e)
      BY Zenon DEF EndInv, EndsOpen
    <3>2. CASE IsEnd(ff[p], g, e)
      <4>1. ff[p].type = "FD_PIPE" /\ ff[p].page = g /\ End(ff[p]) = e BY <3>2, Zenon DEF IsEnd
      <4>2. e \notin pipeends'[g] BY <1>2, <4>1, Zenon DEF TypeInv
      <4>3. \A q \in FProcs : IsEnd(ff[q], g, e) => q = p BY <3>2, Zenon DEF EndInv, EndsApart
      <4>4. \A f \in File : ~IsEnd(ftable[f], g, e) BY <3>2, Zenon DEF EndInv, EndsApart
      <4> QED BY <1>3, <1>10, <4>2, <4>3, <4>4, Zenon
    <3>3. CASE ~IsEnd(ff[p], g, e)
      <4>1. e \in pipeends'[g] <=> e \in pipeends[g]
        <5>1. CASE ff[p].type = "FD_PIPE"
          <6>1. pipeends'[g] = IF g = ff[p].page THEN pipeends[g] \ {End(ff[p])} ELSE pipeends[g]
            BY <1>2, <5>1, Zenon DEF TypeInv
          <6> QED BY <3>3, <5>1, <6>1, Zenon DEF IsEnd
        <5> QED BY <1>2, <5>1, Zenon
      <4> QED BY <1>3, <1>10, <3>1, <3>3, <4>1, Zenon
    <3> QED BY <3>2, <3>3, Zenon
  <2> QED BY <2>1, <2>2, <2>3, Zenon DEF EndInv
<1>12. InodeInv'
  <2>1. InodeFiles' = InodeFiles /\ InodeCalls' = InodeCalls BY <1>1, Zenon DEF InodeFiles, InodeCalls
  <2>2. InodeLast' = InodeLast \ {p}
    <3>1. \A q \in FProcs : ff'[q].type = "FD_INODE" <=> ff[q].type = "FD_INODE" /\ q # p BY <1>3, <1>4, Zenon
    <3> QED BY <3>1, Zenon DEF InodeLast
  <2>3. /\ IsFiniteSet(InodeLast) /\ Cardinality(InodeFiles) \in Nat
        /\ Cardinality(InodeLast) \in Nat /\ Cardinality(InodeCalls) \in Nat
    BY Finite, Zenon DEF InodeFiles, InodeLast, InodeCalls
  <2>4. Cardinality(InodeLast') = IF p \in InodeLast THEN Cardinality(InodeLast) - 1 ELSE Cardinality(InodeLast)
    BY <2>2, <2>3, FS_RemoveElement, Zenon
  <2>5. p \in InodeLast <=> ff[p].type # "FD_PIPE" BY <1>6, Zenon DEF InodeLast
  <2> QED BY <1>2, <2>1, <2>3, <2>4, <2>5 DEF InodeInv
<1>13. RefsAreDescriptors'
  <2>1. OthersKeep(p) BY <1>1, Zenon DEF OthersKeep
  <2>2. \A f \in File : Mine(p, f)' = Mine(p, f) BY <1>1, Zenon DEF Mine
  <2> QED BY <1>1, <1>7, <2>1, <2>2, RefsChange, Zenon
<1> QED BY <1>1, <1>7, <1>8, <1>9, <1>11, <1>12, <1>13, Zenon DEF FNoPanic

-----------------------------------------------------------------------------
(* Every step of every process keeps the invariant.                        *)
LEMMA FKeeps == FInv /\ [FNext]_fvars => FInv'
<1> SUFFICES ASSUME FInv, [FNext]_fvars PROVE FInv' BY Zenon
<1>1. CASE FNext
  <2> SUFFICES ASSUME NEW p \in FProcs,
                      \/ sys_open(p) \/ openfile(p) \/ openfd(p)
                      \/ sys_pipe(p) \/ pipefile(p) \/ pipepage(p) \/ pipefd(p)
                      \/ dupref(p) \/ \E d \in Fd : sys_dup(p, d) \/ closefd(p, d)
                      \/ forkfd(p) \/ forked(p) \/ \E q \in FProcs : fork(p, q)
                      \/ exit(p) \/ exitfd(p) \/ fileclose(p) \/ closeobject(p) \/ closed(p)
               PROVE  FInv'
    BY <1>1, Zenon DEF FNext
  <2>1. CASE sys_open(p) BY <2>1, OpenKeeps, Zenon
  <2>2. CASE openfile(p) BY <2>2, OpenFileKeeps, Zenon
  <2>3. CASE openfd(p) BY <2>3, OpenFdKeeps, Zenon
  <2>4. CASE sys_pipe(p) BY <2>4, PipeKeeps, Zenon
  <2>5. CASE pipefile(p) BY <2>5, PipeFileKeeps, Zenon
  <2>6. CASE pipepage(p) BY <2>6, PipePageKeeps, Zenon
  <2>7. CASE pipefd(p) BY <2>7, PipeFdKeeps, Zenon
  <2>8. CASE dupref(p) BY <2>8, DupRefKeeps, Zenon
  <2>9. ASSUME NEW d \in Fd, sys_dup(p, d) PROVE FInv' BY <2>9, DupKeeps, Zenon
  <2>10. ASSUME NEW d \in Fd, closefd(p, d) PROVE FInv' BY <2>10, CloseFdKeeps, Zenon
  <2>11. CASE forkfd(p) BY <2>11, ForkFdKeeps, Zenon
  <2>12. CASE forked(p) BY <2>12, ForkedKeeps, Zenon
  <2>13. ASSUME NEW q \in FProcs, fork(p, q) PROVE FInv' BY <2>13, ForkKeeps, Zenon
  <2>14. CASE exit(p) BY <2>14, ExitKeeps, Zenon
  <2>15. CASE exitfd(p) BY <2>15, ExitFdKeeps, Zenon
  <2>16. CASE fileclose(p) BY <2>16, FileCloseKeeps, Zenon
  <2>17. CASE closeobject(p) BY <2>17, CloseObjectKeeps, Zenon
  <2>18. CASE closed(p) BY <2>18, ClosedKeeps, Zenon
  <2> QED
    BY <2>1, <2>2, <2>3, <2>4, <2>5, <2>6, <2>7, <2>8, <2>9, <2>10, <2>11, <2>12, <2>13, <2>14,
       <2>15, <2>16, <2>17, <2>18, Zenon
<1>2. CASE UNCHANGED fvars
  <2>1. UNCHANGED <<ftable, ofile, fpc, rf, wf, closing, ff, ofd, kid, pipeends, irefs, fpanic>>
    BY <1>2, Zenon DEF fvars
  <2>2. TypeInv' /\ HandInv' /\ ProcInv' /\ DupInv' /\ NoneInv'
    <3>1. TypeInv' BY <2>1, Zenon DEF FInv, TypeInv
    <3>2. HandInv' BY <2>1, Zenon DEF FInv, HandInv
    <3>3. ProcInv' BY <2>1, Zenon DEF FInv, ProcInv
    <3>4. DupInv' BY <2>1, Zenon DEF FInv, DupInv
    <3>5. NoneInv' BY <2>1, Zenon DEF FInv, NoneInv
    <3> QED BY <3>1, <3>2, <3>3, <3>4, <3>5, Zenon
  <2>3. EndInv' BY <2>1, EndsSame, Zenon DEF FInv, SameKinds
  <2>4. InodeInv' BY <2>1, InodesSame, Zenon DEF FInv, SameKinds
  <2>5. RefsAreDescriptors' /\ FNoPanic'
    BY <2>1, Zenon DEF FInv, RefsAreDescriptors, Descriptors, InRf, InWf, InClosing, Uncounted, FNoPanic
  <2> QED BY <2>2, <2>3, <2>4, <2>5, Zenon DEF FInv
<1> QED BY <1>1, <1>2, Zenon

(* The invariant is what the run checks and more.                          *)
LEMMA Counted == FInv => FilesCounted
<1> SUFFICES ASSUME FInv PROVE FilesCounted BY Zenon
<1> USE DEF FInv
<1>1. /\ Cardinality(InodeFiles) \in Nat /\ Cardinality(InodeLast) \in Nat /\ Cardinality(InodeCalls) \in Nat
  BY Finite, Zenon DEF InodeFiles, InodeLast, InodeCalls
<1>2. \A f \in File : ftable[f].type # "FD_NONE" => ftable[f].ref > 0
  BY RefNat DEF NoneInv
<1>3. FTypeOK
  <2>1. \A f \in File : ftable[f].ref \in Nat /\ ftable[f].type \in {"FD_NONE", "FD_PIPE", "FD_INODE"}
    <3>1. \A f \in File : ftable[f] \in FileRec BY Zenon DEF TypeInv
    <3> QED BY <3>1, Zenon DEF FileRec
  <2>2. irefs \in Nat BY <1>1 DEF InodeInv
  <2> QED BY <2>1, <2>2, Zenon DEF FTypeOK, TypeInv
<1>4. ASSUME NEW g \in PipePages
      PROVE  pipeends[g] = {End(f) : f \in {x \in Behind : x.type = "FD_PIPE" /\ x.page = g}}
  <2> DEFINE E == {End(f) : f \in {x \in Behind : x.type = "FD_PIPE" /\ x.page = g}}
  <2>1. pipeends[g] \in SUBSET {"r", "w"} BY Zenon DEF TypeInv
  <2>2. \A e \in E : e \in {"r", "w"} BY Zenon DEF End
  <2>3. ASSUME NEW e \in {"r", "w"} PROVE e \in pipeends[g] <=> e \in E
    <3>1. e \in E <=> \E x \in Behind : IsEnd(x, g, e) BY Zenon DEF IsEnd
    <3>2. (\E x \in Behind : IsEnd(x, g, e)) <=> \/ \E f \in File : IsEnd(ftable[f], g, e)
                                                 \/ \E p \in FProcs : IsEnd(ff[p], g, e)
      <4>1. \A f \in File : IsEnd(ftable[f], g, e) => ftable[f].ref > 0
        <5>1. \A f \in File : IsEnd(ftable[f], g, e) => ftable[f].type # "FD_NONE" BY Zenon DEF IsEnd
        <5> QED BY <1>2, <5>1, Zenon
      <4> QED BY <4>1, Zenon DEF Behind
    <3> QED BY <3>1, <3>2, Zenon DEF EndInv, EndsOpen
  <2> HIDE DEF E
  <2>4. pipeends[g] = E
    <3>1. \A e : e \in pipeends[g] => e \in {"r", "w"} BY <2>1, Zenon
    <3>2. \A e : e \in pipeends[g] <=> e \in E BY <2>2, <2>3, <3>1, Zenon
    <3> QED BY <3>2, Zenon
  <2> QED BY <2>4, Zenon DEF E
<1>5. {f \in File : ftable[f].ref > 0 /\ ftable[f].type = "FD_INODE"} = InodeFiles
  <2>1. \A f \in File : ftable[f].type = "FD_INODE" => ftable[f].ref > 0 BY <1>2, Zenon
  <2> QED BY <2>1, Zenon DEF InodeFiles
<1>6. ObjectsFollowFiles BY <1>4, <1>5, Zenon DEF ObjectsFollowFiles, InodeInv, InodeLast, InodeCalls
<1> QED BY <1>3, <1>6, Zenon DEF FilesCounted

(* For any processes, any number of files and descriptors, and any pages   *)
(* that kalloc gives to pipes: the reference counts of file.c are those of *)
(* the descriptors and the calls that hold files; the ends of pipes and    *)
(* the references of inodes are there exactly as long as files need them;  *)
(* and neither filedup nor fileclose panics (file.c:25-80, sysfile.c,      *)
(* pipe.c:22-75, and fork and exit of proc.c).                             *)
THEOREM FilesAreCounted == FSpec => []FilesCounted
<1>1. FSpec => []FInv BY FStart, FKeeps, PTL DEF FSpec
<1> QED BY <1>1, Counted, PTL
=============================================================================
