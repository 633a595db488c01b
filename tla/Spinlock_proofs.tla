--------------------------- MODULE Spinlock_proofs ---------------------------
(***************************************************************************)
(* For every number of CPUs, processes and locks, the spinlocks of         *)
(* xv6/spinlock.c exclude each other's critical sections, never block the  *)
(* machine, give every thread its interrupt flag back, and none of the     *)
(* checks of spinlock.c and of sched() fails.                              *)
(*                                                                         *)
(* The invariant says where threads are (PlaceInv): off the CPUs in swtch, *)
(* or on one CPU; that code under a handler was interrupted outside of     *)
(* critical sections (BelowInv); that the savedif of a process switched    *)
(* out tells a handler from other code (SavedInv); what the frame on top   *)
(* may be doing (TopInv); that ncli counts its locks and the one it spins  *)
(* for, and how fl_if and intena follow (FlagInv); and that the words in   *)
(* memory agree with the frames (WordInv).                                 *)
(***************************************************************************)
EXTENDS Spinlock, FiniteSetTheorems, WellFoundedInduction, TLAPS

(* What CPU c sees of the frame on top of its stack                        *)
Pc == [c \in CPUs |-> spc[curthr[c]][top[curthr[c]]]]
Level == [c \in CPUs |-> top[curthr[c]]]
Lock == [c \in CPUs |-> lk[curthr[c]][top[curthr[c]]]]
Eflags == [c \in CPUs |-> eflags[curthr[c]][top[curthr[c]]]]
Held == [c \in CPUs |-> held[curthr[c]][top[curthr[c]]]]

Places == {"run", "cli", "spin", "unlock", "sti", "trapret"}

TypeInv ==
  /\ locked \in [Locks -> BOOLEAN] /\ lkcpu \in [Locks -> CPUs \cup {NoCPU}]
  /\ fl_if \in [CPUs -> BOOLEAN] /\ intena \in [CPUs -> BOOLEAN] /\ ncli \in [CPUs -> Nat]
  /\ curthr \in [CPUs -> Threads] /\ top \in [Threads -> 1..2]
  /\ spc \in [Threads -> [Depth -> Places \cup {"swtch"}]]
  /\ lk \in [Threads -> [Depth -> Locks]]
  /\ eflags \in [Threads -> [Depth -> BOOLEAN]]
  /\ held \in [Threads -> [Depth -> SUBSET Locks]]
  /\ savedif \in [KThreads -> {"forkret", "on", "off"}]
  /\ spanic = "none"

(* Threads, their CPUs and their stacks                                    *)
PlaceInv ==
  /\ \A c \in CPUs : curthr[c] \in CPUs => curthr[c] = c
  /\ \A c, d \in CPUs : curthr[c] = curthr[d] => c = d
  /\ \A t \in Threads :
       (\A c \in CPUs : curthr[c] # t) <=> spc[t][top[t]] = "swtch"
  /\ \A t \in Threads : spc[t][top[t]] = "swtch" => held[t][top[t]] = {}
  /\ \A t \in Threads, k \in Depth : k # top[t] => held[t][k] = {}
  /\ \A c \in CPUs : curthr[c] # c => top[c] = 1
  /\ \A c \in CPUs : lk[c][1] = PtableLock /\ held[c][1] \subseteq {PtableLock}

(* Code that was interrupted, under a handler                              *)
BelowInv ==
  \A t \in Threads : top[t] = 2 =>
    /\ spc[t][1] \in {"run", "cli", "sti", "trapret"}
    /\ spc[t][1] = "cli" => eflags[t][1]
    /\ spc[t][1] = "sti" => t \in CPUs
    /\ spc[t][1] = "trapret" => t \in KThreads
    /\ t \in KThreads /\ savedif[t] = "forkret" => spc[t][1] = "trapret"

(* The intena that sched() keeps for a process that is switched out        *)
SavedInv ==
  \A u \in KThreads : spc[u][top[u]] = "swtch" =>
    IF savedif[u] = "forkret" THEN top[u] = 1 ELSE savedif[u] = "on" <=> top[u] = 1

(* What the frame on top of a stack may be doing                           *)
TopInv ==
  \A c \in CPUs :
    /\ Pc[c] = "sti" => curthr[c] = c /\ Level[c] = 1 /\ Held[c] = {}
    /\ Pc[c] = "trapret" => curthr[c] \in KThreads /\ Level[c] = 1 /\ Held[c] = {}
    /\ Pc[c] \in {"cli", "spin"} => \A m \in Held[c] : m < Lock[c]
    /\ Pc[c] = "unlock" => Lock[c] \in Held[c]
    /\ Level[c] = 1 /\ curthr[c] \in KThreads /\ savedif[curthr[c]] = "forkret" =>
         Pc[c] = "trapret" \/ (Pc[c] \in {"run", "unlock"} /\ Held[c] = {PtableLock})

(* The interrupt flags, and the counts of pushcli                          *)
FlagInv ==
  \A c \in CPUs :
    /\ ncli[c] = Cardinality(Held[c]) + (IF Pc[c] = "spin" THEN 1 ELSE 0)
    /\ fl_if[c] => Level[c] = 1 /\ Held[c] = {} /\ Pc[c] \in {"run", "cli", "sti", "trapret"}
    /\ Pc[c] \in {"run", "cli"} /\ Held[c] = {} => (fl_if[c] <=> Level[c] = 1)
    /\ Pc[c] = "cli" => (Eflags[c] <=> fl_if[c])
    /\ /\ Held[c] # {} \/ Pc[c] = "spin"
       /\ Level[c] = 2 \/ (curthr[c] \in KThreads /\ savedif[curthr[c]] # "forkret")
       => (intena[c] <=> Level[c] = 1)

(* lk->locked and lk->cpu                                                  *)
WordInv ==
  /\ \A c, d \in CPUs, l \in Locks : l \in Held[c] /\ l \in Held[d] => c = d
  /\ \A l \in Locks : locked[l] <=> \E c \in CPUs : l \in Held[c]
  /\ \A c \in CPUs, l \in Locks :
       lkcpu[l] = c <=> l \in Held[c] /\ ~(Pc[c] = "unlock" /\ Lock[c] = l)

StackInv == PlaceInv /\ BelowInv /\ SavedInv
IInv == TypeInv /\ StackInv /\ TopInv /\ FlagInv /\ WordInv

-----------------------------------------------------------------------------

(* What a CPU sees has the types of the frames.                            *)
LEMMA ViewType ==
  ASSUME TypeInv
  PROVE  /\ Pc \in [CPUs -> Places \cup {"swtch"}] /\ Level \in [CPUs -> 1..2]
         /\ Lock \in [CPUs -> Locks] /\ Eflags \in [CPUs -> BOOLEAN]
         /\ Held \in [CPUs -> SUBSET Locks]
<1>1. \A c \in CPUs : curthr[c] \in Threads /\ top[curthr[c]] \in 1..2 /\ top[curthr[c]] \in Depth
  BY DEF TypeInv, Depth
<1> QED BY <1>1 DEF TypeInv, Pc, Level, Lock, Eflags, Held

(* What a frame holds is a finite set of locks, because the locks are      *)
(* numbered up to some last one.                                           *)
LEMMA HeldFinite ==
  ASSUME NEW H \in SUBSET Locks
  PROVE  /\ IsFiniteSet(H) /\ Cardinality(H) \in Nat
         /\ Cardinality(H) = 0 <=> H = {}
<1>1. IsFiniteSet(Locks)
  <2>1. PICK n \in Locks : \A l \in Locks : l <= n BY SpinAssumption, Zenon
  <2> QED BY <2>1, SpinAssumption, FS_BoundedSetOfNaturals, Zenon
<1>2. IsFiniteSet(H) BY <1>1, FS_Subset, Zenon
<1> QED BY <1>2, FS_CardinalityType, FS_EmptySet, Zenon

(* A step that leaves the words, and the locks each CPU holds, alone       *)
LEMMA SameWords ==
  ASSUME WordInv, locked' = locked, lkcpu' = lkcpu, \A d \in CPUs : Held'[d] = Held[d],
         \A d \in CPUs, l \in Locks :
           (Pc'[d] = "unlock" /\ Lock'[d] = l) <=> (Pc[d] = "unlock" /\ Lock[d] = l)
  PROVE  WordInv'
<1>1. \A c, d \in CPUs, l \in Locks : l \in Held'[c] /\ l \in Held'[d] => c = d BY Zenon DEF WordInv
<1>2. \A l \in Locks : locked'[l] <=> \E c \in CPUs : l \in Held'[c] BY DEF WordInv
<1>3. \A c \in CPUs, l \in Locks :
        lkcpu'[l] = c <=> l \in Held'[c] /\ ~(Pc'[c] = "unlock" /\ Lock'[c] = l)
  BY DEF WordInv
<1> QED BY <1>1, <1>2, <1>3, Zenon DEF WordInv

(* At the start every CPU is in its scheduler and holds nothing.           *)
LEMMA InitInv == SpInit => IInv
<1> SUFFICES ASSUME SpInit PROVE IInv BY Zenon
<1> USE SpinAssumption DEF SpInit, Threads, Depth
<1>1. TypeInv BY DEF TypeInv, Places
<1>2. StackInv BY DEF StackInv, PlaceInv, BelowInv, SavedInv
<1>3. \A c \in CPUs : Pc[c] = "sti" /\ Held[c] = {} /\ Level[c] = 1 /\ curthr[c] = c
  BY DEF Pc, Held, Level
<1>4. TopInv BY <1>3, Zenon DEF TopInv
<1>5. FlagInv
  <2>1. \A c \in CPUs : ncli[c] = 0 /\ ~fl_if[c] /\ Cardinality(Held[c]) = 0 BY <1>3, FS_EmptySet, Zenon
  <2> QED BY <1>3, <2>1 DEF FlagInv
<1>6. WordInv BY <1>3, Zenon DEF WordInv
<1> QED BY <1>1, <1>2, <1>4, <1>5, <1>6, Zenon DEF IInv

(* A step of CPU c stays on its thread, leaves the frame on top in place   *)
(* s, with local lk x and local eflags e, and holding H.                   *)
Writes(c, s, x, e, H) ==
  /\ s \in Places /\ x \in Locks /\ e \in BOOLEAN /\ H \in SUBSET Locks
  /\ spc' = set(spc, c, s) /\ lk' = set(lk, c, x)
  /\ eflags' = set(eflags, c, e) /\ held' = set(held, c, H)
  /\ curthr[c] = c /\ Level[c] = 1 => x = PtableLock /\ H \subseteq {PtableLock}
  /\ curthr' = curthr /\ top' = top

(* The types of the frames                                                 *)
FrameType ==
  /\ spc \in [Threads -> [Depth -> Places \cup {"swtch"}]]
  /\ lk \in [Threads -> [Depth -> Locks]]
  /\ eflags \in [Threads -> [Depth -> BOOLEAN]]
  /\ held \in [Threads -> [Depth -> SUBSET Locks]]

(* Such a step leaves what every other CPU sees alone, and the stacks in   *)
(* order.                                                                  *)
LEMMA FrameStep ==
  ASSUME TypeInv, StackInv, NEW c \in CPUs, NEW s, NEW x, NEW e, NEW H, Writes(c, s, x, e, H),
         \A u \in KThreads : u # curthr[c] \/ Level[c] = 2 => savedif'[u] = savedif[u]
  PROVE  /\ FrameType' /\ StackInv'
         /\ Pc' = [Pc EXCEPT ![c] = s] /\ Lock' = [Lock EXCEPT ![c] = x]
         /\ Eflags' = [Eflags EXCEPT ![c] = e] /\ Held' = [Held EXCEPT ![c] = H]
         /\ Level' = Level
<1> USE DEF Writes
<1> USE SpinAssumption
<1> DEFINE t == curthr[c]
           k == top[t]
<1>1. /\ t \in Threads /\ k \in Depth /\ Level[c] = k
      /\ \A u \in Threads : top[u] \in 1..2 /\ top[u] \in Depth
      /\ \A d \in CPUs : curthr[d] \in Threads
  BY DEF TypeInv, Depth, Level
<1>2. /\ spc' = [spc EXCEPT ![t][k] = s] /\ lk' = [lk EXCEPT ![t][k] = x]
      /\ eflags' = [eflags EXCEPT ![t][k] = e] /\ held' = [held EXCEPT ![t][k] = H]
  BY Zenon DEF set
<1>3. FrameType' BY <1>1, <1>2 DEF TypeInv, FrameType
<1>4. spc'[t][k] = s /\ lk'[t][k] = x /\ eflags'[t][k] = e /\ held'[t][k] = H
  BY <1>1, <1>2 DEF TypeInv
<1>5. \A u \in Threads, j \in Depth : u # t \/ j # k =>
        /\ spc'[u][j] = spc[u][j] /\ lk'[u][j] = lk[u][j]
        /\ eflags'[u][j] = eflags[u][j] /\ held'[u][j] = held[u][j]
  BY <1>1, <1>2 DEF TypeInv
<1>6. \A d \in CPUs : curthr[d] = t => d = c BY Zenon DEF StackInv, PlaceInv
<1>7. s # "swtch" /\ spc[t][k] # "swtch" BY <1>1, Zenon DEF StackInv, PlaceInv, Places
<1> HIDE DEF t, k
<1>8. /\ Pc' = [Pc EXCEPT ![c] = s] /\ Lock' = [Lock EXCEPT ![c] = x]
      /\ Eflags' = [Eflags EXCEPT ![c] = e] /\ Held' = [Held EXCEPT ![c] = H]
      /\ Level' = Level
  <2>1. \A d \in CPUs \ {c} : curthr[d] # t /\ curthr[d] \in Threads /\ top[curthr[d]] \in Depth
    BY <1>1, <1>6, SMTT(60)
  <2>2. \A d \in CPUs :
          /\ spc'[curthr[d]][top[curthr[d]]] = IF d = c THEN s ELSE spc[curthr[d]][top[curthr[d]]]
          /\ lk'[curthr[d]][top[curthr[d]]] = IF d = c THEN x ELSE lk[curthr[d]][top[curthr[d]]]
          /\ eflags'[curthr[d]][top[curthr[d]]] = IF d = c THEN e ELSE eflags[curthr[d]][top[curthr[d]]]
          /\ held'[curthr[d]][top[curthr[d]]] = IF d = c THEN H ELSE held[curthr[d]][top[curthr[d]]]
    BY <2>1, <1>4, <1>5 DEF t, k
  <2>3. Pc' = [Pc EXCEPT ![c] = s] BY <2>2, Zenon DEF Pc
  <2>4. Lock' = [Lock EXCEPT ![c] = x] BY <2>2, Zenon DEF Lock
  <2>5. Eflags' = [Eflags EXCEPT ![c] = e] BY <2>2, Zenon DEF Eflags
  <2>6. Held' = [Held EXCEPT ![c] = H] BY <2>2, Zenon DEF Held
  <2> QED BY <2>3, <2>4, <2>5, <2>6, Zenon DEF Level
<1>9. PlaceInv'
  <2>1. /\ \A d \in CPUs : curthr'[d] \in CPUs => curthr'[d] = d
        /\ \A d, f \in CPUs : curthr'[d] = curthr'[f] => d = f
        /\ \A d \in CPUs : curthr'[d] # d => top'[d] = 1
    BY Zenon DEF StackInv, PlaceInv
  <2>2. ASSUME NEW u \in Threads
        PROVE  /\ (\A d \in CPUs : curthr'[d] # u) <=> spc'[u][top'[u]] = "swtch"
               /\ spc'[u][top'[u]] = "swtch" => held'[u][top'[u]] = {}
               /\ \A j \in Depth : j # top'[u] => held'[u][j] = {}
    <3>1. \A j \in Depth : j # top[u] => held'[u][j] = {}
      BY <1>1, <1>5 DEF StackInv, PlaceInv, k
    <3>2. CASE u = t BY <3>1, <3>2, <1>4, <1>7, Zenon DEF t, k
    <3>3. CASE u # t
      <4>1. spc'[u][top[u]] = spc[u][top[u]] /\ held'[u][top[u]] = held[u][top[u]]
        BY <3>3, <1>1, <1>5
      <4> QED BY <3>1, <4>1, Zenon DEF StackInv, PlaceInv
    <3> QED BY <3>2, <3>3, Zenon
  <2>3. ASSUME NEW d \in CPUs
        PROVE  lk'[d][1] = PtableLock /\ held'[d][1] \subseteq {PtableLock}
    <3>0. d \in Threads /\ 1 \in Depth BY DEF Threads, Depth
    <3>1. CASE d = t /\ k = 1 BY <3>1, <1>1, <1>4, Zenon DEF t, k, StackInv, PlaceInv
    <3>2. CASE ~(d = t /\ k = 1) BY <3>0, <3>2, <1>5 DEF StackInv, PlaceInv
    <3> QED BY <3>1, <3>2, Zenon
  <2> QED BY <2>1, <2>2, <2>3, Zenon DEF PlaceInv
<1>10. BelowInv'
  <2> SUFFICES ASSUME NEW u \in Threads, top'[u] = 2
               PROVE  /\ spc'[u][1] = spc[u][1] /\ eflags'[u][1] = eflags[u][1]
                      /\ u \in KThreads => savedif'[u] = savedif[u]
    BY DEF StackInv, BelowInv
  <2>1. top[u] = 2 /\ 1 \in Depth BY DEF Depth
  <2> QED BY <2>1, <1>1, <1>5 DEF t, k
<1>11. SavedInv'
  <2> SUFFICES ASSUME NEW u \in KThreads, spc'[u][top'[u]] = "swtch"
               PROVE  spc[u][top[u]] = "swtch" /\ savedif'[u] = savedif[u]
    BY DEF StackInv, SavedInv
  <2>1. u \in Threads BY Zenon DEF Threads
  <2>2. u # t BY <1>4, <1>7, Zenon DEF t, k
  <2> QED BY <2>1, <2>2, <1>1, <1>5, Zenon DEF t
<1> QED BY <1>3, <1>8, <1>9, <1>10, <1>11, Zenon DEF StackInv

(* The frame on top, as an action writes it.                               *)
LEMMA SameFrame ==
  ASSUME TypeInv, NEW c \in CPUs
  PROVE  /\ held = set(held, c, Held[c]) /\ lk = set(lk, c, Lock[c])
         /\ eflags = set(eflags, c, Eflags[c])
         /\ Mine(c) = Held[c] /\ Lk(c) = Lock[c] /\ Here(c, Pc[c])
         /\ eflags[curthr[c]][top[curthr[c]]] = Eflags[c]
         /\ top[curthr[c]] = Level[c] /\ curthr[c] \in Threads
         /\ \A s : Here(c, s) => Pc[c] = s
<1>1. curthr[c] \in Threads /\ top[curthr[c]] \in 1..2 /\ top[curthr[c]] \in Depth
  BY DEF TypeInv, Depth
<1> QED BY <1>1, Zenon DEF TypeInv, set, Mine, Lk, Level, Held, Lock, Eflags, Pc, Here

(* The scheduler's own frame takes no lock but ptable.lock.                *)
LEMMA SchedulerFrame ==
  ASSUME TypeInv, StackInv, NEW c \in CPUs, curthr[c] = c, Level[c] = 1
  PROVE  Lock[c] = PtableLock /\ Held[c] \subseteq {PtableLock}
BY Zenon DEF StackInv, PlaceInv, Level, Lock, Held

-----------------------------------------------------------------------------
(* acquire reads eflags.                                                   *)
LEMMA AcquireInv ==
  ASSUME IInv, NEW c \in CPUs, NEW l \in Locks, acquire(c, l)
  PROVE  IInv'
<1> USE SpinAssumption DEF IInv
<1>1. /\ Pc[c] = "run" /\ (\A m \in Held[c] : m < l)
      /\ (curthr[c] = c /\ Level[c] = 1 => l = PtableLock)
      /\ ~(Level[c] = 1 /\ curthr[c] \in KThreads /\ savedif[curthr[c]] = "forkret")
  BY SameFrame, Zenon DEF acquire, InForkret, Level
<1>2. /\ Writes(c, "cli", l, fl_if[c], Held[c])
      /\ locked' = locked /\ lkcpu' = lkcpu /\ fl_if' = fl_if /\ ncli' = ncli /\ intena' = intena
      /\ curthr' = curthr /\ savedif' = savedif /\ spanic' = spanic /\ top' = top
  <2>1. Held[c] \in SUBSET Locks /\ fl_if[c] \in BOOLEAN /\ "cli" \in Places
    BY ViewType, Zenon DEF TypeInv, Places
  <2>2. curthr[c] = c /\ Level[c] = 1 => Held[c] \subseteq {PtableLock} BY SchedulerFrame, Zenon
  <2> QED BY <1>1, <2>1, <2>2, SameFrame, Zenon DEF acquire, goto, lockvars, cpuvars, Writes
<1>3. /\ FrameType' /\ StackInv' /\ Level' = Level /\ Held' = [Held EXCEPT ![c] = Held[c]]
      /\ Pc' = [Pc EXCEPT ![c] = "cli"] /\ Lock' = [Lock EXCEPT ![c] = l]
      /\ Eflags' = [Eflags EXCEPT ![c] = fl_if[c]]
  BY <1>2, FrameStep
<1>4. TypeInv' BY <1>2, <1>3, Zenon DEF TypeInv, FrameType
<1>5. TopInv' BY <1>1, <1>2, <1>3, ViewType DEF TopInv
<1>6. FlagInv' BY <1>1, <1>2, <1>3, ViewType DEF FlagInv
<1>7. WordInv' BY <1>1, <1>2, <1>3, ViewType DEF WordInv
<1> QED BY <1>3, <1>4, <1>5, <1>6, <1>7, Zenon

(* pushcli counts, and remembers the flag when it is the outermost one;    *)
(* acquire does not panic, because the lock is above all those held.       *)
LEMMA PushcliInv ==
  ASSUME IInv, NEW c \in CPUs, pushcli(c)
  PROVE  IInv'
<1> USE SpinAssumption DEF IInv
<1>1. Pc[c] = "cli" BY SameFrame, Zenon DEF pushcli
<1>2. /\ locked' = locked /\ lkcpu' = lkcpu /\ fl_if' = [fl_if EXCEPT ![c] = FALSE]
      /\ ncli' = [ncli EXCEPT ![c] = ncli[c] + 1]
      /\ intena' = IF ncli[c] = 0 THEN [intena EXCEPT ![c] = Eflags[c]] ELSE intena
      /\ spanic' = IF locked[Lock[c]] /\ lkcpu[Lock[c]] = c THEN "acquire" ELSE spanic
      /\ curthr' = curthr /\ savedif' = savedif /\ top' = top
  BY SameFrame, ZenonT(60) DEF pushcli, lockvars, Outermost, Nested, holding
<1>3. Held[c] \in SUBSET Locks /\ Lock[c] \in Locks /\ Eflags[c] \in BOOLEAN BY ViewType, Zenon
<1>4. Writes(c, "spin", Lock[c], FALSE, Held[c])
  <2>1. "spin" \in Places BY Zenon DEF Places
  <2>2. curthr[c] = c /\ Level[c] = 1 => Lock[c] = PtableLock /\ Held[c] \subseteq {PtableLock}
    BY SchedulerFrame, Zenon
  <2> QED BY <1>3, <2>1, <2>2, SameFrame, Zenon DEF pushcli, goto, Writes
<1>5. spanic' = "none"
  <2>1. \A m \in Held[c] : m < Lock[c] BY <1>1, Zenon DEF TopInv
  <2>2. Lock[c] \in Nat BY <1>3, Zenon
  <2>3. Lock[c] \notin Held[c] BY <2>1, <2>2
  <2>4. \A l \in Locks : lkcpu[l] = c => l \in Held[c] BY Zenon DEF WordInv
  <2>5. lkcpu[Lock[c]] # c BY <2>3, <2>4, <1>3, Zenon
  <2> QED BY <2>5, <1>2, Zenon DEF TypeInv
<1>6. /\ FrameType' /\ StackInv' /\ Level' = Level /\ Held' = [Held EXCEPT ![c] = Held[c]]
      /\ Pc' = [Pc EXCEPT ![c] = "spin"] /\ Lock' = [Lock EXCEPT ![c] = Lock[c]]
      /\ Eflags' = [Eflags EXCEPT ![c] = FALSE]
  <2>1. PICK e : e = FALSE /\ Writes(c, "spin", Lock[c], e, Held[c]) BY <1>4, Zenon
  <2> QED BY <1>2, <2>1, FrameStep
<1>7. TypeInv'
  <2>1. intena' \in [CPUs -> BOOLEAN] BY <1>2, <1>3, Zenon DEF TypeInv
  <2> QED BY <2>1, <1>2, <1>5, <1>6 DEF TypeInv, FrameType
<1>8. TopInv' BY <1>1, <1>2, <1>6, ViewType DEF TopInv
<1>9. FlagInv'
  <2>1. Cardinality(Held[c]) \in Nat /\ (Cardinality(Held[c]) = 0 <=> Held[c] = {}) BY <1>3, HeldFinite, Zenon
  <2>2. ncli[c] = Cardinality(Held[c]) BY <2>1, <1>1 DEF FlagInv
  <2>3. /\ ncli'[c] = Cardinality(Held[c]) + 1 /\ ~fl_if'[c]
        /\ \A d \in CPUs \ {c} : ncli'[d] = ncli[d] /\ fl_if'[d] = fl_if[d] /\ intena'[d] = intena[d]
    BY <2>2, <1>2, Zenon DEF TypeInv
  <2>4. Level[c] = 2 \/ (curthr[c] \in KThreads /\ savedif[curthr[c]] # "forkret")
          => (intena'[c] <=> Level[c] = 1)
    <3>1. CASE Held[c] = {}
      BY <3>1, <2>1, <2>2, <1>1, <1>2, <1>3, Zenon DEF FlagInv, TypeInv
    <3>2. CASE Held[c] # {}
      BY <3>2, <2>1, <2>2, <1>1, <1>2, Zenon DEF FlagInv
    <3> QED BY <3>1, <3>2, Zenon
  <2> QED BY <2>3, <2>4, <1>1, <1>2, <1>6, ViewType DEF FlagInv
<1>10. WordInv' BY <1>1, <1>2, <1>6, ViewType DEF WordInv
<1> QED BY <1>6, <1>7, <1>8, <1>9, <1>10, Zenon

(* xchg finds the word 0: nobody else holds the lock.                      *)
LEMMA XchgInv ==
  ASSUME IInv, NEW c \in CPUs, xchg(c)
  PROVE  IInv'
<1> USE SpinAssumption DEF IInv
<1>1. Pc[c] = "spin" /\ ~locked[Lock[c]] BY SameFrame, Zenon DEF xchg, WasFree
<1>2. /\ locked' = [locked EXCEPT ![Lock[c]] = TRUE] /\ lkcpu' = [lkcpu EXCEPT ![Lock[c]] = c]
      /\ fl_if' = fl_if /\ ncli' = ncli /\ intena' = intena
      /\ curthr' = curthr /\ savedif' = savedif /\ spanic' = spanic /\ top' = top
  BY SameFrame, Zenon DEF xchg, cpuvars
<1>3. Held[c] \in SUBSET Locks /\ Lock[c] \in Locks /\ Eflags[c] \in BOOLEAN BY ViewType, Zenon
<1>4. Writes(c, "run", PtableLock, Eflags[c], Held[c] \cup {Lock[c]})
  <2>1. "run" \in Places BY Zenon DEF Places
  <2>2. curthr[c] = c /\ Level[c] = 1 => Held[c] \cup {Lock[c]} \subseteq {PtableLock}
    BY SchedulerFrame, Zenon
  <2> QED BY <1>3, <2>1, <2>2, SameFrame, Zenon DEF xchg, goto, Writes
<1>5. /\ FrameType' /\ StackInv' /\ Level' = Level /\ Held' = [Held EXCEPT ![c] = Held[c] \cup {Lock[c]}]
      /\ Pc' = [Pc EXCEPT ![c] = "run"] /\ Lock' = [Lock EXCEPT ![c] = PtableLock]
      /\ Eflags' = [Eflags EXCEPT ![c] = Eflags[c]]
  BY <1>2, <1>4, FrameStep
<1>6. TypeInv' BY <1>2, <1>3, <1>5, Zenon DEF TypeInv, FrameType
<1>7. TopInv' BY <1>1, <1>2, <1>5, ViewType DEF TopInv
<1>8. Lock[c] \notin Held[c]
  <2>1. \A m \in Held[c] : m < Lock[c] BY <1>1, Zenon DEF TopInv
  <2>2. Lock[c] \in Nat BY <1>3, Zenon
  <2> QED BY <2>1, <2>2
<1>9. FlagInv'
  <2>1. Cardinality(Held[c] \cup {Lock[c]}) = Cardinality(Held[c]) + 1
    BY <1>3, <1>8, HeldFinite, FS_AddElement, Zenon
  <2>2. Cardinality(Held[c]) \in Nat BY <1>3, HeldFinite, Zenon
  <2>3. /\ ncli'[c] = Cardinality(Held'[c]) /\ Pc'[c] = "run" /\ Held'[c] # {} /\ ~fl_if'[c]
        /\ Level[c] = 2 \/ (curthr[c] \in KThreads /\ savedif[curthr[c]] # "forkret")
             => (intena'[c] <=> Level[c] = 1)
    BY <2>1, <2>2, <1>1, <1>2, <1>5, ViewType, Zenon DEF FlagInv
  <2>4. \A d \in CPUs \ {c} : Held'[d] = Held[d] /\ Pc'[d] = Pc[d] /\ Eflags'[d] = Eflags[d]
    BY <1>5, ViewType, Zenon
  <2>5. Cardinality(Held'[c]) \in Nat BY <2>1, <2>2, <1>5, ViewType
  <2>6. /\ ncli' = ncli /\ fl_if' = fl_if /\ intena' = intena /\ Level' = Level /\ curthr' = curthr
        /\ savedif' = savedif
    BY <1>2, <1>5, Zenon
  <2> QED BY <2>3, <2>4, <2>5, <2>6 DEF FlagInv
<1>10. WordInv'
  <2>1. \A d \in CPUs : Lock[c] \notin Held[d] BY <1>1, <1>3, Zenon DEF WordInv
  <2>2. \A d \in CPUs, l \in Locks :
          /\ l \in Held'[d] <=> l \in Held[d] \/ (d = c /\ l = Lock[c])
          /\ (Pc'[d] = "unlock" /\ Lock'[d] = l) <=> (Pc[d] = "unlock" /\ Lock[d] = l)
          /\ locked'[l] = (locked[l] \/ l = Lock[c])
          /\ lkcpu'[l] = IF l = Lock[c] THEN c ELSE lkcpu[l]
    BY <1>1, <1>2, <1>3, <1>5, ViewType, Zenon DEF TypeInv
  <2>3. \A l \in Locks : locked'[l] <=> \E d \in CPUs : l \in Held'[d]
    BY <2>2, <1>3, ZenonT(60) DEF WordInv
  <2>4. \A d \in CPUs, l \in Locks : 
           lkcpu'[l] = d <=> l \in Held'[d] /\ ~(Pc'[d] = "unlock" /\ Lock'[d] = l)
    <3> SUFFICES ASSUME NEW d \in CPUs, NEW l \in Locks
          PROVE  lkcpu'[l] = d <=> l \in Held'[d] /\ ~(Pc'[d] = "unlock" /\ Lock'[d] = l)
      BY Zenon
    <3>1. CASE l = Lock[c]
      <4>1. lkcpu'[l] = c /\ (l \in Held'[d] <=> d = c) BY <3>1, <2>1, <2>2, Zenon
      <4>2. ~(Pc'[c] = "unlock" /\ Lock'[c] = l) BY <1>1, <2>2, Zenon
      <4> QED BY <4>1, <4>2, Zenon
    <3>2. CASE l # Lock[c]
      <4>1. lkcpu'[l] = lkcpu[l] /\ (l \in Held'[d] <=> l \in Held[d]) BY <3>2, <2>2, Zenon
      <4>2. lkcpu[l] = d <=> l \in Held[d] /\ ~(Pc[d] = "unlock" /\ Lock[d] = l) BY Zenon DEF WordInv
      <4>3. (Pc'[d] = "unlock" /\ Lock'[d] = l) <=> (Pc[d] = "unlock" /\ Lock[d] = l) BY <2>2, Zenon
      <4> QED BY <4>1, <4>2, <4>3, Zenon
    <3> QED BY <3>1, <3>2, Zenon
  <2>5. \A d, f \in CPUs, l \in Locks : l \in Held'[d] /\ l \in Held'[f] => d = f
    <3> SUFFICES ASSUME NEW d \in CPUs, NEW f \in CPUs, NEW l \in Locks, l \in Held'[d], l \in Held'[f]
                 PROVE  d = f
      BY Zenon
    <3>1. CASE l = Lock[c] BY <3>1, <2>1, <2>2, Zenon
    <3>2. CASE l # Lock[c]
      <4>1. l \in Held[d] /\ l \in Held[f] BY <3>2, <2>2, Zenon
      <4> QED BY <4>1, Zenon DEF WordInv
    <3> QED BY <3>1, <3>2, Zenon
  <2> QED BY <2>3, <2>4, <2>5, Zenon DEF WordInv
<1> QED BY <1>5, <1>6, <1>7, <1>9, <1>10, Zenon
(* release finds the lock held by this CPU, and clears lk->cpu.            *)
LEMMA ReleaseInv ==
  ASSUME IInv, NEW c \in CPUs, NEW l \in Locks, release(c, l)
  PROVE  IInv'
<1> USE SpinAssumption DEF IInv
<1>1. Pc[c] = "run" /\ l \in Held[c] BY SameFrame, Zenon DEF release
<1>2. /\ locked' = locked /\ lkcpu' = [lkcpu EXCEPT ![l] = NoCPU]
      /\ fl_if' = fl_if /\ ncli' = ncli /\ intena' = intena
      /\ curthr' = curthr /\ savedif' = savedif /\ top' = top
      /\ spanic' = IF locked[l] /\ lkcpu[l] = c THEN spanic ELSE "release"
  BY SameFrame, Zenon DEF release, cpuvars, holding
<1>3. Held[c] \in SUBSET Locks /\ Eflags[c] \in BOOLEAN BY ViewType, Zenon
<1>4. Writes(c, "unlock", l, Eflags[c], Held[c])
  <2>1. "unlock" \in Places BY Zenon DEF Places
  <2>2. curthr[c] = c /\ Level[c] = 1 => Held[c] \subseteq {PtableLock} BY SchedulerFrame, Zenon
  <2> QED BY <1>1, <1>3, <2>1, <2>2, SameFrame, Zenon DEF release, goto, Writes
<1>5. spanic' = "none" BY <1>1, <1>2, Zenon DEF WordInv, TypeInv
<1>6. /\ FrameType' /\ StackInv' /\ Level' = Level /\ Held' = [Held EXCEPT ![c] = Held[c]]
      /\ Pc' = [Pc EXCEPT ![c] = "unlock"] /\ Lock' = [Lock EXCEPT ![c] = l]
      /\ Eflags' = [Eflags EXCEPT ![c] = Eflags[c]]
  BY <1>2, <1>4, FrameStep
<1>7. TypeInv' BY <1>2, <1>5, <1>6, Zenon DEF TypeInv, FrameType
<1>8. Held' = Held BY <1>6, ViewType, Zenon
<1>9. TopInv' BY <1>1, <1>2, <1>6, <1>8, ViewType DEF TopInv
<1>10. FlagInv' BY <1>1, <1>2, <1>6, <1>8, ViewType DEF FlagInv
<1>11. WordInv'
  <2>1. \A d \in CPUs : l \in Held[d] <=> d = c BY <1>1, Zenon DEF WordInv
  <2>2. \A m \in Locks : lkcpu'[m] = IF m = l THEN NoCPU ELSE lkcpu[m] BY <1>2, Zenon DEF TypeInv
  <2>3. \A d \in CPUs, m \in Locks :
          (Pc'[d] = "unlock" /\ Lock'[d] = m) <=> IF d = c THEN m = l ELSE Pc[d] = "unlock" /\ Lock[d] = m
    BY <1>6, ViewType, Zenon
  <2>4. \A d \in CPUs, m \in Locks : 
           lkcpu'[m] = d <=> m \in Held[d] /\ ~(Pc'[d] = "unlock" /\ Lock'[d] = m)
    <3> SUFFICES ASSUME NEW d \in CPUs, NEW m \in Locks
          PROVE  lkcpu'[m] = d <=> m \in Held[d] /\ ~(Pc'[d] = "unlock" /\ Lock'[d] = m)
      BY Zenon
    <3>1. lkcpu[m] = d <=> m \in Held[d] /\ ~(Pc[d] = "unlock" /\ Lock[d] = m) BY Zenon DEF WordInv
    <3>2. CASE m = l
      <4>1. lkcpu'[m] # d BY <3>2, <2>2, <1>3, Zenon
      <4>2. m \in Held[d] => Pc'[d] = "unlock" /\ Lock'[d] = m BY <3>2, <2>1, <2>3, Zenon
      <4> QED BY <4>1, <4>2, Zenon
    <3>3. CASE m # l
      <4>1. lkcpu'[m] = lkcpu[m] BY <3>3, <2>2, Zenon
      <4>2. CASE d = c
        <5>1. ~(Pc'[d] = "unlock" /\ Lock'[d] = m) BY <3>3, <4>2, <2>3, Zenon
        <5>2. ~(Pc[d] = "unlock" /\ Lock[d] = m) BY <4>2, <1>1, Zenon
        <5> QED BY <4>1, <5>1, <5>2, <3>1, Zenon
      <4>3. CASE d # c
        <5>1. (Pc'[d] = "unlock" /\ Lock'[d] = m) <=> (Pc[d] = "unlock" /\ Lock[d] = m)
          BY <4>3, <2>3, Zenon
        <5> QED BY <4>1, <5>1, <3>1, Zenon
      <4> QED BY <4>2, <4>3, Zenon
    <3> QED BY <3>2, <3>3, Zenon
  <2> QED BY <2>4, <1>2, <1>8, ZenonT(60) DEF WordInv
<1> QED BY <1>6, <1>7, <1>9, <1>10, <1>11, Zenon

(* popcli frees the lock and counts down; the outermost one brings the     *)
(* flag back that pushcli, or the process that was switched out, kept.     *)
LEMMA PopcliInv ==
  ASSUME IInv, NEW c \in CPUs, popcli(c)
  PROVE  IInv'
<1> USE SpinAssumption DEF IInv
<1> DEFINE s == After(curthr[c])
           H == Held[c] \ {Lock[c]}
<1>1. Pc[c] = "unlock" /\ Lock[c] \in Held[c] BY SameFrame, Zenon DEF popcli, TopInv
<1>2. /\ locked' = [locked EXCEPT ![Lock[c]] = FALSE] /\ lkcpu' = lkcpu
      /\ ncli' = [ncli EXCEPT ![c] = ncli[c] - 1] /\ intena' = intena
      /\ fl_if' = IF ncli'[c] = 0 /\ intena[c] THEN [fl_if EXCEPT ![c] = TRUE] ELSE fl_if
      /\ spanic' = IF fl_if[c] THEN "popcli - interruptible"
                   ELSE IF ncli'[c] < 0 THEN "popcli" ELSE spanic
      /\ curthr' = curthr /\ savedif' = savedif /\ top' = top
  BY SameFrame, Zenon DEF popcli, Reenable
<1>3. Held[c] \in SUBSET Locks /\ Lock[c] \in Locks /\ Eflags[c] \in BOOLEAN /\ curthr[c] \in Threads
      /\ Level[c] \in 1..2 /\ Level[c] = top[curthr[c]]
  BY ViewType, Zenon DEF TypeInv, Level
<1>4. s = IF curthr[c] = c /\ Level[c] = 1 THEN "sti"
          ELSE IF curthr[c] \in KThreads /\ Level[c] = 1 /\ savedif[curthr[c]] = "forkret"
          THEN "trapret" ELSE "run"
  BY <1>3 DEF After, InForkret, StackInv, PlaceInv
<1>5. s \in {"sti", "trapret"} => H = {} BY <1>1, <1>4, SchedulerFrame DEF TopInv
<1>6. Writes(c, s, PtableLock, Eflags[c], H)
  <2>1. s \in Places BY <1>4, Zenon DEF Places
  <2>2. curthr[c] = c /\ Level[c] = 1 => H \subseteq {PtableLock} BY SchedulerFrame, Zenon
  <2> QED BY <1>3, <2>1, <2>2, SameFrame, Zenon DEF popcli, goto, Writes
<1> HIDE DEF s
<1>7. /\ FrameType' /\ StackInv' /\ Level' = Level /\ Held' = [Held EXCEPT ![c] = H]
      /\ Pc' = [Pc EXCEPT ![c] = s] /\ Lock' = [Lock EXCEPT ![c] = PtableLock]
      /\ Eflags' = [Eflags EXCEPT ![c] = Eflags[c]]
  <2>1. PICK G : G = H /\ Writes(c, s, PtableLock, Eflags[c], G) BY <1>6, Zenon
  <2>2. \A u \in KThreads : u # curthr[c] \/ Level[c] = 2 => savedif'[u] = savedif[u] BY <1>2, Zenon
  <2> HIDE DEF H
  <2> QED BY <2>1, <2>2, FrameStep
<1>8. /\ ncli[c] = Cardinality(H) + 1 /\ Cardinality(H) \in Nat
      /\ Cardinality(H) = 0 <=> H = {}
  <2>1. /\ IsFiniteSet(Held[c]) /\ Cardinality(Held[c]) \in Nat
        /\ IsFiniteSet(H) /\ Cardinality(H) \in Nat /\ (Cardinality(H) = 0 <=> H = {})
    BY <1>3, HeldFinite, Zenon
  <2>2. Cardinality(H) = Cardinality(Held[c]) - 1 BY <2>1, <1>1, FS_RemoveElement, Zenon
  <2> QED BY <2>1, <2>2, <1>1 DEF FlagInv
<1>9. ncli'[c] = Cardinality(H) /\ ~fl_if[c] /\ Held[c] # {}
  <2>1. ncli'[c] = ncli[c] - 1 BY <1>2, Zenon DEF TypeInv
  <2>2. Held[c] # {} BY <1>1, Zenon
  <2>3. ~fl_if[c] BY <2>2, Zenon DEF FlagInv
  <2> QED BY <2>1, <2>2, <2>3, <1>8
<1>10. spanic' = "none" BY <1>2, <1>8, <1>9 DEF TypeInv
<1>11. fl_if'[c] <=> H = {} /\ intena[c] BY <1>2, <1>8, <1>9, Zenon DEF TypeInv
<1>12. \A d \in CPUs \ {c} : /\ ncli'[d] = ncli[d] /\ fl_if'[d] = fl_if[d]
                             /\ Held'[d] = Held[d] /\ Pc'[d] = Pc[d] /\ Lock'[d] = Lock[d]
                             /\ Eflags'[d] = Eflags[d] /\ Level'[d] = Level[d]
  BY <1>2, <1>7, ViewType, Zenon DEF TypeInv
<1>13. Held'[c] = H /\ Pc'[c] = s /\ Lock'[c] = PtableLock BY <1>7, ViewType, Zenon
<1>14. TypeInv'
  <2>1. fl_if' \in [CPUs -> BOOLEAN] BY <1>2, Zenon DEF TypeInv
  <2>2. ncli' \in [CPUs -> Nat]
    <3>1. ncli[c] - 1 \in Nat BY <1>8
    <3> QED BY <3>1, <1>2, Zenon DEF TypeInv
  <2>3. locked' \in [Locks -> BOOLEAN] BY <1>2, <1>3, ZenonT(60) DEF TypeInv
  <2> QED BY <2>1, <2>2, <2>3, <1>2, <1>7, <1>10, Zenon DEF TypeInv, FrameType
<1>15. TopInv'
  <2> SUFFICES ASSUME NEW d \in CPUs
               PROVE  /\ Pc'[d] = "sti" => curthr[d] = d /\ Level[d] = 1 /\ Held'[d] = {}
                      /\ Pc'[d] = "trapret" => curthr[d] \in KThreads /\ Level[d] = 1 /\ Held'[d] = {}
                      /\ Pc'[d] \in {"cli", "spin"} => \A m \in Held'[d] : m < Lock'[d]
                      /\ Pc'[d] = "unlock" => Lock'[d] \in Held'[d]
                      /\ Level[d] = 1 /\ curthr[d] \in KThreads /\ savedif[curthr[d]] = "forkret" =>
                           Pc'[d] = "trapret" \/ (Pc'[d] \in {"run", "unlock"} /\ Held'[d] = {PtableLock})
    BY <1>2, <1>7, ZenonT(60) DEF TopInv
  <2>1. CASE d = c BY <2>1, <1>3, <1>4, <1>5, <1>13, Zenon DEF Threads
  <2>2. CASE d # c BY <2>2, <1>12 DEF TopInv
  <2> QED BY <2>1, <2>2, Zenon
<1>16. FlagInv'
  <2>1. /\ s \in {"run", "sti", "trapret"}
        /\ s = "run" /\ Level[c] = 1 => curthr[c] \in KThreads /\ savedif[curthr[c]] # "forkret"
    BY <1>3, <1>4, Zenon DEF StackInv, PlaceInv, Threads
  <2>2. Level[c] = 2 \/ (curthr[c] \in KThreads /\ savedif[curthr[c]] # "forkret")
          => (intena[c] <=> Level[c] = 1)
    BY <1>9, Zenon DEF FlagInv
  <2>3. fl_if'[c] => Level[c] = 1
    BY <2>2, <1>3, <1>11
  <2>4. s = "run" /\ H = {} => (fl_if'[c] <=> Level[c] = 1)
    BY <2>1, <2>2, <1>3, <1>11
  <2> SUFFICES ASSUME NEW d \in CPUs
        PROVE  /\ ncli'[d] = Cardinality(Held'[d]) + (IF Pc'[d] = "spin" THEN 1 ELSE 0)
               /\ fl_if'[d] => Level[d] = 1 /\ Held'[d] = {} /\ Pc'[d] \in {"run", "cli", "sti", "trapret"}
               /\ Pc'[d] \in {"run", "cli"} /\ Held'[d] = {} => (fl_if'[d] <=> Level[d] = 1)
               /\ Pc'[d] = "cli" => (Eflags'[d] <=> fl_if'[d])
               /\ /\ Held'[d] # {} \/ Pc'[d] = "spin"
                  /\ Level[d] = 2 \/ (curthr[d] \in KThreads /\ savedif[curthr[d]] # "forkret")
                  => (intena[d] <=> Level[d] = 1)
    BY <1>2, <1>7, ZenonT(60) DEF FlagInv
  <2>5. CASE d = c
    BY <2>5, <2>1, <2>2, <2>3, <2>4, <1>8, <1>9, <1>11, <1>13
  <2>6. CASE d # c BY <2>6, <1>12 DEF FlagInv
  <2> QED BY <2>5, <2>6, Zenon
<1>17. WordInv'
  <2>1. \A d \in CPUs : Lock[c] \in Held[d] <=> d = c BY <1>1, <1>3, Zenon DEF WordInv
  <2>2. \A l \in Locks : locked'[l] <=> locked[l] /\ l # Lock[c] BY <1>2, <1>3, Zenon DEF TypeInv
  <2>3. \A d \in CPUs, l \in Locks : l \in Held'[d] <=> l \in Held[d] /\ l # Lock[c]
    BY <2>1, <1>12, <1>13, Zenon
  <2>4. s # "unlock" BY <1>4, Zenon
  <2>5. \A l \in Locks : locked'[l] <=> \E d \in CPUs : l \in Held'[d] BY <2>2, <2>3, ZenonT(60) DEF WordInv
  <2>6. \A d \in CPUs, l \in Locks :
          lkcpu[l] = d <=> l \in Held'[d] /\ ~(Pc'[d] = "unlock" /\ Lock'[d] = l)
    <3> SUFFICES ASSUME NEW d \in CPUs, NEW l \in Locks
          PROVE  lkcpu[l] = d <=> l \in Held'[d] /\ ~(Pc'[d] = "unlock" /\ Lock'[d] = l)
      BY Zenon
    <3>1. lkcpu[l] = d <=> l \in Held[d] /\ ~(Pc[d] = "unlock" /\ Lock[d] = l) BY Zenon DEF WordInv
    <3>2. l \in Held'[d] <=> l \in Held[d] /\ l # Lock[c] BY <2>3, Zenon
    <3>3. CASE d = c
      <4>1. Pc[d] = "unlock" /\ Pc'[d] # "unlock" BY <3>3, <1>1, <1>13, <2>4, Zenon
      <4>2. Lock[d] = Lock[c] BY <3>3, Zenon
      <4> QED BY <4>1, <4>2, <3>1, <3>2, Zenon
    <3>4. CASE d # c
      <4>1. Lock[c] \notin Held[d] BY <3>4, <2>1, Zenon
      <4>2. Pc'[d] = Pc[d] /\ Lock'[d] = Lock[d] BY <3>4, <1>12, Zenon
      <4>3. l \in Held'[d] <=> l \in Held[d] BY <4>1, <3>2, Zenon
      <4> QED BY <4>2, <4>3, <3>1, Zenon
    <3> QED BY <3>3, <3>4, Zenon
  <2>7. \A d, e \in CPUs, l \in Locks : l \in Held'[d] /\ l \in Held'[e] => d = e
    BY <2>3, Zenon DEF WordInv
  <2> QED BY <2>5, <2>6, <2>7, <1>2, ZenonT(60) DEF WordInv
<1> QED BY <1>7, <1>14, <1>15, <1>16, <1>17, Zenon
(* A new process leaves forkret for user mode with interrupts on.          *)
LEMMA TrapretInv ==
  ASSUME IInv, NEW c \in CPUs, trapret(c)
  PROVE  IInv'
<1> USE SpinAssumption DEF IInv
<1>1. Pc[c] = "trapret" /\ curthr[c] \in KThreads /\ Level[c] = 1 /\ Held[c] = {}
  BY SameFrame, Zenon DEF trapret, TopInv
<1>2. /\ locked' = locked /\ lkcpu' = lkcpu /\ fl_if' = [fl_if EXCEPT ![c] = TRUE]
      /\ ncli' = ncli /\ intena' = intena /\ savedif' = [savedif EXCEPT ![curthr[c]] = "off"]
      /\ curthr' = curthr /\ spanic' = spanic /\ top' = top
  BY SameFrame, Zenon DEF trapret, lockvars
<1>3. Held[c] \in SUBSET Locks /\ Lock[c] \in Locks /\ Eflags[c] \in BOOLEAN BY ViewType, Zenon
<1>4. Writes(c, "run", Lock[c], Eflags[c], Held[c])
  <2>1. "run" \in Places BY Zenon DEF Places
  <2>2. curthr[c] = c /\ Level[c] = 1 => Lock[c] = PtableLock /\ Held[c] \subseteq {PtableLock}
    BY SchedulerFrame, Zenon
  <2> QED BY <1>3, <2>1, <2>2, SameFrame, Zenon DEF trapret, goto, Writes
<1>5. \A u \in KThreads : u # curthr[c] => savedif'[u] = savedif[u] BY <1>2, Zenon DEF TypeInv
<1>6. /\ FrameType' /\ StackInv' /\ Level' = Level /\ Held' = [Held EXCEPT ![c] = Held[c]]
      /\ Pc' = [Pc EXCEPT ![c] = "run"] /\ Lock' = [Lock EXCEPT ![c] = Lock[c]]
      /\ Eflags' = [Eflags EXCEPT ![c] = Eflags[c]]
  BY <1>1, <1>4, <1>5, FrameStep
<1>7. Held' = Held /\ Lock' = Lock /\ Eflags' = Eflags BY <1>6, ViewType, Zenon
<1>8. TypeInv' BY <1>1, <1>2, <1>6, Zenon DEF TypeInv, FrameType
<1>9. /\ \A d \in CPUs : d # c /\ curthr[d] \in KThreads => savedif'[curthr[d]] = savedif[curthr[d]]
      /\ savedif'[curthr[c]] = "off"
  BY <1>1, <1>2, <1>5 DEF StackInv, PlaceInv, TypeInv
<1>10. TopInv' BY <1>1, <1>2, <1>6, <1>7, <1>9, ViewType DEF TopInv
<1>11. FlagInv'
  <2>1. \A d \in CPUs \ {c} : fl_if'[d] = fl_if[d] /\ Pc'[d] = Pc[d] BY <1>2, <1>6, ViewType, Zenon DEF TypeInv
  <2>2. fl_if'[c] /\ Pc'[c] = "run" BY <1>2, <1>6, ViewType, Zenon DEF TypeInv
  <2>3. ncli[c] = Cardinality(Held[c]) + 0 BY <1>1, Zenon DEF FlagInv
  <2>4. /\ ncli' = ncli /\ intena' = intena /\ Held' = Held /\ Eflags' = Eflags /\ Level' = Level
        /\ curthr' = curthr
    BY <1>2, <1>6, <1>7, Zenon
  <2> QED BY <2>1, <2>2, <2>3, <2>4, <1>1, <1>9 DEF FlagInv
<1>12. WordInv' BY <1>1, <1>2, <1>6, <1>7, ViewType DEF WordInv
<1> QED BY <1>6, <1>8, <1>10, <1>11, <1>12, Zenon

(* The scheduler begins a turn of its loop with interrupts on.             *)
LEMMA StiInv ==
  ASSUME IInv, NEW c \in CPUs, sti(c)
  PROVE  IInv'
<1> USE SpinAssumption DEF IInv
<1>1. Pc[c] = "sti" /\ curthr[c] = c /\ Level[c] = 1 /\ Held[c] = {}
  BY SameFrame, Zenon DEF sti, TopInv
<1>2. /\ locked' = locked /\ lkcpu' = lkcpu /\ fl_if' = [fl_if EXCEPT ![c] = TRUE]
      /\ ncli' = ncli /\ intena' = intena /\ savedif' = savedif
      /\ curthr' = curthr /\ spanic' = spanic /\ top' = top
  BY SameFrame, Zenon DEF sti, lockvars
<1>3. Held[c] \in SUBSET Locks /\ Lock[c] \in Locks /\ Eflags[c] \in BOOLEAN BY ViewType, Zenon
<1>4. Writes(c, "run", Lock[c], Eflags[c], Held[c])
  <2>1. "run" \in Places BY Zenon DEF Places
  <2>2. curthr[c] = c /\ Level[c] = 1 => Lock[c] = PtableLock /\ Held[c] \subseteq {PtableLock}
    BY SchedulerFrame, Zenon
  <2> QED BY <1>3, <2>1, <2>2, SameFrame, Zenon DEF sti, goto, Writes
<1>5. /\ FrameType' /\ StackInv' /\ Level' = Level /\ Held' = [Held EXCEPT ![c] = Held[c]]
      /\ Pc' = [Pc EXCEPT ![c] = "run"] /\ Lock' = [Lock EXCEPT ![c] = Lock[c]]
      /\ Eflags' = [Eflags EXCEPT ![c] = Eflags[c]]
  BY <1>2, <1>4, FrameStep
<1>6. Held' = Held /\ Lock' = Lock /\ Eflags' = Eflags BY <1>5, ViewType, Zenon
<1>7. TypeInv' BY <1>2, <1>5, Zenon DEF TypeInv, FrameType
<1>8. TopInv' BY <1>1, <1>2, <1>5, <1>6, ViewType DEF TopInv
<1>9. FlagInv'
  <2>1. \A d \in CPUs \ {c} : fl_if'[d] = fl_if[d] /\ Pc'[d] = Pc[d] BY <1>2, <1>5, ViewType, Zenon DEF TypeInv
  <2>2. fl_if'[c] /\ Pc'[c] = "run" BY <1>2, <1>5, ViewType, Zenon DEF TypeInv
  <2>3. ncli[c] = Cardinality(Held[c]) + 0 BY <1>1, Zenon DEF FlagInv
  <2>4. /\ ncli' = ncli /\ intena' = intena /\ Held' = Held /\ Eflags' = Eflags /\ Level' = Level
        /\ curthr' = curthr /\ savedif' = savedif
    BY <1>2, <1>5, <1>6, Zenon
  <2> QED BY <2>1, <2>2, <2>3, <2>4, <1>1 DEF FlagInv
<1>10. WordInv' BY <1>1, <1>2, <1>5, <1>6, ViewType DEF WordInv
<1> QED BY <1>5, <1>7, <1>8, <1>9, <1>10, Zenon
(* An interrupt finds code that holds no lock, and puts a handler on its   *)
(* stack.                                                                  *)
LEMMA InterruptInv ==
  ASSUME IInv, NEW c \in CPUs, interrupt(c)
  PROVE  IInv'
<1> USE SpinAssumption DEF IInv
<1> DEFINE t == curthr[c]
<1>1. /\ fl_if[c] /\ Level[c] = 1 /\ Held[c] = {} /\ Pc[c] \in {"run", "cli", "sti", "trapret"}
      /\ t \in Threads /\ top[t] = 1 /\ 1 \in Depth /\ 2 \in Depth
  BY DEF interrupt, FlagInv, TypeInv, Level, Depth
<1>2. /\ locked' = locked /\ lkcpu' = lkcpu /\ fl_if' = [fl_if EXCEPT ![c] = FALSE]
      /\ ncli' = ncli /\ intena' = intena /\ savedif' = savedif
      /\ curthr' = curthr /\ spanic' = spanic
      /\ lk' = lk /\ eflags' = eflags /\ held' = held
  BY Zenon DEF interrupt, lockvars
<1>3. top' = [top EXCEPT ![t] = 2] /\ spc' = [spc EXCEPT ![t][2] = "run"]
  BY <1>1 DEF interrupt
<1>4. /\ \A u \in Threads : top'[u] = IF u = t THEN 2 ELSE top[u]
      /\ \A u \in Threads, k \in Depth : spc'[u][k] = IF u = t /\ k = 2 THEN "run" ELSE spc[u][k]
  BY <1>1, <1>3, Zenon DEF TypeInv
<1>5. TypeInv'
  <2>1. top' \in [Threads -> 1..2] BY <1>1, <1>3 DEF TypeInv
  <2>2. spc' \in [Threads -> [Depth -> Places \cup {"swtch"}]] BY <1>1, <1>3, Zenon DEF TypeInv, Places
  <2>3. fl_if' \in [CPUs -> BOOLEAN] BY <1>2, Zenon DEF TypeInv
  <2> QED BY <2>1, <2>2, <2>3, <1>2, Zenon DEF TypeInv
<1>6. \A d \in CPUs \ {c} : curthr[d] # t /\ curthr[d] \in Threads /\ top[curthr[d]] \in Depth
  BY DEF StackInv, PlaceInv, TypeInv, Depth
<1>7. held[t][2] = {} /\ held[t][1] = {} BY <1>1, Zenon DEF StackInv, PlaceInv, Held
<1> HIDE DEF t
<1>8. \A d \in CPUs \ {c} : /\ Pc'[d] = Pc[d] /\ Level'[d] = Level[d] /\ Lock'[d] = Lock[d]
                            /\ Eflags'[d] = Eflags[d] /\ Held'[d] = Held[d] /\ fl_if'[d] = fl_if[d]
  BY <1>2, <1>4, <1>6 DEF Pc, Level, Lock, Eflags, Held, TypeInv
<1>9. Pc'[c] = "run" /\ Level'[c] = 2 /\ Held'[c] = {} /\ ~fl_if'[c]
  BY <1>1, <1>2, <1>4, <1>7 DEF Pc, Level, Held, TypeInv, t
<1>10. StackInv'
  <2>1. \A u \in Threads : u # t => top'[u] = top[u] /\ spc'[u][top'[u]] = spc[u][top[u]]
    <3>1. \A u \in Threads : top[u] \in Depth BY DEF TypeInv, Depth
    <3> QED BY <3>1, <1>4
  <2>2. top'[t] = 2 /\ spc'[t][top'[t]] = "run" /\ spc[t][top[t]] # "swtch"
    BY <1>1, <1>4, Zenon DEF Pc, t
  <2>3. PlaceInv'
    <3>1. /\ \A d \in CPUs : curthr'[d] \in CPUs => curthr'[d] = d
          /\ \A d, f \in CPUs : curthr'[d] = curthr'[f] => d = f
          /\ \A d \in CPUs : lk'[d][1] = PtableLock /\ held'[d][1] \subseteq {PtableLock}
      BY <1>2, Zenon DEF StackInv, PlaceInv
    <3>2. \A d \in CPUs : curthr'[d] # d => top'[d] = 1
      BY <1>2, <2>1 DEF StackInv, PlaceInv, t, Threads
    <3>3. \A u \in Threads : u # t =>
            /\ (\A d \in CPUs : curthr'[d] # u) <=> spc'[u][top'[u]] = "swtch"
            /\ spc'[u][top'[u]] = "swtch" => held'[u][top'[u]] = {}
            /\ \A k \in Depth : k # top'[u] => held'[u][k] = {}
      BY <1>2, <2>1 DEF StackInv, PlaceInv
    <3>4. (\E d \in CPUs : curthr'[d] = t) /\ \A k \in Depth : k # top'[t] => held'[t][k] = {}
      BY <1>1, <1>2, <1>7, <2>2, ZenonT(60) DEF t, StackInv, PlaceInv
    <3> QED BY <3>1, <3>2, <3>3, <3>4, <2>2, Zenon DEF PlaceInv
  <2>4. BelowInv'
    <3>1. \A u \in Threads : spc'[u][1] = spc[u][1] BY <1>1, <1>4
    <3>2. spc[t][1] = Pc[c] /\ eflags[t][1] = Eflags[c] BY <1>1, Zenon DEF Pc, Eflags, t
    <3>3. /\ spc[t][1] = "cli" => eflags[t][1]
          /\ spc[t][1] = "sti" => t \in CPUs
          /\ spc[t][1] = "trapret" => t \in KThreads
          /\ t \in KThreads /\ savedif[t] = "forkret" => spc[t][1] = "trapret"
      BY <1>1, <3>2 DEF FlagInv, TopInv, t
    <3> QED BY <1>1, <1>2, <2>1, <3>1, <3>2, <3>3 DEF StackInv, BelowInv
  <2>5. SavedInv'
    BY <1>2, <2>1, <2>2 DEF StackInv, SavedInv, Threads
  <2> QED BY <2>3, <2>4, <2>5, Zenon DEF StackInv
<1>11. TopInv' BY <1>2, <1>8, <1>9 DEF TopInv
<1>12. FlagInv'
  <2>1. ncli[c] = Cardinality({}) + 0 BY <1>1, ZenonT(60) DEF FlagInv
  <2>2. ncli' = ncli /\ intena' = intena /\ savedif' = savedif /\ curthr' = curthr BY <1>2, Zenon
  <2>3. ~(Level'[c] = 1) BY <1>9
  <2> SUFFICES ASSUME NEW d \in CPUs
        PROVE  /\ ncli[d] = Cardinality(Held'[d]) + (IF Pc'[d] = "spin" THEN 1 ELSE 0)
               /\ fl_if'[d] => Level'[d] = 1 /\ Held'[d] = {} /\ Pc'[d] \in {"run", "cli", "sti", "trapret"}
               /\ Pc'[d] \in {"run", "cli"} /\ Held'[d] = {} => (fl_if'[d] <=> Level'[d] = 1)
               /\ Pc'[d] = "cli" => (Eflags'[d] <=> fl_if'[d])
               /\ /\ Held'[d] # {} \/ Pc'[d] = "spin"
                  /\ Level'[d] = 2 \/ (curthr[d] \in KThreads /\ savedif[curthr[d]] # "forkret")
                  => (intena[d] <=> Level'[d] = 1)
    BY <2>2, Zenon DEF FlagInv
  <2>4. CASE d = c BY <2>4, <2>1, <2>3, <1>9, Zenon
  <2>5. CASE d # c BY <2>5, <1>8 DEF FlagInv
  <2> QED BY <2>4, <2>5, Zenon
<1>13. WordInv'
  <2>1. \A d \in CPUs : Held'[d] = Held[d] BY <1>1, <1>8, <1>9, Zenon
  <2>2. \A d \in CPUs, l \in Locks :
          (Pc'[d] = "unlock" /\ Lock'[d] = l) <=> (Pc[d] = "unlock" /\ Lock[d] = l)
    BY <1>1, <1>8, <1>9, Zenon
  <2>3. locked' = locked /\ lkcpu' = lkcpu BY <1>2, Zenon
  <2> QED BY <2>1, <2>2, <2>3, SameWords, Zenon
<1> QED BY <1>5, <1>10, <1>11, <1>12, <1>13, Zenon

(* iret goes back to the code that was interrupted.                        *)
LEMMA IretInv ==
  ASSUME IInv, NEW c \in CPUs, iret(c)
  PROVE  IInv'
<1> USE SpinAssumption DEF IInv
<1> DEFINE t == curthr[c]
<1>1. /\ Pc[c] = "run" /\ Level[c] = 2 /\ Held[c] = {}
      /\ t \in Threads /\ top[t] = 2 /\ 1 \in Depth /\ 2 \in Depth
  <2>1. Pc[c] = "run" /\ Held[c] = {} /\ top[t] > 1 BY SameFrame, Zenon DEF iret
  <2> QED BY <2>1 DEF TypeInv, Level, Depth
<1>2. /\ locked' = locked /\ lkcpu' = lkcpu /\ fl_if' = [fl_if EXCEPT ![c] = TRUE]
      /\ ncli' = ncli /\ intena' = intena /\ savedif' = savedif
      /\ curthr' = curthr /\ spanic' = spanic
      /\ lk' = lk /\ eflags' = eflags /\ held' = held /\ spc' = spc
  BY Zenon DEF iret, lockvars
<1>3. top' = [top EXCEPT ![t] = 1] BY <1>1 DEF iret
<1>4. \A u \in Threads : top'[u] = IF u = t THEN 1 ELSE top[u] BY <1>1, <1>3, Zenon DEF TypeInv
<1>5. TypeInv'
  <2>1. top' \in [Threads -> 1..2] BY <1>1, <1>3 DEF TypeInv
  <2>2. fl_if' \in [CPUs -> BOOLEAN] BY <1>2, Zenon DEF TypeInv
  <2> QED BY <2>1, <2>2, <1>2, Zenon DEF TypeInv
<1>6. \A d \in CPUs \ {c} : curthr[d] # t /\ curthr[d] \in Threads
  BY Zenon DEF StackInv, PlaceInv, TypeInv
<1>7. held[t][2] = {} /\ held[t][1] = {} BY <1>1, Zenon DEF StackInv, PlaceInv, Held
<1>8. /\ spc[t][1] \in {"run", "cli", "sti", "trapret"}
      /\ spc[t][1] = "cli" => eflags[t][1]
      /\ spc[t][1] = "sti" => t = c
      /\ spc[t][1] = "trapret" => t \in KThreads
      /\ t \in KThreads /\ savedif[t] = "forkret" => spc[t][1] = "trapret"
  BY <1>1, Zenon DEF StackInv, BelowInv, PlaceInv
<1> HIDE DEF t
<1>9. \A d \in CPUs \ {c} : /\ Pc'[d] = Pc[d] /\ Level'[d] = Level[d] /\ Lock'[d] = Lock[d]
                            /\ Eflags'[d] = Eflags[d] /\ Held'[d] = Held[d] /\ fl_if'[d] = fl_if[d]
  BY <1>2, <1>4, <1>6, Zenon DEF Pc, Level, Lock, Eflags, Held, TypeInv
<1>10. /\ Pc'[c] = spc[t][1] /\ Level'[c] = 1 /\ Held'[c] = {} /\ fl_if'[c]
       /\ Eflags'[c] = eflags[t][1] /\ curthr'[c] = t
  BY <1>1, <1>2, <1>4, <1>7, Zenon DEF Pc, Level, Held, Eflags, TypeInv, t
<1>11. StackInv'
  <2>1. \A u \in Threads : u # t => top'[u] = top[u] BY <1>4, Zenon
  <2>2. top'[t] = 1 /\ spc[t][1] # "swtch" /\ \E d \in CPUs : curthr[d] = t
    BY <1>1, <1>4, <1>8, Zenon DEF t
  <2>3. PlaceInv'
    <3>1. /\ \A d \in CPUs : curthr'[d] \in CPUs => curthr'[d] = d
          /\ \A d, f \in CPUs : curthr'[d] = curthr'[f] => d = f
          /\ \A d \in CPUs : lk'[d][1] = PtableLock /\ held'[d][1] \subseteq {PtableLock}
      BY <1>2, Zenon DEF StackInv, PlaceInv
    <3>2. \A d \in CPUs : curthr'[d] # d => top'[d] = 1
      BY <1>2, <1>4, Zenon DEF StackInv, PlaceInv, Threads
    <3>3. \A u \in Threads : u # t =>
            /\ (\A d \in CPUs : curthr'[d] # u) <=> spc'[u][top'[u]] = "swtch"
            /\ spc'[u][top'[u]] = "swtch" => held'[u][top'[u]] = {}
            /\ \A k \in Depth : k # top'[u] => held'[u][k] = {}
      BY <1>2, <2>1, Zenon DEF StackInv, PlaceInv
    <3>4. \A k \in Depth : k # top'[t] => held'[t][k] = {}
      BY <1>1, <1>2, <1>7, <2>2, Zenon DEF StackInv, PlaceInv
    <3> QED BY <3>1, <3>2, <3>3, <3>4, <2>2, <1>2, Zenon DEF PlaceInv
  <2>4. BelowInv' BY <1>2, <2>1, <2>2 DEF StackInv, BelowInv
  <2>5. SavedInv' BY <1>2, <2>1, <2>2 DEF StackInv, SavedInv, Threads
  <2> QED BY <2>3, <2>4, <2>5, Zenon DEF StackInv
<1>12. TopInv' BY <1>2, <1>8, <1>9, <1>10 DEF TopInv
<1>13. FlagInv'
  <2>1. ncli[c] = Cardinality({}) + 0 BY <1>1, Zenon DEF FlagInv
  <2>2. ncli' = ncli /\ intena' = intena /\ savedif' = savedif /\ curthr' = curthr BY <1>2, Zenon
  <2>3. /\ Level'[c] = 1 /\ Held'[c] = {} /\ fl_if'[c] /\ Pc'[c] \in {"run", "cli", "sti", "trapret"}
        /\ Pc'[c] = "cli" => Eflags'[c]
    BY <1>8, <1>10, Zenon
  <2> SUFFICES ASSUME NEW d \in CPUs
        PROVE  /\ ncli[d] = Cardinality(Held'[d]) + (IF Pc'[d] = "spin" THEN 1 ELSE 0)
               /\ fl_if'[d] => Level'[d] = 1 /\ Held'[d] = {} /\ Pc'[d] \in {"run", "cli", "sti", "trapret"}
               /\ Pc'[d] \in {"run", "cli"} /\ Held'[d] = {} => (fl_if'[d] <=> Level'[d] = 1)
               /\ Pc'[d] = "cli" => (Eflags'[d] <=> fl_if'[d])
               /\ /\ Held'[d] # {} \/ Pc'[d] = "spin"
                  /\ Level'[d] = 2 \/ (curthr[d] \in KThreads /\ savedif[curthr[d]] # "forkret")
                  => (intena[d] <=> Level'[d] = 1)
    BY <2>2, Zenon DEF FlagInv
  <2>4. CASE d = c BY <2>4, <2>1, <2>3, Zenon
  <2>5. CASE d # c BY <2>5, <1>9 DEF FlagInv
  <2> QED BY <2>4, <2>5, Zenon
<1>14. WordInv' BY <1>1, <1>2, <1>8, <1>9, <1>10 DEF WordInv
<1> QED BY <1>5, <1>11, <1>12, <1>13, <1>14, Zenon
(* swtch moves CPU c from its thread t to u, a process or its scheduler;   *)
(* what the other CPUs see stays, and CPU c goes on with ptable.lock.      *)
LEMMA SwitchStep ==
  ASSUME IInv, NEW c \in CPUs, NEW u \in Threads, swtch(c, curthr[c], u),
         Pc[c] = "run", Held[c] = {PtableLock}, u # curthr[c], spc[u][top[u]] = "swtch",
         curthr[c] = c \/ u = c, curthr[c] = c => top[c] = 1, u \in CPUs => u = c,
         \A v \in KThreads : savedif'[v] = savedif[v] \/ (v = curthr[c] /\ savedif'[v] # "forkret")
  PROVE  /\ FrameType' /\ PlaceInv' /\ BelowInv'
         /\ curthr' = [curthr EXCEPT ![c] = u] /\ top' = top
         /\ \A v \in Threads : spc'[v][top[v]] = IF v = curthr[c] THEN "swtch"
                                                 ELSE IF v = u THEN "run" ELSE spc[v][top[v]]
         /\ \A d \in CPUs \ {c} : Level'[d] = Level[d] /\ Lock'[d] = Lock[d] /\ Eflags'[d] = Eflags[d]
         /\ Pc' = Pc /\ Held' = Held /\ Level'[c] = top[u]
<1> USE SpinAssumption DEF IInv
<1> DEFINE t == curthr[c]
<1>1. t \in Threads /\ \A v \in Threads : top[v] \in 1..2 /\ top[v] \in Depth BY DEF TypeInv, Depth
<1>2. /\ curthr' = [curthr EXCEPT ![c] = u] /\ top' = top /\ lk' = lk /\ eflags' = eflags
      /\ held' = [held EXCEPT ![t][top[t]] = {}, ![u][top[u]] = {PtableLock}]
      /\ spc' = [spc EXCEPT ![t][top[t]] = "swtch", ![u][top[u]] = "run"]
  BY Zenon DEF swtch
<1>3. \A v \in Threads, k \in Depth :
        /\ held'[v][k] = IF k = top[v] /\ v = t THEN {}
                         ELSE IF k = top[v] /\ v = u THEN {PtableLock} ELSE held[v][k]
        /\ spc'[v][k] = IF k = top[v] /\ v = t THEN "swtch"
                        ELSE IF k = top[v] /\ v = u THEN "run" ELSE spc[v][k]
  BY <1>1, <1>2, ZenonT(60) DEF TypeInv
<1>4. FrameType'
  <2>1. held' \in [Threads -> [Depth -> SUBSET Locks]] BY <1>1, <1>2, Zenon DEF TypeInv
  <2>2. spc' \in [Threads -> [Depth -> Places \cup {"swtch"}]] BY <1>1, <1>2, ZenonT(60) DEF TypeInv, Places
  <2> QED BY <2>1, <2>2, <1>2, Zenon DEF TypeInv, FrameType
<1>5. /\ \A d \in CPUs : curthr'[d] = IF d = c THEN u ELSE curthr[d]
      /\ \A d \in CPUs : curthr[d] # u /\ (curthr[d] = t => d = c) /\ curthr[d] \in Threads
  BY <1>2 DEF TypeInv, StackInv, PlaceInv
<1>6. u # t BY Zenon
<1> HIDE DEF t
<1>7. \A v \in Threads : /\ spc'[v][top[v]] = IF v = t THEN "swtch" ELSE IF v = u THEN "run" ELSE spc[v][top[v]]
                         /\ held'[v][top[v]] = IF v = t THEN {} ELSE IF v = u THEN {PtableLock} ELSE held[v][top[v]]
  <2> SUFFICES ASSUME NEW v \in Threads
               PROVE  /\ spc'[v][top[v]] = IF v = t THEN "swtch" ELSE IF v = u THEN "run" ELSE spc[v][top[v]]
                      /\ held'[v][top[v]] = IF v = t THEN {} ELSE IF v = u THEN {PtableLock} ELSE held[v][top[v]]
    BY ZenonT(60)
  <2>1. top[v] \in Depth BY <1>1, Zenon
  <2> QED BY <2>1, <1>3, ZenonT(60)
<1>8. \A d \in CPUs \ {c} : /\ Pc'[d] = Pc[d] /\ Level'[d] = Level[d] /\ Lock'[d] = Lock[d]
                            /\ Eflags'[d] = Eflags[d] /\ Held'[d] = Held[d]
  <2> SUFFICES ASSUME NEW d \in CPUs \ {c}
               PROVE  /\ Pc'[d] = Pc[d] /\ Level'[d] = Level[d] /\ Lock'[d] = Lock[d]
                      /\ Eflags'[d] = Eflags[d] /\ Held'[d] = Held[d]
    BY Zenon
  <2>1. curthr'[d] = curthr[d] /\ curthr[d] \in Threads /\ curthr[d] # t /\ curthr[d] # u BY <1>5, Zenon
  <2>2. /\ spc'[curthr[d]][top[curthr[d]]] = spc[curthr[d]][top[curthr[d]]]
        /\ held'[curthr[d]][top[curthr[d]]] = held[curthr[d]][top[curthr[d]]]
    BY <2>1, <1>7, Zenon
  <2>3. top' = top /\ lk' = lk /\ eflags' = eflags BY <1>2, Zenon
  <2> QED BY <2>1, <2>2, <2>3, Zenon DEF Pc, Level, Lock, Eflags, Held
<1>9. Pc'[c] = "run" /\ Held'[c] = {PtableLock} /\ Level'[c] = top[u]
  <2>1. curthr'[c] = u /\ top' = top BY <1>2, <1>5, Zenon
  <2>2. spc'[u][top[u]] = "run" /\ held'[u][top[u]] = {PtableLock} BY <1>6, <1>7, Zenon
  <2> QED BY <2>1, <2>2, Zenon DEF Pc, Level, Held
<1>10. Pc' = Pc /\ Held' = Held
  <2>1. \A d \in CPUs : Pc'[d] = Pc[d] /\ Held'[d] = Held[d] BY <1>8, <1>9, Zenon
  <2>2. \A d \in CPUs : /\ Pc'[d] = spc'[curthr'[d]][top'[curthr'[d]]] /\ Pc[d] = spc[curthr[d]][top[curthr[d]]]
                       /\ Held'[d] = held'[curthr'[d]][top'[curthr'[d]]] /\ Held[d] = held[curthr[d]][top[curthr[d]]]
    BY Zenon DEF Pc, Held
  <2>3. \A d \in CPUs : /\ spc'[curthr'[d]][top'[curthr'[d]]] = spc[curthr[d]][top[curthr[d]]]
                       /\ held'[curthr'[d]][top'[curthr'[d]]] = held[curthr[d]][top[curthr[d]]]
    <3> SUFFICES ASSUME NEW d \in CPUs
                 PROVE  /\ spc'[curthr'[d]][top'[curthr'[d]]] = spc[curthr[d]][top[curthr[d]]]
                        /\ held'[curthr'[d]][top'[curthr'[d]]] = held[curthr[d]][top[curthr[d]]]
      BY Zenon
    <3>1. Pc'[d] = Pc[d] /\ Held'[d] = Held[d] BY <2>1, Zenon
    <3> QED BY <3>1, <2>2, Zenon
  <2>4. Pc' = Pc BY <2>3, Zenon DEF Pc
  <2>5. Held' = Held BY <2>3, Zenon DEF Held
  <2> QED BY <2>4, <2>5, Zenon
<1>11. PlaceInv'
  <2>1. \A d \in CPUs : curthr'[d] \in CPUs => curthr'[d] = d BY <1>5 DEF StackInv, PlaceInv
  <2>2. \A d, f \in CPUs : curthr'[d] = curthr'[f] => d = f BY <1>5 DEF StackInv, PlaceInv
  <2>3. \A v \in Threads :
          /\ (\A d \in CPUs : curthr'[d] # v) <=> spc'[v][top[v]] = "swtch"
          /\ spc'[v][top[v]] = "swtch" => held'[v][top[v]] = {}
    <3> SUFFICES ASSUME NEW v \in Threads
                 PROVE  /\ (\A d \in CPUs : curthr'[d] # v) <=> spc'[v][top[v]] = "swtch"
                        /\ spc'[v][top[v]] = "swtch" => held'[v][top[v]] = {}
      BY Zenon
    <3>1. CASE v = t BY <3>1, <1>5, <1>6, <1>7, Zenon
    <3>2. CASE v = u BY <3>2, <1>5, <1>6, <1>7, Zenon
    <3>3. CASE v # t /\ v # u
      <4>1. (\A d \in CPUs : curthr'[d] # v) <=> (\A d \in CPUs : curthr[d] # v) BY <3>3, <1>5, Zenon DEF t
      <4> QED BY <3>3, <4>1, <1>7, ZenonT(60) DEF StackInv, PlaceInv
    <3> QED BY <3>1, <3>2, <3>3, Zenon
  <2>4. \A v \in Threads, k \in Depth : k # top[v] => held'[v][k] = {} BY <1>3 DEF StackInv, PlaceInv
  <2>5. \A d \in CPUs : curthr'[d] # d => top[d] = 1 BY <1>5, Zenon DEF StackInv, PlaceInv, t
  <2>6. \A d \in CPUs : lk[d][1] = PtableLock BY Zenon DEF StackInv, PlaceInv
  <2>7. \A d \in CPUs : held'[d][1] \subseteq {PtableLock}
    <3>1. \A d \in CPUs : d \in Threads /\ 1 \in Depth BY DEF Threads, Depth
    <3> QED BY <3>1, <1>3 DEF StackInv, PlaceInv
  <2>8. top' = top /\ lk' = lk BY <1>2, Zenon
  <2> QED BY <2>1, <2>2, <2>3, <2>4, <2>5, <2>6, <2>7, <2>8, SMTT(60) DEF PlaceInv
<1>12. BelowInv'
  <2> SUFFICES ASSUME NEW v \in Threads, top[v] = 2
               PROVE  /\ spc'[v][1] = spc[v][1]
                      /\ v \in KThreads => savedif'[v] = savedif[v] \/ savedif'[v] # "forkret"
    BY <1>2, ZenonT(60) DEF StackInv, BelowInv
  <2>1. 1 \in Depth BY DEF Depth
  <2> QED BY <2>1, <1>3
<1> QED BY <1>2, <1>4, <1>7, <1>8, <1>9, <1>10, <1>11, <1>12, Zenon DEF t

(* The scheduler switches to a process that is in sched, or is new.        *)
LEMMA SchedulerInv ==
  ASSUME IInv, NEW c \in CPUs, NEW u \in KThreads, scheduler(c, u)
  PROVE  IInv'
<1> USE SpinAssumption DEF IInv
<1>1. /\ Pc[c] = "run" /\ curthr[c] = c /\ top[c] = 1 /\ Level[c] = 1 /\ Held[c] = {PtableLock}
      /\ spc[u][top[u]] = "swtch"
  BY SameFrame, Zenon DEF scheduler, Level
<1>2. /\ locked' = locked /\ lkcpu' = lkcpu /\ fl_if' = fl_if /\ ncli' = ncli
      /\ savedif' = savedif /\ spanic' = spanic
      /\ intena' = [intena EXCEPT ![c] = IF savedif[u] = "forkret" THEN intena[c] ELSE savedif[u] = "on"]
  BY Zenon DEF scheduler, swtch, lockvars, Restored
<1>3. u \in Threads /\ u # c /\ u \notin CPUs /\ top[u] \in 1..2 BY Zenon DEF Threads, TypeInv
<1>4. /\ FrameType' /\ PlaceInv' /\ BelowInv'
      /\ curthr' = [curthr EXCEPT ![c] = u] /\ top' = top
      /\ \A v \in Threads : spc'[v][top[v]] = IF v = c THEN "swtch"
                                              ELSE IF v = u THEN "run" ELSE spc[v][top[v]]
      /\ \A d \in CPUs \ {c} : Level'[d] = Level[d] /\ Lock'[d] = Lock[d] /\ Eflags'[d] = Eflags[d]
      /\ Pc' = Pc /\ Held' = Held /\ Level'[c] = top[u]
  <2>1. swtch(c, curthr[c], u) BY <1>1, Zenon DEF scheduler
  <2>2. \A v \in KThreads : savedif'[v] = savedif[v] BY <1>2, Zenon
  <2> QED BY <2>1, <2>2, <1>1, <1>3, SwitchStep
<1>5. SavedInv'
  <2> SUFFICES ASSUME NEW v \in KThreads, spc'[v][top[v]] = "swtch"
               PROVE  spc[v][top[v]] = "swtch"
    BY <1>2, <1>4, Zenon DEF StackInv, SavedInv
  <2> QED BY <1>4, Zenon DEF Threads
<1>6. \A d \in CPUs : curthr'[d] = (IF d = c THEN u ELSE curthr[d]) BY <1>4, Zenon DEF TypeInv
<1>7. \A d \in CPUs \ {c} : intena'[d] = intena[d] BY <1>2, Zenon DEF TypeInv
<1>8. savedif[u] = "forkret" => top[u] = 1 BY <1>1, Zenon DEF StackInv, SavedInv
<1>9. savedif[u] # "forkret" => (intena'[c] <=> top[u] = 1)
  BY <1>1, <1>2, Zenon DEF StackInv, SavedInv, TypeInv
<1>10. TypeInv'
  <2>1. intena' \in [CPUs -> BOOLEAN] BY <1>2, Zenon DEF TypeInv
  <2>2. curthr' \in [CPUs -> Threads] BY <1>3, <1>4, Zenon DEF TypeInv
  <2> QED BY <2>1, <2>2, <1>2, <1>4, Zenon DEF TypeInv, FrameType
<1>11. TopInv' BY <1>1, <1>2, <1>4, <1>6 DEF TopInv
<1>12. FlagInv'
  <2> SUFFICES ASSUME NEW d \in CPUs
        PROVE  /\ ncli[d] = Cardinality(Held[d]) + (IF Pc[d] = "spin" THEN 1 ELSE 0)
               /\ fl_if[d] => Level'[d] = 1 /\ Held[d] = {} /\ Pc[d] \in {"run", "cli", "sti", "trapret"}
               /\ Pc[d] \in {"run", "cli"} /\ Held[d] = {} => (fl_if[d] <=> Level'[d] = 1)
               /\ Pc[d] = "cli" => (Eflags'[d] <=> fl_if[d])
               /\ /\ Held[d] # {} \/ Pc[d] = "spin"
                  /\ Level'[d] = 2 \/ (curthr'[d] \in KThreads /\ savedif[curthr'[d]] # "forkret")
                  => (intena'[d] <=> Level'[d] = 1)
    BY <1>2, <1>4, SMTT(60) DEF FlagInv
  <2>1. CASE d = c
    <3>1. ~fl_if[c] /\ Held[c] # {} BY <1>1, Zenon DEF FlagInv
    <3>2. ncli[d] = Cardinality(Held[d]) + (IF Pc[d] = "spin" THEN 1 ELSE 0) BY Zenon DEF FlagInv
    <3> QED BY <2>1, <3>1, <3>2, <1>1, <1>3, <1>4, <1>6, <1>8, <1>9
  <2>2. CASE d # c BY <2>2, <1>4, <1>6, <1>7 DEF FlagInv
  <2> QED BY <2>1, <2>2, Zenon
<1>13. WordInv'
  <2>1. \A d \in CPUs, l \in Locks :
          (Pc'[d] = "unlock" /\ Lock'[d] = l) <=> (Pc[d] = "unlock" /\ Lock[d] = l)
    BY <1>1, <1>4, Zenon
  <2>2. locked' = locked /\ lkcpu' = lkcpu /\ \A d \in CPUs : Held'[d] = Held[d] BY <1>2, <1>4, Zenon
  <2> QED BY <2>1, <2>2, SameWords, ZenonT(60)
<1> QED BY <1>4, <1>5, <1>10, <1>11, <1>12, <1>13, Zenon DEF StackInv
(* A process gives its CPU back to the scheduler: sched finds ptable.lock  *)
(* held by this CPU alone and interrupts off, and keeps intena.            *)
LEMMA SchedInv ==
  ASSUME IInv, NEW c \in CPUs, sched(c)
  PROVE  IInv'
<1> USE SpinAssumption DEF IInv
<1> DEFINE t == curthr[c]
<1>1. /\ Pc[c] = "run" /\ t \in KThreads /\ Held[c] = {PtableLock}
      /\ ~(Level[c] = 1 /\ savedif[t] = "forkret") /\ Level[c] = top[t] /\ Level[c] \in 1..2
  <2>1. t \in KThreads BY ZenonT(60) DEF sched
  <2>2. Level[c] = top[t] /\ Level[c] \in 1..2 BY SameFrame, ViewType, Zenon
  <2>3. Pc[c] = "run" /\ Held[c] = {PtableLock} BY SameFrame, Zenon DEF sched
  <2> QED BY <2>1, <2>2, <2>3, Zenon DEF sched, InForkret
<1>2. /\ locked' = locked /\ lkcpu' = lkcpu /\ fl_if' = fl_if /\ ncli' = ncli /\ intena' = intena
      /\ savedif' = [savedif EXCEPT ![t] = IF intena[c] THEN "on" ELSE "off"]
      /\ spanic' = IF ~(locked[PtableLock] /\ lkcpu[PtableLock] = c) THEN "sched ptable.lock"
                   ELSE IF ncli[c] # 1 THEN "sched locks"
                   ELSE IF fl_if[c] THEN "sched interruptible" ELSE spanic
  BY Zenon DEF sched, swtch, lockvars, holding
<1>3. c \in Threads /\ t # c /\ t \in Threads /\ top[c] = 1
  BY <1>1 DEF Threads, StackInv, PlaceInv
<1>4. spc[c][top[c]] = "swtch" BY <1>3 DEF StackInv, PlaceInv
<1>5. \A v \in KThreads : savedif'[v] = IF v = t THEN IF intena[c] THEN "on" ELSE "off" ELSE savedif[v]
  BY <1>1, <1>2, ZenonT(60) DEF TypeInv
<1>6. intena[c] <=> Level[c] = 1 BY <1>1 DEF FlagInv
<1>7. spanic' = "none"
  <2>1. locked[PtableLock] /\ lkcpu[PtableLock] = c BY <1>1, Zenon DEF WordInv
  <2>2. ncli[c] = 1
    <3>1. Cardinality({PtableLock}) = 1 BY FS_Singleton, Zenon
    <3>2. ncli[c] = Cardinality(Held[c]) + 0 BY <1>1, ZenonT(60) DEF FlagInv
    <3> QED BY <3>1, <3>2, <1>1
  <2>3. ~fl_if[c] BY <1>1, Zenon DEF FlagInv
  <2> QED BY <2>1, <2>2, <2>3, <1>2, Zenon DEF TypeInv
<1>8. /\ FrameType' /\ PlaceInv' /\ BelowInv'
      /\ curthr' = [curthr EXCEPT ![c] = c] /\ top' = top
      /\ \A v \in Threads : spc'[v][top[v]] = IF v = t THEN "swtch"
                                              ELSE IF v = c THEN "run" ELSE spc[v][top[v]]
      /\ \A d \in CPUs \ {c} : Level'[d] = Level[d] /\ Lock'[d] = Lock[d] /\ Eflags'[d] = Eflags[d]
      /\ Pc' = Pc /\ Held' = Held /\ Level'[c] = top[c]
  <2>1. swtch(c, curthr[c], c) BY Zenon DEF sched
  <2>2. \A v \in KThreads : savedif'[v] = savedif[v] \/ (v = curthr[c] /\ savedif'[v] # "forkret")
    BY <1>5, Zenon
  <2> QED BY <2>1, <2>2, <1>1, <1>3, <1>4, SwitchStep, Zenon
<1>9. SavedInv'
  <2> SUFFICES ASSUME NEW v \in KThreads, spc'[v][top[v]] = "swtch"
               PROVE  IF savedif'[v] = "forkret" THEN top[v] = 1 ELSE savedif'[v] = "on" <=> top[v] = 1
    BY <1>8, Zenon DEF SavedInv
  <2>1. CASE v = t BY <2>1, <1>1, <1>5, <1>6, Zenon
  <2>2. CASE v # t
    <3>1. v \in Threads /\ v # c BY Zenon DEF Threads
    <3>2. spc[v][top[v]] = "swtch" BY <2>2, <3>1, <1>8, Zenon
    <3> QED BY <2>2, <3>2, <1>5, Zenon DEF StackInv, SavedInv
  <2> QED BY <2>1, <2>2, Zenon
<1>10. \A d \in CPUs : curthr'[d] = (IF d = c THEN c ELSE curthr[d]) BY <1>8, Zenon DEF TypeInv
<1>11. \A d \in CPUs \ {c} : curthr[d] \in KThreads => savedif'[curthr[d]] = savedif[curthr[d]]
  BY <1>5 DEF StackInv, PlaceInv
<1>12. TypeInv'
  <2>1. savedif' \in [KThreads -> {"forkret", "on", "off"}] BY <1>1, <1>2, ZenonT(60) DEF TypeInv
  <2>2. curthr' \in [CPUs -> Threads] BY <1>3, <1>8, Zenon DEF TypeInv
  <2> QED BY <2>1, <2>2, <1>2, <1>7, <1>8, Zenon DEF TypeInv, FrameType
<1>13. c \notin KThreads BY Zenon
<1> HIDE DEF t
<1>14. TopInv' BY <1>1, <1>8, <1>10, <1>11, <1>13 DEF TopInv
<1>15. FlagInv'
  <2> SUFFICES ASSUME NEW d \in CPUs
        PROVE  /\ ncli[d] = Cardinality(Held[d]) + (IF Pc[d] = "spin" THEN 1 ELSE 0)
               /\ fl_if[d] => Level'[d] = 1 /\ Held[d] = {} /\ Pc[d] \in {"run", "cli", "sti", "trapret"}
               /\ Pc[d] \in {"run", "cli"} /\ Held[d] = {} => (fl_if[d] <=> Level'[d] = 1)
               /\ Pc[d] = "cli" => (Eflags'[d] <=> fl_if[d])
               /\ /\ Held[d] # {} \/ Pc[d] = "spin"
                  /\ Level'[d] = 2 \/ (curthr'[d] \in KThreads /\ savedif'[curthr'[d]] # "forkret")
                  => (intena[d] <=> Level'[d] = 1)
    BY <1>2, <1>8, ZenonT(60) DEF FlagInv
  <2>1. CASE d = c
    <3>1. ~fl_if[c] /\ Held[c] # {} BY <1>1, Zenon DEF FlagInv
    <3>2. ncli[d] = Cardinality(Held[d]) + (IF Pc[d] = "spin" THEN 1 ELSE 0) BY Zenon DEF FlagInv
    <3>3. Level'[c] = 1 /\ curthr'[c] = c BY <1>3, <1>8, <1>10, Zenon
    <3> QED BY <2>1, <3>1, <3>2, <3>3, <1>1, <1>13
  <2>2. CASE d # c BY <2>2, <1>8, <1>10, <1>11 DEF FlagInv
  <2> QED BY <2>1, <2>2, ZenonT(60)
<1>16. WordInv'
  <2>1. \A d \in CPUs, l \in Locks :
          (Pc'[d] = "unlock" /\ Lock'[d] = l) <=> (Pc[d] = "unlock" /\ Lock[d] = l)
    BY <1>1, <1>8, Zenon
  <2>2. locked' = locked /\ lkcpu' = lkcpu /\ \A d \in CPUs : Held'[d] = Held[d] BY <1>2, <1>8, Zenon
  <2> QED BY <2>1, <2>2, SameWords, Zenon
<1> QED BY <1>8, <1>9, <1>12, <1>14, <1>15, <1>16, Zenon DEF StackInv

(* A step that changes nothing                                             *)
LEMMA StutterInv ==
  ASSUME IInv, UNCHANGED spvars
  PROVE  IInv'
<1> USE DEF IInv
<1>1. Pc' = Pc /\ Level' = Level /\ Lock' = Lock /\ Eflags' = Eflags /\ Held' = Held
  BY Zenon DEF spvars, Pc, Level, Lock, Eflags, Held
<1>2. TypeInv' BY Zenon DEF spvars, TypeInv
<1>3. StackInv' BY DEF spvars, StackInv, PlaceInv, BelowInv, SavedInv
<1>4. TopInv' BY <1>1, ZenonT(60) DEF spvars, TopInv
<1>5. FlagInv' BY <1>1, ZenonT(60) DEF spvars, FlagInv
<1>6. WordInv' BY <1>1 DEF spvars, WordInv
<1> QED BY <1>2, <1>3, <1>4, <1>5, <1>6, Zenon

(* Every step of every CPU keeps the invariant.                            *)
LEMMA NextInv ==
  ASSUME IInv, [SpNext]_spvars
  PROVE  IInv'
<1>1. ASSUME NEW c \in CPUs, NEW l \in Locks, acquire(c, l) PROVE IInv' BY <1>1, AcquireInv, Zenon
<1>2. ASSUME NEW c \in CPUs, NEW l \in Locks, release(c, l) PROVE IInv' BY <1>2, ReleaseInv, Zenon
<1>3. ASSUME NEW c \in CPUs, pushcli(c) PROVE IInv' BY <1>3, PushcliInv, Zenon
<1>4. ASSUME NEW c \in CPUs, xchg(c) PROVE IInv' BY <1>4, XchgInv, Zenon
<1>5. ASSUME NEW c \in CPUs, popcli(c) PROVE IInv' BY <1>5, PopcliInv, Zenon
<1>6. ASSUME NEW c \in CPUs, interrupt(c) PROVE IInv' BY <1>6, InterruptInv, Zenon
<1>7. ASSUME NEW c \in CPUs, iret(c) PROVE IInv' BY <1>7, IretInv, Zenon
<1>8. ASSUME NEW c \in CPUs, trapret(c) PROVE IInv' BY <1>8, TrapretInv, Zenon
<1>9. ASSUME NEW c \in CPUs, sti(c) PROVE IInv' BY <1>9, StiInv, Zenon
<1>10. ASSUME NEW c \in CPUs, sched(c) PROVE IInv' BY <1>10, SchedInv, Zenon
<1>11. ASSUME NEW c \in CPUs, NEW u \in KThreads, scheduler(c, u) PROVE IInv' BY <1>11, SchedulerInv, Zenon
<1>12. CASE UNCHANGED spvars BY <1>12, StutterInv, Zenon
<1> QED BY <1>1, <1>2, <1>3, <1>4, <1>5, <1>6, <1>7, <1>8, <1>9, <1>10, <1>11, <1>12, Zenon DEF SpNext
-----------------------------------------------------------------------------
(* Only the frame on top of a stack that is on a CPU holds locks.          *)
LEMMA HolderOnTop ==
  ASSUME IInv, NEW t \in Threads, NEW k \in Depth, NEW l \in Locks, l \in held[t][k]
  PROVE  k = top[t] /\ \E c \in CPUs : curthr[c] = t /\ l \in Held[c]
<1>1. k = top[t] BY Zenon DEF IInv, StackInv, PlaceInv
<1>2. \E c \in CPUs : curthr[c] = t BY <1>1, Zenon DEF IInv, StackInv, PlaceInv
<1> QED BY <1>1, <1>2, Zenon DEF Held

(* The invariant gives each lock one holder, on a CPU that lk->cpu names.  *)
LEMMA InvOneHolder ==
  ASSUME IInv
  PROVE  OneHolder
<1> SUFFICES ASSUME NEW l \in Locks, NEW H, H = {f \in Frames : l \in held[f[1]][f[2]]}
             PROVE  /\ locked[l] <=> H # {}
                    /\ \A f, g \in H : f = g
                    /\ \A f \in H : \E c \in OnCpu(f[1]) :
                         lkcpu[l] = c \/ (lk[f[1]][f[2]] = l /\ spc[f[1]][f[2]] = "unlock")
  BY Zenon DEF OneHolder
<1>1. ASSUME NEW f \in H
      PROVE  /\ f[1] \in Threads /\ f[2] \in Depth /\ f = <<f[1], f[2]>> /\ f[2] = top[f[1]]
             /\ \E c \in CPUs : curthr[c] = f[1] /\ l \in Held[c]
  BY HolderOnTop DEF Frames
<1>2. locked[l] <=> H # {}
  <2>1. ASSUME locked[l] PROVE H # {}
    <3>1. PICK c \in CPUs : l \in Held[c] BY <2>1, Zenon DEF IInv, WordInv
    <3>2. curthr[c] \in Threads /\ top[curthr[c]] \in Depth BY DEF IInv, TypeInv, Depth
    <3>3. <<curthr[c], top[curthr[c]]>> \in H BY <3>1, <3>2, Zenon DEF Held, Frames
    <3> QED BY <3>3, Zenon
  <2>2. ASSUME H # {} PROVE locked[l]
    <3>1. PICK f \in H : TRUE BY <2>2, Zenon
    <3>2. PICK c \in CPUs : l \in Held[c] BY <1>1, Zenon
    <3> QED BY <3>2, Zenon DEF IInv, WordInv
  <2>3. locked[l] \in BOOLEAN BY Zenon DEF IInv, TypeInv
  <2> QED BY <2>1, <2>2, <2>3, Zenon
<1>3. ASSUME NEW f \in H, NEW g \in H PROVE f = g
  <2>1. PICK c \in CPUs : curthr[c] = f[1] /\ l \in Held[c] BY <1>1, Zenon
  <2>2. PICK d \in CPUs : curthr[d] = g[1] /\ l \in Held[d] BY <1>1, Zenon
  <2>3. c = d BY <2>1, <2>2, Zenon DEF IInv, WordInv
  <2> QED BY <2>1, <2>2, <2>3, <1>1
<1>4. ASSUME NEW f \in H
      PROVE  \E c \in OnCpu(f[1]) : lkcpu[l] = c \/ (lk[f[1]][f[2]] = l /\ spc[f[1]][f[2]] = "unlock")
  <2>1. PICK c \in CPUs : curthr[c] = f[1] /\ l \in Held[c] BY <1>1, Zenon
  <2>2. c \in OnCpu(f[1]) BY <2>1, Zenon DEF OnCpu
  <2>3. lkcpu[l] = c \/ (Pc[c] = "unlock" /\ Lock[c] = l) BY <2>1, Zenon DEF IInv, WordInv
  <2> QED BY <2>1, <2>2, <2>3, <1>1, Zenon DEF Pc, Lock
<1> QED BY <1>2, <1>3, <1>4, Zenon

(* A set of numbers has a least element.                                   *)
LEMMA LeastElement ==
  ASSUME NEW N \in SUBSET Nat, N # {}
  PROVE  \E n \in N : \A m \in N : n <= m
<1>1. PICK n \in N : \A m \in N : ~(<<m, n>> \in OpToRel(<, Nat))
  BY NatLessThanWellFounded, WFMin, Zenon
<1>2. \A m \in N : ~(m < n) BY <1>1, Zenon DEF OpToRel
<1> QED BY <1>2

(* The CPU that spins for the last lock of all cannot wait for another     *)
(* that spins: whoever holds that lock spins for a later one.              *)
LEMMA InvNoSpinCycle ==
  ASSUME IInv
  PROVE  NoSpinCycle
<1> USE SpinAssumption
<1> SUFFICES ASSUME NEW S \in (SUBSET CPUs) \ {{}}
             PROVE  \E c \in S : SpinsFor(c) \cap UNION {HeldBy(d) : d \in S} = {}
  BY Zenon DEF NoSpinCycle
<1>1. \A c \in CPUs : SpinsFor(c) = IF Pc[c] = "spin" THEN {Lock[c]} ELSE {}
  BY Zenon DEF SpinsFor, Pc, Lock, Lk
<1>2. CASE \E c \in S : Pc[c] # "spin" BY <1>1, <1>2, Zenon
<1>3. CASE \A c \in S : Pc[c] = "spin"
  <2>0. PICK last \in Locks : \A l \in Locks : l <= last BY Zenon
  <2> DEFINE N == {n \in Nat : \E c \in S : n = last - Lock[c]}
  <2>1. \A c \in S : Lock[c] \in Locks /\ Lock[c] \in Nat /\ Lock[c] <= last /\ last \in Nat
    BY <2>0, ViewType, Zenon DEF IInv
  <2>2. \E n \in N : \A m \in N : n <= m
    <3>1. PICK c \in S : TRUE BY Zenon
    <3>2. last - Lock[c] \in N BY <2>1
    <3>3. N \in SUBSET Nat /\ N # {} BY <3>2, Zenon
    <3> HIDE DEF N
    <3> QED BY <3>3, LeastElement, Zenon
  <2>3. PICK c \in S : \A d \in S : Lock[d] <= Lock[c]
    <3>1. PICK n \in N : \A m \in N : n <= m BY <2>2, Zenon
    <3>2. PICK c \in S : n = last - Lock[c] BY Zenon
    <3>3. \A d \in S : last - Lock[d] \in N BY <2>1
    <3>4. \A d \in S : last - Lock[c] <= last - Lock[d] BY <3>1, <3>2, <3>3, Zenon
    <3> QED BY <3>4, <2>1
  <2>4. \A d \in S : Lock[c] \notin Held[d]
    <3> SUFFICES ASSUME NEW d \in S, Lock[c] \in Held[d] PROVE FALSE
      BY Zenon
    <3>1. Lock[c] < Lock[d] BY <1>3, Zenon DEF IInv, TopInv
    <3> QED BY <3>1, <2>1, <2>3
  <2>5. \A d \in S : Lock[c] \notin HeldBy(d)
    <3> SUFFICES ASSUME NEW d \in S, NEW k \in Depth, Lock[c] \in held[curthr[d]][k] PROVE FALSE
      BY Zenon DEF HeldBy
    <3>1. curthr[d] \in Threads BY Zenon DEF IInv, TypeInv
    <3>2. \E e \in CPUs : curthr[e] = curthr[d] /\ Lock[c] \in Held[e] BY <3>1, <2>1, HolderOnTop
    <3>3. Lock[c] \in Held[d] BY <3>2, Zenon DEF IInv, StackInv, PlaceInv
    <3> QED BY <3>3, <2>4, Zenon
  <2> QED BY <2>5, <1>1, <1>3
<1> QED BY <1>2, <1>3, Zenon

(* What acquire and release promise follows from the invariant.            *)
LEMMA InvLocksExclude ==
  ASSUME IInv
  PROVE  LocksExclude
<1>1. SpTypeOK
  <2>1. \A t \in Threads : Cardinality(OnCpu(t)) <= 1
    <3> SUFFICES ASSUME NEW t \in Threads PROVE Cardinality(OnCpu(t)) <= 1
      BY Zenon
    <3>1. CASE OnCpu(t) = {} BY <3>1, FS_EmptySet
    <3>2. CASE OnCpu(t) # {}
      <4>1. PICK c \in CPUs : OnCpu(t) = {c} BY <3>2 DEF OnCpu, IInv, StackInv, PlaceInv
      <4>2. Cardinality({c}) = 1 BY FS_Singleton, Zenon
      <4> QED BY <4>1, <4>2
    <3> QED BY <3>1, <3>2, Zenon
  <2>2. top \in [Threads -> Depth] BY DEF IInv, TypeInv, Depth
  <2> QED BY <2>1, <2>2, Zenon DEF SpTypeOK, IInv, TypeInv
<1>2. SpNoPanic BY Zenon DEF SpNoPanic, IInv, TypeInv
<1> QED BY <1>1, <1>2, InvOneHolder, InvNoSpinCycle, Zenon DEF LocksExclude

(* What pushcli and popcli promise follows from the invariant.             *)
LEMMA InvInterruptsAsBefore ==
  ASSUME IInv
  PROVE  InterruptsAsBefore
<1> SUFFICES ASSUME NEW c \in CPUs
             PROVE  /\ Level[c] <= 2
                    /\ (Pc[c] = "run" /\ Held[c] = {}) => (ncli[c] = 0 /\ (fl_if[c] <=> Level[c] = 1))
                    /\ Held[c] # {} => ~fl_if[c]
  BY Zenon DEF InterruptsAsBefore, Level, Pc, Held, Mine
<1>1. Level[c] <= 2 BY ViewType DEF IInv
<1>2. Cardinality({}) = 0 BY FS_EmptySet, Zenon
<1>3. Pc[c] = "run" => ncli[c] = Cardinality(Held[c]) + 0 BY Zenon DEF IInv, FlagInv
<1> QED BY <1>1, <1>2, <1>3 DEF IInv, FlagInv

(* The invariant of spinlock.c, trap.c's gates and proc.c's switches       *)
THEOREM Invariant == SpSpec => []IInv
<1>1. SpInit => IInv BY InitInv, Zenon
<1>2. IInv /\ [SpNext]_spvars => IInv' BY NextInv, Zenon
<1> QED BY <1>1, <1>2, PTL DEF SpSpec

(* acquire and release (spinlock.c:24-67) exclude each other's critical    *)
(* sections on any number of CPUs, the order of the locks keeps the        *)
(* machine from spinning for ever, and no panic of spinlock.c or of        *)
(* sched() (proc.c:366-382) is reached.                                    *)
THEOREM MutualExclusion == SpSpec => []LocksExclude
<1>1. IInv => LocksExclude BY InvLocksExclude, Zenon
<1> QED BY <1>1, Invariant, PTL

(* pushcli, popcli (spinlock.c:96-126) and sched's intena give each thread *)
(* its own interrupt flag back, however it was nested and moved.           *)
THEOREM FlagsRestored == SpSpec => []InterruptsAsBefore
<1>1. IInv => InterruptsAsBefore BY InvInterruptsAsBefore, Zenon
<1> QED BY <1>1, Invariant, PTL
=============================================================================
