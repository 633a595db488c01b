------------------------------ MODULE Spinlock ------------------------------
(***************************************************************************)
(* xv6/spinlock.c with what it depends on: interrupts (trap.c), and sched  *)
(* and scheduler of proc.c, which hand ptable.lock from one kernel thread  *)
(* to another and carry intena along.  A kernel thread is a process, or    *)
(* the scheduler loop of a CPU (named like the CPU).  A thread has a stack *)
(* of frames: its own code, and the interrupt handlers on top of it.       *)
(* Kernel code is any code that takes locks in ascending order, as the     *)
(* kernel does: a lock under which wakeup or sleep is called comes before  *)
(* ptable.lock, and kmem.lock, which wait() takes through kfree while it   *)
(* holds ptable.lock (proc.c:290-292), comes after it.  A handler knows    *)
(* nothing of the locks of the code it interrupts.                         *)
(*                                                                         *)
(* A step ends where another CPU or an interrupt can make a difference.    *)
(* The calls of holding() are made with interrupts off, so its pushcli and *)
(* popcli cancel out, and lk->cpu is c only if CPU c wrote it.             *)
(*                                                                         *)
(* A definition X_Suffix is a mutant of X, a bug the code could have had;  *)
(* it is used by no other definition.                                      *)
(***************************************************************************)
EXTENDS Integers, FiniteSets

CONSTANTS
  CPUs,        \* CPUs, and their scheduler threads
  KThreads,    \* processes
  Locks,       \* spinlocks, numbered in the order in which code takes them
  PtableLock,  \* ptable.lock; the locks above it are taken under it
  NoCPU

ASSUME SpinAssumption ==
  /\ Locks \subseteq Nat /\ PtableLock \in Locks
  /\ \E m \in Locks : \A l \in Locks : l <= m
  /\ CPUs \cap KThreads = {} /\ NoCPU \notin CPUs

Threads == CPUs \cup KThreads
Depth == 1..3          \* frames a stack can have; InterruptsAsBefore: 2 suffice

VARIABLES
  locked, lkcpu,       \* lk->locked and lk->cpu
  fl_if,               \* FL_IF in the CPU's eflags: interrupts are enabled
  ncli, intena,        \* struct cpu
  curthr,              \* the thread whose stack the CPU runs on
  top,                 \* number of frames on the thread's stack
  spc, lk, eflags,      \* per frame: place in acquire or release, and locals
  held,                \* per frame: locks taken and not released
  savedif,             \* sched()'s local intena
  spanic

spvars == <<locked, lkcpu, fl_if, ncli, intena, curthr, top, spc, lk, eflags,
            held, savedif, spanic>>
lockvars == <<locked, lkcpu>>
cpuvars == <<fl_if, ncli, intena>>

SpInit ==
  /\ locked = [l \in Locks |-> FALSE] /\ lkcpu = [l \in Locks |-> NoCPU]
  /\ fl_if = [c \in CPUs |-> FALSE]                  \* main() runs with them off
  /\ ncli = [c \in CPUs |-> 0] /\ intena = [c \in CPUs |-> FALSE]
  /\ curthr = [c \in CPUs |-> c]
  /\ top = [t \in Threads |-> 1]
  /\ spc = [t \in Threads |-> [k \in Depth |-> IF t \in CPUs THEN "sti" ELSE "swtch"]]
  /\ lk = [t \in Threads |-> [k \in Depth |-> PtableLock]]
  /\ eflags = [t \in Threads |-> [k \in Depth |-> FALSE]]
  /\ held = [t \in Threads |-> [k \in Depth |-> {}]]
  /\ savedif = [t \in KThreads |-> "forkret"]        \* never run: begins in forkret
  /\ spanic = "none"

-----------------------------------------------------------------------------
(* What the frame on top of CPU c's stack is doing                         *)
Here(c, s) == LET t == curthr[c] IN spanic = "none" /\ spc[t][top[t]] = s
Mine(c) == held[curthr[c]][top[curthr[c]]]
Lk(c) == lk[curthr[c]][top[curthr[c]]]
set(f, c, v) == [f EXCEPT ![curthr[c]][top[curthr[c]]] = v]
goto(c, s) == spc' = set(spc, c, s)
holding(c, l) == locked[l] /\ lkcpu[l] = c

(* forkret() has ptable.lock from the scheduler and only releases it.      *)
InForkret(t) == t \in KThreads /\ top[t] = 1 /\ savedif[t] = "forkret"

(* acquire(l): pushcli reads eflags.                                       *)
acquire(c, l) ==
  /\ Here(c, "run") /\ \A m \in Mine(c) : m < l
  /\ ~InForkret(curthr[c])
  /\ (curthr[c] \in CPUs /\ top[curthr[c]] = 1) => l = PtableLock
  /\ goto(c, "cli") /\ lk' = set(lk, c, l) /\ eflags' = set(eflags, c, fl_if[c])
  /\ UNCHANGED <<lockvars, cpuvars, curthr, top, held, savedif, spanic>>

(* The rest of pushcli, and the check                                      *)
Outermost(c) == ncli[c] = 0
Nested(c) == ncli[c] + 1
pushcli(c) ==
  /\ Here(c, "cli") /\ goto(c, "spin")
  /\ spanic' = IF holding(c, Lk(c)) THEN "acquire" ELSE spanic
  /\ fl_if' = [fl_if EXCEPT ![c] = FALSE]
  /\ intena' = IF Outermost(c) THEN [intena EXCEPT ![c] = eflags[curthr[c]][top[curthr[c]]]] ELSE intena
  /\ ncli' = [ncli EXCEPT ![c] = Nested(c)]
  /\ eflags' = set(eflags, c, FALSE)                 \* dead from here on
  /\ UNCHANGED <<lockvars, curthr, top, lk, held, savedif>>

(* The turn of the spin loop in which xchg returns 0, and lk->cpu          *)
WasFree(l) == ~locked[l]
xchg(c) ==
  /\ Here(c, "spin") /\ WasFree(Lk(c))
  /\ locked' = [locked EXCEPT ![Lk(c)] = TRUE] /\ lkcpu' = [lkcpu EXCEPT ![Lk(c)] = c]
  /\ held' = set(held, c, Mine(c) \cup {Lk(c)})
  /\ goto(c, "run") /\ lk' = set(lk, c, PtableLock)   \* dead until the next call
  /\ UNCHANGED <<cpuvars, curthr, top, eflags, savedif, spanic>>

-----------------------------------------------------------------------------
release(c, l) ==
  /\ Here(c, "run") /\ l \in Mine(c)
  /\ spanic' = IF holding(c, l) THEN spanic ELSE "release"
  /\ lkcpu' = [lkcpu EXCEPT ![l] = NoCPU]
  /\ goto(c, "unlock") /\ lk' = set(lk, c, l)
  /\ UNCHANGED <<locked, cpuvars, curthr, top, eflags, held, savedif>>

(* The lock is free, and popcli.  After its release the scheduler begins   *)
(* another turn of its loop, and forkret goes on to user mode.             *)
After(t) == IF t \in CPUs /\ top[t] = 1 THEN "sti"
            ELSE IF InForkret(t) THEN "trapret" ELSE "run"
Reenable_Early(c) == intena[c]
Reenable(c) == ncli'[c] = 0 /\ intena[c]
popcli(c) ==
  /\ Here(c, "unlock")
  /\ locked' = [locked EXCEPT ![Lk(c)] = FALSE] /\ held' = set(held, c, Mine(c) \ {Lk(c)})
  /\ ncli' = [ncli EXCEPT ![c] = @ - 1]
  /\ spanic' = IF fl_if[c] THEN "popcli - interruptible"
               ELSE IF ncli'[c] < 0 THEN "popcli" ELSE spanic
  /\ fl_if' = IF Reenable(c) THEN [fl_if EXCEPT ![c] = TRUE] ELSE fl_if
  /\ goto(c, After(curthr[c])) /\ lk' = set(lk, c, PtableLock)
  /\ UNCHANGED <<lkcpu, intena, curthr, top, eflags, savedif>>

-----------------------------------------------------------------------------
(* An interrupt: the gate clears FL_IF, and iret restores it.              *)
interrupt(c) ==
  /\ spanic = "none" /\ fl_if[c] /\ top[curthr[c]] + 1 \in Depth
  /\ fl_if' = [fl_if EXCEPT ![c] = FALSE]
  /\ top' = [top EXCEPT ![curthr[c]] = @ + 1]
  /\ spc' = [spc EXCEPT ![curthr[c]][top[curthr[c]] + 1] = "run"]
  /\ UNCHANGED <<lockvars, ncli, intena, curthr, lk, eflags, held, savedif, spanic>>

iret(c) ==
  /\ Here(c, "run") /\ top[curthr[c]] > 1 /\ Mine(c) = {}
  /\ fl_if' = [fl_if EXCEPT ![c] = TRUE]
  /\ top' = [top EXCEPT ![curthr[c]] = @ - 1]
  /\ UNCHANGED <<spc, lk, eflags, lockvars, ncli, intena, curthr, held, savedif, spanic>>

(* A new process gets its flags from the trap frame fork made, whatever    *)
(* intena the process before it left in the CPU.                           *)
trapret(c) ==
  /\ Here(c, "trapret") /\ goto(c, "run")
  /\ fl_if' = [fl_if EXCEPT ![c] = TRUE]
  /\ savedif' = [savedif EXCEPT ![curthr[c]] = "off"]
  /\ UNCHANGED <<lockvars, ncli, intena, curthr, top, lk, eflags, held, spanic>>

-----------------------------------------------------------------------------
(* scheduler: sti, then one look at the process table with ptable.lock.    *)
sti(c) ==
  /\ Here(c, "sti") /\ fl_if' = [fl_if EXCEPT ![c] = TRUE] /\ goto(c, "run")
  /\ UNCHANGED <<lockvars, ncli, intena, curthr, top, lk, eflags, held, savedif, spanic>>

(* swtch moves CPU c from thread t to u; ptable.lock goes along.           *)
swtch(c, t, u) ==
  /\ curthr' = [curthr EXCEPT ![c] = u]
  /\ held' = [held EXCEPT ![t][top[t]] = {}, ![u][top[u]] = {PtableLock}]
  /\ spc' = [spc EXCEPT ![t][top[t]] = "swtch", ![u][top[u]] = "run"]
  /\ UNCHANGED <<lockvars, fl_if, ncli, top, lk, eflags>>

(* A runnable process continues in sched(), which restores intena, or      *)
(* begins in forkret().                                                    *)
Restored_Not(c, u) == intena[c]
Restored(c, u) == IF savedif[u] = "forkret" THEN intena[c] ELSE savedif[u] = "on"
scheduler(c, u) ==
  /\ Here(c, "run") /\ curthr[c] = c /\ top[c] = 1 /\ Mine(c) = {PtableLock}
  /\ spc[u][top[u]] = "swtch"
  /\ swtch(c, c, u)
  /\ intena' = [intena EXCEPT ![c] = Restored(c, u)]
  /\ UNCHANGED <<savedif, spanic>>

(* sched, called by yield, sleep or exit with ptable.lock held             *)
sched(c) ==
  /\ Here(c, "run") /\ curthr[c] \in KThreads /\ Mine(c) = {PtableLock}
  /\ ~InForkret(curthr[c])
  /\ spanic' = IF ~holding(c, PtableLock) THEN "sched ptable.lock"
               ELSE IF ncli[c] # 1 THEN "sched locks"
               ELSE IF fl_if[c] THEN "sched interruptible" ELSE spanic
  /\ savedif' = [savedif EXCEPT ![curthr[c]] = IF intena[c] THEN "on" ELSE "off"]
  /\ swtch(c, curthr[c], c)
  /\ UNCHANGED intena

SpNext == \E c \in CPUs :
  \/ \E l \in Locks : acquire(c, l) \/ release(c, l)
  \/ pushcli(c) \/ xchg(c) \/ popcli(c)
  \/ interrupt(c) \/ iret(c) \/ trapret(c) \/ sti(c) \/ sched(c)
  \/ \E u \in KThreads : scheduler(c, u)

SpSpec == SpInit /\ [][SpNext]_spvars

-----------------------------------------------------------------------------
Frames == Threads \X Depth
OnCpu(t) == {c \in CPUs : curthr[c] = t}

(* Types, and a CPU runs on one stack at a time.                           *)
SpTypeOK ==
  /\ locked \in [Locks -> BOOLEAN] /\ lkcpu \in [Locks -> CPUs \cup {NoCPU}]
  /\ ncli \in [CPUs -> Nat] /\ fl_if \in [CPUs -> BOOLEAN] /\ intena \in [CPUs -> BOOLEAN]
  /\ curthr \in [CPUs -> Threads] /\ \A t \in Threads : Cardinality(OnCpu(t)) <= 1
  /\ top \in [Threads -> Depth]

(* Mutual exclusion: a lock is in the hands of at most one frame of one    *)
(* thread, that thread is on a CPU, and lk->cpu says which one unless      *)
(* release is just at work (spinlock.c:24-67).                             *)
OneHolder ==
  \A l \in Locks :
    LET H == {f \in Frames : l \in held[f[1]][f[2]]} IN
      /\ locked[l] <=> H # {}
      /\ \A f, g \in H : f = g
      /\ \A f \in H : \E c \in OnCpu(f[1]) :
           lkcpu[l] = c \/ (lk[f[1]][f[2]] = l /\ spc[f[1]][f[2]] = "unlock")

(* "It takes two popcli to undo two pushcli", and no thread ends up with   *)
(* the interrupt flag of another (spinlock.c:96-126, proc.c:379-381): code *)
(* outside acquire and release that holds no lock runs with interrupts on, *)
(* a handler with interrupts off, however often it was switched out and    *)
(* moved to another CPU; and so a handler is never interrupted.            *)
InterruptsAsBefore ==
  \A c \in CPUs : LET t == curthr[c] IN
    /\ top[t] <= 2
    /\ (spc[t][top[t]] = "run" /\ Mine(c) = {}) => (ncli[c] = 0 /\ (fl_if[c] <=> top[t] = 1))
    /\ Mine(c) # {} => ~fl_if[c]

(* No set of CPUs spins for locks its own members hold: with interrupts    *)
(* off, the order of the locks of each frame is an order for the machine   *)
(* ("disable interrupts to avoid deadlock", spinlock.c:27).                *)
SpinsFor(c) == LET t == curthr[c] IN IF spc[t][top[t]] = "spin" THEN {Lk(c)} ELSE {}
HeldBy(c) == UNION {held[curthr[c]][k] : k \in Depth}
NoSpinCycle ==
  \A S \in (SUBSET CPUs) \ {{}} :
    \E c \in S : SpinsFor(c) \cap UNION {HeldBy(d) : d \in S} = {}

(* None of the checks of acquire, release, popcli and sched fails.         *)
SpNoPanic == spanic = "none"

(* Spinlocks exclude each other's critical sections without ever blocking  *)
(* the machine, and none of the code's own checks on them fails.           *)
LocksExclude == SpTypeOK /\ OneHolder /\ NoSpinCycle /\ SpNoPanic
=============================================================================
