----------------------------- MODULE Proc_proofs -----------------------------
(***************************************************************************)
(* For every size of the process table, number of CPUs and width of ticks, *)
(* a context switch of xv6/proc.c is safe, processes keep to their life    *)
(* cycle and to the tree under init, wait() misses no exit, sys_sleep does *)
(* not oversleep, and getppid() returns the pid of a living parent.        *)
(*                                                                         *)
(* The invariant ties a process's state to where it is in its code         *)
(* (PlaceInv), a CPU to the process on it and the locks it holds (CpuInv), *)
(* a sleep() in progress to tickslock (TickInv), a fork in progress to its *)
(* EMBRYO (ForkInv), children to parents that are alive (FamilyInv), pids  *)
(* to processes (PidInv), a sleeper in wait() to children that live        *)
(* (WaitInv), and the pointer getppid() has read to the parent (GetInv).   *)
(***************************************************************************)
EXTENDS Proc, WellFoundedInduction, TLAPS

Forking == {"fork_stack", "fork_copy", "fork_publish"}
Timing == {"sleep_test", "sleep_go"}

(* Processes whose sleep() is over                                         *)
Late == {p \in Slot : ~(Elapsed(p) < loc[p].n)}

(* A process's state, its context and its place                            *)
PlaceInv ==
  \A p \in Slot :
    /\ state[p] \in {"UNUSED", "EMBRYO"} => pc[p] = "user"
    /\ state[p] \notin {"UNUSED", "EMBRYO"} => kstack[p]
    /\ state[p] = "ZOMBIE" => pc[p] = "exit"
    /\ state[p] = "RUNNABLE" => ctx[p] # "run"
    /\ state[p] = "SLEEPING" =>
         /\ ctx[p] = "sleep"
         /\ (pc[p] = "wait" /\ chan[p] = p) \/ (pc[p] = "sleep" /\ chan[p] = TicksChan)

(* A CPU, its process and the spinlocks                                    *)
CpuInv ==
  /\ \A p \in Slot : state[p] = "RUNNING" => \E c \in Cpu : cproc[c] = p
  /\ \A c, d \in Cpu : cproc[c] # NoProc /\ cproc[c] = cproc[d] => c = d
  /\ \A c \in Cpu : cproc[c] = NoProc => (lock = c <=> scan[c] # 0)
  /\ \A c \in Cpu : cproc[c] # NoProc => scan[c] # 0 /\ state[cproc[c]] \notin {"UNUSED", "EMBRYO"}
  /\ \A c \in Cpu : cproc[c] # NoProc /\ (state[cproc[c]] # "RUNNING" \/ ctx[cproc[c]] # "run") =>
       lock = c /\ irq[c] = "none" /\ tickslock # c
  /\ \A c \in Cpu : cproc[c] # NoProc /\ state[cproc[c]] = "RUNNING" /\ ctx[cproc[c]] = "run" /\ lock = c =>
       pc[cproc[c]] = "wait" /\ irq[c] = "none" /\ tickslock # c

(* tickslock and the timer interrupt                                       *)
TickInv ==
  /\ \A c \in Cpu : irq[c] # "none" => c = 0 /\ lock # c
  /\ irq[0] = "tick" => tickslock = 0
  /\ irq[0] = "post" => tickslock # 0 /\ cproc[0] # NoProc
  /\ \A c \in Cpu : tickslock = c =>
       \/ irq[c] = "tick" /\ (cproc[c] # NoProc => pc[cproc[c]] \notin Timing)
       \/ /\ irq[c] = "none" /\ cproc[c] # NoProc
          /\ state[cproc[c]] = "RUNNING" /\ ctx[cproc[c]] = "run" /\ pc[cproc[c]] \in Timing
  /\ \A p \in Slot : pc[p] \in Timing => tickslock \in Cpu /\ cproc[tickslock] = p
  /\ \A p \in Slot : pc[p] = "sleep_go" => p \notin Late
  /\ \A p \in Late : state[p] = "SLEEPING" /\ chan[p] = TicksChan => irq[0] = "tick"

(* A fork in progress and its child                                        *)
ForkInv ==
  /\ \A p \in Slot : pc[p] \in Forking =>
       /\ loc[p].ptr \in Slot /\ state[loc[p].ptr] = "EMBRYO"
       /\ pc[p] # "fork_stack" => kstack[loc[p].ptr] /\ ctx[loc[p].ptr] = "forkret"
       /\ parent[loc[p].ptr] = IF pc[p] = "fork_publish" THEN p ELSE NoProc
  /\ \A p, q \in Slot : pc[p] \in Forking /\ pc[q] \in Forking /\ loc[p].ptr = loc[q].ptr => p = q

(* Parents and children, and init                                          *)
FamilyInv ==
  /\ \A q \in Slot : parent[q] # NoProc => Alive(parent[q]) /\ parent[q] # q
  /\ \A q \in Slot \ {initproc} : Alive(q) \/ state[q] = "ZOMBIE" => parent[q] \in Slot
  /\ \A q \in Slot : state[q] = "UNUSED" => parent[q] = NoProc
  /\ \A q \in Slot : state[q] = "EMBRYO" /\ parent[q] # NoProc =>
       pc[parent[q]] = "fork_publish" /\ loc[parent[q]].ptr = q
  /\ Alive(initproc) /\ parent[initproc] = NoProc
  /\ pc[initproc] \in {"user", "sysret", "fork", "wait", "exit", "panic"} \cup Forking

(* pids                                                                    *)
PidInv ==
  /\ \A p \in Slot : pid[p] < nextpid /\ (state[p] # "UNUSED" => pid[p] # 0)
  /\ \A p, q \in Slot : p # q /\ pid[p] = pid[q] => pid[p] = 0
  /\ pid[initproc] = 1

(* A process asleep in wait()                                              *)
WaitInv ==
  \A p \in Slot : state[p] = "SLEEPING" /\ chan[p] = p =>
    /\ ~killed[p]
    /\ \E q \in Slot : parent[q] = p
    /\ \A q \in Slot : parent[q] = p => state[q] # "ZOMBIE"

(* What getppid() has read                                                 *)
GetInv ==
  \A p \in Slot : pc[p] = "getppid_pid" =>
    /\ loc[p].ptr \in Slot
    /\ parent[p] = loc[p].ptr => pid[loc[p].ptr] = loc[p].val
    /\ loc[p].ptr = initproc => loc[p].val = 1

IInv ==
  /\ TypeOK /\ PlaceInv /\ CpuInv /\ TickInv /\ ForkInv /\ FamilyInv /\ PidInv /\ WaitInv /\ GetInv
-----------------------------------------------------------------------------
(* A set of numbers has a least element, which First picks.                *)
LEMMA FirstIn ==
  ASSUME NEW S \in SUBSET Slot, S # {}
  PROVE  First(S) \in S /\ First(S) \in Slot
<1>1. S \in SUBSET Nat BY DEF Slot
<1>2. PICK n \in S : \A m \in S : ~(<<m, n>> \in OpToRel(<, Nat))
  BY <1>1, NatLessThanWellFounded, WFMin, Zenon
<1>3. \A m \in S : ~(m < n) BY <1>1, <1>2, Zenon DEF OpToRel
<1>4. \A m \in S : n <= m BY <1>1, <1>3
<1> QED BY <1>4, Zenon DEF First

(* Slots and CPUs are numbers; 0 is a CPU and no slot.                     *)
LEMMA Numbers ==
  /\ 0 \in Cpu /\ NoCpu \notin Cpu /\ NoProc \notin Slot /\ initproc \in Slot
  /\ \A p \in Slot : p \in Nat /\ p # TicksChan /\ p + 1 \in 0..NPROC+1 /\ p + 1 # 0
BY ProcAssumption DEF Cpu, NoCpu, NoProc, Slot, initproc, TicksChan

(* The first process waits to be scheduled.                                *)
LEMMA InitInv == Init => IInv
<1> SUFFICES ASSUME Init PROVE IInv BY Zenon
<1> USE ProcAssumption, Numbers DEF Init
<1>1. TypeOK BY DEF TypeOK, State, PC, Ctx, NoLoc, NoProc, NoChan, initproc, NoCpu
<1>2. PlaceInv BY Zenon DEF PlaceInv
<1>3. CpuInv BY Zenon DEF CpuInv
<1>4. TickInv BY Zenon DEF TickInv, Timing, Late
<1>5. ForkInv BY Zenon DEF ForkInv, Forking
<1>6. FamilyInv BY Zenon DEF FamilyInv, Alive, Forking
<1>7. PidInv BY DEF PidInv, initproc
<1>8. WaitInv BY Zenon DEF WaitInv
<1>9. GetInv BY Zenon DEF GetInv
<1> QED BY <1>1, <1>2, <1>3, <1>4, <1>5, <1>6, <1>7, <1>8, <1>9, Zenon DEF IInv

(* A process in its own code is on one CPU, with no interrupt in progress; *)
(* it has ptable.lock only in wait().                                      *)
LEMMA RunFacts ==
  ASSUME IInv, NEW c \in Cpu, NEW p \in Slot, Runs(c, p)
  PROVE  /\ cproc[c] = p /\ state[p] = "RUNNING" /\ ctx[p] = "run" /\ irq[c] = "none"
         /\ (pc[p] # "wait" => lock # c) /\ (\A d \in Cpu : cproc[d] = p => d = c)
         /\ p # NoProc /\ Alive(p) /\ kstack[p] /\ (pc[p] \notin Timing <=> tickslock # c)
         /\ (p # initproc => parent[p] \in Slot) /\ pc[p] \in PC /\ loc[p] \in [ptr : Nat, val : Nat, n : Nat]
<1>1. /\ cproc[c] = p /\ state[p] = "RUNNING" /\ ctx[p] = "run" /\ irq[c] = "none" /\ p # NoProc
  BY Zenon DEF Runs
<1>2. (pc[p] # "wait" => lock # c) /\ (\A d \in Cpu : cproc[d] = p => d = c)
  BY <1>1, Zenon DEF IInv, CpuInv
<1>3. Alive(p) /\ kstack[p] BY <1>1, Zenon DEF Alive, IInv, PlaceInv
<1>4. pc[p] \notin Timing <=> tickslock # c
  BY <1>1, <1>2, Zenon DEF IInv, TickInv
<1>5. p # initproc => parent[p] \in Slot BY <1>3, Zenon DEF IInv, FamilyInv
<1>6. pc[p] \in PC /\ loc[p] \in [ptr : Nat, val : Nat, n : Nat] BY Zenon DEF IInv, TypeOK
<1> QED BY <1>1, <1>2, <1>3, <1>4, <1>5, <1>6, Zenon

(* While ptable.lock is free, no CPU is in a context switch.               *)
LEMMA NoneSwitching ==
  ASSUME IInv, lock = NoCpu
  PROVE  \A c \in Cpu : cproc[c] # NoProc => state[cproc[c]] = "RUNNING" /\ ctx[cproc[c]] = "run"
BY Numbers DEF IInv, CpuInv
-----------------------------------------------------------------------------
(* p, in its own code on CPU c, goes on to l with locals v, and takes or   *)
(* gives back tickslock when that begins or ends a test of the time.       *)
Moves(c, p, l, v) ==
  /\ Runs(c, p) /\ l \in PC /\ v \in [ptr : Nat, val : Nat, n : Nat]
  /\ pc' = [pc EXCEPT ![p] = l] /\ loc' = [loc EXCEPT ![p] = v]
  /\ pc[p] # "wait" /\ pc[p] \notin Forking /\ l \notin Forking
  /\ p = initproc => l \in {"user", "sysret", "fork", "wait", "exit", "panic"}
  /\ l = "getppid_pid" => v.ptr = parent[p] /\ v.ptr \in Slot /\ v.val = pid[v.ptr]
  /\ \/ l \in Timing /\ pc[p] \notin Timing /\ tickslock = NoCpu /\ tickslock' = c
     \/ l \in Timing /\ pc[p] \in Timing /\ tickslock' = tickslock
     \/ l \notin Timing /\ pc[p] \in Timing /\ tickslock' = NoCpu
     \/ l \notin Timing /\ pc[p] \notin Timing /\ tickslock' = tickslock
  /\ l = "sleep_go" => v = loc[p] /\ p \notin Late
  /\ UNCHANGED <<table, lock, ticks, cpus, ctx>>

(* Such a step, a system call's entry, return or read, keeps the invariant. *)
LEMMA LocalStep ==
  ASSUME IInv, NEW c \in Cpu, NEW p \in Slot, NEW l, NEW v, Moves(c, p, l, v)
  PROVE  IInv'
<1> USE ProcAssumption, Numbers DEF IInv
<1>1. /\ cproc[c] = p /\ state[p] = "RUNNING" /\ ctx[p] = "run" /\ irq[c] = "none"
      /\ lock # c /\ (\A d \in Cpu : cproc[d] = p => d = c)
      /\ (pc[p] \notin Timing <=> tickslock # c)
  BY RunFacts, Zenon DEF Moves
<1>2. /\ state' = state /\ pid' = pid /\ parent' = parent /\ killed' = killed /\ chan' = chan
      /\ kstack' = kstack /\ nextpid' = nextpid /\ asked' = asked /\ lock' = lock /\ ticks' = ticks
      /\ cproc' = cproc /\ scan' = scan /\ irq' = irq /\ ctx' = ctx
  BY Zenon DEF Moves, table, cpus
<1>3. /\ \A q \in Slot : pc'[q] = IF q = p THEN l ELSE pc[q]
      /\ \A q \in Slot : loc'[q] = IF q = p THEN v ELSE loc[q]
  BY DEF Moves, TypeOK
<1>4. TypeOK'
  <2>1. pc' \in [Slot -> PC] /\ loc' \in [Slot -> [ptr : Nat, val : Nat, n : Nat]]
    BY Zenon DEF Moves, TypeOK
  <2>2. tickslock' \in Cpu \cup {NoCpu} BY DEF Moves, TypeOK
  <2> QED BY <2>1, <2>2, <1>2, Zenon DEF TypeOK
<1>5. PlaceInv' BY <1>1, <1>2, <1>3 DEF PlaceInv
<1>6. \A d \in Cpu : d # c /\ cproc[d] # NoProc => cproc[d] # p /\ pc'[cproc[d]] = pc[cproc[d]] /\ cproc[d] \in Slot
  BY <1>1, <1>3 DEF TypeOK
<1>7. \A d \in Cpu : d # c => (tickslock' = d <=> tickslock = d) BY <1>1, Zenon DEF Moves
<1>8. tickslock' = c <=> l \in Timing BY <1>1, Zenon DEF Moves
<1>9. CpuInv' BY <1>1, <1>2, <1>6, <1>7, <1>8 DEF CpuInv
<1>10. \A q \in Slot : q # p => (q \in Late' <=> q \in Late) BY <1>2, <1>3, Zenon DEF Late, Elapsed
<1>11. l = "sleep_go" => p \notin Late' BY <1>2, <1>3, Zenon DEF Late, Elapsed, Moves
<1>12. TickInv'
  <2>1. \A d \in Cpu : irq'[d] # "none" => d = 0 /\ lock' # d BY <1>2, Zenon DEF TickInv
  <2>2. irq'[0] = "tick" => tickslock' = 0 BY <1>1, <1>2, <1>7, Zenon DEF TickInv
  <2>3. irq'[0] = "post" => tickslock' # 0 /\ cproc'[0] # NoProc BY <1>1, <1>2, <1>7, Zenon DEF TickInv
  <2>4. \A d \in Cpu : tickslock' = d =>
          \/ irq'[d] = "tick" /\ (cproc'[d] # NoProc => pc'[cproc'[d]] \notin Timing)
          \/ /\ irq'[d] = "none" /\ cproc'[d] # NoProc
             /\ state'[cproc'[d]] = "RUNNING" /\ ctx'[cproc'[d]] = "run" /\ pc'[cproc'[d]] \in Timing
    BY <1>1, <1>2, <1>3, <1>6, <1>7, <1>8 DEF TickInv
  <2>5. \A q \in Slot : pc'[q] \in Timing => tickslock' \in Cpu /\ cproc'[tickslock'] = q
    BY <1>1, <1>2, <1>3, <1>7, <1>8 DEF TickInv
  <2>6. \A q \in Slot : pc'[q] = "sleep_go" => q \notin Late'
    BY <1>3, <1>10, <1>11 DEF TickInv
  <2>7. \A q \in Late' : state'[q] = "SLEEPING" /\ chan'[q] = TicksChan => irq'[0] = "tick"
    BY <1>1, <1>2, <1>10, Zenon DEF TickInv, Late
  <2> QED BY <2>1, <2>2, <2>3, <2>4, <2>5, <2>6, <2>7, Zenon DEF TickInv
<1>13. pc[p] \notin Forking /\ l \notin Forking /\ pc[p] # "fork_publish" BY Zenon DEF Moves, Forking
<1>14. ForkInv' BY <1>2, <1>3, <1>13 DEF ForkInv
<1>15. FamilyInv'
  <2>1. pc'[initproc] \in {"user", "sysret", "fork", "wait", "exit", "panic"} \cup Forking
    BY <1>3 DEF Moves, FamilyInv
  <2>2. \A q \in Slot : state[q] = "EMBRYO" /\ parent[q] # NoProc =>
          pc'[parent[q]] = "fork_publish" /\ loc'[parent[q]].ptr = q
    BY <1>3, <1>13 DEF FamilyInv, TypeOK
  <2> QED BY <2>1, <2>2, <1>2, Zenon DEF FamilyInv, Alive
<1>16. PidInv' BY <1>2, Zenon DEF PidInv
<1>17. WaitInv' BY <1>2 DEF WaitInv
<1>18. GetInv' BY <1>2, <1>3 DEF GetInv, Moves, PidInv
<1> QED BY <1>4, <1>5, <1>9, <1>12, <1>14, <1>15, <1>16, <1>17, <1>18, Zenon
(* trap() begins a system call, or exits.                                  *)
LEMMA SyscallInv ==
  ASSUME IInv, NEW c \in Cpu, syscall(c)
  PROVE  IInv'
<1> USE ProcAssumption, Numbers DEF IInv
<1>1. PICK p \in Slot :
        /\ Runs(c, p) /\ pc[p] = "user"
        /\ IF killed[p] THEN Goto(p, "exit") ELSE \E f \in UserCalls(p) : Goto(p, f)
        /\ UNCHANGED <<table, lock, clock, cpus, ctx, loc>>
  BY Zenon DEF syscall
<1>2. PICK l : /\ pc' = [pc EXCEPT ![p] = l]
               /\ l \in {"exit", "fork", "wait", "kill", "sleep", "getppid"}
               /\ p = initproc => l \in {"exit", "fork", "wait"}
  <2>1. CASE killed[p]
    <3>1. pc' = [pc EXCEPT ![p] = "exit"] BY <2>1, <1>1, Zenon DEF Goto
    <3> QED BY <3>1, Zenon
  <2>2. CASE ~killed[p]
    <3>1. PICK f \in UserCalls(p) : pc' = [pc EXCEPT ![p] = f] BY <2>2, <1>1, Zenon DEF Goto
    <3>2. /\ f \in {"exit", "fork", "wait", "kill", "sleep", "getppid"}
          /\ p = initproc => f \in {"fork", "wait"}
      BY DEF UserCalls
    <3> QED BY <3>1, <3>2, Zenon
  <2> QED BY <2>1, <2>2, Zenon
<1>3. loc' = [loc EXCEPT ![p] = loc[p]] BY <1>1, Zenon DEF TypeOK
<1>4. Moves(c, p, l, loc[p])
  BY <1>1, <1>2, <1>3, RunFacts, Zenon DEF Moves, PC, Forking, Timing, clock
<1> QED BY <1>4, LocalStep, Zenon

(* ... and returns from it, or exits.                                      *)
LEMMA SysretInv ==
  ASSUME IInv, NEW c \in Cpu, sysret(c)
  PROVE  IInv'
<1> USE ProcAssumption, Numbers DEF IInv
<1>1. PICK p \in Slot :
        /\ Runs(c, p) /\ pc[p] = "sysret" /\ Goto(p, IF killed[p] THEN "exit" ELSE "user")
        /\ UNCHANGED <<table, lock, clock, cpus, ctx, loc>>
  BY Zenon DEF sysret
<1>2. PICK l : pc' = [pc EXCEPT ![p] = l] /\ l \in {"exit", "user"}
  <2>1. CASE killed[p] BY <1>1, <2>1, Zenon DEF Goto
  <2>2. CASE ~killed[p] BY <1>1, <2>2, Zenon DEF Goto
  <2> QED BY <2>1, <2>2, Zenon
<1>3. loc' = [loc EXCEPT ![p] = loc[p]] BY <1>1, Zenon DEF TypeOK
<1>4. Moves(c, p, l, loc[p])
  BY <1>1, <1>2, <1>3, RunFacts, Zenon DEF Moves, PC, Forking, Timing, clock
<1> QED BY <1>4, LocalStep, Zenon

(* sys_sleep takes tickslock.                                              *)
LEMMA SysSleepInv ==
  ASSUME IInv, NEW c \in Cpu, sys_sleep(c)
  PROVE  IInv'
<1> USE ProcAssumption, Numbers DEF IInv
<1>1. PICK p \in Slot, k \in SleepFor :
        /\ Runs(c, p) /\ pc[p] = "sleep" /\ tickslock = NoCpu /\ tickslock' = c
        /\ IF loc[p].ptr = 1 THEN UNCHANGED loc
           ELSE loc' = [loc EXCEPT ![p] = [ptr |-> 1, val |-> ticks, n |-> k]]
        /\ Goto(p, "sleep_test") /\ UNCHANGED <<table, lock, ticks, cpus, ctx>>
  BY Zenon DEF sys_sleep
<1>2. k \in Nat /\ ticks \in Nat BY DEF TypeOK
<1>3. PICK v : v \in [ptr : Nat, val : Nat, n : Nat] /\ loc' = [loc EXCEPT ![p] = v]
  <2>1. CASE loc[p].ptr = 1
    <3>1. loc' = [loc EXCEPT ![p] = loc[p]] BY <1>1, <2>1, Zenon DEF TypeOK
    <3> QED BY <3>1, Zenon DEF TypeOK
  <2>2. CASE loc[p].ptr # 1 BY <1>1, <1>2, <2>2, Zenon
  <2> QED BY <2>1, <2>2, Zenon
<1>4. p # initproc BY <1>1, Zenon DEF FamilyInv, Forking
<1>5. Moves(c, p, "sleep_test", v)
  BY <1>1, <1>3, <1>4, Zenon DEF Moves, PC, Forking, Timing, Goto
<1> QED BY <1>5, LocalStep, Zenon

(* The test of the time goes on with tickslock, or gives it back.          *)
LEMMA SleepTestInv ==
  ASSUME IInv, NEW c \in Cpu, sleep_test(c)
  PROVE  IInv'
<1> USE ProcAssumption, Numbers DEF IInv
<1>1. PICK p \in Slot :
        /\ Runs(c, p) /\ pc[p] = "sleep_test"
        /\ IF Elapsed(p) < loc[p].n /\ ~killed[p]
           THEN Goto(p, "sleep_go") /\ UNCHANGED <<tickslock, loc>>
           ELSE Goto(p, "sysret") /\ tickslock' = NoCpu /\ loc' = [loc EXCEPT ![p] = NoLoc]
        /\ UNCHANGED <<table, lock, ticks, cpus, ctx>>
  BY Zenon DEF sleep_test
<1>2. p # initproc BY <1>1, Zenon DEF FamilyInv, Forking
<1>3. CASE Elapsed(p) < loc[p].n /\ ~killed[p]
  <2>1. loc' = [loc EXCEPT ![p] = loc[p]] BY <1>1, <1>3, Zenon DEF TypeOK
  <2>2. p \notin Late BY <1>3, Zenon DEF Late
  <2>3. Moves(c, p, "sleep_go", loc[p])
    BY <1>1, <1>2, <1>3, <2>1, <2>2, RunFacts, Zenon DEF Moves, PC, Forking, Timing, Goto
  <2> QED BY <2>3, LocalStep, Zenon
<1>4. CASE ~(Elapsed(p) < loc[p].n /\ ~killed[p])
  <2>1. Moves(c, p, "sysret", NoLoc)
    BY <1>1, <1>2, <1>4, Zenon DEF Moves, PC, Forking, Timing, Goto, NoLoc
  <2> QED BY <2>1, LocalStep, Zenon
<1> QED BY <1>3, <1>4, Zenon

(* getppid() reads the pointer, while its parent is alive ...              *)
LEMMA SysGetppidInv ==
  ASSUME IInv, NEW c \in Cpu, sys_getppid(c)
  PROVE  IInv'
<1> USE ProcAssumption, Numbers DEF IInv
<1>1. PICK p \in Slot :
        /\ Runs(c, p) /\ pc[p] = "getppid"
        /\ loc' = [loc EXCEPT ![p] = [ptr |-> parent[p], val |-> pid[parent[p]], n |-> 0]]
        /\ Goto(p, "getppid_pid") /\ UNCHANGED <<table, lock, clock, cpus, ctx>>
  BY Zenon DEF sys_getppid
<1>2. p # initproc BY <1>1, Zenon DEF FamilyInv, Forking
<1>3. parent[p] \in Slot BY <1>1, <1>2, RunFacts, Zenon
<1>4. pid[parent[p]] \in Nat BY <1>3, Zenon DEF TypeOK
<1>5. Moves(c, p, "getppid_pid", [ptr |-> parent[p], val |-> pid[parent[p]], n |-> 0])
  BY <1>1, <1>2, <1>3, <1>4, Zenon DEF Moves, PC, Forking, Timing, Goto, clock
<1> QED BY <1>5, LocalStep, Zenon

(* ... and the pid.                                                        *)
LEMMA GetppidPidInv ==
  ASSUME IInv, NEW c \in Cpu, getppid_pid(c)
  PROVE  IInv'
<1> USE ProcAssumption, Numbers DEF IInv
<1>1. PICK p \in Slot :
        /\ Runs(c, p) /\ pc[p] = "getppid_pid" /\ loc' = [loc EXCEPT ![p] = NoLoc]
        /\ Goto(p, "sysret") /\ UNCHANGED <<table, lock, clock, cpus, ctx>>
  BY Zenon DEF getppid_pid
<1>2. Moves(c, p, "sysret", NoLoc)
  BY <1>1, Zenon DEF Moves, PC, Forking, Timing, Goto, clock, NoLoc
<1> QED BY <1>2, LocalStep, Zenon
-----------------------------------------------------------------------------
(* A step of the scheduler that changes no process                         *)
LEMMA SameProcs ==
  ASSUME IInv, CpuInv', TypeOK',
         UNCHANGED <<table, ticks, pc, ctx, loc, tickslock, irq>>,
         \A c \in Cpu : cproc'[c] = cproc[c] \/ (cproc'[c] = NoProc /\ irq[c] = "none" /\ tickslock # c),
         \A c \in Cpu : irq[c] # "none" => lock' # c
  PROVE  IInv'
<1> USE ProcAssumption, Numbers DEF IInv, table
<1>1. PlaceInv' BY Zenon DEF PlaceInv
<1>2. Late' = Late BY Zenon DEF Late, Elapsed
<1>3. TickInv'
  <2>1. \A c \in Cpu : irq'[c] # "none" => c = 0 /\ lock' # c BY Zenon DEF TickInv
  <2>2. irq'[0] = "post" => tickslock' # 0 /\ cproc'[0] # NoProc BY Zenon DEF TickInv
  <2>3. \A c \in Cpu : tickslock' = c => cproc'[c] = cproc[c] BY Zenon
  <2>4. \A c \in Cpu : tickslock' = c =>
          \/ irq'[c] = "tick" /\ (cproc'[c] # NoProc => pc'[cproc'[c]] \notin Timing)
          \/ /\ irq'[c] = "none" /\ cproc'[c] # NoProc
             /\ state'[cproc'[c]] = "RUNNING" /\ ctx'[cproc'[c]] = "run" /\ pc'[cproc'[c]] \in Timing
    BY <2>3 DEF TickInv
  <2>5. \A p \in Slot : pc'[p] \in Timing => tickslock' \in Cpu /\ cproc'[tickslock'] = p
    BY <2>3, Zenon DEF TickInv
  <2> QED BY <2>1, <2>2, <2>4, <2>5, <1>2 DEF TickInv
<1>4. ForkInv' BY Zenon DEF ForkInv
<1>5. FamilyInv' BY Zenon DEF FamilyInv, Alive
<1>6. PidInv' BY Zenon DEF PidInv
<1>7. WaitInv' BY DEF WaitInv
<1>8. GetInv' BY Zenon DEF GetInv
<1> QED BY <1>1, <1>3, <1>4, <1>5, <1>6, <1>7, <1>8, Zenon

(* The scheduler takes ptable.lock.                                        *)
LEMMA SchedAcquireInv ==
  ASSUME IInv, NEW c \in Cpu, sched_acquire(c)
  PROVE  IInv'
<1> USE ProcAssumption, Numbers DEF IInv
<1>1. /\ cproc[c] = NoProc /\ scan[c] = 0 /\ irq[c] = "none" /\ lock = NoCpu /\ lock' = c
      /\ scan' = [scan EXCEPT ![c] = 1]
      /\ UNCHANGED <<table, clock, cproc, irq, pc, ctx, loc>>
  BY Zenon DEF sched_acquire
<1>2. scan' \in [Cpu -> 0..NPROC+1] /\ \A d \in Cpu : scan'[d] = IF d = c THEN 1 ELSE scan[d]
  BY <1>1 DEF TypeOK
<1>3. TypeOK' BY <1>1, <1>2, Zenon DEF TypeOK, table, clock
<1>4. CpuInv' BY <1>1, <1>2 DEF CpuInv, table, clock
<1> QED BY <1>1, <1>3, <1>4, SameProcs, Zenon DEF clock

(* The end of the table                                                    *)
LEMMA SchedReleaseInv ==
  ASSUME IInv, NEW c \in Cpu, sched_release(c)
  PROVE  IInv'
<1> USE ProcAssumption, Numbers DEF IInv
<1>1. /\ cproc[c] = NoProc /\ lock = c /\ lock' = NoCpu
      /\ scan' = [scan EXCEPT ![c] = 0]
      /\ UNCHANGED <<table, clock, cproc, irq, pc, ctx, loc>>
  BY Zenon DEF sched_release
<1>2. scan' \in [Cpu -> 0..NPROC+1] /\ \A d \in Cpu : scan'[d] = IF d = c THEN 0 ELSE scan[d]
  BY <1>1 DEF TypeOK
<1>3. TypeOK' BY <1>1, <1>2, Zenon DEF TypeOK, table, clock
<1>4. CpuInv' BY <1>1, <1>2 DEF CpuInv, table, clock
<1> QED BY <1>1, <1>3, <1>4, SameProcs, Zenon DEF clock

(* Back in scheduler(), with the lock that sched() was called with         *)
LEMMA SwtchOutInv ==
  ASSUME IInv, NEW c \in Cpu, swtch_out(c)
  PROVE  IInv'
<1> USE ProcAssumption, Numbers DEF IInv
<1>1. /\ cproc[c] # NoProc /\ lock = c /\ state[cproc[c]] # "RUNNING"
      /\ cproc' = [cproc EXCEPT ![c] = NoProc]
      /\ UNCHANGED <<table, lock, clock, scan, irq, pc, ctx, loc>>
  BY Zenon DEF swtch_out
<1>2. /\ cproc' \in [Cpu -> Slot \cup {NoProc}]
      /\ \A d \in Cpu : cproc'[d] = IF d = c THEN NoProc ELSE cproc[d]
  BY <1>1, Zenon DEF TypeOK
<1>3. irq[c] = "none" /\ tickslock # c /\ scan[c] # 0 BY <1>1, Zenon DEF CpuInv
<1>4. TypeOK' BY <1>1, <1>2, Zenon DEF TypeOK, table, clock
<1>5. CpuInv' BY <1>1, <1>2, <1>3 DEF CpuInv, table, clock
<1>6. \A d \in Cpu : irq[d] # "none" => lock' # d BY <1>1, Zenon DEF TickInv
<1> QED BY <1>1, <1>2, <1>3, <1>4, <1>5, <1>6, SameProcs, Zenon DEF clock

(* A process that waits to run is on no CPU, so two never run it.          *)
LEMMA SchedSwitchInv ==
  ASSUME IInv, NEW c \in Cpu, sched_switch(c)
  PROVE  IInv'
<1> USE ProcAssumption, Numbers DEF IInv
<1> DEFINE p == First(Runnable(c))
<1>1. /\ cproc[c] = NoProc /\ lock = c /\ Runnable(c) # {}
      /\ state' = [state EXCEPT ![p] = "RUNNING"] /\ cproc' = [cproc EXCEPT ![c] = p]
      /\ scan' = [scan EXCEPT ![c] = p + 1]
      /\ UNCHANGED <<pid, parent, killed, chan, kstack, nextpid, asked, lock, tickslock, ticks,
                     irq, pc, ctx, loc>>
  BY Zenon DEF sched_switch, NextSlot, clock
<1>2. p \in Slot /\ state[p] = "RUNNABLE"
  <2>1. Runnable(c) \in SUBSET Slot BY Zenon DEF Runnable
  <2>2. First(Runnable(c)) \in Runnable(c) BY <1>1, <2>1, FirstIn, Zenon
  <2> QED BY <2>2, Zenon DEF Runnable
<1> HIDE DEF p
<1>3. /\ \A q \in Slot : state'[q] = IF q = p THEN "RUNNING" ELSE state[q]
      /\ \A d \in Cpu : cproc'[d] = IF d = c THEN p ELSE cproc[d]
      /\ \A d \in Cpu : scan'[d] = IF d = c THEN p + 1 ELSE scan[d]
  BY <1>1, <1>2, Zenon DEF TypeOK
<1>4. TypeOK'
  <2>1. state' \in [Slot -> State] BY <1>1, <1>2, Zenon DEF TypeOK, State
  <2>2. cproc' \in [Cpu -> Slot \cup {NoProc}] BY <1>1, <1>2, Zenon DEF TypeOK
  <2>3. scan' \in [Cpu -> 0..NPROC+1] BY <1>1, <1>2, Zenon DEF TypeOK
  <2> QED BY <2>1, <2>2, <2>3, <1>1, Zenon DEF TypeOK
<1>5. \A d \in Cpu : cproc[d] # p BY <1>1, <1>2 DEF CpuInv
<1>6. irq[c] = "none" /\ tickslock # c BY <1>1, Zenon DEF TickInv
<1>7. ctx[p] # "run" /\ p + 1 # 0 BY <1>2, Zenon DEF PlaceInv
<1>8. PlaceInv' BY <1>1, <1>2, <1>3 DEF PlaceInv
<1>9. CpuInv'
  <2>1. \A d \in Cpu : d # c /\ cproc[d] # NoProc => state'[cproc[d]] = state[cproc[d]]
    BY <1>3, <1>5 DEF TypeOK
  <2> QED BY <2>1, <1>1, <1>2, <1>3, <1>5, <1>6, <1>7 DEF CpuInv
<1>10. Late' = Late BY <1>1, Zenon DEF Late, Elapsed
<1>11. TickInv'
  <2>1. \A d \in Cpu : tickslock = d => cproc'[d] = cproc[d] BY <1>3, <1>6, Zenon
  <2>2. \A d \in Cpu : tickslock' = d =>
          \/ irq'[d] = "tick" /\ (cproc'[d] # NoProc => pc'[cproc'[d]] \notin Timing)
          \/ /\ irq'[d] = "none" /\ cproc'[d] # NoProc
             /\ state'[cproc'[d]] = "RUNNING" /\ ctx'[cproc'[d]] = "run" /\ pc'[cproc'[d]] \in Timing
    BY <2>1, <1>1, <1>3 DEF TickInv, TypeOK
  <2>3. \A q \in Slot : pc'[q] \in Timing => tickslock' \in Cpu /\ cproc'[tickslock'] = q
    BY <2>1, <1>1, Zenon DEF TickInv
  <2>4. \A q \in Late' : state'[q] = "SLEEPING" /\ chan'[q] = TicksChan => irq'[0] = "tick"
    BY <1>1, <1>3, <1>10 DEF TickInv, Late
  <2>5. irq'[0] = "post" => tickslock' # 0 /\ cproc'[0] # NoProc BY <1>1, <1>2, <1>3 DEF TickInv
  <2> QED BY <2>2, <2>3, <2>4, <2>5, <1>1, <1>10 DEF TickInv
<1>12. ForkInv' BY <1>1, <1>2, <1>3 DEF ForkInv
<1>13. FamilyInv'
  <2>1. \A q \in Slot : Alive(q)' <=> Alive(q) BY <1>2, <1>3, Zenon DEF Alive
  <2>2. \A q \in Slot :
          (state'[q] \in {"ZOMBIE", "UNUSED", "EMBRYO"} \/ state[q] \in {"ZOMBIE", "UNUSED", "EMBRYO"}) =>
             state'[q] = state[q]
    BY <1>2, <1>3, Zenon
  <2> QED BY <2>1, <2>2, <1>1 DEF FamilyInv, Alive, TypeOK
<1>14. PidInv' BY <1>1, <1>2, <1>3 DEF PidInv
<1>15. WaitInv' BY <1>1, <1>2, <1>3 DEF WaitInv
<1>16. GetInv' BY <1>1, Zenon DEF GetInv
<1> QED BY <1>4, <1>8, <1>9, <1>11, <1>12, <1>13, <1>14, <1>15, <1>16, Zenon

(* A process comes out of sched() with the lock of the CPU it came back    *)
(* on, and keeps it only in wait().                                        *)
LEMMA SwtchInInv ==
  ASSUME IInv, NEW c \in Cpu, swtch_in(c)
  PROVE  IInv'
<1> USE ProcAssumption, Numbers DEF IInv
<1> DEFINE p == cproc[c]
<1>1. /\ p # NoProc /\ lock = c /\ state[p] = "RUNNING" /\ ctx[p] # "run" /\ p \in Slot
      /\ ctx' = [ctx EXCEPT ![p] = "run"]
      /\ chan' = IF ctx[p] = "sleep" THEN [chan EXCEPT ![p] = NoChan] ELSE chan
      /\ lock' = IF ctx[p] = "sleep" /\ pc[p] = "wait" THEN c ELSE NoCpu
      /\ pc' = IF ctx[p] = "yield" /\ killed[p] /\ pc[p] = "user"
               THEN [pc EXCEPT ![p] = "exit"] ELSE pc
      /\ UNCHANGED <<state, pid, parent, killed, kstack, nextpid, asked, tickslock, ticks, cproc, scan, irq, loc>>
  BY Zenon DEF swtch_in, KeepsLock, clock, cpus, TypeOK
<1>2. irq[c] = "none" /\ tickslock # c /\ \A d \in Cpu : cproc[d] = p => d = c BY <1>1, Zenon DEF CpuInv
<1> HIDE DEF p
<1>3. /\ \A q \in Slot : ctx'[q] = IF q = p THEN "run" ELSE ctx[q]
      /\ \A q \in Slot : q # p => chan'[q] = chan[q] /\ pc'[q] = pc[q]
      /\ pc'[p] = pc[p] \/ (pc[p] = "user" /\ pc'[p] = "exit" /\ killed[p] /\ lock' = NoCpu)
  BY <1>1 DEF TypeOK
<1>4. TypeOK'
  <2>1. ctx' \in [Slot -> Ctx] BY <1>1, Zenon DEF TypeOK, Ctx
  <2>2. chan' \in [Slot -> 0..NPROC+1] BY <1>1 DEF TypeOK, NoChan
  <2>3. pc' \in [Slot -> PC] BY <1>1, Zenon DEF TypeOK, PC
  <2>4. lock' \in Cpu \cup {NoCpu} BY <1>1, Zenon
  <2> QED BY <2>1, <2>2, <2>3, <2>4, <1>1, Zenon DEF TypeOK
<1>5. PlaceInv' BY <1>1, <1>3 DEF PlaceInv
<1>6. CpuInv'
  <2>1. \A d \in Cpu : d # c /\ cproc[d] # NoProc =>
          ctx'[cproc[d]] = ctx[cproc[d]] /\ pc'[cproc[d]] = pc[cproc[d]]
    BY <1>2, <1>3 DEF TypeOK
  <2>2. \A d \in Cpu : d # c => lock # d /\ lock' # d BY <1>1, Zenon
  <2>3. lock' = c => pc'[p] = "wait" BY <1>1, <1>3, Zenon
  <2>4. cproc[c] = p BY Zenon DEF p
  <2> QED BY <2>1, <2>2, <2>3, <2>4, <1>1, <1>2, <1>3 DEF CpuInv
<1>7. Late' = Late BY <1>1, Zenon DEF Late, Elapsed
<1>8. pc[p] \notin Timing /\ pc'[p] \notin Timing BY <1>1, <1>2, <1>3 DEF TickInv, p, Timing
<1>9. TickInv'
  <2>1. \A d \in Cpu : d # c => lock # d /\ lock' # d BY <1>1, Zenon
  <2>2. \A d \in Cpu : tickslock = d => d # c /\ (cproc[d] # NoProc =>
          ctx'[cproc[d]] = ctx[cproc[d]] /\ pc'[cproc[d]] = pc[cproc[d]])
    BY <1>2, <1>3 DEF TypeOK
  <2>3. \A d \in Cpu : tickslock' = d =>
          \/ irq'[d] = "tick" /\ (cproc'[d] # NoProc => pc'[cproc'[d]] \notin Timing)
          \/ /\ irq'[d] = "none" /\ cproc'[d] # NoProc
             /\ state'[cproc'[d]] = "RUNNING" /\ ctx'[cproc'[d]] = "run" /\ pc'[cproc'[d]] \in Timing
    BY <2>2, <1>1 DEF TickInv
  <2>4. \A q \in Slot : pc'[q] \in Timing => tickslock' \in Cpu /\ cproc'[tickslock'] = q
    BY <1>1, <1>3, <1>8, Zenon DEF TickInv
  <2>5. \A q \in Slot : pc'[q] = "sleep_go" => q \notin Late'
    BY <1>3, <1>7, <1>8 DEF TickInv, Timing
  <2>6. \A q \in Late' : state'[q] = "SLEEPING" /\ chan'[q] = TicksChan => irq'[0] = "tick"
    BY <1>1, <1>3, <1>7 DEF TickInv, Late
  <2>7. \A d \in Cpu : irq'[d] # "none" => d = 0 /\ lock' # d BY <2>1, <1>1, <1>2, Zenon DEF TickInv
  <2> QED BY <2>3, <2>4, <2>5, <2>6, <2>7, <1>1, Zenon DEF TickInv
<1>10. \A q \in Slot : pc'[q] \in Forking \/ pc[q] \in Forking => pc'[q] = pc[q]
  BY <1>3, Zenon DEF Forking
<1>11. ForkInv'
  <2>1. \A q \in Slot : state[q] = "EMBRYO" => ctx'[q] = ctx[q] BY <1>1, <1>3, Zenon
  <2> QED BY <2>1, <1>1, <1>10 DEF ForkInv
<1>12. FamilyInv'
  <2>1. \A q \in Slot : pc[q] = "fork_publish" => pc'[q] = "fork_publish" BY <1>10, Zenon DEF Forking
  <2>2. pc'[initproc] \in {"user", "sysret", "fork", "wait", "exit", "panic"} \cup Forking
    BY <1>3, Zenon DEF FamilyInv
  <2> QED BY <2>1, <2>2, <1>1 DEF FamilyInv, Alive, TypeOK
<1>13. PidInv' BY <1>1, Zenon DEF PidInv
<1>14. WaitInv' BY <1>1, <1>3 DEF WaitInv
<1>15. GetInv' BY <1>1, <1>3 DEF GetInv
<1> QED BY <1>4, <1>5, <1>6, <1>9, <1>11, <1>12, <1>13, <1>14, <1>15, Zenon
-----------------------------------------------------------------------------
(* A step away from tickslock, whose sleepers on &ticks slept before       *)
LEMMA TickFrame ==
  ASSUME IInv, UNCHANGED <<tickslock, ticks, cproc, irq>>,
         \A d \in Cpu : irq[d] # "none" => lock' # d,
         \A q \in Slot : pc'[q] \in Timing \/ pc[q] \in Timing =>
           pc'[q] = pc[q] /\ state'[q] = state[q] /\ ctx'[q] = ctx[q] /\ loc'[q] = loc[q],
         \A q \in Slot : state'[q] = "SLEEPING" /\ chan'[q] = TicksChan =>
           state[q] = "SLEEPING" /\ chan[q] = TicksChan /\ loc'[q] = loc[q]
  PROVE  TickInv'
<1> USE ProcAssumption, Numbers DEF IInv
<1>1. \A q \in Slot : loc'[q] = loc[q] => (q \in Late' <=> q \in Late) BY Zenon DEF Late, Elapsed
<1>2. \A d \in Cpu : cproc[d] # NoProc => cproc[d] \in Slot BY DEF TypeOK
<1>3. \A d \in Cpu : tickslock' = d =>
        \/ irq'[d] = "tick" /\ (cproc'[d] # NoProc => pc'[cproc'[d]] \notin Timing)
        \/ /\ irq'[d] = "none" /\ cproc'[d] # NoProc
           /\ state'[cproc'[d]] = "RUNNING" /\ ctx'[cproc'[d]] = "run" /\ pc'[cproc'[d]] \in Timing
  BY <1>2 DEF TickInv
<1>4. \A q \in Slot : pc'[q] \in Timing => tickslock' \in Cpu /\ cproc'[tickslock'] = q BY DEF TickInv
<1>5. \A q \in Slot : pc'[q] = "sleep_go" => q \notin Late' BY <1>1 DEF TickInv, Timing
<1>6. \A q \in Late' : state'[q] = "SLEEPING" /\ chan'[q] = TicksChan => irq'[0] = "tick"
  <2>1. \A q \in Late' : q \in Slot BY Zenon DEF Late
  <2> QED BY <2>1, <1>1, Zenon DEF TickInv
<1> QED BY <1>3, <1>4, <1>5, <1>6 DEF TickInv

(* A step that keeps ptable.lock where it is, and the processes on CPUs    *)
(* running                                                                 *)
LEMMA CpuFrame ==
  ASSUME IInv, UNCHANGED <<lock, tickslock, cproc, scan, irq>>,
         \A d \in Cpu : cproc[d] # NoProc => /\ state'[cproc[d]] = state[cproc[d]]
                                             /\ ctx'[cproc[d]] = ctx[cproc[d]]
                                             /\ lock = d => pc'[cproc[d]] = pc[cproc[d]],
         \A q \in Slot : state'[q] = "RUNNING" => state[q] = "RUNNING"
  PROVE  CpuInv'
BY DEF IInv, CpuInv

(* allocproc takes a slot that is nobody's child and nobody's parent.      *)
LEMMA ForkStepInv ==
  ASSUME IInv, NEW c \in Cpu, fork(c)
  PROVE  IInv'
<1> USE ProcAssumption, Numbers DEF IInv
<1> DEFINE unused == {q \in Slot : state[q] = "UNUSED"}
           np == First(unused)
<1>1. PICK p \in Slot :
        /\ Runs(c, p) /\ pc[p] = "fork" /\ lock = NoCpu /\ lock' = NoCpu
        /\ IF unused = {}
           THEN ForkFailed(p) /\ UNCHANGED <<state, pid, nextpid, loc>>
           ELSE /\ state' = [state EXCEPT ![np] = "EMBRYO"]
                /\ pid' = [pid EXCEPT ![np] = nextpid]
                /\ nextpid' = nextpid + 1
                /\ loc' = [loc EXCEPT ![p] = [NoLoc EXCEPT !.ptr = np]]
                /\ Goto(p, "fork_stack")
        /\ UNCHANGED <<parent, killed, chan, kstack, asked, clock, cpus, ctx>>
  BY Zenon DEF fork, WithLock
<1>2. CASE unused = {}
  <2>1. loc' = [loc EXCEPT ![p] = loc[p]] BY <1>1, <1>2, Zenon DEF TypeOK
  <2>2. PICK l : pc' = [pc EXCEPT ![p] = l] /\ l \in {"sysret", "exit"}
    BY <1>1, <1>2, Zenon DEF ForkFailed, Goto
  <2>3. Moves(c, p, l, loc[p])
    BY <1>1, <1>2, <2>1, <2>2, RunFacts, Zenon DEF Moves, PC, Forking, Timing, clock, table
  <2> QED BY <2>3, LocalStep, Zenon
<1>3. CASE unused # {}
  <2>1. np \in Slot /\ state[np] = "UNUSED" BY <1>3, FirstIn, Zenon
  <2> HIDE DEF np, unused
  <2>2. /\ state[p] = "RUNNING" /\ ctx[p] = "run" /\ cproc[c] = p /\ Alive(p)
        /\ \A d \in Cpu : cproc[d] = p => d = c
    BY <1>1, RunFacts
  <2>3. /\ \A q \in Slot : state'[q] = IF q = np THEN "EMBRYO" ELSE state[q]
        /\ \A q \in Slot : pid'[q] = IF q = np THEN nextpid ELSE pid[q]
        /\ \A q \in Slot : pc'[q] = IF q = p THEN "fork_stack" ELSE pc[q]
        /\ \A q \in Slot : loc'[q] = IF q = p THEN [NoLoc EXCEPT !.ptr = np] ELSE loc[q]
        /\ loc'[p].ptr = np
    BY <1>1, <1>3, <2>1, SMTT(60) DEF TypeOK, Goto, NoLoc
  <2>4. /\ UNCHANGED <<parent, killed, chan, kstack, asked, tickslock, ticks, cproc, scan, irq, ctx, lock>>
        /\ nextpid' = nextpid + 1
    BY <1>1, <1>3, Zenon DEF clock, cpus
  <2>5. TypeOK'
    <3>0. state' \in [Slot -> State] BY <1>1, <1>3, <2>1 DEF TypeOK, State
    <3>1. pid' \in [Slot -> Nat] /\ nextpid' \in Nat BY <1>1, <1>3, <2>1 DEF TypeOK
    <3>2. pc' \in [Slot -> PC] BY <1>1, <1>3 DEF TypeOK, PC, Goto
    <3>3. loc' \in [Slot -> [ptr : Nat, val : Nat, n : Nat]]
      <4>1. [NoLoc EXCEPT !.ptr = np] \in [ptr : Nat, val : Nat, n : Nat] BY <1>3, <2>1 DEF NoLoc
      <4>2. loc \in [Slot -> [ptr : Nat, val : Nat, n : Nat]] BY Zenon DEF TypeOK
      <4> QED BY <1>1, <1>3, <4>1, <4>2, Zenon
    <3> QED BY <3>0, <3>1, <3>2, <3>3, <2>4, Zenon DEF TypeOK
  <2>6. PlaceInv' BY <2>1, <2>2, <2>3, <2>4 DEF PlaceInv
  <2>7. \A d \in Cpu : cproc[d] # np BY <2>1 DEF CpuInv
  <2>8. CpuInv'
    <3>1. \A d \in Cpu : cproc[d] # NoProc => state'[cproc[d]] = state[cproc[d]] /\ lock # d
      BY <1>1, <2>3, <2>7 DEF TypeOK
    <3>2. \A q \in Slot : state'[q] = "RUNNING" => state[q] = "RUNNING" BY <2>3, Zenon
    <3> QED BY <3>1, <3>2, <2>4, CpuFrame, Zenon
  <2>9. TickInv'
    <3>1. \A q \in Slot : pc'[q] \in Timing \/ pc[q] \in Timing =>
            pc'[q] = pc[q] /\ state'[q] = state[q] /\ ctx'[q] = ctx[q] /\ loc'[q] = loc[q]
      BY <1>1, <2>1, <2>3, <2>4 DEF PlaceInv, Timing
    <3>2. \A q \in Slot : state'[q] = "SLEEPING" /\ chan'[q] = TicksChan =>
            state[q] = "SLEEPING" /\ chan[q] = TicksChan /\ loc'[q] = loc[q]
      BY <2>2, <2>3, <2>4
    <3>3. \A d \in Cpu : lock' # d BY <1>1, Zenon
    <3> QED BY <3>1, <3>2, <3>3, <2>4, TickFrame, Zenon
  <2>10. np # p /\ pc[np] = "user" /\ parent[np] = NoProc BY <2>1, <2>2, Zenon DEF PlaceInv, FamilyInv
  <2>11. ForkInv'
    <3>1. pc[p] \notin Forking BY <1>1, Zenon DEF Forking
    <3>2. \A q \in Slot : pc[q] \in Forking => q # p /\ loc[q].ptr # np BY <3>1, <2>1, Zenon DEF ForkInv
    <3>3. \A q \in Slot : pc'[q] \in Forking => q = p \/ (pc[q] \in Forking /\ pc'[q] = pc[q] /\ loc'[q] = loc[q])
      BY <2>3, Zenon
    <3>4. ASSUME NEW q \in Slot, pc'[q] \in Forking
          PROVE  /\ loc'[q].ptr \in Slot /\ state'[loc'[q].ptr] = "EMBRYO"
                 /\ pc'[q] # "fork_stack" => kstack[loc'[q].ptr] /\ ctx[loc'[q].ptr] = "forkret"
                 /\ parent[loc'[q].ptr] = IF pc'[q] = "fork_publish" THEN q ELSE NoProc
      BY <3>2, <3>3, <3>4, <2>1, <2>3, <2>10 DEF ForkInv
    <3>5. \A q, r \in Slot : pc'[q] \in Forking /\ pc'[r] \in Forking /\ loc'[q].ptr = loc'[r].ptr => q = r
      BY <3>2, <3>3, <2>3 DEF ForkInv
    <3> QED BY <3>4, <3>5, <2>4, Zenon DEF ForkInv
  <2>12. FamilyInv'
    <3>1. \A q \in Slot : parent[q] # np
      BY <2>1 DEF FamilyInv, Alive
    <3>2. \A q \in Slot : q # np => state'[q] = state[q] BY <2>3, Zenon
    <3>3. np # initproc BY <2>1, Zenon DEF FamilyInv, Alive
    <3>4. pc'[initproc] \in {"user", "sysret", "fork", "wait", "exit", "panic"} \cup Forking
      BY <2>3, Zenon DEF FamilyInv, Forking
    <3>5. \A q \in Slot : state'[q] = "EMBRYO" /\ parent[q] # NoProc =>
            pc'[parent[q]] = "fork_publish" /\ loc'[parent[q]].ptr = q
      BY <1>1, <2>3, <2>10 DEF FamilyInv, TypeOK
    <3> QED BY <3>1, <3>2, <3>3, <3>4, <3>5, <2>3, <2>4, <2>10 DEF FamilyInv, Alive, TypeOK
  <2>13. PidInv'
    <3>1. np # initproc BY <2>1, Zenon DEF FamilyInv, Alive
    <3>2. nextpid \in Nat /\ 1 < nextpid /\ \A q \in Slot : pid[q] \in Nat BY Zenon DEF TypeOK, PidInv
    <3>3. \A q \in Slot : pid'[q] < nextpid' BY <3>2, <2>3, <2>4 DEF PidInv
    <3>4. \A q, r \in Slot : q # r /\ pid'[q] = pid'[r] => pid'[q] = 0 BY <3>2, <2>3 DEF PidInv
    <3>5. \A q \in Slot : state'[q] # "UNUSED" => pid'[q] # 0 BY <3>2, <2>3 DEF PidInv
    <3> QED BY <3>1, <3>3, <3>4, <3>5, <2>3, Zenon DEF PidInv
  <2>14. WaitInv'
    <3>1. \A q \in Slot : parent[q] # np BY <2>1 DEF FamilyInv, Alive
    <3> QED BY <3>1, <2>1, <2>3, <2>4 DEF WaitInv
  <2>15. GetInv'
    <3>1. \A q \in Slot : parent[q] # np BY <2>1 DEF FamilyInv, Alive
    <3> QED BY <3>1, <1>1, <2>3, <2>4 DEF GetInv
  <2> QED BY <2>5, <2>6, <2>8, <2>9, <2>11, <2>12, <2>13, <2>14, <2>15, Zenon
<1> QED BY <1>2, <1>3, Zenon
(* The rest of allocproc: the stack, or the slot is given back.            *)
LEMMA ForkStackInv ==
  ASSUME IInv, NEW c \in Cpu, fork_stack(c)
  PROVE  IInv'
<1> USE ProcAssumption, Numbers DEF IInv
<1>1. PICK p \in Slot :
        /\ Runs(c, p) /\ pc[p] = "fork_stack"
        /\ \/ /\ kstack' = [kstack EXCEPT ![loc[p].ptr] = TRUE]
              /\ Goto(p, "fork_copy")
              /\ ctx' = [ctx EXCEPT ![loc[p].ptr] = "forkret"]
              /\ UNCHANGED <<state, loc>>
           \/ /\ state' = [state EXCEPT ![loc[p].ptr] = "UNUSED"]
              /\ loc' = [loc EXCEPT ![p] = NoLoc]
              /\ \E l \in {"sysret", "exit"} : pc' = [pc EXCEPT ![p] = l]
              /\ UNCHANGED <<kstack, ctx>>
        /\ UNCHANGED <<pid, parent, killed, chan, nextpid, asked, lock, clock, cpus>>
  BY Zenon DEF fork_stack, ForkFailed, Goto
<1> DEFINE np == loc[p].ptr
<1>2. /\ state[p] = "RUNNING" /\ ctx[p] = "run" /\ cproc[c] = p /\ lock # c /\ p # NoProc
      /\ \A d \in Cpu : cproc[d] = p => d = c
  BY <1>1, RunFacts
<1>3. /\ np \in Slot /\ state[np] = "EMBRYO" /\ parent[np] = NoProc /\ np # p
      /\ \A q \in Slot : pc[q] \in Forking /\ loc[q].ptr = np => q = p
  BY <1>1, <1>2, Zenon DEF ForkInv, Forking
<1>4. pc[np] = "user" /\ np # initproc /\ \A q \in Slot : parent[q] # np
  BY <1>3 DEF PlaceInv, FamilyInv, Alive
<1>5. \A d \in Cpu : cproc[d] # np BY <1>3 DEF CpuInv
<1> HIDE DEF np
<1>6. UNCHANGED <<pid, parent, killed, chan, nextpid, asked, lock, tickslock, ticks, cproc, scan, irq>>
  BY <1>1, Zenon DEF clock, cpus
<1>7. \A q \in Slot : /\ q # np => state'[q] = state[q] /\ ctx'[q] = ctx[q] /\ kstack'[q] = kstack[q]
                      /\ q # p => pc'[q] = pc[q] /\ loc'[q] = loc[q]
  BY <1>1, <1>3 DEF TypeOK, Goto, np
<1>8. \/ /\ state'[np] = "EMBRYO" /\ kstack'[np] /\ ctx'[np] = "forkret"
         /\ pc'[p] = "fork_copy" /\ loc'[p] = loc[p]
      \/ state'[np] = "UNUSED" /\ pc'[p] \in {"sysret", "exit"}
  BY <1>1, <1>3 DEF TypeOK, Goto, np
<1>9. TypeOK'
  <2>1. state' \in [Slot -> State] BY <1>1, <1>3, Zenon DEF TypeOK, State
  <2>2. kstack' \in [Slot -> BOOLEAN] BY <1>1, <1>3, Zenon DEF TypeOK
  <2>3. ctx' \in [Slot -> Ctx] BY <1>1, <1>3, Zenon DEF TypeOK, Ctx
  <2>4. pc' \in [Slot -> PC] BY <1>1, Zenon DEF TypeOK, PC, Goto
  <2>5. loc' \in [Slot -> [ptr : Nat, val : Nat, n : Nat]] BY <1>1 DEF TypeOK, NoLoc
  <2> QED BY <2>1, <2>2, <2>3, <2>4, <2>5, <1>6, Zenon DEF TypeOK
<1>10. PlaceInv' BY <1>2, <1>3, <1>4, <1>6, <1>7, <1>8 DEF PlaceInv
<1>11. CpuInv'
  <2>1. \A d \in Cpu : cproc[d] # NoProc => /\ state'[cproc[d]] = state[cproc[d]]
                                            /\ ctx'[cproc[d]] = ctx[cproc[d]]
                                            /\ lock = d => pc'[cproc[d]] = pc[cproc[d]]
    BY <1>2, <1>5, <1>7 DEF TypeOK
  <2>2. \A q \in Slot : state'[q] = "RUNNING" => state[q] = "RUNNING" BY <1>7, <1>8, Zenon
  <2> QED BY <2>1, <2>2, <1>6, CpuFrame, Zenon
<1>12. TickInv'
  <2>1. \A q \in Slot : pc'[q] \in Timing \/ pc[q] \in Timing => q # p /\ q # np
    BY <1>1, <1>4, <1>7, <1>8, <1>3, Zenon DEF Timing
  <2>2. \A q \in Slot : state'[q] = "SLEEPING" => q # p /\ state[q] = "SLEEPING"
    BY <1>2, <1>3, <1>7, <1>8, Zenon
  <2>3. \A d \in Cpu : irq[d] # "none" => lock' # d BY <1>6, Zenon DEF TickInv
  <2> QED BY <2>1, <2>2, <2>3, <1>6, <1>7, TickFrame, Zenon
<1>13. ForkInv'
  <2>1. \A q \in Slot : pc'[q] \in Forking /\ q # p => pc[q] \in Forking /\ loc[q].ptr # np
    BY <1>3, <1>7, Zenon
  <2>2. ASSUME NEW q \in Slot, pc'[q] \in Forking
        PROVE  /\ loc'[q].ptr \in Slot /\ state'[loc'[q].ptr] = "EMBRYO"
               /\ pc'[q] # "fork_stack" => kstack'[loc'[q].ptr] /\ ctx'[loc'[q].ptr] = "forkret"
               /\ parent[loc'[q].ptr] = IF pc'[q] = "fork_publish" THEN q ELSE NoProc
    <3>1. CASE q = p BY <3>1, <2>2, <1>3, <1>8, Zenon DEF np, Forking
    <3>2. CASE q # p BY <3>2, <2>1, <2>2, <1>7 DEF ForkInv
    <3> QED BY <3>1, <3>2, Zenon
  <2>3. \A q, r \in Slot : pc'[q] \in Forking /\ pc'[r] \in Forking /\ loc'[q].ptr = loc'[r].ptr => q = r
    <3>1. pc'[p] \in Forking => loc'[p].ptr = np BY <1>8, Zenon DEF np, Forking
    <3> QED BY <3>1, <2>1, <1>7 DEF ForkInv
  <2> QED BY <2>2, <2>3, <1>6, Zenon DEF ForkInv
<1>14. FamilyInv'
  <2>1. pc'[initproc] \in {"user", "sysret", "fork", "wait", "exit", "panic"} \cup Forking
    BY <1>7, <1>8, Zenon DEF FamilyInv, Forking
  <2>2. \A q \in Slot : state'[q] = "EMBRYO" /\ parent[q] # NoProc =>
          pc'[parent[q]] = "fork_publish" /\ loc'[parent[q]].ptr = q
    <3> SUFFICES ASSUME NEW q \in Slot, state'[q] = "EMBRYO", parent[q] # NoProc
                 PROVE  pc'[parent[q]] = "fork_publish" /\ loc'[parent[q]].ptr = q
      BY Zenon
    <3>1. q # np BY <1>3, Zenon
    <3>2. state[q] = "EMBRYO" BY <3>1, <1>7, Zenon
    <3>3. pc[parent[q]] = "fork_publish" /\ loc[parent[q]].ptr = q BY <3>2, Zenon DEF FamilyInv
    <3>4. parent[q] \in Slot /\ parent[q] # p BY <3>3, <1>1 DEF TypeOK
    <3> QED BY <3>3, <3>4, <1>7, Zenon
  <2> QED BY <2>1, <2>2, <1>3, <1>4, <1>6, <1>7, <1>8 DEF FamilyInv, Alive, TypeOK
<1>15. PidInv' BY <1>3, <1>6, <1>7 DEF PidInv
<1>16. WaitInv' BY <1>3, <1>6, <1>7, <1>8 DEF WaitInv
<1>17. GetInv' BY <1>6, <1>7, <1>8 DEF GetInv
<1> QED BY <1>9, <1>10, <1>11, <1>12, <1>13, <1>14, <1>15, <1>16, <1>17, Zenon

(* copyuvm and the rest of fork: the child gets its parent, or the slot    *)
(* and the stack are given back.                                           *)
LEMMA ForkCopyInv ==
  ASSUME IInv, NEW c \in Cpu, fork_copy(c)
  PROVE  IInv'
<1> USE ProcAssumption, Numbers DEF IInv
<1>1. PICK p \in Slot :
        /\ Runs(c, p) /\ pc[p] = "fork_copy"
        /\ \/ /\ parent' = [parent EXCEPT ![loc[p].ptr] = p]
              /\ pc' = [pc EXCEPT ![p] = "fork_publish", ![loc[p].ptr] = "user"]
              /\ UNCHANGED <<state, kstack, loc>>
           \/ /\ kstack' = [kstack EXCEPT ![loc[p].ptr] = FALSE]
              /\ state' = [state EXCEPT ![loc[p].ptr] = "UNUSED"]
              /\ loc' = [loc EXCEPT ![p] = NoLoc]
              /\ \E l \in {"sysret", "exit"} : pc' = [pc EXCEPT ![p] = l]
              /\ UNCHANGED parent
        /\ UNCHANGED <<pid, killed, chan, nextpid, asked, lock, clock, cpus, ctx>>
  BY Zenon DEF fork_copy, ForkFailed, Goto
<1> DEFINE np == loc[p].ptr
<1>2. /\ state[p] = "RUNNING" /\ ctx[p] = "run" /\ cproc[c] = p /\ lock # c /\ p # NoProc
      /\ \A d \in Cpu : cproc[d] = p => d = c
  BY <1>1, RunFacts
<1>3. /\ np \in Slot /\ state[np] = "EMBRYO" /\ parent[np] = NoProc /\ np # p
      /\ kstack[np] /\ ctx[np] = "forkret"
      /\ \A q \in Slot : pc[q] \in Forking /\ loc[q].ptr = np => q = p
  BY <1>1, <1>2, Zenon DEF ForkInv, Forking
<1>4. pc[np] = "user" /\ np # initproc /\ \A q \in Slot : parent[q] # np
  BY <1>3 DEF PlaceInv, FamilyInv, Alive
<1>5. \A d \in Cpu : cproc[d] # np BY <1>3 DEF CpuInv
<1> HIDE DEF np
<1>6. UNCHANGED <<pid, killed, chan, nextpid, asked, lock, tickslock, ticks, cproc, scan, irq, ctx>>
  BY <1>1, Zenon DEF clock, cpus
<1>7. \A q \in Slot : /\ q # np => state'[q] = state[q] /\ parent'[q] = parent[q] /\ kstack'[q] = kstack[q]
                      /\ q # p => pc'[q] = pc[q] /\ loc'[q] = loc[q]
  BY <1>1, <1>3, <1>4 DEF TypeOK, Goto, np
<1>8. \/ /\ state'[np] = "EMBRYO" /\ kstack'[np] /\ parent'[np] = p
         /\ pc'[p] = "fork_publish" /\ loc'[p] = loc[p]
      \/ state'[np] = "UNUSED" /\ pc'[p] \in {"sysret", "exit"} /\ parent'[np] = NoProc
  BY <1>1, <1>3 DEF TypeOK, Goto, np
<1>9. TypeOK'
  <2>1. state' \in [Slot -> State]
    <3>1. "UNUSED" \in State /\ state \in [Slot -> State] BY Zenon DEF TypeOK, State
    <3> QED BY <1>1, <1>3, <3>1, Zenon
  <2>2. kstack' \in [Slot -> BOOLEAN] BY <1>1, <1>3, Zenon DEF TypeOK
  <2>3. parent' \in [Slot -> Slot \cup {NoProc}] BY <1>1, <1>3 DEF TypeOK
  <2>4. pc' \in [Slot -> PC]
    <3>1. /\ "sysret" \in PC /\ "exit" \in PC /\ "user" \in PC /\ "fork_publish" \in PC
          /\ pc \in [Slot -> PC]
      BY Zenon DEF TypeOK, PC
    <3>2. CASE pc' = [pc EXCEPT ![p] = "fork_publish", ![np] = "user"] BY <1>3, <3>1, <3>2, Zenon
    <3>3. CASE pc' = [pc EXCEPT ![p] = "sysret"] BY <3>1, <3>3, Zenon
    <3>4. CASE pc' = [pc EXCEPT ![p] = "exit"] BY <3>1, <3>4, Zenon
    <3> QED BY <1>1, <3>2, <3>3, <3>4, Zenon DEF np
  <2>5. loc' \in [Slot -> [ptr : Nat, val : Nat, n : Nat]]
    <3>1. NoLoc \in [ptr : Nat, val : Nat, n : Nat] BY DEF NoLoc
    <3>2. loc \in [Slot -> [ptr : Nat, val : Nat, n : Nat]] BY Zenon DEF TypeOK
    <3> QED BY <1>1, <3>1, <3>2, Zenon
  <2> QED BY <2>1, <2>2, <2>3, <2>4, <2>5, <1>6, Zenon DEF TypeOK
<1>10. PlaceInv' BY <1>2, <1>3, <1>4, <1>6, <1>7, <1>8 DEF PlaceInv
<1>11. CpuInv'
  <2>1. \A d \in Cpu : cproc[d] # NoProc => /\ state'[cproc[d]] = state[cproc[d]]
                                            /\ lock = d => pc'[cproc[d]] = pc[cproc[d]]
    BY <1>2, <1>5, <1>7 DEF TypeOK
  <2>2. \A q \in Slot : state'[q] = "RUNNING" => state[q] = "RUNNING" BY <1>7, <1>8, Zenon
  <2> QED BY <2>1, <2>2, <1>6, CpuFrame, Zenon
<1>12. TickInv'
  <2>1. \A q \in Slot : pc'[q] \in Timing \/ pc[q] \in Timing => q # p /\ q # np
    <3>1. pc[p] \notin Timing /\ pc'[p] \notin Timing BY <1>1, <1>8, Zenon DEF Timing
    <3>2. pc[np] \notin Timing /\ pc'[np] \notin Timing BY <1>3, <1>4, <1>7, Zenon DEF Timing
    <3> QED BY <3>1, <3>2, Zenon
  <2>2. \A q \in Slot : state'[q] = "SLEEPING" => q # p /\ state[q] = "SLEEPING"
    <3>1. state'[p] = "RUNNING" BY <1>2, <1>3, <1>7, Zenon
    <3>2. state'[np] # "SLEEPING" BY <1>8, Zenon
    <3> QED BY <1>7, <3>1, <3>2, Zenon
  <2>3. \A d \in Cpu : irq[d] # "none" => lock' # d BY <1>6, Zenon DEF TickInv
  <2> QED BY <2>1, <2>2, <2>3, <1>6, <1>7, TickFrame, Zenon
<1>13. ForkInv'
  <2>1. \A q \in Slot : pc'[q] \in Forking /\ q # p => pc[q] \in Forking /\ loc[q].ptr # np
    BY <1>3, <1>7, Zenon
  <2>2. ASSUME NEW q \in Slot, pc'[q] \in Forking
        PROVE  /\ loc'[q].ptr \in Slot /\ state'[loc'[q].ptr] = "EMBRYO"
               /\ pc'[q] # "fork_stack" => kstack'[loc'[q].ptr] /\ ctx'[loc'[q].ptr] = "forkret"
               /\ parent'[loc'[q].ptr] = IF pc'[q] = "fork_publish" THEN q ELSE NoProc
    <3>1. CASE q = p BY <3>1, <2>2, <1>3, <1>6, <1>8, Zenon DEF np, Forking
    <3>2. CASE q # p BY <3>2, <2>1, <2>2, <1>6, <1>7 DEF ForkInv
    <3> QED BY <3>1, <3>2, Zenon
  <2>3. \A q, r \in Slot : pc'[q] \in Forking /\ pc'[r] \in Forking /\ loc'[q].ptr = loc'[r].ptr => q = r
    <3>1. pc'[p] \in Forking => loc'[p].ptr = np BY <1>8, Zenon DEF np, Forking
    <3> QED BY <3>1, <2>1, <1>7 DEF ForkInv
  <2> QED BY <2>2, <2>3, Zenon DEF ForkInv
<1>14. FamilyInv'
  <2>1. pc'[initproc] \in {"user", "sysret", "fork", "wait", "exit", "panic"} \cup Forking
    BY <1>7, <1>8, Zenon DEF FamilyInv, Forking
  <2>2. \A q \in Slot : state'[q] = "EMBRYO" /\ parent'[q] # NoProc =>
          pc'[parent'[q]] = "fork_publish" /\ loc'[parent'[q]].ptr = q
    <3>1. \A q \in Slot : q # np /\ state[q] = "EMBRYO" /\ parent[q] # NoProc => parent[q] # p
      BY <1>1, Zenon DEF FamilyInv
    <3> QED BY <3>1, <1>3, <1>7, <1>8 DEF FamilyInv, TypeOK, np
  <2>3. \A q \in Slot : parent'[q] # NoProc => parent'[q] \in Slot /\ parent'[q] # np
    BY <1>3, <1>4, <1>7, <1>8, SMTT(60) DEF TypeOK
  <2>4. \A q \in Slot : parent'[q] # NoProc => Alive(parent[q])' /\ parent'[q] # q
    BY <2>3, <1>2, <1>3, <1>7, <1>8 DEF FamilyInv, Alive
  <2>5. \A q \in Slot \ {initproc} : Alive(q)' \/ state'[q] = "ZOMBIE" => parent'[q] \in Slot
    BY <1>7, <1>8 DEF FamilyInv, Alive
  <2>6. \A q \in Slot : state'[q] = "UNUSED" => parent'[q] = NoProc BY <1>7, <1>8 DEF FamilyInv
  <2>7. Alive(initproc)' /\ parent'[initproc] = NoProc
    BY <1>4, <1>6, <1>7, Zenon DEF FamilyInv, Alive
  <2> QED BY <2>1, <2>2, <2>4, <2>5, <2>6, <2>7, Zenon DEF FamilyInv
<1>15. PidInv' BY <1>3, <1>6, <1>7 DEF PidInv
<1>16. WaitInv' BY <1>2, <1>3, <1>6, <1>7, <1>8 DEF WaitInv
<1>17. GetInv' BY <1>3, <1>4, <1>6, <1>7, <1>8 DEF GetInv
<1> QED BY <1>9, <1>10, <1>11, <1>12, <1>13, <1>14, <1>15, <1>16, <1>17, Zenon
-----------------------------------------------------------------------------
(* Process p on CPU c takes ptable.lock, or has it, and leaves RUNNING.    *)
LEMMA CpuTakes ==
  ASSUME IInv, NEW c \in Cpu, NEW p \in Slot, cproc[c] = p, lock \in {NoCpu, c}, lock' = c,
         UNCHANGED <<cproc, scan>>, irq'[c] = "none", tickslock' # c,
         state'[p] \in {"SLEEPING", "RUNNABLE", "ZOMBIE"},
         \A q \in Slot : q # p => /\ state'[q] = "RUNNING" <=> state[q] = "RUNNING"
                                  /\ state[q] = "RUNNING" => ctx'[q] = ctx[q]
  PROVE  CpuInv'
<1> USE ProcAssumption, Numbers DEF IInv
<1>1. \A d \in Cpu : d # c => lock # d /\ lock' # d OBVIOUS
<1>2. \A d \in Cpu : d # c /\ cproc[d] # NoProc =>
        cproc[d] # p /\ state[cproc[d]] = "RUNNING" /\ ctx[cproc[d]] = "run"
  BY <1>1 DEF CpuInv
<1>3. \A d \in Cpu : d # c /\ cproc[d] # NoProc =>
        state'[cproc[d]] = "RUNNING" /\ ctx'[cproc[d]] = "run"
  BY <1>2 DEF TypeOK
<1>4. p # NoProc BY Zenon
<1>5. \A q \in Slot : state'[q] = "RUNNING" => \E d \in Cpu : cproc'[d] = q BY DEF CpuInv
<1>6. \A d \in Cpu : cproc'[d] = NoProc => (lock' = d <=> scan'[d] # 0) BY <1>1, <1>4 DEF CpuInv
<1>7. \A d \in Cpu : cproc'[d] # NoProc => scan'[d] # 0 /\ state'[cproc'[d]] \notin {"UNUSED", "EMBRYO"}
  BY <1>3 DEF CpuInv
<1> QED BY <1>1, <1>3, <1>5, <1>6, <1>7 DEF CpuInv

(* A step that leaves ptable.lock free, and RUNNING who was RUNNING        *)
LEMMA CpuFrees ==
  ASSUME IInv, NEW c \in Cpu, lock \in {NoCpu, c}, lock' = NoCpu, UNCHANGED <<cproc, scan>>,
         lock = c => cproc[c] # NoProc /\ state[cproc[c]] = "RUNNING" /\ ctx[cproc[c]] = "run",
         \A q \in Slot : /\ state'[q] = "RUNNING" <=> state[q] = "RUNNING"
                         /\ state[q] = "RUNNING" => ctx'[q] = ctx[q]
  PROVE  CpuInv'
<1> USE ProcAssumption, Numbers DEF IInv
<1>1. \A d \in Cpu : cproc[d] # NoProc => /\ cproc[d] \in Slot
                                          /\ state[cproc[d]] = "RUNNING" /\ ctx[cproc[d]] = "run"
  BY DEF CpuInv, TypeOK
<1>2. \A d \in Cpu : cproc'[d] # NoProc => state'[cproc'[d]] = "RUNNING" /\ ctx'[cproc'[d]] = "run"
  BY <1>1, Zenon
<1>3. \A d \in Cpu : lock' # d BY Zenon
<1>4. \A d \in Cpu : cproc'[d] = NoProc => scan'[d] = 0 BY DEF CpuInv
<1>5. \A d \in Cpu : cproc'[d] # NoProc => scan'[d] # 0 BY Zenon DEF CpuInv
<1>6. \A q \in Slot : state'[q] = "RUNNING" => \E d \in Cpu : cproc'[d] = q BY DEF CpuInv
<1> QED BY <1>2, <1>3, <1>4, <1>5, <1>6 DEF CpuInv

(* A step that frees no slot, fills none, and changes no parent and no pid *)
LEMMA FamilyFrame ==
  ASSUME IInv, UNCHANGED <<pid, parent, kstack, nextpid, loc>>,
         \A q \in Slot : \/ state'[q] = state[q]
                         \/ /\ state[q] \in {"SLEEPING", "RUNNABLE", "RUNNING"}
                            /\ state'[q] \in {"SLEEPING", "RUNNABLE", "RUNNING"},
         \A q \in Slot : state[q] = "EMBRYO" => ctx'[q] = ctx[q],
         \A q \in Slot : \/ pc'[q] = pc[q]
                         \/ pc[q] \notin Forking /\ pc'[q] \notin Forking \cup {"getppid_pid"},
         pc'[initproc] \in {"user", "sysret", "fork", "wait", "exit", "panic"} \cup Forking
  PROVE  ForkInv' /\ FamilyInv' /\ PidInv' /\ GetInv'
<1> USE Numbers DEF IInv
<1>1. ForkInv' BY DEF ForkInv
<1>2. FamilyInv'
  <2>1. \A q \in Slot : pc[q] = "fork_publish" => pc'[q] = "fork_publish" BY Zenon DEF Forking
  <2>2. \A q \in Slot : Alive(q) <=> Alive(q)' BY Zenon DEF Alive
  <2>3. \A q \in Slot : parent'[q] # NoProc => parent'[q] \in Slot BY Zenon DEF TypeOK
  <2> QED BY <2>1, <2>2, <2>3 DEF FamilyInv
<1>3. PidInv' BY Zenon DEF PidInv
<1>4. GetInv' BY Zenon DEF GetInv
<1> QED BY <1>1, <1>2, <1>3, <1>4, Zenon

(* A process that tests the time is running, on the CPU with tickslock.    *)
LEMMA TimingRuns ==
  ASSUME IInv, NEW q \in Slot, pc[q] \in Timing
  PROVE  state[q] = "RUNNING" /\ ctx[q] = "run" /\ tickslock \in Cpu /\ cproc[tickslock] = q
         /\ irq[tickslock] = "none"
BY Numbers DEF IInv, TickInv

(* fork makes the child RUNNABLE; it starts in forkret, with a parent.     *)
LEMMA ForkPublishInv ==
  ASSUME IInv, NEW c \in Cpu, fork_publish(c)
  PROVE  IInv'
<1> USE ProcAssumption, Numbers DEF IInv
<1>1. PICK p \in Slot :
        /\ Runs(c, p) /\ pc[p] = "fork_publish" /\ lock = NoCpu /\ lock' = NoCpu
        /\ state' = [state EXCEPT ![loc[p].ptr] = "RUNNABLE"]
        /\ loc' = [loc EXCEPT ![p] = NoLoc] /\ Goto(p, "sysret")
        /\ UNCHANGED <<pid, parent, killed, chan, kstack, nextpid, asked, clock, cpus, ctx>>
  BY Zenon DEF fork_publish, WithLock
<1> DEFINE np == loc[p].ptr
<1>2. /\ state[p] = "RUNNING" /\ ctx[p] = "run" /\ cproc[c] = p /\ irq[c] = "none"
  BY <1>1, RunFacts
<1>3. /\ np \in Slot /\ state[np] = "EMBRYO" /\ parent[np] = p /\ np # p
      /\ kstack[np] /\ ctx[np] = "forkret"
      /\ \A q \in Slot : pc[q] \in Forking /\ loc[q].ptr = np => q = p
  <2>1. pc[p] \in Forking /\ pc[p] # "fork_stack" /\ pc[p] = "fork_publish" BY <1>1, Zenon DEF Forking
  <2>2. np \in Slot /\ state[np] = "EMBRYO" /\ parent[np] = p /\ kstack[np] /\ ctx[np] = "forkret"
    BY <2>1, Zenon DEF ForkInv
  <2>3. \A q \in Slot : pc[q] \in Forking /\ loc[q].ptr = np => q = p BY <2>1, Zenon DEF ForkInv
  <2> QED BY <1>2, <2>2, <2>3, Zenon
<1>4. pc[np] = "user" /\ np # initproc /\ \A q \in Slot : parent[q] # np
  <2>1. pc[np] = "user" BY <1>3, Zenon DEF PlaceInv
  <2>2. ~Alive(np) BY <1>3, Zenon DEF Alive
  <2>3. np \in Slot /\ np # NoProc BY <1>3, Zenon
  <2> QED BY <2>1, <2>2, <2>3, Zenon DEF FamilyInv
<1> HIDE DEF np
<1>6. UNCHANGED <<pid, parent, killed, chan, kstack, nextpid, asked, tickslock, ticks, cproc, scan, irq, ctx>>
  BY <1>1, Zenon DEF clock, cpus
<1>7. \A q \in Slot : /\ state'[q] = IF q = np THEN "RUNNABLE" ELSE state[q]
                      /\ pc'[q] = IF q = p THEN "sysret" ELSE pc[q]
                      /\ q # p => loc'[q] = loc[q]
  BY <1>1, <1>3 DEF TypeOK, Goto, np
<1>9. TypeOK'
  <2>1. state' \in [Slot -> State] BY <1>1, <1>3, Zenon DEF TypeOK, State
  <2>4. pc' \in [Slot -> PC] BY <1>1, Zenon DEF TypeOK, PC, Goto
  <2>5. loc' \in [Slot -> [ptr : Nat, val : Nat, n : Nat]] BY <1>1, Zenon DEF TypeOK, NoLoc
  <2> QED BY <2>1, <2>4, <2>5, <1>6, <1>1 DEF TypeOK
<1>10. PlaceInv' BY <1>2, <1>3, <1>4, <1>6, <1>7 DEF PlaceInv
<1>11. CpuInv'
  <2>1. \A q \in Slot : /\ state'[q] = "RUNNING" <=> state[q] = "RUNNING"
                        /\ state[q] = "RUNNING" => ctx'[q] = ctx[q]
    BY <1>3, <1>6, <1>7, Zenon
  <2> QED BY <2>1, <1>1, <1>6, CpuFrees, Zenon
<1>12. TickInv'
  <2>1. \A q \in Slot : pc'[q] \in Timing \/ pc[q] \in Timing => q # p /\ q # np
    <3>1. pc[p] \notin Timing /\ pc'[p] \notin Timing BY <1>1, <1>7, Zenon DEF Timing
    <3>2. pc[np] \notin Timing /\ pc'[np] \notin Timing BY <1>3, <1>4, <1>7, Zenon DEF Timing
    <3> QED BY <3>1, <3>2, Zenon
  <2>2. \A q \in Slot : state'[q] = "SLEEPING" => q # p /\ state[q] = "SLEEPING"
    <3>1. state'[p] = "RUNNING" /\ state'[np] = "RUNNABLE" BY <1>2, <1>3, <1>7, Zenon
    <3> QED BY <1>7, <3>1, Zenon
  <2>3. \A d \in Cpu : irq[d] # "none" => lock' # d BY <1>1, Zenon
  <2> QED BY <2>1, <2>2, <2>3, <1>6, <1>7, TickFrame, Zenon
<1>13. ForkInv'
  <2>1. \A q \in Slot : pc'[q] \in Forking => q # p /\ pc[q] \in Forking /\ loc[q].ptr # np
    BY <1>3, <1>7, Zenon DEF Forking
  <2>2. ASSUME NEW q \in Slot, pc'[q] \in Forking
        PROVE  /\ loc'[q].ptr \in Slot /\ state'[loc'[q].ptr] = "EMBRYO"
               /\ pc'[q] # "fork_stack" => kstack'[loc'[q].ptr] /\ ctx'[loc'[q].ptr] = "forkret"
               /\ parent'[loc'[q].ptr] = IF pc'[q] = "fork_publish" THEN q ELSE NoProc
    <3>1. pc[q] \in Forking /\ loc[q].ptr # np /\ loc'[q] = loc[q] /\ pc'[q] = pc[q] BY <1>7, <2>1, <2>2, Zenon
    <3>2. /\ loc[q].ptr \in Slot /\ state[loc[q].ptr] = "EMBRYO"
          /\ pc[q] # "fork_stack" => kstack[loc[q].ptr] /\ ctx[loc[q].ptr] = "forkret"
          /\ parent[loc[q].ptr] = IF pc[q] = "fork_publish" THEN q ELSE NoProc
      BY <3>1, Zenon DEF ForkInv
    <3>3. state'[loc[q].ptr] = "EMBRYO"
      <4>1. \A r \in Slot : r # np => state'[r] = state[r] BY <1>7, Zenon
      <4> QED BY <3>1, <3>2, <4>1, Zenon
    <3> QED BY <1>6, <3>1, <3>2, <3>3, Zenon
  <2>3. \A q, r \in Slot : pc'[q] \in Forking /\ pc'[r] \in Forking /\ loc'[q].ptr = loc'[r].ptr => q = r
    <3>1. \A q \in Slot : pc'[q] \in Forking => loc'[q] = loc[q] BY <1>7, <2>1, Zenon
    <3> QED BY <2>1, <3>1, Zenon DEF ForkInv
  <2> QED BY <2>2, <2>3, Zenon DEF ForkInv
<1>14. FamilyInv'
  <2>1. pc'[initproc] \in {"user", "sysret", "fork", "wait", "exit", "panic"} \cup Forking
    BY <1>7, Zenon DEF FamilyInv, Forking
  <2>2. \A q \in Slot : state'[q] = "EMBRYO" /\ parent[q] # NoProc => state[q] = "EMBRYO" /\ parent[q] # p
    BY <1>1, <1>3, <1>7 DEF FamilyInv, np
  <2>3. \A q \in Slot : parent[q] # NoProc => parent[q] \in Slot BY Zenon DEF TypeOK
  <2>4. \A q \in Slot : state'[q] = "EMBRYO" /\ parent[q] # NoProc =>
          pc'[parent[q]] = "fork_publish" /\ loc'[parent[q]].ptr = q
    BY <2>2, <2>3, <1>7 DEF FamilyInv
  <2> QED BY <2>1, <2>3, <2>4, <1>3, <1>4, <1>6, <1>7 DEF FamilyInv, Alive
<1>15. PidInv' BY <1>3, <1>6, <1>7 DEF PidInv
<1>16. WaitInv' BY <1>3, <1>6, <1>7 DEF WaitInv
<1>17. GetInv' BY <1>6, <1>7 DEF GetInv
<1> QED BY <1>9, <1>10, <1>11, <1>12, <1>13, <1>14, <1>15, <1>16, <1>17, Zenon
-----------------------------------------------------------------------------
(* exit wakes the parent, and init when it inherits a ZOMBIE, so that      *)
(* neither sleeps through it.                                              *)
LEMMA ExitInv ==
  ASSUME IInv, NEW c \in Cpu, exit(c)
  PROVE  IInv'
<1> USE ProcAssumption, Numbers DEF IInv
<1> DEFINE Orphan(p, q) == parent[q] = p /\ state[q] = "ZOMBIE"
           Wakes(p, q) == /\ state[q] = "SLEEPING"
                          /\ \/ chan[q] = parent[p]
                             \/ chan[q] = initproc /\ \E r \in Slot : Orphan(p, r)
<1>1. PICK p \in Slot :
        /\ Runs(c, p) /\ pc[p] = "exit" /\ p # initproc /\ lock = NoCpu /\ lock' = c
        /\ parent' = [q \in Slot |-> IF parent[q] = p THEN initproc ELSE parent[q]]
        /\ state' = [q \in Slot |-> IF q = p THEN "ZOMBIE"
                                    ELSE IF Wakes(p, q) THEN "RUNNABLE" ELSE state[q]]
        /\ UNCHANGED <<pid, killed, chan, kstack, nextpid, asked, clock, cpus, pc, ctx, loc>>
  <2>1. PICK p \in Slot : exit(c)!(p) BY Zenon DEF exit
  <2> DEFINE woken == wakeup1(state, parent[p])
             woken2 == IF \E q \in {q \in Slot : parent[q] = p} : woken[q] = "ZOMBIE"
                       THEN wakeup1(woken, initproc) ELSE woken
  <2>2. \A q \in Slot : woken[q] = IF state[q] = "SLEEPING" /\ chan[q] = parent[p] THEN "RUNNABLE" ELSE state[q]
    BY Zenon DEF wakeup1
  <2>3. (\E q \in {q \in Slot : parent[q] = p} : woken[q] = "ZOMBIE") <=> \E r \in Slot : Orphan(p, r)
    BY <2>2, Zenon
  <2>4. woken2 \in [Slot -> State] /\ \A q \in Slot : woken2[q] = IF Wakes(p, q) THEN "RUNNABLE" ELSE state[q]
    BY <2>2, <2>3, Zenon DEF wakeup1, State, TypeOK
  <2>5. state' = [woken2 EXCEPT ![p] = "ZOMBIE"] BY <2>1, Zenon
  <2>6. state' = [q \in Slot |-> IF q = p THEN "ZOMBIE"
                                 ELSE IF Wakes(p, q) THEN "RUNNABLE" ELSE state[q]]
    BY <2>4, <2>5, Zenon
  <2>7. parent' = [q \in Slot |-> IF parent[q] = p THEN initproc ELSE parent[q]] BY <2>1, Zenon DEF Adopted
  <2>8. /\ Runs(c, p) /\ pc[p] = "exit" /\ p # initproc /\ lock = NoCpu /\ lock' = c
        /\ UNCHANGED <<pid, killed, chan, kstack, nextpid, asked, clock, cpus, pc, ctx, loc>>
    BY <2>1, Zenon
  <2> HIDE DEF Wakes, woken2, woken
  <2> QED BY <2>6, <2>7, <2>8, Zenon
<1>2. /\ state[p] = "RUNNING" /\ ctx[p] = "run" /\ cproc[c] = p /\ irq[c] = "none"
      /\ p # initproc /\ kstack[p] /\ parent[p] \in Slot /\ parent[p] # p
  BY <1>1, RunFacts DEF FamilyInv
<1>3. tickslock # c BY <1>1, RunFacts, Zenon DEF Timing
<1>4. UNCHANGED <<pid, killed, chan, kstack, nextpid, asked, tickslock, ticks, cproc, scan, irq, pc, ctx, loc>>
  BY <1>1, Zenon DEF clock, cpus
<1>5. \A q \in Slot : parent'[q] = IF parent[q] = p THEN initproc ELSE parent[q] BY <1>1, Zenon
<1>6. \A q \in Slot : state'[q] = IF q = p THEN "ZOMBIE" ELSE IF Wakes(p, q) THEN "RUNNABLE" ELSE state[q]
  BY <1>1, Zenon
<1>7. \A q \in Slot : q # p => state'[q] = state[q] \/ (state[q] = "SLEEPING" /\ state'[q] = "RUNNABLE")
  BY <1>6, Zenon
<1>8. state'[p] = "ZOMBIE" BY <1>6, Zenon
<1>9. TypeOK'
  <2>1. state' \in [Slot -> State] BY <1>1, Zenon DEF TypeOK, State
  <2>2. parent' \in [Slot -> Slot \cup {NoProc}] BY <1>1, Zenon DEF TypeOK
  <2> QED BY <2>1, <2>2, <1>1, <1>4, Zenon DEF TypeOK
<1> HIDE DEF Wakes
<1>10. PlaceInv' BY <1>1, <1>2, <1>4, <1>7, <1>8 DEF PlaceInv
<1>11. CpuInv'
  <2>1. \A q \in Slot : q # p => /\ state'[q] = "RUNNING" <=> state[q] = "RUNNING"
                                 /\ state[q] = "RUNNING" => ctx'[q] = ctx[q]
    BY <1>4, <1>7, Zenon
  <2> QED BY <2>1, <1>1, <1>2, <1>3, <1>4, <1>8, CpuTakes
<1>12. TickInv'
  <2>1. \A q \in Slot : pc[q] \in Timing => q # p /\ state[q] = "RUNNING"
    BY <1>1, TimingRuns, Zenon DEF Timing
  <2>2. \A q \in Slot : state'[q] = "SLEEPING" => state[q] = "SLEEPING" BY <1>7, <1>8, Zenon
  <2>3. \A d \in Cpu : irq[d] # "none" => lock' # d BY <1>1, <1>2, Zenon
  <2> QED BY <2>1, <2>2, <2>3, <1>4, <1>7, TickFrame, Zenon
<1>13. \A q \in Slot : state[q] = "EMBRYO" => state'[q] = "EMBRYO" /\ parent[q] # p
  <2>1. TAKE q \in Slot
  <2>2. HAVE state[q] = "EMBRYO"
  <2>3. state'[q] = "EMBRYO" BY <1>2, <1>7, <2>2
  <2>4. parent[q] = p => pc[p] = "fork_publish" BY <1>2, <2>2, Zenon DEF FamilyInv
  <2> QED BY <1>1, <2>3, <2>4
<1>14. ForkInv'
  BY <1>4, <1>5, <1>13 DEF ForkInv
<1>15. FamilyInv'
  <2>1. \A q \in Slot : q # p /\ Alive(q) => Alive(q)' BY <1>7, Zenon DEF Alive
  <2>2. \A q \in Slot : parent'[q] # NoProc => parent'[q] \in Slot /\ parent'[q] # p /\ parent'[q] # q
    BY <1>2, <1>5, SMTT(60) DEF FamilyInv, TypeOK
  <2>3. \A q \in Slot : parent'[q] # NoProc => Alive(parent[q])'
    BY <2>1, <2>2, <1>2, <1>5 DEF FamilyInv
  <2>4. \A q \in Slot \ {initproc} : Alive(q)' \/ state'[q] = "ZOMBIE" => parent'[q] \in Slot
    BY <1>2, <1>5, <1>7, <1>8 DEF FamilyInv, Alive
  <2>5. \A q \in Slot : state'[q] = "UNUSED" => parent'[q] = NoProc
    BY <1>2, <1>5, <1>7, <1>8 DEF FamilyInv
  <2>6. \A q \in Slot : state'[q] = "EMBRYO" /\ parent'[q] # NoProc =>
          pc'[parent'[q]] = "fork_publish" /\ loc'[parent'[q]].ptr = q
    BY <1>2, <1>4, <1>5, <1>7, <1>8, <1>13 DEF FamilyInv
  <2>7. Alive(initproc)' /\ parent'[initproc] = NoProc
    BY <2>1, <1>2, <1>4, <1>5, Zenon DEF FamilyInv
  <2> QED BY <2>2, <2>3, <2>4, <2>5, <2>6, <2>7, <1>4, Zenon DEF FamilyInv
<1>16. PidInv' BY <1>4, <1>7, <1>8, <1>2 DEF PidInv
<1>17. WaitInv'
  <2> SUFFICES ASSUME NEW x \in Slot, state'[x] = "SLEEPING", chan'[x] = x
               PROVE  /\ ~killed'[x] /\ \E q \in Slot : parent'[q] = x
                      /\ \A q \in Slot : parent'[q] = x => state'[q] # "ZOMBIE"
    BY Zenon DEF WaitInv
  <2>1. x # p /\ state[x] = "SLEEPING" /\ chan[x] = x /\ ~Wakes(p, x) BY <1>4, <1>6, <1>8, Zenon
  <2>2. x # parent[p] /\ (x = initproc => \A r \in Slot : ~Orphan(p, r)) BY <2>1, Zenon DEF Wakes
  <2>3. /\ ~killed[x] /\ \E q \in Slot : parent[q] = x
        /\ \A q \in Slot : parent[q] = x => state[q] # "ZOMBIE"
    BY <2>1, Zenon DEF WaitInv
  <2>4. \A q \in Slot : parent'[q] = x => q # p /\ state[q] # "ZOMBIE"
    BY <2>2, <2>3, <1>2, <1>5
  <2> QED BY <2>1, <2>3, <2>4, <1>4, <1>5, <1>7
<1>18. GetInv'
  <2>1. \A q \in Slot : pc[q] = "getppid_pid" /\ parent'[q] = loc[q].ptr =>
          parent[q] = loc[q].ptr \/ loc[q].ptr = initproc
    BY <1>5, Zenon
  <2> QED BY <2>1, <1>4, Zenon DEF GetInv, PidInv
<1> QED BY <1>9, <1>10, <1>11, <1>12, <1>14, <1>15, <1>16, <1>17, <1>18, Zenon

(* exit of init stops where it is, in panic().                             *)
LEMMA ExitPanicsInv ==
  ASSUME IInv, NEW c \in Cpu, exit_panics(c)
  PROVE  IInv'
<1> USE ProcAssumption, Numbers DEF IInv
<1>1. loc' = [loc EXCEPT ![initproc] = loc[initproc]] BY Zenon DEF TypeOK, exit_panics
<1>2. Moves(c, initproc, "panic", loc[initproc])
  BY <1>1, RunFacts, Zenon DEF exit_panics, Moves, PC, Forking, Timing, Goto, clock
<1> QED BY <1>2, LocalStep, Zenon

(* kill makes a sleeper RUNNABLE.                                          *)
LEMMA KillInv ==
  ASSUME IInv, NEW c \in Cpu, kill(c)
  PROVE  IInv'
<1> USE ProcAssumption, Numbers DEF IInv
<1>1. PICK p \in Slot, k \in KillPids : kill(c)!(p, k) BY Zenon DEF kill
<1> DEFINE found == {q \in Slot : pid[q] = k}
           v == IF found = {} THEN NoProc ELSE First(found)
<1>2. v # NoProc => v \in Slot /\ pid[v] = k BY FirstIn, Zenon
<1>4. /\ state[p] = "RUNNING" /\ ctx[p] = "run" /\ cproc[c] = p /\ pc[p] = "kill"
      /\ lock = NoCpu /\ lock' = NoCpu
  BY <1>1, RunFacts DEF WithLock
<1>5. UNCHANGED <<pid, parent, chan, kstack, nextpid, tickslock, ticks, cproc, scan, irq, ctx, loc>>
  BY <1>1, Zenon DEF clock, cpus
<1>6. pc' = [pc EXCEPT ![p] = "sysret"] /\ asked' \subseteq Nat BY <1>1 DEF Goto, TypeOK
<1>7. /\ state' \in [Slot -> State] /\ killed' \in [Slot -> BOOLEAN]
      /\ \A q \in Slot : /\ state'[q] = IF q = v /\ state[q] = "SLEEPING" THEN "RUNNABLE" ELSE state[q]
                         /\ q # v => killed'[q] = killed[q]
  <2>1. CASE found = {} BY <2>1, <1>1, Zenon DEF TypeOK
  <2>2. CASE found # {}
    <3>1. First(found) \in Slot BY <2>2, FirstIn, Zenon
    <3>2. /\ killed' = [killed EXCEPT ![First(found)] = TRUE]
          /\ state' = [state EXCEPT ![First(found)] = KilledState(state[First(found)])]
      BY <2>2, <1>1, Zenon
    <3> QED BY <2>2, <3>1, <3>2, ZenonT(60) DEF TypeOK, KilledState, State
  <2> QED BY <2>1, <2>2, Zenon
<1> HIDE DEF v
<1>8. \A q \in Slot : pc'[q] = IF q = p THEN "sysret" ELSE pc[q] BY <1>6, Zenon DEF TypeOK
<1>9. TypeOK'
  <2>1. pc' \in [Slot -> PC] BY <1>6, Zenon DEF TypeOK, PC
  <2> QED BY <2>1, <1>4, <1>5, <1>6, <1>7, Zenon DEF TypeOK
<1>10. PlaceInv' BY <1>4, <1>5, <1>7, <1>8 DEF PlaceInv
<1>11. CpuInv'
  <2>1. \A q \in Slot : /\ state'[q] = "RUNNING" <=> state[q] = "RUNNING"
                        /\ state[q] = "RUNNING" => ctx'[q] = ctx[q]
    BY <1>5, <1>7, Zenon
  <2> QED BY <2>1, <1>4, <1>5, CpuFrees, Zenon
<1>12. TickInv'
  <2>1. \A q \in Slot : pc'[q] \in Timing \/ pc[q] \in Timing => q # p /\ state[q] = "RUNNING"
    BY <1>4, <1>8, TimingRuns DEF Timing
  <2>2. \A q \in Slot : state'[q] = "SLEEPING" => state[q] = "SLEEPING" BY <1>7, Zenon
  <2>3. \A d \in Cpu : irq[d] # "none" => lock' # d BY <1>4, Zenon
  <2> QED BY <2>1, <2>2, <2>3, <1>5, <1>7, <1>8, TickFrame, Zenon
<1>13. ForkInv' /\ FamilyInv' /\ PidInv' /\ GetInv'
  <2>2. pc'[initproc] \in {"user", "sysret", "fork", "wait", "exit", "panic"} \cup Forking
    BY <1>8, Zenon DEF FamilyInv
  <2>3. \A q \in Slot : \/ pc'[q] = pc[q]
                        \/ pc[q] \notin Forking /\ pc'[q] \notin Forking \cup {"getppid_pid"}
    BY <1>4, <1>8, Zenon DEF Forking
  <2>4. \A q \in Slot : \/ state'[q] = state[q]
                        \/ /\ state[q] \in {"SLEEPING", "RUNNABLE", "RUNNING"}
                           /\ state'[q] \in {"SLEEPING", "RUNNABLE", "RUNNING"}
    BY <1>7, Zenon
  <2> QED BY <2>2, <2>3, <2>4, <1>5, FamilyFrame, Zenon
<1>14. WaitInv'
  <2>1. \A q \in Slot : state'[q] = "SLEEPING" => state[q] = "SLEEPING" /\ killed'[q] = killed[q]
    BY <1>7, Zenon
  <2> QED BY <2>1, <1>5, <1>7 DEF WaitInv
<1> QED BY <1>9, <1>10, <1>11, <1>12, <1>13, <1>14, Zenon
(* wait frees the slot of a ZOMBIE child that is on no CPU, gives up, or   *)
(* sleeps while all its children live.                                     *)
LEMMA WaitStepInv ==
  ASSUME IInv, NEW c \in Cpu, wait(c)
  PROVE  IInv'
<1> USE ProcAssumption, Numbers DEF IInv
<1>1. PICK p \in Slot : wait(c)!(p) BY Zenon DEF wait
<1> DEFINE kids == {q \in Slot : parent[q] = p}
           dead == {q \in kids : state[q] = "ZOMBIE"}
           z == First(dead)
<1>2. /\ state[p] = "RUNNING" /\ ctx[p] = "run" /\ cproc[c] = p /\ irq[c] = "none" /\ kstack[p]
      /\ pc[p] = "wait" /\ lock \in {NoCpu, c} /\ tickslock # c
      /\ \A d \in Cpu : cproc[d] = p => d = c
  BY <1>1, RunFacts DEF Timing
<1>3. UNCHANGED <<nextpid, asked, tickslock, ticks, cproc, scan, irq, loc>> BY <1>1, Zenon DEF clock, cpus
<1>4. CASE /\ dead # {}
           /\ kstack' = [kstack EXCEPT ![z] = FALSE]
           /\ pid' = [pid EXCEPT ![z] = 0]
           /\ parent' = [parent EXCEPT ![z] = NoProc]
           /\ killed' = [killed EXCEPT ![z] = FALSE]
           /\ state' = [state EXCEPT ![z] = "UNUSED"]
           /\ pc' = [pc EXCEPT ![p] = "sysret", ![z] = "user"]
           /\ lock' = NoCpu
           /\ UNCHANGED <<chan, ctx>>
  <2>1. z \in Slot /\ parent[z] = p /\ state[z] = "ZOMBIE" BY <1>4, FirstIn, SMTT(60)
  <2> HIDE DEF z, dead
  <2>2. z # p /\ z # initproc /\ pc[z] = "exit" /\ \A q \in Slot : parent[q] # z
    BY <2>1, <1>2 DEF FamilyInv, Alive, PlaceInv
  <2>3. \A q \in Slot : q # z => /\ kstack'[q] = kstack[q] /\ pid'[q] = pid[q] /\ parent'[q] = parent[q]
                                 /\ killed'[q] = killed[q] /\ state'[q] = state[q]
                                 /\ pc'[q] = IF q = p THEN "sysret" ELSE pc[q]
    BY <1>4, <2>1 DEF TypeOK
  <2>4. /\ pid'[z] = 0 /\ parent'[z] = NoProc /\ state'[z] = "UNUSED" /\ pc'[z] = "user"
    BY <1>4, <2>1, Zenon DEF TypeOK
  <2>5. chan' = chan /\ ctx' = ctx /\ lock' = NoCpu BY <1>4, Zenon
  <2>6. TypeOK'
    <3>1. kstack' \in [Slot -> BOOLEAN] /\ killed' \in [Slot -> BOOLEAN] BY <1>4, <2>1, Zenon DEF TypeOK
    <3>2. pid' \in [Slot -> Nat] BY <1>4, <2>1, Zenon DEF TypeOK
    <3>3. parent' \in [Slot -> Slot \cup {NoProc}] BY <1>4, <2>1, Zenon DEF TypeOK
    <3>4. state' \in [Slot -> State] BY <1>4, <2>1, Zenon DEF TypeOK, State
    <3>5. pc' \in [Slot -> PC]
      <4>1. "sysret" \in PC /\ "user" \in PC /\ pc \in [Slot -> PC] BY Zenon DEF TypeOK, PC
      <4> QED BY <1>4, <2>1, <4>1, Zenon
    <3> QED BY <3>1, <3>2, <3>3, <3>4, <3>5, <2>5, <1>3, Zenon DEF TypeOK
  <2>7. PlaceInv'
    <3> SUFFICES ASSUME NEW q \in Slot
                 PROVE  /\ state'[q] \in {"UNUSED", "EMBRYO"} => pc'[q] = "user"
                        /\ state'[q] \notin {"UNUSED", "EMBRYO"} => kstack'[q]
                        /\ state'[q] = "ZOMBIE" => pc'[q] = "exit"
                        /\ state'[q] = "RUNNABLE" => ctx'[q] # "run"
                        /\ state'[q] = "SLEEPING" =>
                             /\ ctx'[q] = "sleep"
                             /\ \/ pc'[q] = "wait" /\ chan'[q] = q
                                \/ pc'[q] = "sleep" /\ chan'[q] = TicksChan
      BY Zenon DEF PlaceInv
    <3>1. CASE q = z BY <2>4, <3>1, Zenon
    <3>2. CASE q = p
      <4>1. state'[q] = "RUNNING" /\ kstack'[q] BY <1>2, <2>2, <2>3, <3>2, Zenon
      <4> QED BY <4>1, Zenon
    <3>3. CASE q # z /\ q # p
      <4>1. state'[q] = state[q] /\ pc'[q] = pc[q] /\ kstack'[q] = kstack[q] BY <2>3, <3>3, Zenon
      <4> QED BY <2>5, <4>1, Zenon DEF PlaceInv
    <3> QED BY <3>1, <3>2, <3>3, Zenon
  <2>8. CpuInv'
    <3>1. \A q \in Slot : /\ state'[q] = "RUNNING" <=> state[q] = "RUNNING"
                          /\ state[q] = "RUNNING" => ctx'[q] = ctx[q]
      BY <2>1, <2>3, <2>4, <2>5, Zenon
    <3> QED BY <3>1, <1>2, <1>3, <2>5, CpuFrees, Zenon
  <2>9. TickInv'
    <3>1. \A q \in Slot : pc'[q] \in Timing \/ pc[q] \in Timing => q # p /\ q # z
      BY <1>2, <2>2, <2>3, <2>4, Zenon DEF Timing
    <3>2. \A q \in Slot : state'[q] = "SLEEPING" => state[q] = "SLEEPING" BY <2>3, <2>4, Zenon
    <3>3. \A d \in Cpu : irq[d] # "none" => lock' # d BY <2>5, Zenon
    <3> QED BY <3>1, <3>2, <3>3, <2>3, <2>5, <1>3, TickFrame, Zenon
  <2>10. ForkInv'
    <3>1. \A q \in Slot : pc'[q] \in Forking => q # p /\ q # z /\ pc'[q] = pc[q]
      BY <2>3, <2>4, Zenon DEF Forking
    <3>2. \A q \in Slot : state[q] = "EMBRYO" => /\ state'[q] = "EMBRYO" /\ kstack'[q] = kstack[q]
                                                 /\ parent'[q] = parent[q]
      BY <2>1, <2>3, Zenon
    <3>3. ctx' = ctx /\ loc' = loc BY <2>5, <1>3, Zenon
    <3>4. ASSUME NEW q \in Slot, pc'[q] \in Forking
          PROVE  /\ loc'[q].ptr \in Slot /\ state'[loc'[q].ptr] = "EMBRYO"
                 /\ pc'[q] # "fork_stack" => kstack'[loc'[q].ptr] /\ ctx'[loc'[q].ptr] = "forkret"
                 /\ parent'[loc'[q].ptr] = IF pc'[q] = "fork_publish" THEN q ELSE NoProc
      <4>1. pc'[q] = pc[q] /\ pc[q] \in Forking BY <3>1, <3>4, Zenon
      <4>2. /\ loc[q].ptr \in Slot /\ state[loc[q].ptr] = "EMBRYO"
            /\ pc[q] # "fork_stack" => kstack[loc[q].ptr] /\ ctx[loc[q].ptr] = "forkret"
            /\ parent[loc[q].ptr] = IF pc[q] = "fork_publish" THEN q ELSE NoProc
        BY <4>1, Zenon DEF ForkInv
      <4>3. /\ state'[loc[q].ptr] = "EMBRYO" /\ kstack'[loc[q].ptr] = kstack[loc[q].ptr]
            /\ parent'[loc[q].ptr] = parent[loc[q].ptr]
        BY <3>2, <4>2, Zenon
      <4> QED BY <3>3, <4>1, <4>2, <4>3, Zenon
    <3>5. \A q, r \in Slot : pc'[q] \in Forking /\ pc'[r] \in Forking /\ loc'[q].ptr = loc'[r].ptr => q = r
      BY <3>1, <3>3, Zenon DEF ForkInv
    <3> QED BY <3>4, <3>5, Zenon DEF ForkInv
  <2>11. FamilyInv'
    <3>1. pc'[initproc] \in {"user", "sysret", "fork", "wait", "exit", "panic"} \cup Forking
      BY <2>2, <2>3, Zenon DEF FamilyInv
    <3>2. \A q \in Slot : parent'[q] # NoProc => q # z /\ parent[q] = parent'[q] /\ parent'[q] \in Slot
                                                 /\ parent'[q] # z
      <4>1. \A q \in Slot : parent[q] \in Slot \cup {NoProc} BY Zenon DEF TypeOK
      <4> QED BY <2>2, <2>3, <2>4, <4>1, Zenon
    <3>3. \A q \in Slot : parent'[q] # NoProc => Alive(parent[q])' /\ parent'[q] # q
      <4> SUFFICES ASSUME NEW q \in Slot, parent'[q] # NoProc
                   PROVE  state'[parent'[q]] \in {"SLEEPING", "RUNNABLE", "RUNNING"} /\ parent'[q] # q
        BY Zenon DEF Alive
      <4>1. parent[q] = parent'[q] /\ parent'[q] \in Slot /\ parent'[q] # z BY <3>2, Zenon
      <4>2. Alive(parent[q]) /\ parent[q] # q BY <4>1, Zenon DEF FamilyInv
      <4>3. state'[parent'[q]] = state[parent[q]] BY <2>3, <4>1, Zenon
      <4> QED BY <4>1, <4>2, <4>3, Zenon DEF Alive
    <3>4. \A q \in Slot \ {initproc} : Alive(q)' \/ state'[q] = "ZOMBIE" => parent'[q] \in Slot
      BY <2>3, <2>4 DEF FamilyInv, Alive
    <3>5. \A q \in Slot : state'[q] = "UNUSED" => parent'[q] = NoProc BY <2>3, <2>4 DEF FamilyInv
    <3>6. \A q \in Slot : state'[q] = "EMBRYO" /\ parent'[q] # NoProc =>
            pc'[parent'[q]] = "fork_publish" /\ loc'[parent'[q]].ptr = q
      <4>1. \A q \in Slot : state'[q] = "EMBRYO" /\ parent'[q] # NoProc =>
              pc[parent[q]] = "fork_publish" /\ loc[parent[q]].ptr = q
        BY <3>2, <2>3 DEF FamilyInv
      <4> QED BY <4>1, <3>2, <2>3, <1>2, <1>3
    <3>7. Alive(initproc)' /\ parent'[initproc] = NoProc
      BY <2>2, <2>3, Zenon DEF FamilyInv, Alive
    <3> QED BY <3>1, <3>3, <3>4, <3>5, <3>6, <3>7, Zenon DEF FamilyInv
  <2>12. PidInv'
    <3>1. \A q \in Slot : pid'[q] < nextpid' /\ (state'[q] # "UNUSED" => pid'[q] # 0)
      <4>1. 0 < nextpid
        <5>1. pid[z] \in Nat /\ nextpid \in Nat /\ pid[z] < nextpid BY <2>1, Zenon DEF PidInv, TypeOK
        <5> QED BY <5>1
      <4> QED BY <4>1, <2>3, <2>4, <1>3 DEF PidInv
    <3>2. \A q, r \in Slot : q # r /\ pid'[q] = pid'[r] => pid'[q] = 0 BY <2>3, <2>4 DEF PidInv
    <3> QED BY <3>1, <3>2, <2>2, <2>3, SMTT(60) DEF PidInv
  <2>13. WaitInv'
    <3> SUFFICES ASSUME NEW x \in Slot, state'[x] = "SLEEPING", chan'[x] = x
                 PROVE  /\ ~killed'[x] /\ \E q \in Slot : parent'[q] = x
                        /\ \A q \in Slot : parent'[q] = x => state'[q] # "ZOMBIE"
      BY Zenon DEF WaitInv
    <3>1. x # z /\ x # p /\ state[x] = "SLEEPING" /\ chan[x] = x BY <1>2, <2>2, <2>3, <2>4, <2>5
    <3>2. /\ ~killed[x] /\ \E q \in Slot : parent[q] = x
          /\ \A q \in Slot : parent[q] = x => state[q] # "ZOMBIE"
      BY <3>1, Zenon DEF WaitInv
    <3>3. \A q \in Slot : parent[q] = x => q # z BY <3>1, <2>1, Zenon
    <3> QED BY <3>1, <3>2, <3>3, <2>3, <2>4
  <2>14. GetInv'
    <3>1. \A q \in Slot : pc'[q] = "getppid_pid" => q # p /\ q # z /\ pc[q] = "getppid_pid"
                                                    /\ parent'[q] = parent[q]
      BY <2>3, <2>4, Zenon
    <3>2. \A q \in Slot : parent[q] = loc[q].ptr /\ loc[q].ptr \in Slot => loc[q].ptr # z BY <2>2, Zenon
    <3> QED BY <3>1, <3>2, <2>3, <1>3 DEF GetInv
  <2> QED BY <2>6, <2>7, <2>8, <2>9, <2>10, <2>11, <2>12, <2>13, <2>14, Zenon
<1>5. CASE /\ dead = {} /\ (kids = {} \/ killed[p]) /\ Goto(p, "sysret") /\ lock' = NoCpu
           /\ UNCHANGED <<state, pid, parent, killed, chan, kstack, ctx>>
  <2>1. /\ \A q \in Slot : pc'[q] = IF q = p THEN "sysret" ELSE pc[q]
        /\ pc' \in [Slot -> PC]
    BY <1>5, Zenon DEF Goto, TypeOK, PC
  <2>2. lock' = NoCpu /\ UNCHANGED <<state, pid, parent, killed, chan, kstack, ctx>> BY <1>5, Zenon
  <2> HIDE DEF dead, kids
  <2>3. TypeOK' BY <2>1, <2>2, <1>3, Zenon DEF TypeOK
  <2>4. PlaceInv' BY <2>1, <2>2, <1>2 DEF PlaceInv
  <2>5. CpuInv' BY <2>2, <1>2, <1>3, CpuFrees, Zenon
  <2>6. TickInv'
    <3>1. \A q \in Slot : pc'[q] \in Timing \/ pc[q] \in Timing => q # p
      BY <1>2, <2>1, Zenon DEF Timing
    <3>2. \A d \in Cpu : irq[d] # "none" => lock' # d BY <2>2, Zenon
    <3> QED BY <3>1, <3>2, <2>1, <2>2, <1>3, TickFrame, Zenon
  <2>7. ForkInv' /\ FamilyInv' /\ PidInv' /\ GetInv'
    <3>1. pc'[initproc] \in {"user", "sysret", "fork", "wait", "exit", "panic"} \cup Forking BY <2>1, Zenon DEF FamilyInv
    <3>2. \A q \in Slot : \/ pc'[q] = pc[q]
                          \/ pc[q] \notin Forking /\ pc'[q] \notin Forking \cup {"getppid_pid"}
      BY <1>2, <2>1, Zenon DEF Forking
    <3> QED BY <3>1, <3>2, <2>2, <1>3, FamilyFrame, Zenon
  <2>8. WaitInv' BY <2>2 DEF WaitInv
  <2> QED BY <2>3, <2>4, <2>5, <2>6, <2>7, <2>8, Zenon
<1>6. CASE /\ dead = {} /\ kids # {} /\ ~killed[p]
           /\ chan' = [chan EXCEPT ![p] = p]
           /\ state' = [state EXCEPT ![p] = "SLEEPING"]
           /\ ctx' = [ctx EXCEPT ![p] = "sleep"]
           /\ lock' = c
           /\ UNCHANGED <<pid, parent, killed, kstack, pc>>
  <2>1. \A q \in Slot : /\ chan'[q] = IF q = p THEN p ELSE chan[q]
                        /\ state'[q] = IF q = p THEN "SLEEPING" ELSE state[q]
                        /\ ctx'[q] = IF q = p THEN "sleep" ELSE ctx[q]
    BY <1>6, Zenon DEF TypeOK
  <2>2. lock' = c /\ ~killed[p] /\ UNCHANGED <<pid, parent, killed, kstack, pc>> BY <1>6, Zenon
  <2>3. TypeOK'
    <3>0. p \in 0..NPROC+1 BY DEF Slot
    <3>1. chan' \in [Slot -> 0..NPROC+1] BY <1>6, <3>0, Zenon DEF TypeOK
    <3>2. state' \in [Slot -> State] BY <1>6, Zenon DEF TypeOK, State
    <3>3. ctx' \in [Slot -> Ctx] BY <1>6, Zenon DEF TypeOK, Ctx
    <3> QED BY <3>1, <3>2, <3>3, <2>2, <1>3, Zenon DEF TypeOK
  <2>4. PlaceInv' BY <2>1, <2>2, <1>2 DEF PlaceInv
  <2>5. CpuInv'
    <3>1. \A q \in Slot : q # p => /\ state'[q] = "RUNNING" <=> state[q] = "RUNNING"
                                   /\ state[q] = "RUNNING" => ctx'[q] = ctx[q]
      BY <2>1, Zenon
    <3>2. state'[p] = "SLEEPING" BY <2>1, Zenon
    <3> QED BY <3>1, <3>2, <2>2, <1>2, <1>3, CpuTakes
  <2>6. TickInv'
    <3>1. \A q \in Slot : pc'[q] \in Timing \/ pc[q] \in Timing => q # p
      BY <1>2, <2>2, Zenon DEF Timing
    <3>2. \A d \in Cpu : irq[d] # "none" => lock' # d BY <1>2, <2>2, Zenon
    <3>3. \A q \in Slot : state'[q] = "SLEEPING" /\ chan'[q] = TicksChan => q # p BY <2>1, Zenon
    <3> QED BY <3>1, <3>2, <3>3, <2>1, <2>2, <1>3, TickFrame, Zenon
  <2>7. ForkInv' /\ FamilyInv' /\ PidInv' /\ GetInv'
    <3>1. pc'[initproc] \in {"user", "sysret", "fork", "wait", "exit", "panic"} \cup Forking BY <2>2, Zenon DEF FamilyInv
    <3>3. \A q \in Slot : \/ state'[q] = state[q]
                          \/ /\ state[q] \in {"SLEEPING", "RUNNABLE", "RUNNING"}
                             /\ state'[q] \in {"SLEEPING", "RUNNABLE", "RUNNING"}
      BY <2>1, <1>2, Zenon
    <3>4. \A q \in Slot : state[q] = "EMBRYO" => ctx'[q] = ctx[q] BY <2>1, <1>2, Zenon
    <3> QED BY <3>1, <3>3, <3>4, <2>2, <1>3, FamilyFrame, Zenon
  <2>8. WaitInv'
    <3>1. (\E q \in Slot : parent[q] = p) /\ \A q \in Slot : parent[q] = p => state[q] # "ZOMBIE"
      BY <1>6, Zenon
    <3> QED BY <3>1, <2>1, <2>2 DEF WaitInv
  <2> QED BY <2>3, <2>4, <2>5, <2>6, <2>7, <2>8, Zenon
<1> QED BY <1>1, <1>4, <1>5, <1>6, SMTT(60)
-----------------------------------------------------------------------------
(* sleep(&ticks, &tickslock): the process is SLEEPING before tickslock is  *)
(* free, so its time is not over yet.                                      *)
LEMMA SleepGoInv ==
  ASSUME IInv, NEW c \in Cpu, sleep_go(c)
  PROVE  IInv'
<1> USE ProcAssumption, Numbers DEF IInv
<1>1. PICK p \in Slot : sleep_go(c)!(p) BY Zenon DEF sleep_go
<1>2. /\ state[p] = "RUNNING" /\ ctx[p] = "run" /\ cproc[c] = p /\ irq[c] = "none" /\ kstack[p]
      /\ pc[p] = "sleep_go" /\ lock = NoCpu /\ tickslock = c /\ p \notin Late
  <2>1. p \notin Late BY <1>1, Zenon DEF TickInv
  <2> QED BY <2>1, <1>1, RunFacts DEF Timing
<1>3. /\ lock' = c /\ tickslock' = NoCpu
      /\ UNCHANGED <<pid, parent, killed, kstack, nextpid, asked, ticks, cproc, scan, irq, loc>>
  BY <1>1, Zenon DEF cpus
<1>4. \A q \in Slot : /\ chan'[q] = IF q = p THEN TicksChan ELSE chan[q]
                      /\ state'[q] = IF q = p THEN "SLEEPING" ELSE state[q]
                      /\ ctx'[q] = IF q = p THEN "sleep" ELSE ctx[q]
                      /\ pc'[q] = IF q = p THEN "sleep" ELSE pc[q]
  BY <1>1 DEF TypeOK, Goto
<1>5. TypeOK'
  <2>0. TicksChan \in 0..NPROC+1 BY DEF TicksChan
  <2>1. chan' \in [Slot -> 0..NPROC+1] BY <1>1, <2>0, Zenon DEF TypeOK
  <2>2. state' \in [Slot -> State] BY <1>1, Zenon DEF TypeOK, State
  <2>3. ctx' \in [Slot -> Ctx] BY <1>1, Zenon DEF TypeOK, Ctx
  <2>4. pc' \in [Slot -> PC] BY <1>1, Zenon DEF TypeOK, PC, Goto
  <2> QED BY <2>1, <2>2, <2>3, <2>4, <1>3, Zenon DEF TypeOK
<1>6. PlaceInv' BY <1>2, <1>3, <1>4 DEF PlaceInv
<1>7. CpuInv'
  <2>1. \A q \in Slot : q # p => /\ state'[q] = "RUNNING" <=> state[q] = "RUNNING"
                                 /\ state[q] = "RUNNING" => ctx'[q] = ctx[q]
    BY <1>4, Zenon
  <2>2. state'[p] = "SLEEPING" /\ irq'[c] = "none" /\ tickslock' # c BY <1>2, <1>3, <1>4, Zenon
  <2> QED BY <2>1, <2>2, <1>2, <1>3, CpuTakes
<1>8. TickInv'
  <2>1. Late' = Late BY <1>3, Zenon DEF Late, Elapsed
  <2>2. \A q \in Slot : pc'[q] \notin Timing
    <3>1. \A q \in Slot : pc[q] \in Timing => q = p BY <1>2, Zenon DEF TickInv
    <3> QED BY <3>1, <1>4, Zenon DEF Timing
  <2>3. irq[0] # "tick" BY <1>2, Zenon DEF TickInv
  <2>4. \A q \in Late' : ~(state'[q] = "SLEEPING" /\ chan'[q] = TicksChan)
    BY <2>1, <2>3, <1>2, <1>4 DEF TickInv, Late
  <2>5. \A d \in Cpu : irq'[d] # "none" => d = 0 /\ lock' # d BY <1>2, <1>3 DEF TickInv
  <2>6. \A q \in Slot : pc'[q] # "sleep_go" BY <2>2, Zenon DEF Timing
  <2>7. irq'[0] = "post" => tickslock' # 0 /\ cproc'[0] # NoProc BY <1>3 DEF TickInv
  <2>8. \A d \in Cpu : tickslock' # d BY <1>3, Zenon
  <2> QED BY <2>2, <2>3, <2>4, <2>5, <2>6, <2>7, <2>8, <1>3, Zenon DEF TickInv
<1>9. ForkInv' /\ FamilyInv' /\ PidInv' /\ GetInv'
  <2>1. pc'[initproc] \in {"user", "sysret", "fork", "wait", "exit", "panic"} \cup Forking
    BY <1>2, <1>4 DEF FamilyInv, Forking
  <2>3. \A q \in Slot : \/ state'[q] = state[q]
                        \/ /\ state[q] \in {"SLEEPING", "RUNNABLE", "RUNNING"}
                           /\ state'[q] \in {"SLEEPING", "RUNNABLE", "RUNNING"}
    BY <1>2, <1>4, Zenon
  <2>4. \A q \in Slot : state[q] = "EMBRYO" => ctx'[q] = ctx[q] BY <1>2, <1>4, Zenon
  <2>5. \A q \in Slot : \/ pc'[q] = pc[q]
                        \/ pc[q] \notin Forking /\ pc'[q] \notin Forking \cup {"getppid_pid"}
    BY <1>2, <1>4, Zenon DEF Forking
  <2> QED BY <2>1, <2>3, <2>4, <2>5, <1>3, FamilyFrame, Zenon
<1>10. WaitInv' BY <1>3, <1>4 DEF WaitInv
<1> QED BY <1>5, <1>6, <1>7, <1>8, <1>9, <1>10, Zenon

(* ticks++ under tickslock: nobody is testing the time.                    *)
LEMMA TimerTickInv ==
  ASSUME IInv, NEW c \in Cpu, timer_tick(c)
  PROVE  IInv'
<1> USE ProcAssumption, Numbers DEF IInv
<1>1. /\ c = 0 /\ tickslock = NoCpu /\ lock # 0 /\ tickslock' = 0
      /\ irq' = [irq EXCEPT ![0] = "tick"] /\ ticks' = (ticks + 1) % TICKS
      /\ UNCHANGED <<state, pid, parent, killed, chan, kstack, nextpid, asked, lock, cproc, scan, pc, ctx, loc>>
  BY Zenon DEF timer_tick, Interruptible, table
<1>2. cproc[0] # NoProc => state[cproc[0]] = "RUNNING" /\ ctx[cproc[0]] = "run" BY <1>1, Zenon DEF CpuInv
<1>3. \A d \in Cpu : irq'[d] = IF d = 0 THEN "tick" ELSE irq[d] BY <1>1, Zenon DEF TypeOK
<1>4. TypeOK'
  <2>1. ticks + 1 \in Int BY DEF TypeOK
  <2>2. ticks' \in 0..TICKS-1 BY <1>1, <2>1
  <2>3. irq' \in [Cpu -> {"none", "tick", "post"}] BY <1>1, Zenon DEF TypeOK
  <2> QED BY <2>2, <2>3, <1>1, Zenon DEF TypeOK
<1>5. PlaceInv' BY <1>1, Zenon DEF PlaceInv
<1>6. CpuInv'
  <2>1. \A d \in Cpu : cproc[d] # NoProc /\ lock = d => d # 0 /\ irq'[d] = irq[d] /\ tickslock' # d
    BY <1>1, <1>3, Zenon
  <2>2. \A d \in Cpu : cproc[d] # NoProc /\ (state[cproc[d]] # "RUNNING" \/ ctx[cproc[d]] # "run") => lock = d
    BY Zenon DEF CpuInv
  <2> QED BY <2>1, <2>2, <1>1 DEF CpuInv
<1>7. TickInv'
  <2>1. \A q \in Slot : pc'[q] \notin Timing BY <1>1, Zenon DEF TickInv
  <2>2. \A q \in Slot : pc'[q] # "sleep_go" BY <2>1, Zenon DEF Timing
  <2>3. cproc'[0] # NoProc => pc'[cproc'[0]] \notin Timing BY <2>1, <1>1, Zenon DEF TypeOK
  <2>4. \A d \in Cpu : irq'[d] # "none" => d = 0 /\ lock' # d BY <1>1, <1>3 DEF TickInv
  <2>5. irq'[0] = "tick" BY <1>3, Zenon
  <2> QED BY <2>1, <2>2, <2>3, <2>4, <2>5, <1>1, Zenon DEF TickInv
<1>8. ForkInv' /\ FamilyInv' /\ PidInv' /\ GetInv'
  <2>1. pc'[initproc] \in {"user", "sysret", "fork", "wait", "exit", "panic"} \cup Forking
    BY <1>1, Zenon DEF FamilyInv
  <2> QED BY <2>1, <1>1, FamilyFrame, Zenon
<1>9. WaitInv' BY <1>1 DEF WaitInv
<1> QED BY <1>4, <1>5, <1>6, <1>7, <1>8, <1>9, Zenon

(* wakeup(&ticks) leaves nobody asleep on &ticks.                          *)
LEMMA TimerWakeupInv ==
  ASSUME IInv, NEW c \in Cpu, timer_wakeup(c)
  PROVE  IInv'
<1> USE ProcAssumption, Numbers DEF IInv
<1>1. /\ irq[c] = "tick" /\ c = 0 /\ lock = NoCpu /\ lock' = NoCpu /\ tickslock = 0 /\ tickslock' = NoCpu
      /\ irq' = [irq EXCEPT ![0] = IF cproc[0] = NoProc THEN "none" ELSE "post"]
      /\ UNCHANGED <<pid, parent, killed, chan, kstack, nextpid, asked, ticks, cproc, scan, pc, ctx, loc>>
  BY Zenon DEF timer_wakeup, WithLock, TickInv
<1>2. /\ state' = [q \in Slot |-> IF state[q] = "SLEEPING" /\ chan[q] = TicksChan THEN "RUNNABLE" ELSE state[q]]
  BY Zenon DEF timer_wakeup, wakeup1
<1>3. \A q \in Slot : state'[q] = IF state[q] = "SLEEPING" /\ chan[q] = TicksChan THEN "RUNNABLE" ELSE state[q]
  BY <1>2, Zenon
<1>4. \A d \in Cpu : irq'[d] = IF d = 0 THEN IF cproc[0] = NoProc THEN "none" ELSE "post" ELSE irq[d]
  BY <1>1, Zenon DEF TypeOK
<1>5. TypeOK'
  <2>1. state' \in [Slot -> State] BY <1>2, Zenon DEF TypeOK, State
  <2>2. irq' \in [Cpu -> {"none", "tick", "post"}] BY <1>1, Zenon DEF TypeOK
  <2> QED BY <2>1, <2>2, <1>1, Zenon DEF TypeOK
<1>6. PlaceInv' BY <1>1, <1>3, Zenon DEF PlaceInv
<1>7. CpuInv'
  <2>1. \A q \in Slot : /\ state'[q] = "RUNNING" <=> state[q] = "RUNNING"
                        /\ state[q] = "RUNNING" => ctx'[q] = ctx[q]
    BY <1>1, <1>3, Zenon
  <2> QED BY <2>1, <1>1, CpuFrees, Zenon
<1>8. TickInv'
  <2>1. \A q \in Slot : pc'[q] \notin Timing BY <1>1, TimingRuns, Zenon
  <2>2. \A q \in Slot : pc'[q] # "sleep_go" BY <2>1, Zenon DEF Timing
  <2>3. \A q \in Late' : ~(state'[q] = "SLEEPING" /\ chan'[q] = TicksChan) BY <1>1, <1>3, Zenon DEF Late
  <2>4. \A d \in Cpu : irq'[d] # "none" => d = 0 /\ lock' # d BY <1>1, <1>4 DEF TickInv
  <2>5. irq'[0] # "tick" /\ (irq'[0] = "post" => tickslock' # 0 /\ cproc'[0] # NoProc) BY <1>1, <1>4
  <2>6. \A d \in Cpu : tickslock' # d BY <1>1, Zenon
  <2> QED BY <2>1, <2>2, <2>3, <2>4, <2>5, <2>6, Zenon DEF TickInv
<1>9. ForkInv' /\ FamilyInv' /\ PidInv' /\ GetInv'
  <2>1. pc'[initproc] \in {"user", "sysret", "fork", "wait", "exit", "panic"} \cup Forking
    BY <1>1, Zenon DEF FamilyInv
  <2>2. \A q \in Slot : \/ state'[q] = state[q]
                        \/ /\ state[q] \in {"SLEEPING", "RUNNABLE", "RUNNING"}
                           /\ state'[q] \in {"SLEEPING", "RUNNABLE", "RUNNING"}
    BY <1>3, Zenon
  <2> QED BY <2>1, <2>2, <1>1, FamilyFrame, Zenon
<1>10. WaitInv' BY <1>1, <1>3 DEF WaitInv
<1> QED BY <1>5, <1>6, <1>7, <1>8, <1>9, <1>10, Zenon
(* The process a timer interrupt of trap() yields or kills is running.     *)
LEMMA YieldFacts ==
  ASSUME IInv, NEW c \in Cpu, NEW p \in Slot, cproc[c] = p,
         IF c = 0 THEN irq[c] = "post" ELSE Interruptible(c)
  PROVE  /\ state[p] = "RUNNING" /\ ctx[p] = "run" /\ lock # c /\ tickslock # c /\ pc[p] \notin Timing
         /\ \A d \in Cpu : cproc[d] = p => d = c
         /\ kstack[p] /\ p # NoProc
<1> USE ProcAssumption, Numbers DEF IInv
<1>1. p # NoProc /\ lock # c /\ tickslock # c BY DEF Interruptible, TickInv
<1>2. state[p] = "RUNNING" /\ ctx[p] = "run" BY <1>1, Zenon DEF CpuInv
<1>3. \A d \in Cpu : cproc[d] = p => d = c BY <1>1 DEF CpuInv
<1>4. pc[p] \notin Timing BY <1>1, <1>3, TimingRuns, Zenon
<1>5. kstack[p] BY <1>2, Zenon DEF PlaceInv
<1> QED BY <1>1, <1>2, <1>3, <1>4, <1>5, Zenon

(* trap() ends a time slice: exit, or yield with ptable.lock.              *)
LEMMA TimerYieldInv ==
  ASSUME IInv, NEW c \in Cpu, timer_yield(c)
  PROVE  IInv'
<1> USE ProcAssumption, Numbers DEF IInv
<1>1. PICK p \in Slot : timer_yield(c)!(p) BY Zenon DEF timer_yield
<1>2. /\ state[p] = "RUNNING" /\ ctx[p] = "run" /\ lock # c /\ tickslock # c /\ pc[p] \notin Timing
      /\ (\A d \in Cpu : cproc[d] = p => d = c) /\ kstack[p] /\ p # NoProc /\ cproc[c] = p
  BY <1>1, YieldFacts
<1>3. UNCHANGED <<pid, parent, killed, chan, kstack, nextpid, asked, tickslock, ticks, cproc, scan, loc>>
  BY <1>1, Zenon DEF clock
<1>4. \A d \in Cpu : irq'[d] = IF d = c THEN "none" ELSE irq[d] BY <1>1, Zenon DEF TypeOK
<1>5. irq' \in [Cpu -> {"none", "tick", "post"}] BY <1>1, Zenon DEF TypeOK
<1>6. (c # 0 => irq[c] = "none") /\ (c = 0 => irq[c] = "post") BY <1>1, Zenon DEF Interruptible
<1>7. Late' = Late BY <1>3, Zenon DEF Late, Elapsed
<1>8. ASSUME \A d \in Cpu : d # c /\ irq[d] # "none" => lock' # d,
             \A q \in Slot : state'[q] = "SLEEPING" => state[q] = "SLEEPING",
             \A q \in Slot : pc'[q] \in Timing \/ pc[q] \in Timing =>
               pc'[q] = pc[q] /\ state'[q] = state[q] /\ ctx'[q] = ctx[q]
      PROVE  TickInv'
  <2>1. \A d \in Cpu : irq'[d] # "none" => d = 0 /\ d # c /\ lock' # d BY <1>4, <1>8 DEF TickInv
  <2>2. \A d \in Cpu : tickslock' = d =>
          \/ irq'[d] = "tick" /\ (cproc'[d] # NoProc => pc'[cproc'[d]] \notin Timing)
          \/ /\ irq'[d] = "none" /\ cproc'[d] # NoProc
             /\ state'[cproc'[d]] = "RUNNING" /\ ctx'[cproc'[d]] = "run" /\ pc'[cproc'[d]] \in Timing
    <3>1. \A d \in Cpu : cproc[d] # NoProc => cproc[d] \in Slot BY Zenon DEF TypeOK
    <3> QED BY <3>1, <1>2, <1>3, <1>4, <1>8 DEF TickInv
  <2>3. \A q \in Slot : pc'[q] \in Timing => tickslock' \in Cpu /\ cproc'[tickslock'] = q
    BY <1>3, <1>8 DEF TickInv
  <2>4. \A q \in Slot : pc'[q] = "sleep_go" => q \notin Late' BY <1>7, <1>8 DEF TickInv, Timing
  <2>5. \A q \in Late' : state'[q] = "SLEEPING" /\ chan'[q] = TicksChan => irq'[0] = "tick"
    <3>1. \A q \in Late : q \in Slot BY Zenon DEF Late
    <3> QED BY <3>1, <1>3, <1>4, <1>6, <1>7, <1>8 DEF TickInv
  <2>6. /\ irq'[0] = "tick" => tickslock' = 0
        /\ irq'[0] = "post" => tickslock' # 0 /\ cproc'[0] # NoProc
    BY <1>3, <1>4, Zenon DEF TickInv
  <2> QED BY <2>1, <2>2, <2>3, <2>4, <2>5, <2>6, Zenon DEF TickInv
<1>9. CASE killed[p] /\ pc[p] = "user" /\ Goto(p, "exit") /\ UNCHANGED <<state, lock, ctx>>
  <2>1. /\ \A q \in Slot : pc'[q] = IF q = p THEN "exit" ELSE pc[q]
        /\ pc' \in [Slot -> PC]
    BY <1>9, Zenon DEF Goto, TypeOK, PC
  <2>2. UNCHANGED <<state, lock, ctx>> /\ pc[p] = "user" BY <1>9
  <2>3. TypeOK' BY <2>1, <2>2, <1>3, <1>5, Zenon DEF TypeOK
  <2>4. PlaceInv' BY <2>1, <2>2, <1>2, <1>3 DEF PlaceInv
  <2>5. CpuInv'
    <3>1. \A d \in Cpu : lock = d => d # c /\ irq'[d] = irq[d] /\ (cproc[d] # NoProc => pc'[cproc[d]] = pc[cproc[d]])
      BY <1>2, <1>4, <2>1 DEF TypeOK
    <3> QED BY <3>1, <2>2, <1>3 DEF CpuInv
  <2>6. TickInv'
    <3>1. \A q \in Slot : pc'[q] \in Timing \/ pc[q] \in Timing => q # p BY <1>2, <2>1, Zenon DEF Timing
    <3>2. \A d \in Cpu : d # c /\ irq[d] # "none" => lock' # d BY <2>2, Zenon DEF TickInv
    <3> QED BY <3>1, <3>2, <2>1, <2>2, <1>8, Zenon
  <2>7. ForkInv' /\ FamilyInv' /\ PidInv' /\ GetInv'
    <3>1. pc'[initproc] \in {"user", "sysret", "fork", "wait", "exit", "panic"} \cup Forking
      BY <2>1, Zenon DEF FamilyInv
    <3>3. \A q \in Slot : \/ pc'[q] = pc[q]
                          \/ pc[q] \notin Forking /\ pc'[q] \notin Forking \cup {"getppid_pid"}
      BY <2>1, <2>2, Zenon DEF Forking
    <3> QED BY <3>1, <3>3, <2>2, <1>3, FamilyFrame, Zenon
  <2>8. WaitInv' BY <2>2, <1>3 DEF WaitInv
  <2> QED BY <2>3, <2>4, <2>5, <2>6, <2>7, <2>8, Zenon
<1>10. CASE /\ ~(killed[p] /\ pc[p] = "user")
            /\ lock = NoCpu /\ lock' = c
            /\ state' = [state EXCEPT ![p] = "RUNNABLE"]
            /\ ctx' = [ctx EXCEPT ![p] = "yield"]
            /\ UNCHANGED pc
  <2>1. \A q \in Slot : /\ state'[q] = IF q = p THEN "RUNNABLE" ELSE state[q]
                        /\ ctx'[q] = IF q = p THEN "yield" ELSE ctx[q]
    BY <1>10, Zenon DEF TypeOK
  <2>2. lock = NoCpu /\ lock' = c /\ pc' = pc BY <1>10, Zenon
  <2>3. TypeOK'
    <3>1. state' \in [Slot -> State] BY <1>10, Zenon DEF TypeOK, State
    <3>2. ctx' \in [Slot -> Ctx] BY <1>10, Zenon DEF TypeOK, Ctx
    <3> QED BY <3>1, <3>2, <2>2, <1>3, <1>5, Zenon DEF TypeOK
  <2>4. PlaceInv' BY <2>1, <2>2, <1>2, <1>3 DEF PlaceInv
  <2>5. CpuInv'
    <3>1. \A q \in Slot : q # p => /\ state'[q] = "RUNNING" <=> state[q] = "RUNNING"
                                   /\ state[q] = "RUNNING" => ctx'[q] = ctx[q]
      BY <2>1, Zenon
    <3>2. state'[p] = "RUNNABLE" /\ irq'[c] = "none" /\ tickslock' # c BY <2>1, <1>2, <1>3, <1>4, Zenon
    <3> QED BY <3>1, <3>2, <2>2, <1>2, <1>3, CpuTakes
  <2>6. TickInv'
    <3>1. \A q \in Slot : pc'[q] \in Timing \/ pc[q] \in Timing => q # p BY <1>2, <2>2, Zenon
    <3>2. \A d \in Cpu : d # c /\ irq[d] # "none" => lock' # d BY <2>2, Zenon
    <3>3. \A q \in Slot : state'[q] = "SLEEPING" => state[q] = "SLEEPING" BY <2>1, Zenon
    <3> QED BY <3>1, <3>2, <3>3, <2>1, <2>2, <1>8, Zenon
  <2>7. ForkInv' /\ FamilyInv' /\ PidInv' /\ GetInv'
    <3>1. pc'[initproc] \in {"user", "sysret", "fork", "wait", "exit", "panic"} \cup Forking BY <2>2, Zenon DEF FamilyInv
    <3>3. \A q \in Slot : \/ state'[q] = state[q]
                          \/ /\ state[q] \in {"SLEEPING", "RUNNABLE", "RUNNING"}
                             /\ state'[q] \in {"SLEEPING", "RUNNABLE", "RUNNING"}
      BY <2>1, <1>2, Zenon
    <3>4. \A q \in Slot : state[q] = "EMBRYO" => ctx'[q] = ctx[q] BY <2>1, <1>2, Zenon
    <3> QED BY <3>1, <3>3, <3>4, <2>2, <1>3, FamilyFrame, Zenon
  <2>8. WaitInv' BY <2>1, <1>3 DEF WaitInv
  <2> QED BY <2>3, <2>4, <2>5, <2>6, <2>7, <2>8, Zenon
<1> QED BY <1>1, <1>9, <1>10, Zenon
-----------------------------------------------------------------------------
(* A step that changes nothing of the kernel                               *)
LEMMA StutterInv == IInv /\ UNCHANGED vars => IInv'
<1> SUFFICES ASSUME IInv, UNCHANGED vars PROVE IInv' BY Zenon
<1>1. UNCHANGED <<state, pid, parent, killed, chan, kstack, nextpid, lock, tickslock, ticks, cproc, scan,
                  irq, pc, ctx, loc, asked>>
  BY Zenon DEF vars
<1>2. Late' = Late BY <1>1, Zenon DEF Late, Elapsed
<1>3. TypeOK' /\ PlaceInv' /\ CpuInv' BY <1>1 DEF IInv, TypeOK, PlaceInv, CpuInv
<1>4. TickInv' BY <1>1, <1>2, Zenon DEF IInv, TickInv
<1>5. ForkInv' /\ FamilyInv' BY <1>1 DEF IInv, ForkInv, FamilyInv, Alive
<1>6. PidInv' /\ WaitInv' /\ GetInv' BY <1>1, Zenon DEF IInv, PidInv, WaitInv, GetInv
<1> QED BY <1>3, <1>4, <1>5, <1>6, Zenon DEF IInv

(* Every step of every CPU                                                 *)
LEMMA NextInv == IInv /\ [Next]_vars => IInv'
<1> SUFFICES ASSUME IInv, [Next]_vars PROVE IInv' BY Zenon
<1>1. CASE UNCHANGED vars BY <1>1, StutterInv, Zenon
<1>2. ASSUME NEW c \in Cpu, Scheduler(c) \/ syscall(c) \/ Kernel(c) \/ Timer(c) \/ panic_loop(c)
      PROVE  IInv'
  <2>1. CASE Scheduler(c)
    BY <2>1, SchedAcquireInv, SchedSwitchInv, SchedReleaseInv, SwtchOutInv, SwtchInInv, Zenon DEF Scheduler
  <2>2. CASE syscall(c) BY <2>2, SyscallInv, Zenon
  <2>3. CASE Kernel(c)
    BY <2>3, SysretInv, ForkStepInv, ForkStackInv, ForkCopyInv, ForkPublishInv, ExitInv, ExitPanicsInv,
       WaitStepInv, KillInv, SysSleepInv, SleepTestInv, SleepGoInv, SysGetppidInv, GetppidPidInv, Zenon DEF Kernel
  <2>4. CASE Timer(c) BY <2>4, TimerTickInv, TimerWakeupInv, TimerYieldInv, Zenon DEF Timer
  <2>5. CASE panic_loop(c) BY <2>5, <1>1, Zenon DEF panic_loop
  <2> QED BY <1>2, <2>1, <2>2, <2>3, <2>4, <2>5, Zenon
<1> QED BY <1>1, <1>2, Zenon DEF Next

(* The invariant of the process table, from which the others follow.       *)
THEOREM Invariant == Spec => []IInv
BY InitInv, NextInv, PTL DEF Spec

(* Context switches are safe (scheduler, sched, yield, sleep, forkret): a  *)
(* process is on one CPU and on an allocated stack, and ptable.lock is     *)
(* released by the context it was handed to.                               *)
THEOREM SwitchesAreSafe == Spec => []SwtchIsSafe
<1>1. IInv => SwtchIsSafe
  <2> SUFFICES ASSUME IInv PROVE SwtchIsSafe BY Zenon
  <2>1. OneCpuPerProcess
    <3>1. \A c \in Cpu : cproc[c] # NoProc => kstack[cproc[c]] BY DEF IInv, CpuInv, PlaceInv, TypeOK
    <3> QED BY <3>1, Zenon DEF IInv, CpuInv, OneCpuPerProcess
  <2>2. LockHandover BY Zenon DEF IInv, CpuInv, LockHandover
  <2> QED BY <2>1, <2>2, Zenon DEF IInv, SwtchIsSafe
<1> QED BY <1>1, Invariant, PTL

(* The processes are a tree under init with distinct pids, and no parent   *)
(* sleeps in wait() through the exit of a child (fork, exit, wait, kill).  *)
THEOREM TreeAndExits == Spec => []FamilyTree
<1>1. IInv => FamilyTree
  <2> SUFFICES ASSUME IInv PROVE FamilyTree BY Zenon
  <2>1. TreeUnderInit
    <3> SUFFICES ASSUME NEW p \in Slot \ {initproc}, Alive(p) \/ state[p] = "ZOMBIE"
                 PROVE  /\ parent[p] \in Slot \ {p} /\ Alive(parent[p])
                        /\ \A q \in Slot \ {p} : state[q] # "UNUSED" => pid[q] # pid[p]
      BY Zenon DEF TreeUnderInit
    <3>1. parent[p] \in Slot \ {p} /\ Alive(parent[p]) BY Numbers, Zenon DEF IInv, FamilyInv
    <3>2. \A q \in Slot \ {p} : state[q] # "UNUSED" => pid[q] # pid[p] BY Zenon DEF IInv, PidInv
    <3> QED BY <3>1, <3>2, Zenon
  <2>2. WaitMissesNoExit BY Zenon DEF IInv, WaitInv, WaitMissesNoExit
  <2> QED BY <2>1, <2>2, Zenon DEF FamilyTree
<1> QED BY <1>1, Invariant, PTL

(* sys_sleep does not sleep past its time, over every wrap of ticks.       *)
THEOREM SleepsAreTimed == Spec => []NoOversleep
<1>1. IInv => NoOversleep BY Zenon DEF IInv, TickInv, Late, NoOversleep
<1> QED BY <1>1, Invariant, PTL
-----------------------------------------------------------------------------
(* Where a process may go from where it is                                 *)
LifeStep ==
  {<<"UNUSED", "EMBRYO">>, <<"EMBRYO", "UNUSED">>, <<"EMBRYO", "RUNNABLE">>,
   <<"RUNNABLE", "RUNNING">>, <<"RUNNING", "RUNNABLE">>,
   <<"RUNNING", "SLEEPING">>, <<"SLEEPING", "RUNNABLE">>,
   <<"RUNNING", "ZOMBIE">>, <<"ZOMBIE", "UNUSED">>}
Lives == \A p \in Slot : state'[p] # state[p] => <<state[p], state'[p]>> \in LifeStep

(* The functions of proc.c that write a state each write the next of it.   *)
LEMMA LivesOn == IInv /\ Next => Lives
<1> SUFFICES ASSUME IInv, NEW c \in Cpu,
                    Scheduler(c) \/ syscall(c) \/ Kernel(c) \/ Timer(c) \/ panic_loop(c)
             PROVE  Lives
  BY Zenon DEF Next
<1> USE Numbers DEF IInv
<1>1. CASE UNCHANGED state BY <1>1, Zenon DEF Lives
<1>2. ASSUME NEW p \in Slot, NEW s, state' = [state EXCEPT ![p] = s], <<state[p], s>> \in LifeStep
      PROVE  Lives
  <2>1. \A q \in Slot : state'[q] = IF q = p THEN s ELSE state[q] BY <1>2, Zenon DEF TypeOK
  <2> QED BY <1>2, <2>1, Zenon DEF Lives
<1>3. CASE sched_switch(c)
  <2> DEFINE p == First(Runnable(c))
  <2>1. p \in Slot /\ state[p] = "RUNNABLE" BY <1>3, FirstIn, Zenon DEF sched_switch, Runnable
  <2>2. state' = [state EXCEPT ![p] = "RUNNING"] BY <1>3, Zenon DEF sched_switch
  <2> HIDE DEF p
  <2> QED BY <2>1, <2>2, <1>2, Zenon DEF LifeStep
<1>4. CASE fork(c)
  <2> DEFINE unused == {q \in Slot : state[q] = "UNUSED"}
  <2>1. state' = state \/ (unused # {} /\ state' = [state EXCEPT ![First(unused)] = "EMBRYO"])
    BY <1>4, Zenon DEF fork
  <2>2. unused # {} => First(unused) \in Slot /\ state[First(unused)] = "UNUSED" BY FirstIn, Zenon
  <2> HIDE DEF unused
  <2> QED BY <2>1, <2>2, <1>1, <1>2, Zenon DEF LifeStep
<1>5. CASE fork_stack(c) \/ fork_copy(c) \/ fork_publish(c)
  <2>1. PICK p \in Slot : /\ pc[p] \in Forking
                          /\ \/ state' = state
                             \/ state' = [state EXCEPT ![loc[p].ptr] = "UNUSED"]
                             \/ state' = [state EXCEPT ![loc[p].ptr] = "RUNNABLE"]
    BY <1>5, Zenon DEF fork_stack, fork_copy, fork_publish, Forking
  <2>2. loc[p].ptr \in Slot /\ state[loc[p].ptr] = "EMBRYO" BY <2>1, Zenon DEF ForkInv
  <2> QED BY <2>1, <2>2, <1>1, <1>2, Zenon DEF LifeStep
<1>6. CASE exit(c)
  <2>1. PICK p \in Slot : exit(c)!(p) BY <1>6, Zenon DEF exit
  <2> DEFINE woken == wakeup1(state, parent[p])
             woken2 == IF \E q \in {q \in Slot : parent[q] = p} : woken[q] = "ZOMBIE"
                       THEN wakeup1(woken, initproc) ELSE woken
  <2>2. state[p] = "RUNNING" /\ state' = [woken2 EXCEPT ![p] = "ZOMBIE"] BY <2>1, Zenon DEF Runs
  <2>3. /\ DOMAIN woken2 = Slot
        /\ \A q \in Slot : woken2[q] = state[q] \/ (state[q] = "SLEEPING" /\ woken2[q] = "RUNNABLE")
    BY Zenon DEF wakeup1
  <2> HIDE DEF woken2
  <2>4. \A q \in Slot : state'[q] = IF q = p THEN "ZOMBIE" ELSE woken2[q] BY <2>2, <2>3, Zenon
  <2> QED BY <2>2, <2>3, <2>4, Zenon DEF Lives, LifeStep
<1>7. CASE wait(c)
  <2>1. PICK p \in Slot : wait(c)!(p) BY <1>7, Zenon DEF wait
  <2> DEFINE dead == {q \in {q \in Slot : parent[q] = p} : state[q] = "ZOMBIE"}
  <2>2. \/ state' = state
        \/ dead # {} /\ state' = [state EXCEPT ![First(dead)] = "UNUSED"]
        \/ state[p] = "RUNNING" /\ state' = [state EXCEPT ![p] = "SLEEPING"]
    BY <2>1, Zenon DEF Runs
  <2>3. dead # {} => First(dead) \in Slot /\ state[First(dead)] = "ZOMBIE" BY FirstIn, Zenon
  <2> HIDE DEF dead
  <2> QED BY <2>2, <2>3, <1>1, <1>2, Zenon DEF LifeStep
<1>8. CASE kill(c)
  <2>1. PICK p \in Slot, k \in KillPids : kill(c)!(p, k) BY <1>8, Zenon DEF kill
  <2> DEFINE found == {q \in Slot : pid[q] = k}
             v == First(found)
  <2>2. state' = state \/ (found # {} /\ state' = [state EXCEPT ![v] = KilledState(state[v])])
    BY <2>1, Zenon
  <2>3. found # {} => v \in Slot BY FirstIn, Zenon
  <2> HIDE DEF found, v
  <2>4. found # {} /\ state[v] # "SLEEPING" => [state EXCEPT ![v] = KilledState(state[v])] = state
    BY <2>3, Zenon DEF KilledState, TypeOK
  <2>5. found # {} /\ state[v] = "SLEEPING" => KilledState(state[v]) = "RUNNABLE" BY Zenon DEF KilledState
  <2> QED BY <2>2, <2>3, <2>4, <2>5, <1>1, <1>2, Zenon DEF LifeStep
<1>9. CASE sleep_go(c) BY <1>9, <1>2, Zenon DEF sleep_go, Runs, LifeStep
<1>10. CASE timer_wakeup(c) BY <1>10, Zenon DEF timer_wakeup, wakeup1, Lives, LifeStep
<1>11. CASE timer_yield(c)
  <2>1. PICK p \in Slot : timer_yield(c)!(p) BY <1>11, Zenon DEF timer_yield
  <2>2. state[p] = "RUNNING" BY <2>1, YieldFacts, Zenon
  <2> QED BY <2>1, <2>2, <1>1, <1>2, Zenon DEF LifeStep
<1>12. CASE syscall(c) \/ sysret(c) \/ sys_sleep(c) \/ sleep_test(c) \/ sys_getppid(c) \/ getppid_pid(c)
          \/ exit_panics(c) \/ panic_loop(c)
  BY <1>12, <1>1, Zenon DEF syscall, sysret, sys_sleep, sleep_test, sys_getppid, getppid_pid, exit_panics,
     panic_loop, vars, table
<1>13. CASE sched_acquire(c) \/ sched_release(c) \/ swtch_out(c) \/ swtch_in(c) \/ timer_tick(c)
  BY <1>13, <1>1, Zenon DEF sched_acquire, sched_release, swtch_out, swtch_in, timer_tick, table
<1> QED BY <1>3, <1>4, <1>5, <1>6, <1>7, <1>8, <1>9, <1>10, <1>11, <1>12, <1>13, Zenon DEF Scheduler, Kernel, Timer

(* Processes keep to their life cycle, and getppid() called by a child of  *)
(* a living parent returns that parent's pid, though it takes no lock.     *)
THEOREM StepsAreLegal == Spec => LegalSteps
<1>1. IInv /\ [Next]_vars =>
        [\A p \in Slot : state'[p] # state[p] =>
           <<state[p], state'[p]>> \in
             {<<"UNUSED", "EMBRYO">>, <<"EMBRYO", "UNUSED">>, <<"EMBRYO", "RUNNABLE">>,
              <<"RUNNABLE", "RUNNING">>, <<"RUNNING", "RUNNABLE">>,
              <<"RUNNING", "SLEEPING">>, <<"SLEEPING", "RUNNABLE">>,
              <<"RUNNING", "ZOMBIE">>, <<"ZOMBIE", "UNUSED">>}]_vars
  BY LivesOn, Zenon DEF Lives, LifeStep
<1>2. IInv /\ [Next]_vars =>
        [\A c \in Cpu, p \in Slot :
           /\ Runs(c, p) /\ pc[p] = "getppid_pid" /\ pc'[p] = "sysret"
           /\ parent[p] = loc[p].ptr
           => pid[loc[p].ptr] = loc[p].val]_vars
  BY Zenon DEF IInv, GetInv
<1>3. Spec => LifeCycle BY <1>1, Invariant, PTL DEF Spec, LifeCycle
<1>4. Spec => GetppidOfLiveParent BY <1>2, Invariant, PTL DEF Spec, GetppidOfLiveParent
<1> QED BY <1>3, <1>4, Zenon DEF LegalSteps
=============================================================================
