-------------------------------- MODULE Proc --------------------------------
(***************************************************************************)
(* xv6/proc.c with the parts of trap.c and sysproc.c that drive it: the    *)
(* process table, the per-CPU schedulers, fork, exit, wait, kill, sleep    *)
(* and wakeup (used by wait and by sys_sleep), and the timer interrupt.    *)
(*                                                                         *)
(* ptable.lock is explicit because it is handed over by swtch: the side    *)
(* that acquires it is not the side that releases it.  A stretch of code   *)
(* that acquires and releases it without calling sched is one action.      *)
(* What the code does to the table without the lock is an action of its    *)
(* own.  tickslock is explicit too.  Interrupts arrive on a CPU only while *)
(* it holds no spinlock (pushcli in acquire).                              *)
(*                                                                         *)
(* User programs are arbitrary, from the system calls in Calls.  init is   *)
(* any program that forks and waits, and exits when its fork fails         *)
(* (init.c:25-28) or it is killed; exit() then panics (proc.c:234) and its *)
(* CPU stops.  A fault in user mode (trap.c:94) is an exit.                *)
(*                                                                         *)
(* A definition X_Suffix is a mutant of X, a bug the code could have had;  *)
(* it is used by no other definition.                                      *)
(***************************************************************************)
EXTENDS Integers, FiniteSets

CONSTANTS
  NPROC,       \* slots of the process table
  NCPU,        \* CPUs
  MaxPid,      \* bound on nextpid: fork is not called beyond it
  TICKS,       \* ticks is a uint: arithmetic modulo TICKS (2^32)
  Calls,       \* system calls user programs make
  KillPids,    \* arguments of kill
  SleepFor     \* arguments of sleep

ASSUME ProcAssumption ==
  /\ NPROC \in Nat \ {0} /\ NCPU \in Nat \ {0} /\ TICKS \in Nat \ {0}
  /\ MaxPid \in Nat
  /\ Calls \subseteq {"fork", "exit", "wait", "kill", "sleep", "getppid"}
  /\ KillPids \subseteq Nat
  /\ SleepFor \subseteq 0..TICKS-1

Slot == 1..NPROC
Cpu == 0..NCPU-1
NoProc == 0
NoCpu == NCPU
initproc == 1
NoChan == 0             \* the null channel
TicksChan == NPROC + 1  \* &ticks; the channel of wait() is the caller's slot

VARIABLES
  state, pid, parent, killed, chan, kstack,   \* struct proc, per slot
  nextpid,
  lock, tickslock,    \* the CPU that holds ptable.lock, tickslock
  ticks,
  cproc,              \* c->proc: the process whose context the CPU runs in
  scan,               \* scheduler's loop: next slot to look at, 0 outside it
  irq,                \* timer interrupt in progress on the CPU
  pc,                 \* where the process is in its own code
  ctx,                \* on top of that: running, or inside sched() from where
  loc,                \* locals: np in fork, ticks0 and n in sys_sleep,
                      \* the pointer sys_getppid has read
  asked               \* history: pids of processes that some kill() named

vars == <<state, pid, parent, killed, chan, kstack, nextpid, lock, tickslock,
          ticks, cproc, scan, irq, pc, ctx, loc, asked>>
table == <<state, pid, parent, killed, chan, kstack, nextpid, asked>>
clock == <<tickslock, ticks>>
cpus == <<cproc, scan, irq>>

State == {"UNUSED", "EMBRYO", "SLEEPING", "RUNNABLE", "RUNNING", "ZOMBIE"}
PC == {"user", "sysret", "fork", "fork_stack", "fork_copy", "fork_publish",
       "exit", "panic", "wait", "kill", "sleep", "sleep_test", "sleep_go",
       "getppid", "getppid_pid"}
Ctx == {"run", "forkret", "yield", "sleep"}
NoLoc == [ptr |-> 0, val |-> 0, n |-> 0]

(* The first slot of a set: every loop over ptable.proc goes upwards.      *)
First(S) == CHOOSE p \in S : \A q \in S : p <= q

-----------------------------------------------------------------------------
(* userinit: the first process, ready to be scheduled.                     *)
Init ==
  /\ state = [p \in Slot |-> IF p = initproc THEN "RUNNABLE" ELSE "UNUSED"]
  /\ pid = [p \in Slot |-> IF p = initproc THEN 1 ELSE 0]
  /\ parent = [p \in Slot |-> NoProc]
  /\ killed = [p \in Slot |-> FALSE]
  /\ chan = [p \in Slot |-> NoChan]
  /\ kstack = [p \in Slot |-> p = initproc]
  /\ nextpid = 2
  /\ lock = NoCpu /\ tickslock = NoCpu
  /\ ticks = 0
  /\ cproc = [c \in Cpu |-> NoProc]
  /\ scan = [c \in Cpu |-> 0]
  /\ irq = [c \in Cpu |-> "none"]
  /\ pc = [p \in Slot |-> "user"]
  /\ ctx = [p \in Slot |-> "forkret"]
  /\ loc = [p \in Slot |-> NoLoc]
  /\ asked = {}

-----------------------------------------------------------------------------
(* scheduler(): take ptable.lock and walk the table.                       *)
sched_acquire(c) ==
  /\ cproc[c] = NoProc /\ scan[c] = 0 /\ irq[c] = "none"
  /\ lock = NoCpu
  /\ lock' = c
  /\ scan' = [scan EXCEPT ![c] = 1]
  /\ UNCHANGED <<table, clock, cproc, irq, pc, ctx, loc>>

Runnable(c) == {p \in Slot : p >= scan[c] /\ state[p] = "RUNNABLE"}

(* p++ at the end of the loop body.                                        *)
NextSlot_Same(p) == p
NextSlot(p) == p + 1

(* The next RUNNABLE slot: c->proc = p, RUNNING, swtch to its context.     *)
sched_switch(c) ==
  /\ cproc[c] = NoProc /\ lock = c /\ Runnable(c) # {}
  /\ LET p == First(Runnable(c)) IN
       /\ state' = [state EXCEPT ![p] = "RUNNING"]
       /\ cproc' = [cproc EXCEPT ![c] = p]
       /\ scan' = [scan EXCEPT ![c] = NextSlot(p)]
  /\ UNCHANGED <<pid, parent, killed, chan, kstack, nextpid, asked, lock, clock,
                 irq, pc, ctx, loc>>

(* The end of the table: release, sti, start again.                        *)
sched_release(c) ==
  /\ cproc[c] = NoProc /\ lock = c /\ Runnable(c) = {}
  /\ lock' = NoCpu
  /\ scan' = [scan EXCEPT ![c] = 0]
  /\ UNCHANGED <<table, clock, cproc, irq, pc, ctx, loc>>

(* swtch(&p->context, scheduler) at the end of sched(): the CPU is back in *)
(* scheduler(), still holding ptable.lock, and clears c->proc.             *)
swtch_out(c) ==
  /\ cproc[c] # NoProc /\ lock = c
  /\ state[cproc[c]] # "RUNNING"
  /\ cproc' = [cproc EXCEPT ![c] = NoProc]
  /\ UNCHANGED <<table, lock, clock, scan, irq, pc, ctx, loc>>

(* Coming out of sched(), only wait() goes on with ptable.lock held.       *)
KeepsLock(p) == ctx[p] = "sleep" /\ pc[p] = "wait"

(* A process just switched in comes out of sched().  forkret and yield     *)
(* release ptable.lock; yield was called by trap, which then tests killed. *)
(* sleep clears chan; for wait it goes on holding the lock, for sys_sleep  *)
(* it releases it and reacquires tickslock.                                *)
swtch_in(c) ==
  LET p == cproc[c] IN
  /\ p # NoProc /\ lock = c
  /\ state[p] = "RUNNING" /\ ctx[p] # "run"
  /\ ctx' = [ctx EXCEPT ![p] = "run"]
  /\ chan' = IF ctx[p] = "sleep" THEN [chan EXCEPT ![p] = NoChan] ELSE chan
  /\ lock' = IF KeepsLock(p) THEN c ELSE NoCpu
  /\ pc' = IF ctx[p] = "yield" /\ killed[p] /\ pc[p] = "user"
           THEN [pc EXCEPT ![p] = "exit"] ELSE pc
  /\ UNCHANGED <<state, pid, parent, killed, kstack, nextpid, asked, clock, cpus, loc>>

-----------------------------------------------------------------------------
(* The CPU executes p's own code, no interrupt pending, no spinlock held   *)
(* unless the action says so.                                              *)
Runs(c, p) ==
  /\ cproc[c] = p /\ p # NoProc /\ irq[c] = "none"
  /\ state[p] = "RUNNING" /\ ctx[p] = "run"

Goto(p, l) == pc' = [pc EXCEPT ![p] = l]

(* p's ready stretch of code takes ptable.lock, is done, and releases it.  *)
WithLock == lock = NoCpu /\ lock' = NoCpu

UserCalls(p) ==
  {f \in Calls : /\ p = initproc => f \in {"fork", "wait"}
                 /\ f = "fork" => nextpid <= MaxPid}

(* trap(), T_SYSCALL: killed is tested before and after the call.          *)
syscall(c) ==
  \E p \in Slot :
    /\ Runs(c, p) /\ pc[p] = "user"
    /\ IF killed[p] THEN Goto(p, "exit")
       ELSE \E f \in UserCalls(p) : Goto(p, f)
    /\ UNCHANGED <<table, lock, clock, cpus, ctx, loc>>

sysret(c) ==
  \E p \in Slot :
    /\ Runs(c, p) /\ pc[p] = "sysret"
    /\ Goto(p, IF killed[p] THEN "exit" ELSE "user")
    /\ UNCHANGED <<table, lock, clock, cpus, ctx, loc>>

(* fork() has returned -1.  init prints a message and calls exit()         *)
(* (init.c:25-28); what another program does next is not fixed.            *)
ForkFailed(p) == Goto(p, IF p = initproc THEN "exit" ELSE "sysret")

(* allocproc up to release: the first UNUSED slot becomes EMBRYO.          *)
fork(c) ==
  \E p \in Slot :
    LET unused == {q \in Slot : state[q] = "UNUSED"}
        np == First(unused) IN
    /\ Runs(c, p) /\ pc[p] = "fork"
    /\ WithLock
    /\ IF unused = {}
       THEN ForkFailed(p) /\ UNCHANGED <<state, pid, nextpid, loc>>
       ELSE /\ state' = [state EXCEPT ![np] = "EMBRYO"]
            /\ pid' = [pid EXCEPT ![np] = nextpid]
            /\ nextpid' = nextpid + 1
            /\ loc' = [loc EXCEPT ![p] = [NoLoc EXCEPT !.ptr = np]]
            /\ Goto(p, "fork_stack")
    /\ UNCHANGED <<parent, killed, chan, kstack, asked, clock, cpus, ctx>>

(* The rest of allocproc, without the lock: kalloc may fail.               *)
fork_stack(c) ==
  \E p \in Slot :
    LET np == loc[p].ptr IN
    /\ Runs(c, p) /\ pc[p] = "fork_stack"
    /\ \/ /\ kstack' = [kstack EXCEPT ![np] = TRUE]
          /\ Goto(p, "fork_copy")
          /\ ctx' = [ctx EXCEPT ![np] = "forkret"]
          /\ UNCHANGED <<state, loc>>
       \/ /\ state' = [state EXCEPT ![np] = "UNUSED"]
          /\ loc' = [loc EXCEPT ![p] = NoLoc]
          /\ ForkFailed(p)
          /\ UNCHANGED <<kstack, ctx>>
    /\ UNCHANGED <<pid, parent, killed, chan, nextpid, asked, lock, clock, cpus>>

(* fork, without the lock: copyuvm may fail, otherwise the child is filled *)
(* in.                                                                     *)
fork_copy(c) ==
  \E p \in Slot :
    LET np == loc[p].ptr IN
    /\ Runs(c, p) /\ pc[p] = "fork_copy"
    /\ \/ /\ parent' = [parent EXCEPT ![np] = p]
          /\ pc' = [pc EXCEPT ![p] = "fork_publish", ![np] = "user"]
          /\ UNCHANGED <<state, kstack, loc>>
       \/ /\ kstack' = [kstack EXCEPT ![np] = FALSE]
          /\ state' = [state EXCEPT ![np] = "UNUSED"]
          /\ loc' = [loc EXCEPT ![p] = NoLoc]
          /\ ForkFailed(p)
          /\ UNCHANGED parent
    /\ UNCHANGED <<pid, killed, chan, nextpid, asked, lock, clock, cpus, ctx>>

fork_publish(c) ==
  \E p \in Slot :
    /\ Runs(c, p) /\ pc[p] = "fork_publish"
    /\ WithLock
    /\ state' = [state EXCEPT ![loc[p].ptr] = "RUNNABLE"]
    /\ loc' = [loc EXCEPT ![p] = NoLoc]
    /\ Goto(p, "sysret")
    /\ UNCHANGED <<pid, parent, killed, chan, kstack, nextpid, asked, clock, cpus, ctx>>

-----------------------------------------------------------------------------
(* wakeup1(ch) applied to a state function.                                *)
wakeup1_Nobody(st, ch) == st
wakeup1(st, ch) ==
  [p \in Slot |-> IF st[p] = "SLEEPING" /\ chan[p] = ch THEN "RUNNABLE" ELSE st[p]]

(* exit() passes the children of p to init.                                *)
Adopted_Nobody(p) == parent
Adopted(p) == [q \in Slot |-> IF parent[q] = p THEN initproc ELSE parent[q]]

(* exit(): files and cwd are released before, without this lock.  Wake the *)
(* parent, hand the children to init, become ZOMBIE and enter sched with   *)
(* the lock held.                                                          *)
exit(c) ==
  \E p \in Slot :
    LET orphans == {q \in Slot : parent[q] = p}
        woken == wakeup1(state, parent[p])
        woken2 == IF \E q \in orphans : woken[q] = "ZOMBIE"
                  THEN wakeup1(woken, initproc) ELSE woken IN
    /\ Runs(c, p) /\ pc[p] = "exit" /\ p # initproc
    /\ lock = NoCpu
    /\ lock' = c
    /\ parent' = Adopted(p)
    /\ state' = [woken2 EXCEPT ![p] = "ZOMBIE"]
    /\ UNCHANGED <<pid, killed, chan, kstack, nextpid, asked, clock, cpus, pc, ctx, loc>>

(* exit() of init: panic("init exiting").  Interrupts go off and the CPU   *)
(* stays in panic's for(;;), where init remains RUNNING; the others go on. *)
exit_panics(c) ==
  /\ Runs(c, initproc) /\ pc[initproc] = "exit"
  /\ Goto(initproc, "panic")
  /\ UNCHANGED <<table, lock, clock, cpus, ctx, loc>>

panic_loop(c) == Runs(c, initproc) /\ pc[initproc] = "panic" /\ UNCHANGED vars

Panicked == pc[initproc] = "panic"

(* One round of the loop of wait(), on entry or after sleep returned with  *)
(* the lock held: reap the first ZOMBIE child, give up, or sleep.          *)
wait(c) ==
  \E p \in Slot :
    LET kids == {q \in Slot : parent[q] = p}
        dead == {q \in kids : state[q] = "ZOMBIE"}
        z == First(dead) IN
    /\ Runs(c, p) /\ pc[p] = "wait"
    /\ lock \in {NoCpu, c}
    /\ \/ /\ dead # {}
          /\ kstack' = [kstack EXCEPT ![z] = FALSE]
          /\ pid' = [pid EXCEPT ![z] = 0]
          /\ parent' = [parent EXCEPT ![z] = NoProc]
          /\ killed' = [killed EXCEPT ![z] = FALSE]
          /\ state' = [state EXCEPT ![z] = "UNUSED"]
          /\ pc' = [pc EXCEPT ![p] = "sysret", ![z] = "user"]
          /\ lock' = NoCpu
          /\ UNCHANGED <<chan, ctx>>
       \/ /\ dead = {} /\ (kids = {} \/ killed[p])
          /\ Goto(p, "sysret")
          /\ lock' = NoCpu
          /\ UNCHANGED <<state, pid, parent, killed, chan, kstack, ctx>>
       \/ /\ dead = {} /\ kids # {} /\ ~killed[p]
          /\ chan' = [chan EXCEPT ![p] = p]
          /\ state' = [state EXCEPT ![p] = "SLEEPING"]
          /\ ctx' = [ctx EXCEPT ![p] = "sleep"]
          /\ lock' = c
          /\ UNCHANGED <<pid, parent, killed, kstack, pc>>
    /\ UNCHANGED <<nextpid, asked, clock, cpus, loc>>

(* The state kill() leaves its victim in.                                  *)
KilledState_Same(s) == s
KilledState(s) == IF s = "SLEEPING" THEN "RUNNABLE" ELSE s

(* kill(k): the first slot with that pid, whatever its state.              *)
kill(c) ==
  \E p \in Slot, k \in KillPids :
    LET found == {q \in Slot : pid[q] = k}
        q == First(found) IN
    /\ Runs(c, p) /\ pc[p] = "kill"
    /\ WithLock
    /\ IF found = {}
       THEN UNCHANGED <<state, killed>>
       ELSE /\ killed' = [killed EXCEPT ![q] = TRUE]
            /\ state' = [state EXCEPT ![q] = KilledState(@)]
    /\ asked' = IF \E r \in found : state[r] # "UNUSED" THEN asked \cup {k} ELSE asked
    /\ Goto(p, "sysret")
    /\ UNCHANGED <<pid, parent, chan, kstack, nextpid, clock, cpus, ctx, loc>>

-----------------------------------------------------------------------------
(* sys_sleep(k): take tickslock; the first time ticks0 = ticks.            *)
sys_sleep(c) ==
  \E p \in Slot, k \in SleepFor :
    /\ Runs(c, p) /\ pc[p] = "sleep"
    /\ tickslock = NoCpu
    /\ tickslock' = c
    /\ IF loc[p].ptr = 1 THEN UNCHANGED loc
       ELSE loc' = [loc EXCEPT ![p] = [ptr |-> 1, val |-> ticks, n |-> k]]
    /\ Goto(p, "sleep_test")
    /\ UNCHANGED <<table, lock, ticks, cpus, ctx>>

Elapsed(p) == (ticks - loc[p].val) % TICKS

sleep_test_Unlocks(c) ==
  \E p \in Slot :
    /\ Runs(c, p) /\ pc[p] = "sleep_test"
    /\ IF Elapsed(p) < loc[p].n /\ ~killed[p]
       THEN Goto(p, "sleep_go") /\ tickslock' = NoCpu /\ UNCHANGED loc
       ELSE /\ Goto(p, "sysret")
            /\ tickslock' = NoCpu
            /\ loc' = [loc EXCEPT ![p] = NoLoc]
    /\ UNCHANGED <<table, lock, ticks, cpus, ctx>>

(* while(ticks - ticks0 < n): return, give up if killed, or go to sleep.   *)
sleep_test(c) ==
  \E p \in Slot :
    /\ Runs(c, p) /\ pc[p] = "sleep_test"
    /\ IF Elapsed(p) < loc[p].n /\ ~killed[p]
       THEN Goto(p, "sleep_go") /\ UNCHANGED <<tickslock, loc>>
       ELSE /\ Goto(p, "sysret")
            /\ tickslock' = NoCpu
            /\ loc' = [loc EXCEPT ![p] = NoLoc]
    /\ UNCHANGED <<table, lock, ticks, cpus, ctx>>

(* sleep(&ticks, &tickslock): acquire ptable.lock, release tickslock.      *)
sleep_go(c) ==
  \E p \in Slot :
    /\ Runs(c, p) /\ pc[p] = "sleep_go"
    /\ lock = NoCpu
    /\ lock' = c
    /\ tickslock' = NoCpu
    /\ chan' = [chan EXCEPT ![p] = TicksChan]
    /\ state' = [state EXCEPT ![p] = "SLEEPING"]
    /\ ctx' = [ctx EXCEPT ![p] = "sleep"]
    /\ Goto(p, "sleep")
    /\ UNCHANGED <<pid, parent, killed, kstack, nextpid, asked, ticks, cpus, loc>>

-----------------------------------------------------------------------------
(* sys_getppid: myproc()->parent->pid without any lock, so the pointer and *)
(* the pid are two separate reads.  val keeps the pid the parent had when  *)
(* the pointer was read.                                                   *)
sys_getppid(c) ==
  \E p \in Slot :
    /\ Runs(c, p) /\ pc[p] = "getppid"
    /\ loc' = [loc EXCEPT ![p] = [ptr |-> parent[p], val |-> pid[parent[p]], n |-> 0]]
    /\ Goto(p, "getppid_pid")
    /\ UNCHANGED <<table, lock, clock, cpus, ctx>>

(* Dereference it and return.                                              *)
getppid_pid(c) ==
  \E p \in Slot :
    /\ Runs(c, p) /\ pc[p] = "getppid_pid"
    /\ loc' = [loc EXCEPT ![p] = NoLoc]
    /\ Goto(p, "sysret")
    /\ UNCHANGED <<table, lock, clock, cpus, ctx>>

-----------------------------------------------------------------------------
(* A timer interrupt can be taken: no spinlock held on this CPU, and not   *)
(* already in the handler or in panic().                                   *)
Interruptible(c) ==
  /\ irq[c] = "none" /\ lock # c /\ tickslock # c
  /\ IF cproc[c] = NoProc THEN scan[c] = 0
     ELSE /\ state[cproc[c]] = "RUNNING" /\ ctx[cproc[c]] = "run"
          /\ pc[cproc[c]] # "panic"

(* CPU 0 keeps the time: ticks++ under tickslock ...                       *)
timer_tick(c) ==
  /\ c = 0 /\ Interruptible(c)
  /\ tickslock = NoCpu
  /\ tickslock' = c
  /\ ticks' = (ticks + 1) % TICKS
  /\ irq' = [irq EXCEPT ![c] = "tick"]
  /\ UNCHANGED <<table, lock, cproc, scan, pc, ctx, loc>>

(* ... then wakeup(&ticks) and release.                                    *)
timer_wakeup(c) ==
  /\ irq[c] = "tick"
  /\ WithLock
  /\ state' = wakeup1(state, TicksChan)
  /\ tickslock' = NoCpu
  /\ irq' = [irq EXCEPT ![c] = IF cproc[c] = NoProc THEN "none" ELSE "post"]
  /\ UNCHANGED <<pid, parent, killed, chan, kstack, nextpid, asked, ticks, cproc,
                 scan, pc, ctx, loc>>

timer_yield_NoLock(c) ==
  \E p \in Slot :
    /\ cproc[c] = p
    /\ IF c = 0 THEN irq[c] = "post" ELSE Interruptible(c)
    /\ irq' = [irq EXCEPT ![c] = "none"]
    /\ \/ /\ killed[p] /\ pc[p] = "user"
          /\ Goto(p, "exit")
          /\ UNCHANGED <<state, lock, ctx>>
       \/ /\ ~(killed[p] /\ pc[p] = "user")
          /\ lock = NoCpu
          /\ lock' = lock
          /\ state' = [state EXCEPT ![p] = "RUNNABLE"]
          /\ ctx' = [ctx EXCEPT ![p] = "yield"]
          /\ UNCHANGED pc
    /\ UNCHANGED <<pid, parent, killed, chan, kstack, nextpid, asked, clock, cproc,
                   scan, loc>>

(* The end of trap() for a timer interrupt taken in a process: exit if it  *)
(* was killed in user mode, otherwise yield().                             *)
timer_yield(c) ==
  \E p \in Slot :
    /\ cproc[c] = p
    /\ IF c = 0 THEN irq[c] = "post" ELSE Interruptible(c)
    /\ irq' = [irq EXCEPT ![c] = "none"]
    /\ \/ /\ killed[p] /\ pc[p] = "user"
          /\ Goto(p, "exit")
          /\ UNCHANGED <<state, lock, ctx>>
       \/ /\ ~(killed[p] /\ pc[p] = "user")
          /\ lock = NoCpu
          /\ lock' = c
          /\ state' = [state EXCEPT ![p] = "RUNNABLE"]
          /\ ctx' = [ctx EXCEPT ![p] = "yield"]
          /\ UNCHANGED pc
    /\ UNCHANGED <<pid, parent, killed, chan, kstack, nextpid, asked, clock, cproc,
                   scan, loc>>

-----------------------------------------------------------------------------
Scheduler(c) ==
  sched_acquire(c) \/ sched_switch(c) \/ sched_release(c) \/ swtch_out(c) \/ swtch_in(c)

Kernel(c) ==
  \/ sysret(c) \/ fork(c) \/ fork_stack(c) \/ fork_copy(c) \/ fork_publish(c)
  \/ exit(c) \/ exit_panics(c) \/ wait(c) \/ kill(c) \/ sys_sleep(c) \/ sleep_test(c)
  \/ sleep_go(c) \/ sys_getppid(c) \/ getppid_pid(c)

Timer(c) == timer_tick(c) \/ timer_wakeup(c) \/ timer_yield(c)

Next == \E c \in Cpu : Scheduler(c) \/ syscall(c) \/ Kernel(c) \/ Timer(c) \/ panic_loop(c)

Spec == Init /\ [][Next]_vars

(* Fairness.  Every CPU keeps executing; the timer is periodic, so on a    *)
(* CPU that is interruptible again and again it interrupts again and       *)
(* again; a spinning acquire is not starved for ever; a time slice is long *)
(* enough for some instructions, so a process that is scheduled again and  *)
(* again advances in the kernel; init calls wait() after every fork that   *)
(* did not fail (init.c:34).  No other user program owes anything.         *)
InKernel(p) == \E c \in Cpu : Runs(c, p) /\ Kernel(c)
InitWaits == \E c \in Cpu : Runs(c, initproc) /\ syscall(c) /\ pc'[initproc] = "wait"

Fairness ==
  /\ \A c \in Cpu : SF_vars(Scheduler(c)) /\ SF_vars(Timer(c))
  /\ \A p \in Slot : SF_vars(InKernel(p))
  /\ SF_vars(InitWaits)

FairSpec == Spec /\ Fairness

-----------------------------------------------------------------------------
TypeOK ==
  /\ state \in [Slot -> State]
  /\ pid \in [Slot -> Nat] /\ nextpid \in Nat
  /\ parent \in [Slot -> Slot \cup {NoProc}]
  /\ killed \in [Slot -> BOOLEAN] /\ kstack \in [Slot -> BOOLEAN]
  /\ chan \in [Slot -> 0..NPROC+1]
  /\ lock \in Cpu \cup {NoCpu} /\ tickslock \in Cpu \cup {NoCpu}
  /\ ticks \in 0..TICKS-1
  /\ cproc \in [Cpu -> Slot \cup {NoProc}]
  /\ scan \in [Cpu -> 0..NPROC+1]
  /\ irq \in [Cpu -> {"none", "tick", "post"}]
  /\ pc \in [Slot -> PC] /\ ctx \in [Slot -> Ctx]
  /\ loc \in [Slot -> [ptr : Nat, val : Nat, n : Nat]]
  /\ asked \subseteq Nat

(* A process is RUNNING exactly on the CPU whose c->proc it is, on one CPU *)
(* only, and its kernel stack is allocated; the only exception is the CPU  *)
(* that holds ptable.lock between a state change and swtch (proc.c:335-352 *)
(* and 366-382).  So wait() never frees the stack a CPU still runs on.     *)
OneCpuPerProcess ==
  /\ \A c \in Cpu : cproc[c] # NoProc =>
       /\ kstack[cproc[c]]
       /\ state[cproc[c]] = "RUNNING" \/ lock = c
       /\ \A d \in Cpu : cproc[d] = cproc[c] => d = c
  /\ \A p \in Slot : state[p] = "RUNNING" => \E c \in Cpu : cproc[c] = p

(* The assertions of sched() (proc.c:371-376): whoever is about to swtch   *)
(* to the scheduler holds ptable.lock and no other spinlock, on the CPU    *)
(* that runs it; and a process that comes back finds the lock held by the  *)
(* CPU it came back on.                                                    *)
LockHandover ==
  \A c \in Cpu : LET p == cproc[c] IN
    /\ p # NoProc /\ (state[p] # "RUNNING" \/ ctx[p] # "run") =>
         lock = c /\ tickslock # c /\ irq[c] = "none"
    /\ p = NoProc => (lock = c <=> scan[c] # 0)
    /\ p # NoProc /\ state[p] = "RUNNING" /\ ctx[p] = "run" /\ lock = c => pc[p] = "wait"

(* No exit is lost on a waiting parent (proc.c:253, 260, 310): while       *)
(* ptable.lock is free, a process asleep in wait() has children, none of   *)
(* them a ZOMBIE, and has not been killed.                                 *)
WaitMissesNoExit ==
  lock = NoCpu =>
    \A p \in Slot : state[p] = "SLEEPING" /\ chan[p] = p =>
      /\ ~killed[p]
      /\ \E q \in Slot : parent[q] = p
      /\ \A q \in Slot : parent[q] = p => state[q] # "ZOMBIE"

(* The processes are a tree under init: every process that was published   *)
(* has a parent that is alive, because exit() hands its children to init   *)
(* (proc.c:255-262), and pids are unique.                                  *)
Alive(p) == state[p] \in {"SLEEPING", "RUNNABLE", "RUNNING"}

TreeUnderInit ==
  lock = NoCpu =>
    \A p \in Slot \ {initproc} : Alive(p) \/ state[p] = "ZOMBIE" =>
      /\ parent[p] \in Slot \ {p} /\ Alive(parent[p])
      /\ \A q \in Slot \ {p} : state[q] # "UNUSED" => pid[q] # pid[p]

(* sys_sleep never oversleeps: a process whose time is over is not         *)
(* SLEEPING on &ticks, except while the tick that ended it is between      *)
(* ticks++ and wakeup (trap.c:52-55, sysproc.c:71-77).  Holds over the     *)
(* wrap-around of ticks.                                                   *)
NoOversleep ==
  \A p \in Slot : state[p] = "SLEEPING" /\ chan[p] = TicksChan =>
    Elapsed(p) < loc[p].n \/ irq[0] = "tick"

(* p->state only moves along the life of a process; in particular a ZOMBIE *)
(* never runs again and only a reaped slot is reused.                      *)
LifeCycle ==
  [][\A p \in Slot : state'[p] # state[p] =>
       <<state[p], state'[p]>> \in
         {<<"UNUSED", "EMBRYO">>, <<"EMBRYO", "UNUSED">>, <<"EMBRYO", "RUNNABLE">>,
          <<"RUNNABLE", "RUNNING">>, <<"RUNNING", "RUNNABLE">>,
          <<"RUNNING", "SLEEPING">>, <<"SLEEPING", "RUNNABLE">>,
          <<"RUNNING", "ZOMBIE">>, <<"ZOMBIE", "UNUSED">>}]_vars

(* Unless init's exit stops the machine, the scheduler starves nobody: its *)
(* loop goes on with the slot after the one that ran (proc.c:335-352) and  *)
(* the timer ends every slice.                                             *)
NoStarvation == \A p \in Slot : state[p] = "RUNNABLE" ~> state[p] = "RUNNING" \/ Panicked

(* A killed process dies, whether kill() caught it asleep in wait(),       *)
(* runnable or running, in user mode or in a system call (proc.c:476-478,  *)
(* trap.c:40-45 and 97-111); killing init panics instead (proc.c:234).     *)
KilledDies == \A p \in Slot : killed[p] /\ Alive(p) ~> ~Alive(p) \/ Panicked

(* What a dead parent leaves behind is reaped by init (proc.c:255-262), as *)
(* long as init lives: a fork of its own that fails is its end.            *)
OrphansReaped ==
  \A p \in Slot :
    state[p] = "ZOMBIE" /\ parent[p] = initproc ~> state[p] = "UNUSED" \/ Panicked

(* "Kill the process with the given pid" (proc.c:476): a process that is   *)
(* marked killed is one that some kill() named.                            *)
KilledWasAsked ==
  \A p \in Slot : Alive(p) /\ killed[p] => pid[p] \in asked

(* getppid() returns the pid of the parent (lab-03/README.md:89) although *)
(* it takes no lock (sysproc.c:113), provided the parent does not exit     *)
(* during the call: the slot read is not reused while p is its child.      *)
GetppidOfLiveParent ==
  [][\A c \in Cpu, p \in Slot :
       /\ Runs(c, p) /\ pc[p] = "getppid_pid" /\ pc'[p] = "sysret"
       /\ parent[p] = loc[p].ptr
       => pid[loc[p].ptr] = loc[p].val]_vars

(* A context switch is safe: a process is on one CPU, on a stack of its    *)
(* own, and ptable.lock goes with it from the context that acquired it to  *)
(* the one that releases it.                                               *)
SwtchIsSafe == TypeOK /\ OneCpuPerProcess /\ LockHandover

(* exit and wait agree on the family of a process: the tree stays under    *)
(* init, and no parent sleeps through the exit of a child.                 *)
FamilyTree == TreeUnderInit /\ WaitMissesNoExit

(* What a step may never do: move a process off its life cycle, or let     *)
(* getppid return the pid of a process that is not the parent.             *)
LegalSteps == LifeCycle /\ GetppidOfLiveParent
=============================================================================
