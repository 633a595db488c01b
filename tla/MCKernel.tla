------------------------------ MODULE MCKernel ------------------------------
(* Four parts of the kernel that processes and interrupts share, for TLC:    *)
(* `part` says which one is at work, and the others stay as they start.      *)
EXTENDS Pipe, Console, Mem, Spinlock, TLC

VARIABLE part

kvars == <<part, vars, cvars, mvars, spvars>>

KInit ==
  /\ part \in {"pipe", "console", "mem", "locks"}
  /\ Init /\ CInit /\ MInit /\ SpInit

KNext ==
  /\ UNCHANGED part
  /\ \/ part = "pipe" /\ Next /\ UNCHANGED <<cvars, mvars, spvars>>
     \/ part = "console" /\ CNext /\ UNCHANGED <<vars, mvars, spvars>>
     \/ part = "mem" /\ MNext /\ UNCHANGED <<vars, cvars, spvars>>
     \/ part = "locks" /\ SpNext /\ UNCHANGED <<vars, cvars, mvars>>

KSpec == KInit /\ [][KNext]_kvars

(* The processes of Pipe and the kernel threads are interchangeable.         *)
KPerms == Permutations(Procs) \cup Permutations(KThreads)
=============================================================================
