------------------------------- MODULE Races --------------------------------
(* Two programs of lab-04 whose threads share an unprotected counter.        *)
(*                                                                           *)
(* glob.c: two threads run loc = glob; loc++; glob = loc, `loops` times.     *)
(* sched-threads.c: `count` threads write their number in buf[pos] and       *)
(* advance pos, `items` times each, all on CPU 0 under SCHED_FIFO,           *)
(* SCHED_RR or SCHED_OTHER.                                                  *)
(*                                                                           *)
(* The programs are built without optimisation, so every access of a shared  *)
(* variable is a load or a store of its own, a step here.  Counts stay below *)
(* 2^31.  Thread creation succeeds.                                          *)
(*                                                                           *)
(* A definition X_Suffix is a mutant of X, a bug the code could have had; it *)
(* is used by no other definition.                                           *)
EXTENDS Naturals, FiniteSets, Functions

CONSTANTS
  MaxLoops,     \* bound: the argument of glob
  NThreads,     \* count, the argument hilos of sched-threads
  MaxItems      \* bound: the argument items of sched-threads

ASSUME RacesAssumption == MaxLoops \in Nat /\ NThreads \in Nat /\ MaxItems \in Nat

VARIABLES
  loops, glob,  \* glob.c: its argument and the shared variable
  inc,          \* inc[t]: at, loc and j of thread t of glob.c
  policy,       \* sched-threads.c: "R", "F" or "C"
  items, pos, sbuf,
  wr,           \* wr[t]: at, i and the value of pos loaded by thread t
  spawned       \* threads created by main of sched-threads

globvars == <<loops, glob, inc>>
schedvars == <<policy, items, pos, sbuf, wr, spawned>>

GlobInit ==
  /\ loops \in 1..MaxLoops
  /\ glob = 0
  /\ inc = [t \in 1..2 |-> [at |-> "load", loc |-> 0, j |-> 0]]

(* loc = glob, then loc++, then glob = loc and the test of the loop.         *)
increment_load(t) ==
  /\ inc[t].at = "load"
  /\ inc' = [inc EXCEPT ![t].at = "store", ![t].loc = glob + 1]
  /\ UNCHANGED <<loops, glob>>

Again_Le(j) == j + 1 <= loops
Again(j) == j + 1 < loops
increment_store(t) ==
  /\ inc[t].at = "store"
  /\ glob' = inc[t].loc
  /\ inc' = [inc EXCEPT ![t].j = @ + 1,
                        ![t].at = IF Again(inc[t].j) THEN "load" ELSE "exited"]
  /\ UNCHANGED loops

Joined == \A t \in 1..2 : inc[t].at = "exited"

GlobStep(t) == increment_load(t) \/ increment_store(t)
GlobNext == \E t \in 1..2 : GlobStep(t)
GlobSpec == GlobInit /\ [][GlobNext]_globvars

(* What main prints after both joins.  Increments may be lost, but the two   *)
(* first and last ones of the threads cannot all be: at least 2 is printed   *)
(* when a thread loops more than once, and never more than 2 * loops.        *)
PrintedGlob ==
  Joined => glob \in (IF loops = 1 THEN 1 ELSE 2)..(2 * loops)

-----------------------------------------------------------------------------
SThreads == 0..(NThreads - 1)

SchedInit ==
  /\ policy \in {"R", "F", "C"}
  /\ items \in 1..MaxItems
  /\ pos = 0
  /\ sbuf = [k \in 0..(NThreads * items - 1) |-> 0]
  /\ wr = [t \in SThreads |-> [at |-> "none", i |-> 0, pos |-> 0]]
  /\ spawned = 0

(* main creates the threads in order.                                        *)
create_thread ==
  /\ spawned < NThreads
  /\ spawned' = spawned + 1
  /\ wr' = [wr EXCEPT ![spawned].at = "write"]
  /\ UNCHANGED <<policy, items, pos, sbuf>>

(* The CPU is t's: under SCHED_FIFO the threads have one priority and never  *)
(* block, so each runs to its end in order of creation.                      *)
Scheduled(t) ==
  /\ wr[t].at \notin {"none", "exited"}
  /\ policy = "F" => \A u \in 0..(t - 1) : wr[u].at = "exited"

(* The inner loop runs buf[pos] = id many times: each time pos is loaded,    *)
(* then id is stored at the place that pos had when it was loaded.           *)
write_load(t) ==
  /\ Scheduled(t) /\ wr[t].at \in {"write", "written"}
  /\ wr' = [wr EXCEPT ![t].at = "store", ![t].pos = pos]
  /\ UNCHANGED <<policy, items, pos, sbuf, spawned>>
write_store(t) ==
  /\ Scheduled(t) /\ wr[t].at = "store"
  /\ sbuf' = IF wr[t].pos \in DOMAIN sbuf THEN [sbuf EXCEPT ![wr[t].pos] = t] ELSE sbuf
  /\ wr' = [wr EXCEPT ![t].at = "written"]
  /\ UNCHANGED <<policy, items, pos, spawned>>

(* pos = pos + 1 is a load and a store.                                      *)
pos_load(t) ==
  /\ Scheduled(t) /\ wr[t].at = "written"
  /\ wr' = [wr EXCEPT ![t].at = "advance", ![t].pos = pos]
  /\ UNCHANGED <<policy, items, pos, sbuf, spawned>>
MoreItems(i) == i + 1 < items
pos_store(t) ==
  /\ Scheduled(t) /\ wr[t].at = "advance"
  /\ pos' = wr[t].pos + 1
  /\ wr' = [wr EXCEPT ![t].i = @ + 1,
                      ![t].at = IF MoreItems(wr[t].i) THEN "write" ELSE "exited"]
  /\ UNCHANGED <<policy, items, sbuf, spawned>>

SchedStep(t) == write_load(t) \/ write_store(t) \/ pos_load(t) \/ pos_store(t)
SchedNext == create_thread \/ \E t \in SThreads : SchedStep(t)
SchedSpec == SchedInit /\ [][SchedNext]_schedvars

(* However the threads interleave, whatever updates of pos are lost and      *)
(* however old the pos a thread loaded, its store of buf[pos] = id is inside *)
(* the buffer of count * items.                                              *)
WritesInBuffer ==
  \A t \in SThreads : wr[t].at = "store" => wr[t].pos \in DOMAIN sbuf

(* Under SCHED_FIFO the buffer main prints has the items of each thread      *)
(* together, the threads in the order of their creation, and none is lost.   *)
FifoInOrder ==
  (policy = "F" /\ \A t \in SThreads : wr[t].at = "exited") =>
    \A k \in DOMAIN sbuf : sbuf[k] = k \div items

(* What the races can and cannot spoil: how far the printed counter may be *)
(* off, that no store leaves the buffer, and that SCHED_FIFO hides the     *)
(* race.                                                                   *)
RacesAreBounded == PrintedGlob /\ WritesInBuffer /\ FifoInOrder
=============================================================================
