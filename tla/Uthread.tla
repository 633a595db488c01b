------------------------------- MODULE Uthread -------------------------------
(***************************************************************************)
(* xv6/uthreadlib.c (user-level threads with round-robin scheduling),      *)
(* uthread_switch.S, and the program uthread.c that uses them: main        *)
(* creates numthreads threads, each yields numexecs times and exits, and   *)
(* main goes on when no thread is left.  Slot 0 is main.                   *)
(*                                                                         *)
(* A definition X_Suffix is a mutant of X, a bug the code could have had;  *)
(* it is used by no other definition.                                      *)
(***************************************************************************)
EXTENDS Integers

CONSTANTS
  MAX_THREAD,
  NumThreads,    \* values of numthreads
  NumExecs       \* values of numexecs

ASSUME UthreadAssumption ==
  /\ MAX_THREAD \in Nat /\ MAX_THREAD > 1
  /\ NumThreads \subseteq Nat
  /\ NumExecs \subseteq Nat

VARIABLES
  state,                     \* all_thread[t].state
  current_thread, last_index,
  numthreads, numexecs,      \* argv
  i,                         \* loop variable of each thread, and of main
  umain                      \* main: "create", "overrun", "schedule", "ended"

utvars == <<state, current_thread, last_index, numthreads, numexecs, i, umain>>
args == <<numthreads, numexecs>>
Thread == 0..MAX_THREAD-1

(* thread_init *)
UtInit ==
  /\ state = [t \in Thread |-> IF t = 0 THEN "RUNNING" ELSE "FREE"]
  /\ current_thread = 0 /\ last_index = 0
  /\ numthreads \in NumThreads /\ numexecs \in NumExecs
  /\ i = [t \in Thread |-> 0]
  /\ umain = "create"

-----------------------------------------------------------------------------
(* The slots after last_index, in the order the loop visits them, that are *)
(* RUNNABLE and not the current thread.                                    *)
SlotAfter(k) == (last_index + k) % MAX_THREAD
Found(st) == {k \in 1..MAX_THREAD-1 : st[SlotAfter(k)] = "RUNNABLE" /\ SlotAfter(k) # current_thread}

thread_schedule_FromZero(st) ==
  LET k == CHOOSE j \in Found(st) : \A m \in Found(st) : j <= m
      next == IF Found(st) # {} THEN SlotAfter(k) ELSE 0 IN
  /\ last_index' = last_index
  /\ state' = IF next # current_thread THEN [st EXCEPT ![next] = "RUNNING"] ELSE st
  /\ current_thread' = next

(* thread_schedule, called with the states st.  The test of line 61        *)
(* (t >= all_thread + MAX_THREAD) is never true after this loop, so when   *)
(* no other thread is RUNNABLE the next thread is slot 0.  thread_switch   *)
(* makes it the current one.                                               *)
thread_schedule(st) ==
  LET k == CHOOSE j \in Found(st) : \A m \in Found(st) : j <= m
      next == IF Found(st) # {} THEN SlotAfter(k) ELSE 0 IN
  /\ last_index' = IF Found(st) # {} THEN next ELSE last_index
  /\ state' = IF next # current_thread THEN [st EXCEPT ![next] = "RUNNING"] ELSE st
  /\ current_thread' = next

(* main: the loop of thread_create calls, first FREE slot each time.       *)
thread_create ==
  /\ umain = "create" /\ i[0] < numthreads
  /\ \E t \in Thread :
       /\ state[t] = "FREE" /\ \A u \in 0..t-1 : state[u] # "FREE"
       /\ state' = [state EXCEPT ![t] = "RUNNABLE"]
  /\ i' = [i EXCEPT ![0] = @ + 1]
  /\ UNCHANGED <<current_thread, last_index, args, umain>>

(* No slot is FREE: the new thread is written behind the table.  What the  *)
(* program does after that is undefined, and not followed.                 *)
thread_overrun ==
  /\ umain = "create" /\ i[0] < numthreads
  /\ \A t \in Thread : state[t] # "FREE"
  /\ umain' = "overrun"
  /\ UNCHANGED <<state, current_thread, last_index, args, i>>

main_schedule ==
  /\ umain = "create" /\ i[0] = numthreads
  /\ thread_schedule(state)
  /\ umain' = "schedule"
  /\ UNCHANGED <<args, i>>

(* mythread, one round: thread_yield ...                                   *)
thread_yield(t) ==
  /\ umain = "schedule" /\ t # 0 /\ current_thread = t /\ i[t] < numexecs
  /\ thread_schedule([state EXCEPT ![t] = "RUNNABLE"])
  /\ i' = [i EXCEPT ![t] = @ + 1]
  /\ UNCHANGED <<args, umain>>

(* ... and after the last one thread_exit.                                 *)
thread_exit(t) ==
  /\ umain = "schedule" /\ t # 0 /\ current_thread = t /\ i[t] = numexecs
  /\ thread_schedule([state EXCEPT ![t] = "FREE"])
  /\ UNCHANGED <<args, i, umain>>

(* main is running again: "all threads ended.", exit.                      *)
main_ended ==
  /\ umain = "schedule" /\ current_thread = 0
  /\ umain' = "ended"
  /\ UNCHANGED <<state, current_thread, last_index, args, i>>

UtNext ==
  \/ thread_create
  \/ thread_overrun
  \/ main_schedule
  \/ \E t \in Thread : thread_yield(t) \/ thread_exit(t)
  \/ main_ended

UtSpec == UtInit /\ [][UtNext]_utvars

-----------------------------------------------------------------------------
UtTypeOK ==
  /\ state \in [Thread -> {"FREE", "RUNNING", "RUNNABLE"}]
  /\ current_thread \in Thread /\ last_index \in Thread
  /\ numthreads \in NumThreads /\ numexecs \in NumExecs
  /\ i \in [Thread -> Nat]
  /\ umain \in {"create", "overrun", "schedule", "ended"}

(* Round robin: no thread gets ahead of another by more than one turn, so  *)
(* thread_schedule never passes over a RUNNABLE thread twice               *)
(* (uthreadlib.c:49-59).                                                   *)
UtCreated(t) == t \in 1..i[0]
RoundRobin ==
  \A t, u \in Thread : UtCreated(t) /\ UtCreated(u) /\ numthreads > 1 => i[t] <= i[u] + 1

(* Control is in exactly one thread: apart from main, whose state stays    *)
(* RUNNING, only the current thread is RUNNING, and last_index follows it, *)
(* so that the next search starts after it (uthreadlib.c:56, 72).          *)
OneRunning ==
  \A t \in Thread \ {0} :
    /\ state[t] = "RUNNING" <=> current_thread = t
    /\ current_thread = t => last_index = t

(* With two threads or more, main goes on only when every thread ended:    *)
(* the round robin makes the last thread reach its exit before it is       *)
(* alone.                                                                  *)
EndedTogether ==
  umain = "ended" /\ numthreads # 1 =>
    \A t \in 1..numthreads : state[t] = "FREE" /\ i[t] = numexecs

(* main overruns the table exactly when it is asked for more threads than  *)
(* the table holds beside main: uthread.c does not check numthreads        *)
(* (uthread.c:29), and uthreadlib.c:84-91 not the slot it writes.          *)
OverrunsWhenFull ==
  /\ umain = "overrun" => numthreads >= MAX_THREAD
  /\ umain \in {"schedule", "ended"} => numthreads < MAX_THREAD

(* The threads take turns: one runs at a time, none gets ahead, and main   *)
(* goes on when all of them ended, for every number of threads that fits   *)
(* in the table.                                                           *)
ThreadsTakeTurns ==
  UtTypeOK /\ RoundRobin /\ OneRunning /\ EndedTogether /\ OverrunsWhenFull
==============================================================================
