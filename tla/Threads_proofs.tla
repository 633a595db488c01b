--------------------------- MODULE Threads_proofs ---------------------------
(***************************************************************************)
(* The programs whose threads or processes share memory or one CPU, for    *)
(* every number of them and every size of what they share:                 *)
(*                                                                         *)
(*   xv6/uthread.c     the threads of uthreadlib.c take turns.  The        *)
(*                     invariant says how far each thread is, seen from    *)
(*                     the one that runs;                                  *)
(*   lab-05/buf.c      the consumer reads the items in order, and the two  *)
(*                     threads never touch the same slot at once.  The     *)
(*                     argument counts: a semaphore's value is determined  *)
(*                     by the progress of the two threads, and being a     *)
(*                     natural number it bounds their distance;            *)
(*   lab-05/wordheap.c the words in shared memory are a stack.  Again the  *)
(*                     semaphores count: their values, the words, and the  *)
(*                     commands between sem_wait and sem_post add up;      *)
(*   lab-04            how much the races on an unprotected counter can    *)
(*                     lose (glob.c), and that they cannot take a store    *)
(*                     out of the buffer (sched-threads.c).                *)
(***************************************************************************)
EXTENDS Uthread, BoundedBuffer, WordHeap, Races, Integers,
        FiniteSetTheorems, SequenceTheorems, TLAPS

-----------------------------------------------------------------------------
(*** Quotients and remainders, of the counters that select a slot ***)

(* Division with remainder.                                                *)
LEMMA Division ==
  ASSUME NEW b \in Nat \ {0}, NEW x \in Int
  PROVE  x \div b \in Int /\ x % b \in 0..b-1 /\ x = b * (x \div b) + (x % b)
OBVIOUS

(* There is one quotient that leaves a remainder in range.                 *)
LEMMA DivModIs ==
  ASSUME NEW b \in Nat \ {0}, NEW x \in Int, NEW k \in Int, NEW r \in 0..b-1, x = b * k + r
  PROVE  x \div b = k /\ x % b = r
<1>1. ASSUME NEW n \in Int, n >= 1 PROVE b * n >= b
  <2>1. b * (n-1) >= 0 /\ b * n = b * (n-1) + b BY <1>1
  <2> QED BY <2>1, <1>1
<1> DEFINE e == x \div b
           s == x % b
<1>2. e \in Int /\ s \in 0..b-1 /\ x = b * e + s BY Division
<1> HIDE DEF e, s
<1>3. b * (k - e) = s - r /\ b * (e - k) = r - s BY <1>2
<1>4. ~(k - e >= 1) /\ ~(e - k >= 1) BY <1>1, <1>2, <1>3
<1>5. k = e BY <1>2, <1>4
<1>6. s = r BY <1>2, <1>5
<1> QED BY <1>5, <1>6 DEF e, s

(* Items less than Size apart have slots of their own.                     *)
LEMMA SlotsDiffer ==
  ASSUME NEW c \in Nat \ {0}, NEW x \in Int, NEW y \in Int, x < y, y - x < c
  PROVE  x % c # y % c
<1> SUFFICES ASSUME x % c = y % c PROVE FALSE OBVIOUS
<1> DEFINE d == x \div c
           e == y \div c
           r == x % c
<1>1. d \in Int /\ r \in 0..c-1 /\ x = c * d + r BY Division
<1>2. e \in Int /\ y = c * e + r BY Division
<1> HIDE DEF d, e, r
<1>3. y - x = c * (e - d) + 0 /\ e - d \in Int /\ 0 \in 0..c-1 BY <1>1, <1>2
<1>4. y - x = c * 0 + (y - x) /\ 0 \in Int /\ y - x \in Int /\ y - x \in 0..c-1 /\ y - x # 0 OBVIOUS
<1>5. (y - x) % c = 0 BY <1>3, <1>4, DivModIs, Zenon
<1>6. (y - x) % c = y - x BY <1>4, DivModIs, Zenon
<1> QED BY <1>4, <1>5, <1>6, Zenon

-----------------------------------------------------------------------------
(*** xv6/uthreadlib.c and uthread.c ***)

(* main before it has created all threads: those it has created wait.        *)
UtEarly == umain = "create" \/ umain = "overrun"
UtCreating ==
  /\ current_thread = 0 /\ last_index = 0 /\ i[0] <= numthreads /\ i[0] < MAX_THREAD
  /\ \A t \in Thread \ {0} :
       i[t] = 0 /\ state[t] = IF t <= i[0] THEN "RUNNABLE" ELSE "FREE"

(* The turn of thread c.  Those before it have had this turn: they are one   *)
(* ahead, or have ended when it is the last turn.  Those after it have not.  *)
UtTurn(c) ==
  /\ last_index = c /\ i[c] <= numexecs /\ state[c] = "RUNNING"
  /\ numthreads > 1 => \A u \in 1..numthreads :
       /\ i[u] = IF u < c /\ i[c] < numexecs THEN i[c] + 1 ELSE i[c]
       /\ u # c => state[u] = IF u < c /\ i[c] = numexecs THEN "FREE" ELSE "RUNNABLE"

(* main again.                                                               *)
UtMain ==
  /\ numthreads > 1 => \A u \in 1..numthreads : state[u] = "FREE" /\ i[u] = numexecs
  /\ numthreads = 1 => state[1] # "RUNNING"

UtInv ==
  /\ UtTypeOK
  /\ state[0] = "RUNNING"
  /\ UtEarly => UtCreating
  /\ ~UtEarly => /\ i[0] = numthreads /\ current_thread <= numthreads
                 /\ numthreads < MAX_THREAD
                 /\ \A t \in Thread : t > numthreads => state[t] = "FREE"
                 /\ current_thread = 0 => UtMain
                 /\ current_thread # 0 => UtTurn(current_thread)
  /\ umain = "ended" => current_thread = 0
  /\ umain = "overrun" => numthreads >= MAX_THREAD

(* The slots the loop of thread_schedule visits: those after last_index,     *)
(* then those from 0.                                                        *)
LEMMA VisitsSlots ==
  ASSUME last_index \in Thread, NEW k \in 1..MAX_THREAD-1
  PROVE  /\ SlotAfter(k) \in Thread
         /\ SlotAfter(k) = IF last_index + k < MAX_THREAD THEN last_index + k
                           ELSE last_index + k - MAX_THREAD
<1> DEFINE x == last_index + k
<1>1. MAX_THREAD \in Nat \ {0} /\ last_index \in Nat /\ last_index < MAX_THREAD
  BY UthreadAssumption DEF Thread
<1>2. x \in Int /\ (x \in 0..MAX_THREAD-1 \/ x \in MAX_THREAD..2*MAX_THREAD-1) BY <1>1
<1>3. SlotAfter(k) = x % MAX_THREAD BY Zenon DEF SlotAfter
<1>4. x \in 0..MAX_THREAD-1 => x < MAX_THREAD BY <1>1
<1>5. x \in MAX_THREAD..2*MAX_THREAD-1 => ~(x < MAX_THREAD) /\ x - MAX_THREAD \in 0..MAX_THREAD-1
  BY <1>1
<1> HIDE DEF x
<1>6. SlotAfter(k) = IF x < MAX_THREAD THEN x ELSE x - MAX_THREAD
  <2>1. x \in 0..MAX_THREAD-1 => x % MAX_THREAD = x
    <3>1. x = MAX_THREAD * 0 + x /\ 0 \in Int BY <1>1, <1>2
    <3> QED BY <1>1, <1>2, <3>1, DivModIs, Zenon
  <2>2. x \in MAX_THREAD..2*MAX_THREAD-1 => x % MAX_THREAD = x - MAX_THREAD
    <3> DEFINE y == x - MAX_THREAD
    <3>1. x = MAX_THREAD * 1 + y /\ 1 \in Int BY <1>1, <1>2
    <3>2. x \in MAX_THREAD..2*MAX_THREAD-1 => y \in 0..MAX_THREAD-1 BY <1>5, Zenon
    <3> HIDE DEF y
    <3>3. x \in MAX_THREAD..2*MAX_THREAD-1 => x % MAX_THREAD = y BY <1>1, <1>2, <3>1, <3>2, DivModIs, Zenon
    <3> QED BY <3>3, Zenon DEF y
  <2> QED BY <1>2, <1>3, <1>4, <1>5, <2>1, <2>2, Zenon
<1>7. SlotAfter(k) \in Thread BY <1>2, <1>4, <1>5, <1>6, Zenon DEF Thread
<1>8. SlotAfter(k) = IF last_index + k < MAX_THREAD THEN last_index + k
                     ELSE last_index + k - MAX_THREAD
  BY <1>1, <1>6 DEF x
<1> QED BY <1>7, <1>8, Zenon

(* It takes the first one it may take.                                       *)
LEMMA TakesFirst ==
  ASSUME last_index \in Thread, NEW st, NEW k \in Found(st), \A m \in Found(st) : k <= m,
         thread_schedule(st)
  PROVE  /\ last_index' = SlotAfter(k) /\ current_thread' = SlotAfter(k)
         /\ state' = [st EXCEPT ![SlotAfter(k)] = "RUNNING"]
<1>1. Found(st) \subseteq 1..MAX_THREAD-1 BY Zenon DEF Found
<1>2. \A j \in Found(st) : (\A m \in Found(st) : j <= m) => j = k
  <2> SUFFICES ASSUME NEW j \in Found(st), \A m \in Found(st) : j <= m PROVE j = k BY Zenon
  <2>1. j <= k /\ k <= j BY Zenon
  <2>2. j \in Int /\ k \in Int BY <1>1, UthreadAssumption
  <2> QED BY <2>1, <2>2
<1>3. (CHOOSE j \in Found(st) : \A m \in Found(st) : j <= m) = k BY <1>2, Zenon
<1>4. Found(st) # {} /\ SlotAfter(k) # current_thread BY Zenon DEF Found
<1> QED BY <1>3, <1>4, Zenon DEF thread_schedule

(* The slot after last_index comes first ...                                 *)
LEMMA GoesToNext ==
  ASSUME last_index \in Thread, NEW st, thread_schedule(st), NEW d \in Thread,
         d = last_index + 1, st[d] = "RUNNABLE", d # current_thread
  PROVE  last_index' = d /\ current_thread' = d /\ state' = [st EXCEPT ![d] = "RUNNING"]
<1>1. MAX_THREAD \in Nat /\ last_index \in Nat /\ d < MAX_THREAD BY UthreadAssumption DEF Thread
<1>2. 1 \in 1..MAX_THREAD-1 BY <1>1
<1>3. SlotAfter(1) = d BY <1>1, <1>2, VisitsSlots, Zenon
<1>4. 1 \in Found(st) BY <1>2, <1>3, Zenon DEF Found
<1>5. \A m \in Found(st) : 1 <= m BY <1>1 DEF Found
<1> QED BY <1>3, <1>4, <1>5, TakesFirst, Zenon

(* ... and slot 1 when none behind last_index can be taken.                  *)
LEMMA GoesRound ==
  ASSUME last_index \in Thread, NEW st, thread_schedule(st), last_index > 1,
         st[1] = "RUNNABLE", 1 # current_thread, st[0] # "RUNNABLE",
         \A x \in Thread : x > last_index => st[x] # "RUNNABLE"
  PROVE  last_index' = 1 /\ current_thread' = 1 /\ state' = [st EXCEPT ![1] = "RUNNING"]
<1> DEFINE k == MAX_THREAD - last_index + 1
<1>1. MAX_THREAD \in Nat /\ last_index \in Nat /\ last_index < MAX_THREAD
  BY UthreadAssumption DEF Thread
<1>2. k \in 1..MAX_THREAD-1 /\ ~(last_index + k < MAX_THREAD) /\ last_index + k - MAX_THREAD = 1
  BY <1>1
<1> HIDE DEF k
<1>3. SlotAfter(k) = 1 BY <1>2, VisitsSlots, Zenon
<1>4. k \in Found(st) BY <1>2, <1>3, Zenon DEF Found
<1>5. ASSUME NEW m \in Found(st) PROVE k <= m
  <2>1. m \in 1..MAX_THREAD-1 /\ st[SlotAfter(m)] = "RUNNABLE" BY Zenon DEF Found
  <2>2. SlotAfter(m) \in Thread /\ SlotAfter(m) = IF last_index + m < MAX_THREAD
                                                  THEN last_index + m
                                                  ELSE last_index + m - MAX_THREAD
    BY <2>1, VisitsSlots, Zenon
  <2>3. ~(SlotAfter(m) > last_index) /\ SlotAfter(m) # 0 BY <2>1, <2>2, Zenon
  <2>4. ~(last_index + m < MAX_THREAD) BY <1>1, <2>1, <2>2, <2>3
  <2>5. last_index + m - MAX_THREAD # 0 BY <2>2, <2>3, <2>4, Zenon
  <2> QED BY <1>1, <2>1, <2>4, <2>5 DEF k
<1> QED BY <1>3, <1>4, <1>5, TakesFirst, Zenon

(* Slot 0, main, when no other thread is RUNNABLE: the test of line 61 never *)
(* finds the end of the table.                                               *)
LEMMA GoesToMain ==
  ASSUME last_index \in Thread, NEW st, thread_schedule(st),
         \A x \in Thread : st[x] = "RUNNABLE" => x = current_thread
  PROVE  /\ last_index' = last_index /\ current_thread' = 0
         /\ state' = IF current_thread = 0 THEN st ELSE [st EXCEPT ![0] = "RUNNING"]
<1>1. Found(st) = {}
  <2> SUFFICES ASSUME NEW m \in Found(st) PROVE FALSE BY Zenon
  <2>1. m \in 1..MAX_THREAD-1 /\ st[SlotAfter(m)] = "RUNNABLE" /\ SlotAfter(m) # current_thread
    BY Zenon DEF Found
  <2>2. SlotAfter(m) \in Thread BY <2>1, VisitsSlots, Zenon
  <2> QED BY <2>1, <2>2, Zenon
<1> QED BY <1>1, Zenon DEF thread_schedule

(* uthread starts with the invariant.                                        *)
LEMMA UtStart == UtInit => UtInv
<1> SUFFICES ASSUME UtInit PROVE UtInv BY Zenon
<1>1. /\ MAX_THREAD \in Nat /\ MAX_THREAD > 1 /\ 0 \in Thread
      /\ \A t \in Thread : t \in Nat
      /\ numthreads \in Nat /\ numexecs \in Nat
  BY UthreadAssumption DEF UtInit, Thread
<1>2. UtTypeOK BY <1>1, Zenon DEF UtInit, UtTypeOK
<1>3. /\ state[0] = "RUNNING" /\ i[0] = 0 /\ umain = "create"
      /\ \A t \in Thread \ {0} : state[t] = "FREE" /\ i[t] = 0 /\ ~(t <= 0)
  BY <1>1 DEF UtInit
<1>4. UtCreating BY <1>1, <1>3 DEF UtInit, UtCreating
<1> QED BY <1>2, <1>3, <1>4, Zenon DEF UtInv, UtEarly

(* thread_create takes the slot after the last one created.                  *)
LEMMA CreateInv == UtInv /\ thread_create => UtInv'
<1> SUFFICES ASSUME UtInv, thread_create PROVE UtInv' BY Zenon
<1>1. /\ MAX_THREAD \in Nat /\ numthreads \in Nat /\ numexecs \in Nat
      /\ \A t \in Thread : t \in Nat
      /\ 0 \in Thread /\ i \in [Thread -> Nat]
      /\ state \in [Thread -> {"FREE", "RUNNING", "RUNNABLE"}]
  BY UthreadAssumption DEF UtInv, UtTypeOK, Thread
<1>2. umain = "create" /\ UtCreating /\ i[0] < numthreads /\ i[0] \in Nat
  BY <1>1, Zenon DEF thread_create, UtInv, UtEarly
<1>3. PICK t \in Thread : /\ state[t] = "FREE" /\ \A u \in 0..t-1 : state[u] # "FREE"
                          /\ state' = [state EXCEPT ![t] = "RUNNABLE"]
  BY Zenon DEF thread_create
<1>4. /\ i' = [i EXCEPT ![0] = i[0] + 1] /\ umain' = umain /\ current_thread' = current_thread
      /\ last_index' = last_index /\ numthreads' = numthreads /\ numexecs' = numexecs
  BY Zenon DEF thread_create, args
<1>5. t # 0 /\ t = i[0] + 1
  <2> DEFINE d == i[0] + 1
  <2>1. t # 0 BY <1>3, Zenon DEF UtInv
  <2>2. ~(t <= i[0]) BY <1>2, <1>3, <2>1, Zenon DEF UtCreating
  <2>3. d \in Thread \ {0} BY <1>1, <1>2, <2>2 DEF Thread
  <2>4. state[d] = "FREE" BY <1>2, <2>3 DEF UtCreating
  <2>5. d \notin 0..t-1 BY <1>3, <2>4, Zenon
  <2> QED BY <1>1, <1>2, <1>3, <2>1, <2>2, <2>5
<1>6. /\ i'[0] = i[0] + 1 /\ i' \in [Thread -> Nat]
      /\ \A u \in Thread \ {0} : i'[u] = i[u]
      /\ state' \in [Thread -> {"FREE", "RUNNING", "RUNNABLE"}]
      /\ state'[t] = "RUNNABLE" /\ \A u \in Thread : u # t => state'[u] = state[u]
  BY <1>1, <1>2, <1>3, <1>4
<1>7. UtTypeOK' BY <1>4, <1>6, Zenon DEF UtInv, UtTypeOK
<1>8. UtCreating'
  <2>1. ASSUME NEW u \in Thread \ {0}
        PROVE  i'[u] = 0 /\ state'[u] = IF u <= i[0] + 1 THEN "RUNNABLE" ELSE "FREE"
    <3>1. u = t => u <= i[0] + 1 BY <1>1, <1>2, <1>5
    <3>2. u # t => (u <= i[0] + 1 <=> u <= i[0]) BY <1>1, <1>2, <1>5
    <3>3. i[u] = 0 /\ state[u] = IF u <= i[0] THEN "RUNNABLE" ELSE "FREE" BY <1>2, Zenon DEF UtCreating
    <3> QED BY <1>6, <3>1, <3>2, <3>3, Zenon
  <2>2. i[0] + 1 <= numthreads /\ i[0] + 1 < MAX_THREAD BY <1>1, <1>2, <1>5 DEF Thread
  <2> QED BY <1>2, <1>4, <1>6, <2>1, <2>2 DEF UtCreating
<1>9. state'[0] = "RUNNING" BY <1>1, <1>5, <1>6, Zenon DEF UtInv
<1> QED BY <1>2, <1>4, <1>7, <1>8, <1>9, Zenon DEF UtInv, UtEarly

(* thread_create without a FREE slot: as many threads as slots beside main.  *)
LEMMA OverrunInv == UtInv /\ thread_overrun => UtInv'
<1> SUFFICES ASSUME UtInv, thread_overrun PROVE UtInv' BY Zenon
<1>1. /\ umain = "create" /\ umain' = "overrun" /\ state' = state /\ i' = i
      /\ current_thread' = current_thread /\ last_index' = last_index
      /\ numthreads' = numthreads /\ numexecs' = numexecs
      /\ i[0] < numthreads /\ \A t \in Thread : state[t] # "FREE"
  BY Zenon DEF thread_overrun, args
<1>2. UtCreating /\ UtTypeOK BY <1>1, Zenon DEF UtInv, UtEarly
<1>3. UtCreating' /\ UtTypeOK' BY <1>1, <1>2, Zenon DEF UtCreating, UtTypeOK
<1>4. numthreads >= MAX_THREAD
  <2>1. /\ MAX_THREAD \in Nat /\ MAX_THREAD > 1 /\ 0 \in Thread /\ i[0] \in Nat /\ numthreads \in Nat
    BY <1>2, UthreadAssumption DEF UtTypeOK, Thread
  <2> DEFINE d == MAX_THREAD - 1
  <2>2. d \in Thread \ {0} /\ d \in Nat BY <2>1 DEF Thread
  <2> HIDE DEF d
  <2>3. d <= i[0] BY <1>1, <1>2, <2>2, Zenon DEF UtCreating
  <2> QED BY <1>1, <2>1, <2>2, <2>3 DEF d
<1> QED BY <1>1, <1>3, <1>4, Zenon DEF UtInv, UtEarly

(* main's thread_schedule starts the first turn, of thread 1.                *)
LEMMA ScheduleInv == UtInv /\ main_schedule => UtInv'
<1> SUFFICES ASSUME UtInv, main_schedule PROVE UtInv' BY Zenon
<1>0. UtCreating /\ i[0] = numthreads BY Zenon DEF main_schedule, UtInv, UtEarly
<1>1. /\ MAX_THREAD \in Nat /\ numthreads \in 0..MAX_THREAD-1 /\ numexecs \in Nat
      /\ \A t \in Thread : t \in Nat
      /\ 0 \in Thread /\ i \in [Thread -> Nat] /\ last_index \in Thread
      /\ state \in [Thread -> {"FREE", "RUNNING", "RUNNABLE"}] /\ state[0] = "RUNNING"
  BY <1>0, UthreadAssumption DEF UtInv, UtTypeOK, UtCreating, Thread
<1>2. /\ UtCreating /\ i[0] = numthreads /\ thread_schedule(state) /\ ~UtEarly'
      /\ umain' = "schedule" /\ numthreads' = numthreads /\ numexecs' = numexecs /\ i' = i
      /\ numthreads < MAX_THREAD
  BY <1>0, Zenon DEF main_schedule, args, UtEarly, UtCreating
<1>3. /\ current_thread = 0 /\ last_index = 0
      /\ \A t \in Thread \ {0} :
           i[t] = 0 /\ state[t] = IF t <= numthreads THEN "RUNNABLE" ELSE "FREE"
  BY <1>2, Zenon DEF UtCreating
<1>4. CASE numthreads = 0
  <2>1. \A x \in Thread : state[x] = "RUNNABLE" => x = 0 BY <1>1, <1>3, <1>4
  <2>2. last_index' = last_index /\ current_thread' = 0 /\ state' = state
    BY <1>1, <1>2, <1>3, <2>1, GoesToMain, Zenon
  <2>3. UtTypeOK' BY <1>1, <1>2, <2>2, Zenon DEF UtInv, UtTypeOK
  <2>4. UtMain' BY <1>2, <1>4 DEF UtMain
  <2>5. \A t \in Thread : t > numthreads => state[t] = "FREE" BY <1>1, <1>3, <1>4
  <2> QED BY <1>1, <1>2, <1>4, <2>2, <2>3, <2>4, <2>5 DEF UtInv
<1>5. CASE numthreads # 0
  <2>1. 1 \in Thread \ {0} /\ 1 <= numthreads BY <1>1, <1>5 DEF Thread
  <2>2. state[1] = "RUNNABLE" /\ 1 = last_index + 1 /\ 1 # current_thread BY <1>3, <2>1
  <2>3. last_index' = 1 /\ current_thread' = 1 /\ state' = [state EXCEPT ![1] = "RUNNING"]
    BY <1>1, <1>2, <2>1, <2>2, GoesToNext, Zenon
  <2>4. UtTypeOK' BY <1>1, <1>2, <2>1, <2>3, Zenon DEF UtInv, UtTypeOK
  <2>5. state'[1] = "RUNNING" /\ \A t \in Thread : t # 1 => state'[t] = state[t]
    BY <1>1, <2>1, <2>3, Zenon
  <2>6. ASSUME NEW u \in 1..numthreads
        PROVE  u \in Thread \ {0} /\ ~(u < 1) /\ i[u] = 0 /\ state[u] = "RUNNABLE"
    <3>1. u \in Thread \ {0} /\ u <= numthreads /\ ~(u < 1) BY <1>1 DEF Thread
    <3> QED BY <1>3, <3>1, Zenon
  <2>7. i[1] = 0 /\ 0 <= numexecs BY <1>1, <1>3, <2>1
  <2>8. UtTurn(1)' BY <1>2, <2>3, <2>5, <2>6, <2>7, Zenon DEF UtTurn
  <2>9. \A t \in Thread : t > numthreads => state'[t] = "FREE"
    BY <1>1, <1>3, <2>1, <2>5
  <2>10. UtTurn(current_thread)' BY <2>3, <2>8, Zenon DEF UtTurn
  <2> QED BY <1>1, <1>2, <2>1, <2>3, <2>4, <2>5, <2>9, <2>10, Zenon DEF UtInv
<1> QED BY <1>4, <1>5, Zenon

(* mythread yields: the turn goes to the next thread, from the last one to   *)
(* thread 1; a thread that is alone hands control to main.                   *)
LEMMA YieldInv ==
  ASSUME UtInv, NEW t \in Thread, thread_yield(t)
  PROVE  UtInv'
<1> DEFINE st == [state EXCEPT ![t] = "RUNNABLE"]
<1>0. ~UtEarly /\ numthreads < MAX_THREAD BY Zenon DEF thread_yield, UtInv, UtEarly
<1>1. /\ MAX_THREAD \in Nat /\ numthreads \in 0..MAX_THREAD-1 /\ numexecs \in Nat
      /\ \A u \in Thread : u \in Nat
      /\ 0 \in Thread /\ i \in [Thread -> Nat] /\ last_index \in Thread
      /\ state \in [Thread -> {"FREE", "RUNNING", "RUNNABLE"}] /\ state[0] = "RUNNING"
  BY <1>0, UthreadAssumption DEF UtInv, UtTypeOK, Thread
<1>2. /\ t # 0 /\ current_thread = t /\ i[t] < numexecs /\ thread_schedule(st)
      /\ umain = "schedule" /\ umain' = umain /\ numthreads' = numthreads /\ numexecs' = numexecs
      /\ i' = [i EXCEPT ![t] = i[t] + 1]
      /\ ~UtEarly /\ ~UtEarly' /\ numthreads < MAX_THREAD
  BY <1>0, Zenon DEF thread_yield, args, UtEarly
<1>3. /\ i[0] = numthreads /\ t <= numthreads /\ last_index = t
      /\ \A u \in Thread : u > numthreads => state[u] = "FREE"
      /\ numthreads > 1 => \A u \in 1..numthreads :
           /\ i[u] = IF u < t THEN i[t] + 1 ELSE i[t]
           /\ u # t => state[u] = "RUNNABLE"
  BY <1>1, <1>2 DEF UtInv, UtTurn
<1>4. /\ st \in [Thread -> {"FREE", "RUNNING", "RUNNABLE"}] /\ st[0] = "RUNNING"
      /\ st[t] = "RUNNABLE" /\ \A u \in Thread : u # t => st[u] = state[u]
  BY <1>1, <1>2, Zenon
<1> HIDE DEF st
<1>5. /\ i' \in [Thread -> Nat] /\ i'[t] = i[t] + 1 /\ i'[0] = numthreads
      /\ \A u \in Thread : u # t => i'[u] = i[u]
  BY <1>1, <1>2, <1>3
<1>6. i[t] \in Nat /\ t \in Nat /\ i[t] + 1 <= numexecs BY <1>1, <1>2
<1>7. \A u \in 1..numthreads : u \in Thread /\ u \in Nat BY <1>1 DEF Thread
<1>8. CASE ~(numthreads > 1)
  <2>1. t = 1 /\ numthreads = 1 BY <1>1, <1>2, <1>3, <1>6, <1>8
  <2>2. \A x \in Thread : st[x] = "RUNNABLE" => x = t
    <3> SUFFICES ASSUME NEW x \in Thread, x # t PROVE st[x] # "RUNNABLE" BY Zenon
    <3>1. x = 0 \/ x > numthreads BY <1>1, <2>1
    <3> QED BY <1>3, <1>4, <3>1, Zenon
  <2>3. /\ last_index' = last_index /\ current_thread' = 0
        /\ state' = [st EXCEPT ![0] = "RUNNING"]
    BY <1>1, <1>2, <2>2, GoesToMain, Zenon
  <2>4. state' = st BY <1>4, <2>3, Zenon
  <2>5. UtTypeOK' BY <1>1, <1>2, <1>4, <1>5, <2>3, <2>4, Zenon DEF UtInv, UtTypeOK
  <2>6. UtMain' BY <1>2, <1>4, <2>1, <2>4 DEF UtMain
  <2>7. \A u \in Thread : u > numthreads => state'[u] = "FREE" BY <1>3, <1>4, <2>1, <2>4
  <2> QED BY <1>1, <1>2, <1>4, <1>5, <2>3, <2>4, <2>5, <2>6, <2>7 DEF UtInv
<1>9. CASE numthreads > 1 /\ t < numthreads
  <2> DEFINE d == t + 1
  <2>1. d \in Thread /\ d \in 1..numthreads /\ d # t /\ d # 0 /\ ~(d < t)
    BY <1>1, <1>6, <1>9 DEF Thread
  <2>2. st[d] = "RUNNABLE" /\ d = last_index + 1 /\ d # current_thread
    BY <1>2, <1>3, <1>4, <1>9, <2>1, Zenon
  <2>3. \A u \in 1..numthreads : (u < d <=> u < t \/ u = t)
    BY <1>6, <1>7
  <2> HIDE DEF d
  <2>4. last_index' = d /\ current_thread' = d /\ state' = [st EXCEPT ![d] = "RUNNING"]
    BY <1>1, <1>2, <2>1, <2>2, GoesToNext, Zenon
  <2>5. state'[d] = "RUNNING" /\ \A u \in Thread : u # d => state'[u] = st[u]
    BY <1>4, <2>1, <2>4, Zenon
  <2>6. UtTypeOK' BY <1>1, <1>2, <1>4, <1>5, <2>1, <2>4, Zenon DEF UtInv, UtTypeOK
  <2>7. i'[d] = i[t] /\ i'[d] < numexecs /\ i'[d] # numexecs BY <1>1, <1>2, <1>3, <1>5, <1>9, <2>1
  <2>8. ASSUME NEW u \in 1..numthreads
        PROVE  /\ i'[u] = IF u < d THEN i[t] + 1 ELSE i[t]
               /\ u # d => state'[u] = "RUNNABLE"
    <3>1. CASE u = t BY <3>1, <1>4, <1>5, <2>3, <2>5, Zenon
    <3>2. CASE u # t
      <4>1. i'[u] = i[u] /\ st[u] = "RUNNABLE" BY <3>2, <1>3, <1>4, <1>5, <1>7, <1>9, Zenon
      <4>2. i[u] = IF u < t THEN i[t] + 1 ELSE i[t] BY <1>3, <1>9, Zenon
      <4> QED BY <3>2, <4>1, <4>2, <1>7, <2>3, <2>5, Zenon
    <3> QED BY <3>1, <3>2, Zenon
  <2>9. i'[d] <= numexecs BY <1>1, <1>6, <2>7
  <2>10. UtTurn(d)' BY <1>2, <2>4, <2>5, <2>7, <2>8, <2>9, Zenon DEF UtTurn
  <2>11. \A u \in Thread : u > numthreads => state'[u] = "FREE"
    <3> SUFFICES ASSUME NEW u \in Thread, u > numthreads PROVE state'[u] = "FREE" BY Zenon
    <3>1. u # d /\ u # t BY <1>1, <1>9, <2>1
    <3> QED BY <1>3, <1>4, <2>5, <3>1, Zenon
  <2>12. UtTurn(current_thread)' BY <2>4, <2>10, Zenon DEF UtTurn
  <2>13. d <= numthreads BY <2>1
  <2> QED BY <1>1, <1>2, <1>4, <1>5, <2>1, <2>4, <2>5, <2>6, <2>11, <2>12, <2>13, Zenon DEF UtInv
<1>10. CASE numthreads > 1 /\ ~(t < numthreads)
  <2>1. t = numthreads /\ 1 \in 1..numthreads /\ 1 \in Thread /\ 1 # t /\ last_index > 1
    BY <1>1, <1>3, <1>6, <1>7, <1>10
  <2>2. st[1] = "RUNNABLE" /\ 1 # current_thread BY <1>2, <1>3, <1>4, <1>10, <2>1, Zenon
  <2>3. \A x \in Thread : x > last_index => st[x] # "RUNNABLE"
    <3> SUFFICES ASSUME NEW x \in Thread, x > last_index PROVE st[x] = "FREE" BY Zenon
    <3>1. x > numthreads /\ x # t BY <1>1, <1>3, <1>6, <2>1
    <3> QED BY <1>3, <1>4, <3>1, Zenon
  <2>4. last_index' = 1 /\ current_thread' = 1 /\ state' = [st EXCEPT ![1] = "RUNNING"]
    BY <1>1, <1>2, <1>4, <2>1, <2>2, <2>3, GoesRound, Zenon
  <2>5. state'[1] = "RUNNING" /\ \A u \in Thread : u # 1 => state'[u] = st[u]
    BY <1>4, <2>1, <2>4, Zenon
  <2>6. UtTypeOK' BY <1>1, <1>2, <1>4, <1>5, <2>1, <2>4, Zenon DEF UtInv, UtTypeOK
  <2>7. ASSUME NEW u \in 1..numthreads
        PROVE  i'[u] = i[t] + 1 /\ (u # 1 => state'[u] = "RUNNABLE") /\ ~(u < 1)
    <3>1. CASE u = t BY <3>1, <1>4, <1>5, <1>7, <2>5
    <3>2. CASE u # t
      <4>1. u < t BY <3>2, <1>1, <1>7, <2>1
      <4> QED BY <3>2, <4>1, <1>3, <1>4, <1>5, <1>7, <1>10, <2>5
    <3> QED BY <3>1, <3>2, Zenon
  <2>8. i'[1] = i[t] + 1 /\ i'[1] <= numexecs BY <1>6, <2>1, <2>7, Zenon
  <2>9. UtTurn(1)' BY <1>2, <2>4, <2>5, <2>7, <2>8, Zenon DEF UtTurn
  <2>10. \A u \in Thread : u > numthreads => state'[u] = "FREE"
    <3> SUFFICES ASSUME NEW u \in Thread, u > numthreads PROVE state'[u] = "FREE" BY Zenon
    <3>1. u # 1 /\ u # t BY <1>1, <1>6, <1>10, <2>1
    <3> QED BY <1>3, <1>4, <2>5, <3>1
  <2>11. UtTurn(current_thread)' BY <2>4, <2>9, Zenon DEF UtTurn
  <2>12. 1 <= numthreads /\ 0 # 1 BY <2>1
  <2> QED BY <1>1, <1>2, <1>4, <1>5, <2>4, <2>5, <2>6, <2>10, <2>11, <2>12, Zenon DEF UtInv
<1> QED BY <1>8, <1>9, <1>10, Zenon

(* mythread exits after its last turn: the next thread has the turn, and     *)
(* after the last one main.                                                  *)
LEMMA ExitInv ==
  ASSUME UtInv, NEW t \in Thread, thread_exit(t)
  PROVE  UtInv'
<1> DEFINE st == [state EXCEPT ![t] = "FREE"]
<1>0. ~UtEarly /\ numthreads < MAX_THREAD BY Zenon DEF thread_exit, UtInv, UtEarly
<1>1. /\ MAX_THREAD \in Nat /\ numthreads \in 0..MAX_THREAD-1 /\ numexecs \in Nat
      /\ \A u \in Thread : u \in Nat
      /\ 0 \in Thread /\ i \in [Thread -> Nat] /\ last_index \in Thread
      /\ state \in [Thread -> {"FREE", "RUNNING", "RUNNABLE"}] /\ state[0] = "RUNNING"
  BY <1>0, UthreadAssumption DEF UtInv, UtTypeOK, Thread
<1>2. /\ t # 0 /\ current_thread = t /\ i[t] = numexecs /\ thread_schedule(st)
      /\ umain = "schedule" /\ umain' = umain /\ numthreads' = numthreads /\ numexecs' = numexecs
      /\ i' = i
      /\ ~UtEarly /\ ~UtEarly' /\ numthreads < MAX_THREAD
  BY <1>0, Zenon DEF thread_exit, args, UtEarly
<1>3. /\ i[0] = numthreads /\ t <= numthreads /\ last_index = t /\ ~(i[t] < numexecs)
      /\ \A u \in Thread : u > numthreads => state[u] = "FREE"
      /\ numthreads > 1 => \A u \in 1..numthreads :
           /\ i[u] = numexecs
           /\ u # t => state[u] = IF u < t THEN "FREE" ELSE "RUNNABLE"
  BY <1>1, <1>2 DEF UtInv, UtTurn
<1>4. /\ st \in [Thread -> {"FREE", "RUNNING", "RUNNABLE"}] /\ st[0] = "RUNNING"
      /\ st[t] = "FREE" /\ \A u \in Thread : u # t => st[u] = state[u]
  BY <1>1, <1>2, Zenon
<1> HIDE DEF st
<1>5. t \in Nat /\ \A u \in 1..numthreads : u \in Thread /\ u \in Nat BY <1>1 DEF Thread
<1>6. CASE numthreads > 1 /\ t < numthreads
  <2> DEFINE d == t + 1
  <2>1. d \in Thread /\ d \in 1..numthreads /\ d # t /\ d # 0 /\ ~(d < t)
    BY <1>1, <1>5, <1>6 DEF Thread
  <2>2. st[d] = "RUNNABLE" /\ d = last_index + 1 /\ d # current_thread
    BY <1>2, <1>3, <1>4, <1>6, <2>1, Zenon
  <2>3. \A u \in 1..numthreads : (u < d <=> u < t \/ u = t)
    BY <1>5
  <2> HIDE DEF d
  <2>4. last_index' = d /\ current_thread' = d /\ state' = [st EXCEPT ![d] = "RUNNING"]
    BY <1>1, <1>2, <2>1, <2>2, GoesToNext, Zenon
  <2>5. state'[d] = "RUNNING" /\ \A u \in Thread : u # d => state'[u] = st[u]
    BY <1>4, <2>1, <2>4, Zenon
  <2>6. UtTypeOK' BY <1>1, <1>2, <1>4, <2>1, <2>4, Zenon DEF UtInv, UtTypeOK
  <2>7. i[d] = numexecs /\ i[d] <= numexecs /\ ~(i[d] < numexecs) BY <1>1, <1>3, <1>6, <2>1
  <2>8. ASSUME NEW u \in 1..numthreads
        PROVE  /\ i[u] = i[d]
               /\ u # d => state'[u] = IF u < d THEN "FREE" ELSE "RUNNABLE"
    <3>1. CASE u = t BY <3>1, <1>3, <1>4, <1>5, <1>6, <2>3, <2>5, <2>7, Zenon
    <3>2. CASE u # t BY <3>2, <1>3, <1>4, <1>5, <1>6, <2>3, <2>5, <2>7
    <3> QED BY <3>1, <3>2, Zenon
  <2>9. UtTurn(d)' BY <1>2, <2>4, <2>5, <2>7, <2>8, Zenon DEF UtTurn
  <2>10. \A u \in Thread : u > numthreads => state'[u] = "FREE"
    <3> SUFFICES ASSUME NEW u \in Thread, u > numthreads PROVE state'[u] = "FREE" BY Zenon
    <3>1. u # d /\ u # t BY <1>1, <1>6, <2>1
    <3> QED BY <1>3, <1>4, <2>5, <3>1
  <2>11. UtTurn(current_thread)' BY <2>4, <2>9, Zenon DEF UtTurn
  <2>12. d <= numthreads BY <2>1
  <2> QED BY <1>1, <1>2, <1>3, <1>4, <2>1, <2>4, <2>5, <2>6, <2>10, <2>11, <2>12, Zenon DEF UtInv
<1>7. CASE ~(numthreads > 1 /\ t < numthreads)
  <2>1. t = numthreads BY <1>1, <1>2, <1>3, <1>5, <1>7
  <2>2. ASSUME NEW u \in Thread, u # 0 PROVE st[u] = "FREE"
    <3>1. CASE u = t BY <3>1, <1>4, Zenon
    <3>2. CASE u > numthreads
      <4>1. u # t BY <1>1, <3>2, <2>1
      <4> QED BY <1>3, <1>4, <3>2, <4>1, Zenon
    <3>3. CASE u < t
      <4>1. u \in 1..numthreads /\ numthreads > 1 /\ u # t BY <1>1, <1>5, <2>1, <2>2, <3>3
      <4> QED BY <1>3, <1>4, <3>3, <4>1, Zenon
    <3> QED BY <1>1, <1>5, <2>1, <3>1, <3>2, <3>3
  <2>3. \A x \in Thread : st[x] = "RUNNABLE" => x = current_thread BY <1>4, <2>2, Zenon
  <2>4. /\ last_index' = last_index /\ current_thread' = 0
        /\ state' = [st EXCEPT ![0] = "RUNNING"]
    BY <1>1, <1>2, <2>3, GoesToMain, Zenon
  <2>5. state' = st BY <1>4, <2>4, Zenon
  <2>6. UtTypeOK' BY <1>1, <1>2, <1>4, <2>4, <2>5, Zenon DEF UtInv, UtTypeOK
  <2>7. \A u \in 1..numthreads : u # 0 /\ st[u] = "FREE"
    <3>1. \A u \in 1..numthreads : u # 0 BY <1>5
    <3> QED BY <1>5, <2>2, <3>1, Zenon
  <2>8. numthreads = 1 => 1 \in 1..numthreads OBVIOUS
  <2>9. UtMain' BY <1>2, <1>3, <2>5, <2>7, <2>8, Zenon DEF UtMain
  <2>10. \A u \in Thread : u > numthreads => state'[u] = "FREE"
    BY <1>1, <2>2, <2>5
  <2> QED BY <1>1, <1>2, <1>3, <1>4, <2>4, <2>5, <2>6, <2>9, <2>10 DEF UtInv
<1> QED BY <1>6, <1>7, Zenon

(* Every step of main and of the threads keeps the invariant.                *)
LEMMA UtKeeps == UtInv /\ [UtNext]_utvars => UtInv'
<1>1. ASSUME UtInv, main_ended PROVE UtInv'
  <2>1. /\ umain = "schedule" /\ current_thread = 0 /\ umain' = "ended" /\ state' = state
        /\ current_thread' = current_thread /\ last_index' = last_index /\ i' = i
        /\ numthreads' = numthreads /\ numexecs' = numexecs
    BY <1>1, Zenon DEF main_ended, args
  <2> QED BY <1>1, <2>1, Zenon DEF UtInv, UtEarly, UtTypeOK, UtMain
<1>2. ASSUME UtInv, UNCHANGED utvars PROVE UtInv'
  BY <1>2, Zenon DEF utvars, UtInv, UtEarly, UtTypeOK, UtMain, UtCreating, UtTurn
<1> QED BY <1>1, <1>2, CreateInv, OverrunInv, ScheduleInv, YieldInv, ExitInv, Zenon DEF UtNext

(* The inductive invariant of uthread.c on uthreadlib.c.                     *)
THEOREM UthreadInvariant == UtSpec => []UtInv
<1> QED BY UtStart, UtKeeps, PTL DEF UtSpec

(* For every size of the thread table and every number of threads and of     *)
(* yields: main overruns the table exactly when the threads do not fit, and  *)
(* until then one thread runs at a time, none gets ahead of another by more  *)
(* than a turn, and main goes on when all of them ended.                     *)
THEOREM TurnsAreTaken == UtSpec => []ThreadsTakeTurns
<1>1. UtInv => ThreadsTakeTurns
  <2> SUFFICES ASSUME UtInv PROVE ThreadsTakeTurns BY Zenon
  <2>1. /\ MAX_THREAD \in Nat /\ numthreads \in Nat /\ numexecs \in Nat
        /\ i \in [Thread -> Nat] /\ 0 \in Thread /\ current_thread \in Thread
        /\ \A t \in Thread : t \in Nat
    BY UthreadAssumption DEF UtInv, UtTypeOK, Thread
  <2>2. RoundRobin
    <3> SUFFICES ASSUME NEW t \in Thread, NEW u \in Thread, UtCreated(t), UtCreated(u), numthreads > 1
                 PROVE  i[t] <= i[u] + 1
      BY Zenon DEF RoundRobin
    <3>1. i[t] \in Nat /\ i[u] \in Nat /\ t # 0 /\ u # 0 BY <2>1 DEF UtCreated
    <3>2. CASE UtEarly
      <4>1. i[t] = 0 /\ i[u] = 0 BY <3>1, <3>2, Zenon DEF UtInv, UtCreating
      <4> QED BY <4>1
    <3>3. CASE ~UtEarly
      <4>1. t \in 1..numthreads /\ u \in 1..numthreads BY <3>3, Zenon DEF UtInv, UtCreated
      <4>2. CASE current_thread = 0
        <5>1. i[t] = numexecs /\ i[u] = numexecs BY <3>3, <4>1, <4>2, Zenon DEF UtInv, UtMain
        <5> QED BY <2>1, <5>1
      <4>3. CASE current_thread # 0
        <5> DEFINE c == current_thread
        <5>1. i[c] \in Nat BY <2>1, Zenon
        <5>2. \A v \in 1..numthreads : i[v] = i[c] + 1 \/ i[v] = i[c]
          BY <3>3, <4>3, Zenon DEF UtInv, UtTurn
        <5> HIDE DEF c
        <5> QED BY <4>1, <5>1, <5>2
      <4> QED BY <4>2, <4>3, Zenon
    <3> QED BY <3>2, <3>3, Zenon
  <2>3. OneRunning
    <3> SUFFICES ASSUME NEW t \in Thread \ {0}
                 PROVE  /\ state[t] = "RUNNING" <=> current_thread = t
                        /\ current_thread = t => last_index = t
      BY Zenon DEF OneRunning
    <3>1. CASE UtEarly BY <3>1, Zenon DEF UtInv, UtCreating
    <3>2. ASSUME ~UtEarly, current_thread = t
          PROVE  state[t] = "RUNNING" /\ last_index = t
      BY <3>2, Zenon DEF UtInv, UtTurn
    <3>3. ASSUME ~UtEarly, current_thread # t PROVE state[t] # "RUNNING"
      <4>1. CASE t > numthreads BY <3>3, <4>1, Zenon DEF UtInv
      <4>2. CASE t <= numthreads
        <5>1. t \in 1..numthreads BY <2>1, <4>2
        <5>2. CASE numthreads = 1
          <6>1. t = 1 BY <2>1, <4>2, <5>2
          <6>2. current_thread = 0
            <7>1. current_thread <= numthreads BY <3>3, Zenon DEF UtInv
            <7> QED BY <2>1, <3>3, <5>2, <6>1, <7>1
          <6> QED BY <3>3, <5>2, <6>1, <6>2, Zenon DEF UtInv, UtMain
        <5>3. CASE numthreads > 1
          <6>1. CASE current_thread = 0 BY <3>3, <5>1, <5>3, <6>1, Zenon DEF UtInv, UtMain
          <6>2. CASE current_thread # 0 BY <3>3, <5>1, <5>3, <6>2, Zenon DEF UtInv, UtTurn
          <6> QED BY <6>1, <6>2, Zenon
        <5> QED BY <2>1, <5>1, <5>2, <5>3
      <4> QED BY <2>1, <4>1, <4>2
    <3> QED BY <3>1, <3>2, <3>3, Zenon
  <2>4. EndedTogether
    <3> SUFFICES ASSUME umain = "ended", numthreads # 1, NEW t \in 1..numthreads
                 PROVE  state[t] = "FREE" /\ i[t] = numexecs
      BY Zenon DEF EndedTogether
    <3>1. numthreads > 1 BY <2>1
    <3>2. UtMain BY Zenon DEF UtInv, UtEarly
    <3> QED BY <3>1, <3>2, Zenon DEF UtMain
  <2>5. OverrunsWhenFull BY Zenon DEF UtInv, UtEarly, OverrunsWhenFull
  <2> QED BY <2>2, <2>3, <2>4, <2>5, Zenon DEF ThreadsTakeTurns, UtInv
<1> QED BY <1>1, UthreadInvariant, PTL

-----------------------------------------------------------------------------
(*** lab-05/buf.c ***)

(* 1 while the producer (consumer) is past sem_wait and before sem_post.   *)
inP == IF ppc \in {"lock", "store", "unlock", "post"} THEN 1 ELSE 0
inC == IF cpc \in {"lock", "load", "unlock", "post"} THEN 1 ELSE 0

(* Number of items stored so far.                                          *)
Stored == IF ppc \in {"unlock", "post"} THEN pi + 1 ELSE pi

Counting ==
  /\ vacios = Size + ci - pi - inP
  /\ llenos = pi - ci - inC
  /\ ppc # "done" => pi < Items
  /\ cpc # "done" => ci < Items

(* What is stored and not yet released by the consumer is in its slot.     *)
InSlots == \A k \in 0..Items-1 : ci <= k /\ k < Stored => buf[k % Size] = k

IInv == TypeOK /\ Counting /\ InSlots /\ ReadsInOrder

-----------------------------------------------------------------------------
(* The initial state satisfies the invariant.                              *)
LEMMA InitInv == Init => IInv
<1> SUFFICES ASSUME Init PROVE IInv BY Zenon
<1>1. TypeOK BY BufferAssumption DEF Init, TypeOK, Slots, PPC, CPC
<1>2. Counting
  <2>1. inP = 0 /\ inC = 0 BY Zenon DEF Init, inP, inC
  <2>2. vacios = Size /\ llenos = 0 /\ pi = 0 /\ ci = 0 BY Zenon DEF Init
  <2> QED BY <2>1, <2>2, BufferAssumption DEF Counting
<1>3. InSlots /\ ReadsInOrder
  BY BufferAssumption DEF Init, InSlots, ReadsInOrder, Stored
<1> QED BY <1>1, <1>2, <1>3, Zenon DEF IInv

(* Every step of main, the producer and the consumer preserves it.         *)
LEMMA NextInv == IInv /\ [Next]_vars => IInv'
<1> SUFFICES ASSUME IInv, [Next]_vars PROVE IInv' BY Zenon
<1> USE BufferAssumption
<1> USE DEF IInv, TypeOK, Counting, Slots, PPC, CPC, inP, inC
<1>1. CASE UNCHANGED vars
  BY <1>1 DEF vars, InSlots, ReadsInOrder, Stored
<1>2. CASE pthread_create \/ main_destroy
  BY <1>2, ZenonT(60) DEF pthread_create, main_destroy, producer_vars, consumer_vars,
              InSlots, ReadsInOrder, Stored
<1>3. CASE p_wait
  BY <1>3 DEF p_wait, consumer_vars, InSlots, ReadsInOrder, Stored
<1>4. CASE p_lock
  BY <1>4, Zenon DEF p_lock, Lock, consumer_vars, InSlots, ReadsInOrder, Stored
<1>5. CASE p_store
  <2>1. pi - ci < Size /\ pi \in 0..Items-1
    BY <1>5 DEF p_store
  <2>2. TypeOK' /\ Counting' /\ ReadsInOrder'
    BY <1>5 DEF p_store, consumer_vars, ReadsInOrder
  <2>3. InSlots'
    <3> SUFFICES ASSUME NEW k \in 0..Items-1, ci <= k, k < pi + 1
                 PROVE  buf'[k % Size] = k
      BY <1>5, Zenon DEF p_store, consumer_vars, InSlots, Stored
    <3>1. k % Size \in Slots /\ pi % Size \in Slots BY <2>1
    <3>2. CASE k = pi
      <4>1. buf' = [buf EXCEPT ![pi % Size] = pi] BY <1>5, Zenon DEF p_store
      <4> HIDE DEF IInv
      <4>2. DOMAIN buf = Slots BY Zenon DEF IInv, TypeOK
      <4> QED BY <3>1, <3>2, <4>1, <4>2, Zenon
    <3>3. CASE k < pi
      <4>1. k % Size # pi % Size
        <5>1. k \in Int /\ pi \in Int /\ pi - k < Size /\ Size \in Nat \ {0}
          BY <2>1, BufferAssumption
        <5> HIDE DEF IInv
        <5> QED BY <5>1, <3>3, SlotsDiffer, Zenon
      <4>2. buf[k % Size] = k BY <3>3, <1>5, Zenon DEF p_store, InSlots, Stored
      <4> QED BY <3>1, <4>1, <4>2, <1>5, Zenon DEF p_store
    <3> QED BY <3>2, <3>3, <2>1
  <2> QED BY <2>2, <2>3, Zenon
<1>6. CASE p_unlock
  BY <1>6, Zenon DEF p_unlock, Unlock, consumer_vars, InSlots, ReadsInOrder, Stored
<1>7. CASE p_post
  BY <1>7 DEF p_post, consumer_vars, InSlots, ReadsInOrder, Stored
<1>8. CASE c_wait
  BY <1>8 DEF c_wait, producer_vars, InSlots, ReadsInOrder, Stored
<1>9. CASE c_lock
  BY <1>9, Zenon DEF c_lock, Lock, producer_vars, InSlots, ReadsInOrder, Stored
<1>10. CASE c_load
  <2>1. ci < pi /\ ci \in 0..Items-1 /\ ci < Stored
    BY <1>10 DEF c_load, Stored
  <2>2. buf[ci % Size] = ci
    BY <2>1, <1>10 DEF InSlots
  <2>3. TypeOK' /\ Counting' /\ InSlots'
    BY <2>1, <2>2, <1>10 DEF c_load, producer_vars, InSlots, Stored
  <2>4. ReadsInOrder'
    <3>1. reader_results' = [reader_results EXCEPT ![ci] = ci] /\ ci' = ci
      BY <2>2, <1>10, Zenon DEF c_load
    <3>2. ASSUME NEW k \in 0..Items-1, k <= ci
          PROVE  reader_results'[k] = k
      <4>1. DOMAIN reader_results = 0..Items-1 BY Zenon
      <4>2. k # ci => reader_results[k] = k BY <3>2 DEF ReadsInOrder
      <4> HIDE DEF IInv
      <4> QED BY <3>1, <4>1, <4>2, Zenon
    <3> QED BY <3>1, <3>2, Zenon DEF ReadsInOrder
  <2> QED BY <2>3, <2>4, Zenon
<1>11. CASE c_unlock
  BY <1>11, Zenon DEF c_unlock, Unlock, producer_vars, InSlots, ReadsInOrder, Stored
<1>12. CASE c_post
  <2>1. TypeOK' /\ Counting' BY <1>12 DEF c_post, producer_vars
  <2>2. InSlots'
    <3>1. ci' = ci + 1 /\ Stored' = Stored /\ buf' = buf
      BY <1>12, Zenon DEF c_post, producer_vars, Stored
    <3>2. ci \in Nat /\ InSlots OBVIOUS
    <3> HIDE DEF IInv
    <3> QED BY <3>1, <3>2 DEF InSlots
  <2>3. ReadsInOrder'
    <3>1. ci' = ci + 1 /\ cpc = "post" /\ cpc' \notin {"unlock", "post"}
          /\ reader_results' = reader_results
      BY <1>12, Zenon DEF c_post
    <3>2. ci \in Nat /\ ReadsInOrder OBVIOUS
    <3> HIDE DEF IInv
    <3> QED BY <3>1, <3>2 DEF ReadsInOrder
  <2> QED BY <2>1, <2>2, <2>3, Zenon
<1> QED BY <1>1, <1>2, <1>3, <1>4, <1>5, <1>6, <1>7, <1>8, <1>9, <1>10,
           <1>11, <1>12, Zenon DEF Next, producer, consumer

(* The invariant holds for ever.                                           *)
THEOREM Invariant == Spec => []IInv
BY InitInv, NextInv, PTL DEF Spec

(* The types of all variables are kept; in particular no semaphore ever    *)
(* goes below zero.                                                        *)
THEOREM TypeCorrect == Spec => []TypeOK
<1>1. IInv => TypeOK BY Zenon DEF IInv
<1> QED BY <1>1, Invariant, PTL

(* For every Size and Items the consumer (buf.c:62-71) reads exactly       *)
(* 0, 1, 2, ... although main destroys the mutex.                          *)
THEOREM InOrder == Spec => []ReadsInOrder
<1>1. IInv => ReadsInOrder BY Zenon DEF IInv
<1> QED BY <1>1, Invariant, PTL

(* For every Size and Items the store of buf.c:41 and the load of          *)
(* buf.c:65 never meet in the same slot.                                   *)
THEOREM SlotsApart == Spec => []NoSlotRace
<1>1. IInv => NoSlotRace
  <2> SUFFICES ASSUME IInv, ppc = "store", cpc = "load"
               PROVE  pi % Size # ci % Size
    BY Zenon DEF NoSlotRace
  <2>1. ci \in Nat /\ pi \in Nat /\ ci < pi /\ pi - ci < Size
    BY BufferAssumption DEF IInv, TypeOK, Counting, inP, inC
  <2>2. ci \in Int /\ pi \in Int /\ Size \in Nat \ {0} BY <2>1, BufferAssumption
  <2>3. ci % Size # pi % Size BY <2>1, <2>2, SlotsDiffer, Zenon
  <2> QED BY <2>3, Zenon
<1> QED BY <1>1, Invariant, PTL

-----------------------------------------------------------------------------
(*** lab-05/wordheap.c ***)

(* Where a command is: before sem_wait, with a place or a word taken,        *)
(* inside the mutex.                                                         *)
Taking == {"w_lock", "w_copy", "w_count", "r_post"}
Giving == {"w_post", "r_lock", "r_copy", "r_count"}
Locked == {"w_copy", "w_count", "r_copy", "r_count", "p_print"}
Pushing == {"w", "w_lock", "w_copy", "w_count"}
WhPC == Taking \cup Giving \cup {"shell", "lost", "w", "r", "p", "p_lock", "p_print"}

(* The bytes of a slot.                                                      *)
WhSlots == [Cols -> {0} \cup WWords]

WhRegion ==
  [free : 0..ITEMS-1, items : Nat, full : Nat, empty : Nat,
   mutex : WProcs \cup {NoW}, heap : [0..ITEMS -> WhSlots]]

WhTypes ==
  /\ ws \in WhRegion
  /\ wpc \in [WProcs -> WhPC]
  /\ arg \in [WProcs -> WWords \cup {0}]
  /\ stack \in Seq(WWords)
  /\ \A p \in WProcs : wpc[p] \in Pushing => arg[p] \in WWords

(* Only the holder of the mutex is between pthread_mutex_lock and unlock.    *)
MutexInv == \A p \in WProcs : wpc[p] \in Locked => ws.mutex = p

(* The bytes of the heap, with the word that -w has copied and not counted.  *)
BytesInv ==
  /\ \A k \in 1..Len(stack) : stack[k] < MAX_WORD /\ ws.heap[ws.free + k] = Spelt(stack[k])
  /\ \A k \in 0..ws.free :
       ws.heap[k] = Blank \/ (k = ws.free /\ \E p \in WProcs : wpc[p] = "w_count")
  /\ \A p \in WProcs :
       wpc[p] = "w_count" => arg[p] < MAX_WORD /\ ws.heap[ws.free] = Spelt(arg[p])
HeapInv ==
  /\ Len(stack) = ITEMS - 1 - ws.free /\ ws.items = Len(stack)
  /\ clean => BytesInv

(* The places: free ones are in `empty` or taken by a command, words are in  *)
(* `full` or on their way.                                                   *)
PlaceInv ==
  /\ ws.full + Cardinality(At(Giving)) = Len(stack)
  /\ ws.empty + Cardinality(At(Taking)) = ws.free

WhInv == WhTypes /\ MutexInv /\ HeapInv /\ PlaceInv /\ PopsTop

(* strncpy leaves bytes of words in the slots (wordheap.c:66).               *)
LEMMA WritesType ==
  ASSUME NEW h \in [0..ITEMS -> WhSlots], NEW f \in 0..ITEMS-1, NEW w \in WWords
  PROVE  Written(h, f, w) \in [0..ITEMS -> WhSlots]
<1>1. ASSUME NEW row \in 0..ITEMS, NEW k \in Cols PROVE h[row][k] \in {0} \cup WWords
  BY <1>1, Zenon DEF WhSlots
<1> QED BY <1>1, Zenon DEF Written, WhSlots

(* strncpy of a word with room for its NUL changes no other slot, and spells *)
(* the word in a zeroed one.                                                 *)
LEMMA WritesRow ==
  ASSUME NEW h \in [0..ITEMS -> WhSlots], NEW f \in 0..ITEMS-1, NEW w \in WWords,
         w < MAX_WORD
  PROVE  /\ \A row \in 0..ITEMS : row # f => Written(h, f, w)[row] = h[row]
         /\ h[f] = Blank => Written(h, f, w)[f] = Spelt(w)
<1>1. /\ ITEMS \in Nat /\ MAX_WORD \in Nat /\ w \in Nat /\ f \in 0..ITEMS
      /\ \A k \in Cols : ~(MAX_WORD + k < w)
  BY WordHeapAssumption DEF Cols
<1>2. \A row \in 0..ITEMS : Written(h, f, w)[row] =
         [k \in Cols |-> IF row = f /\ k < w THEN w ELSE h[row][k]]
  BY <1>1, Zenon DEF Written
<1>3. ASSUME NEW row \in 0..ITEMS, row # f PROVE Written(h, f, w)[row] = h[row]
  <2>1. Written(h, f, w)[row] = [k \in Cols |-> h[row][k]] BY <1>2, <1>3, Zenon
  <2>2. h[row] \in [Cols -> {0} \cup WWords] BY Zenon DEF WhSlots
  <2> QED BY <2>1, <2>2, Zenon
<1>4. ASSUME h[f] = Blank PROVE Written(h, f, w)[f] = Spelt(w)
  <2>1. Written(h, f, w)[f] = [k \in Cols |-> IF k < w THEN w ELSE h[f][k]] BY <1>1, <1>2, Zenon
  <2>2. \A k \in Cols : h[f][k] = 0 BY <1>4, Zenon DEF Blank
  <2> QED BY <2>1, <2>2, Zenon DEF Spelt
<1> QED BY <1>3, <1>4, Zenon

(* printf shows a word or something else (wordheap.c:82).                    *)
LEMMA PoppedType ==
  ASSUME NEW h, NEW row
  PROVE  Popped(h, row) \in WWords \cup {0}
BY Zenon DEF Popped

(* printf shows the word that is spelt in its slot.                          *)
LEMMA PoppedSpelt ==
  ASSUME NEW h, NEW row, NEW w \in WWords, w < MAX_WORD, h[row] = Spelt(w)
  PROVE  Popped(h, row) = w
<1>1. MAX_WORD \in Nat /\ w \in Nat /\ w >= 1 /\ \A v \in WWords : v \in Nat /\ v >= 1
  BY WordHeapAssumption
<1>2. \A n \in Cols : h[row][n] = IF n < w THEN w ELSE 0 BY Zenon DEF Spelt
<1>3. Shows(h, row, w)
  <2>1. ASSUME NEW n \in 0..(w - 1) PROVE Byte(h, row, n) = w
    <3>1. n \in Cols /\ n < MAX_WORD /\ n < w BY <1>1 DEF Cols
    <3> QED BY <1>2, <3>1, Zenon DEF Byte
  <2>2. Byte(h, row, w) = 0
    <3>1. w \in Cols /\ ~(w < w) BY <1>1 DEF Cols
    <3> QED BY <1>2, <3>1, Zenon DEF Byte
  <2> QED BY <2>1, <2>2, Zenon DEF Shows
<1>4. ASSUME NEW v \in WWords, Shows(h, row, v) PROVE v = w
  <2>1. 0 \in 0..(v - 1) /\ 0 \in Cols /\ 0 < MAX_WORD /\ 0 < w BY <1>1 DEF Cols
  <2>2. Byte(h, row, 0) = v BY <1>4, <2>1, Zenon DEF Shows
  <2>3. Byte(h, row, 0) = w BY <1>2, <2>1, Zenon DEF Byte
  <2> QED BY <2>2, <2>3, Zenon
<1> QED BY <1>3, <1>4, Zenon DEF Popped

(* How many commands are in a part of the program, when one of them moves.   *)
LEMMA AtMoves ==
  ASSUME wpc \in [WProcs -> WhPC], NEW p \in WProcs, NEW s, NEW CONSTANT S,
         wpc' = [wpc EXCEPT ![p] = s]
  PROVE  /\ Cardinality(At(S)) \in Nat /\ Cardinality(At(S)') \in Nat
         /\ s \in S /\ wpc[p] \notin S => Cardinality(At(S)') = Cardinality(At(S)) + 1
         /\ s \notin S /\ wpc[p] \in S => Cardinality(At(S)') = Cardinality(At(S)) - 1
         /\ (s \in S <=> wpc[p] \in S) => Cardinality(At(S)') = Cardinality(At(S))
         /\ wpc[p] \in S => Cardinality(At(S)) > 0
<1> DEFINE A == At(S)
           B == At(S)'
<1>1. A \subseteq WProcs /\ B \subseteq WProcs BY Zenon DEF At
<1>2. IsFiniteSet(WProcs) BY WordHeapAssumption, Zenon
<1>3. IsFiniteSet(A) /\ IsFiniteSet(B) BY <1>1, <1>2, FS_Subset, Zenon
<1>4. Cardinality(A) \in Nat /\ Cardinality(B) \in Nat BY <1>3, FS_CardinalityType, Zenon
<1>5. p \in A <=> wpc[p] \in S BY Zenon DEF At
<1>6. p \in B <=> s \in S BY Zenon DEF At
<1>7. A \ {p} = B \ {p} BY Zenon DEF At
<1> HIDE DEF A, B
<1>8. p \in B /\ p \notin A => Cardinality(B) = Cardinality(A) + 1
  <2> SUFFICES ASSUME p \in B, p \notin A PROVE Cardinality(B) = Cardinality(A) + 1 BY Zenon
  <2>1. B = A \cup {p} BY <1>7, Zenon
  <2> QED BY <2>1, <1>3, FS_AddElement, Zenon
<1>9. p \notin B /\ p \in A => Cardinality(B) = Cardinality(A) - 1
  <2> SUFFICES ASSUME p \notin B, p \in A PROVE Cardinality(B) = Cardinality(A) - 1 BY Zenon
  <2>1. B = A \ {p} BY <1>7, Zenon
  <2> QED BY <2>1, <1>3, FS_RemoveElement, Zenon
<1>10. (p \in B <=> p \in A) => B = A BY <1>7
<1>11. p \in A => Cardinality(A) > 0
  <2> SUFFICES ASSUME p \in A PROVE Cardinality(A) > 0 BY Zenon
  <2>1. Cardinality(A) # 0 BY <1>3, FS_EmptySet, Zenon
  <2> QED BY <2>1, <1>4
<1> QED BY <1>4, <1>5, <1>6, <1>8, <1>9, <1>10, <1>11, Zenon DEF A, B

(* No command runs: nobody has a place, a word or the mutex.                 *)
LEMMA QuietAt ==
  ASSUME Quiet
  PROVE  At(Giving) = {} /\ At(Taking) = {} /\ Cardinality({}) = 0
<1>1. \A p \in WProcs : wpc[p] = "shell" \/ wpc[p] = "lost" BY Zenon DEF Quiet
<1>2. At(Giving) = {} BY <1>1, Zenon DEF At, Giving
<1>3. At(Taking) = {} BY <1>1, Zenon DEF At, Taking
<1>4. Cardinality({}) = 0 BY FS_EmptySet, Zenon
<1> QED BY <1>2, <1>3, <1>4, Zenon

(* A region -c has filled in is an empty stack.                              *)
LEMMA CreatedType == Created \in WhRegion
<1>1. ITEMS \in Nat \ {0} BY WordHeapAssumption, Zenon
<1>2. ITEMS - 1 \in Nat /\ ITEMS - 1 \in 0..ITEMS-1 BY <1>1
<1>3. Blank \in WhSlots BY Zenon DEF WhSlots, Blank
<1>4. [k \in 0..ITEMS |-> Blank] \in [0..ITEMS -> WhSlots] BY <1>3, Zenon
<1> QED BY <1>4, <1>2, <1>3, Zenon DEF Created, WhRegion

(* The start.                                                                *)
LEMMA WordHeapInit == WhInit => WhInv
<1> SUFFICES ASSUME WhInit PROVE WhInv BY Zenon
<1>1. ITEMS \in Nat \ {0} BY WordHeapAssumption, Zenon
<1>2. ws \in WhRegion BY CreatedType, Zenon DEF WhInit
<1>3. /\ ws.free = ITEMS - 1 /\ ws.items = 0 /\ ws.full = 0 /\ ws.empty = ITEMS - 1
      /\ ws.mutex = NoW /\ \A k \in 0..ITEMS : ws.heap[k] = Blank
  BY Zenon DEF WhInit, Created
<1>4. stack \in Seq(WWords) /\ Len(stack) = 0 BY EmptySeq, Zenon DEF WhInit
<1>5. \A p \in WProcs : wpc[p] = "shell" BY Zenon DEF WhInit
<1>6. WhTypes
  <2>1. wpc \in [WProcs -> WhPC] /\ arg \in [WProcs -> WWords \cup {0}] BY Zenon DEF WhInit, WhPC
  <2> QED BY <1>2, <1>4, <1>5, <2>1, Zenon DEF WhTypes, Pushing
<1>7. MutexInv BY <1>5, Zenon DEF MutexInv, Locked
<1>8. HeapInv
  <2>1. \A k \in 1..Len(stack) : FALSE BY <1>4
  <2>2. \A k \in 0..ws.free : k \in 0..ITEMS BY <1>1, <1>3
  <2>3. BytesInv BY <1>3, <1>5, <2>1, <2>2, Zenon DEF BytesInv
  <2>4. Len(stack) = ITEMS - 1 - ws.free /\ ws.items = Len(stack) BY <1>1, <1>3, <1>4
  <2> QED BY <2>3, <2>4, Zenon DEF HeapInv
<1>9. PlaceInv
  <2>1. Quiet BY <1>5, Zenon DEF Quiet
  <2>2. Cardinality(At(Giving)) = 0 /\ Cardinality(At(Taking)) = 0 BY <2>1, QuietAt, Zenon
  <2> QED BY <1>1, <1>3, <1>4, <2>2 DEF PlaceInv
<1>10. PopsTop BY <1>5, Zenon DEF PopsTop, At
<1> QED BY <1>6, <1>7, <1>8, <1>9, <1>10, Zenon DEF WhInv

(* -c and -d: no command goes on, and the stack is empty.  The heap is       *)
(* zeroed, unless -c found words or commands in progress.                    *)
LEMMA Emptied ==
  ASSUME WhInv, create_heap \/ delete_heap
  PROVE  WhInv'
<1>1. ITEMS \in Nat \ {0} BY WordHeapAssumption, Zenon
<1>2. Left BY Zenon DEF create_heap, delete_heap
<1>3. /\ stack' = <<>>
      /\ wpc' \in [WProcs -> WhPC] /\ arg' \in [WProcs -> WWords \cup {0}]
      /\ \A p \in WProcs : wpc'[p] = "shell" \/ wpc'[p] = "lost"
  BY <1>2, Zenon DEF Left, WhPC
<1>4. PICK h \in [0..ITEMS -> WhSlots] :
        ws' = [Created EXCEPT !.heap = h] /\ (clean' => \A k \in 0..ITEMS-1 : h[k] = Blank)
  <2>1. CASE ws' = Created
    <3> DEFINE h == [k \in 0..ITEMS |-> Blank]
    <3>1. Created \in WhRegion /\ Created.heap = h BY CreatedType, Zenon DEF Created
    <3>2. h \in [0..ITEMS -> WhSlots] BY <3>1, Zenon DEF WhRegion
    <3>3. \A k \in 0..ITEMS-1 : k \in 0..ITEMS BY <1>1
    <3>4. \A k \in 0..ITEMS-1 : h[k] = Blank BY <3>3, Zenon
    <3>5. [Created EXCEPT !.heap = h] = Created
      <4> HIDE DEF h
      <4> QED BY <3>1, Zenon DEF WhRegion
    <3> HIDE DEF h
    <3> QED BY <2>1, <3>2, <3>4, <3>5, Zenon
  <2>2. CASE create_heap /\ region # "none"
    <3>1. ws.heap \in [0..ITEMS -> WhSlots] /\ ws.free \in 0..ITEMS-1
      BY Zenon DEF WhInv, WhTypes, WhRegion
    <3>2. ws' = [Created EXCEPT !.heap = ws.heap] BY <2>2, Zenon DEF create_heap
    <3>3. ASSUME clean' PROVE \A k \in 0..ITEMS-1 : ws.heap[k] = Blank
      <4>1. clean /\ Quiet /\ stack = <<>> BY <2>2, <3>3, Zenon DEF create_heap
      <4>2. Len(stack) = 0 BY <4>1, Zenon
      <4>3. ws.free = ITEMS - 1 BY <1>1, <3>1, <4>2 DEF WhInv, HeapInv
      <4>4. \A p \in WProcs : wpc[p] # "w_count" BY <4>1, Zenon DEF Quiet
      <4> QED BY <4>1, <4>3, <4>4, Zenon DEF WhInv, HeapInv, BytesInv
    <3> QED BY <3>1, <3>2, <3>3, Zenon
  <2> QED BY <2>1, <2>2, Zenon DEF create_heap, delete_heap
<1>5. ws' \in WhRegion BY <1>4, CreatedType, Zenon DEF WhRegion
<1>6. /\ ws'.free = ITEMS - 1 /\ ws'.items = 0 /\ ws'.full = 0 /\ ws'.empty = ITEMS - 1
      /\ ws'.heap = h
  BY <1>4, Zenon DEF Created
<1>7. stack' \in Seq(WWords) /\ Len(stack') = 0 BY <1>3, EmptySeq, Zenon
<1>8. WhTypes' BY <1>3, <1>5, <1>7, Zenon DEF WhTypes, Pushing
<1>9. MutexInv' BY <1>3, Zenon DEF MutexInv, Locked
<1>10. HeapInv'
  <2>1. \A k \in 1..Len(stack') : FALSE BY <1>7
  <2>2. \A p \in WProcs : wpc'[p] # "w_count" BY <1>3, Zenon
  <2>3. clean' => BytesInv' BY <1>4, <1>6, <2>1, <2>2, Zenon DEF BytesInv
  <2>4. Len(stack') = ITEMS - 1 - ws'.free /\ ws'.items = Len(stack') BY <1>1, <1>6, <1>7
  <2> QED BY <2>3, <2>4, Zenon DEF HeapInv
<1>11. PlaceInv'
  <2>1. At(Giving)' = {} BY <1>3, Zenon DEF At, Giving
  <2>2. At(Taking)' = {} BY <1>3, Zenon DEF At, Taking
  <2>3. Cardinality({}) = 0 BY FS_EmptySet, Zenon
  <2>4. Cardinality(At(Giving)') = 0 /\ Cardinality(At(Taking)') = 0 BY <2>1, <2>2, <2>3, Zenon
  <2> QED BY <1>1, <1>6, <1>7, <2>4 DEF PlaceInv
<1>12. PopsTop'
  <2>1. \A p \in WProcs : wpc'[p] # "r_count" BY <1>3, Zenon
  <2> QED BY <2>1, Zenon DEF PopsTop, At
<1> QED BY <1>8, <1>9, <1>10, <1>11, <1>12, Zenon DEF WhInv

(* A command's step outside its copying and counting moves it from one       *)
(* place to another and may take or give back the mutex or one of the        *)
(* semaphores: the stack stays, and so do the words of the others.           *)
LEMMA Moved ==
  ASSUME WhInv, NEW p \in WProcs, NEW s \in WhPC, NEW m \in WProcs \cup {NoW},
         NEW f \in Nat, NEW x \in Nat, NEW a \in WWords \cup {0},
         wpc' = [wpc EXCEPT ![p] = s], arg' = [arg EXCEPT ![p] = a], stack' = stack,
         clean' = clean,
         ws' = [ws EXCEPT !.full = f, !.empty = x, !.mutex = m],
         s \in Pushing => a \in WWords,
         s \in Locked => m = p,
         ws.mutex # p => m = ws.mutex \/ ws.mutex = NoW,
         wpc[p] # "w_count", s # "w_count",
         s = "r_count" => stack # <<>> /\ (clean => a = stack[1]),
         f + Cardinality(At(Giving)') = Len(stack),
         x + Cardinality(At(Taking)') = ws.free
  PROVE  WhInv'
<1>1. WhTypes /\ MutexInv /\ HeapInv /\ PopsTop BY Zenon DEF WhInv
<1>2. ws \in WhRegion /\ wpc \in [WProcs -> WhPC] /\ arg \in [WProcs -> WWords \cup {0}]
      /\ NoW \notin WProcs
  BY <1>1, WordHeapAssumption, Zenon DEF WhTypes
<1>3. ws' \in WhRegion BY <1>2, Zenon DEF WhRegion
<1>4. /\ ws'.free = ws.free /\ ws'.items = ws.items /\ ws'.heap = ws.heap
      /\ ws'.full = f /\ ws'.empty = x /\ ws'.mutex = m
  BY <1>2, Zenon DEF WhRegion
<1>5. \A q \in WProcs : q # p => wpc'[q] = wpc[q] /\ arg'[q] = arg[q]
  BY <1>2, Zenon
<1>6. wpc'[p] = s /\ arg'[p] = a BY <1>2, Zenon
<1>7. WhTypes'
  <2>1. wpc' \in [WProcs -> WhPC] /\ arg' \in [WProcs -> WWords \cup {0}] BY <1>2, Zenon
  <2>2. \A q \in WProcs : wpc'[q] \in Pushing => arg'[q] \in WWords
    BY <1>1, <1>5, <1>6, Zenon DEF WhTypes
  <2>3. stack' \in Seq(WWords) BY <1>1, Zenon DEF WhTypes
  <2> QED BY <1>3, <2>1, <2>2, <2>3, Zenon DEF WhTypes
<1>8. MutexInv'
  <2> SUFFICES ASSUME NEW q \in WProcs, wpc'[q] \in Locked PROVE ws'.mutex = q
    BY Zenon DEF MutexInv
  <2>1. CASE q = p BY <2>1, <1>4, <1>6, Zenon
  <2>2. CASE q # p
    <3>1. ws.mutex = q BY <2>2, <1>1, <1>5, Zenon DEF MutexInv
    <3> QED BY <3>1, <2>2, <1>2, <1>4, Zenon
  <2> QED BY <2>1, <2>2, Zenon
<1>9. HeapInv'
  <2>1. \A q \in WProcs : wpc'[q] = "w_count" <=> wpc[q] = "w_count" BY <1>5, <1>6, Zenon
  <2>2. \A q \in WProcs : wpc'[q] = "w_count" => arg'[q] = arg[q] BY <1>5, <1>6, Zenon
  <2>3. BytesInv => BytesInv' BY <1>4, <2>1, <2>2, Zenon DEF BytesInv
  <2> QED BY <1>1, <1>4, <2>3, Zenon DEF HeapInv
<1>10. PlaceInv' BY <1>4, Zenon DEF PlaceInv
<1>11. PopsTop'
  <2> SUFFICES ASSUME NEW q \in WProcs, wpc'[q] = "r_count"
               PROVE  stack # <<>> /\ (clean => arg'[q] = stack[1])
    BY Zenon DEF PopsTop, At
  <2>1. CASE q = p BY <2>1, <1>6, Zenon
  <2>2. CASE q # p
    <3>1. q \in At({"r_count"}) BY <2>2, <1>5, Zenon DEF At
    <3> QED BY <2>2, <3>1, <1>1, <1>5, Zenon DEF PopsTop
  <2> QED BY <2>1, <2>2, Zenon
<1> QED BY <1>7, <1>8, <1>9, <1>10, <1>11, Zenon DEF WhInv

(* The steps of a command that leave heap, free and items alone.             *)
LEMMA QuickSteps ==
  ASSUME WhInv, NEW p \in WProcs,
         \/ \E w \in WWords : start(p, "w", w)
         \/ start(p, "r", 0)
         \/ start(p, "p", 0)
         \/ sem_wait(p, "w", "empty", "w_lock")
         \/ sem_wait(p, "r", "full", "r_lock")
         \/ lock(p)
         \/ sem_post(p, "w_post", "full")
         \/ sem_post(p, "r_post", "empty")
         \/ r_copy(p) \/ p_look(p) \/ p_print(p) \/ lost_ends(p)
  PROVE  WhInv'
<1>1. WhTypes /\ MutexInv /\ HeapInv /\ PlaceInv /\ PopsTop BY Zenon DEF WhInv
<1>2. /\ ws \in WhRegion /\ wpc \in [WProcs -> WhPC] /\ arg \in [WProcs -> WWords \cup {0}]
      /\ NoW \notin WProcs /\ stack \in Seq(WWords)
      /\ wpc[p] \in Pushing => arg[p] \in WWords
  BY <1>1, WordHeapAssumption, Zenon DEF WhTypes
<1>3. /\ ws.full \in Nat /\ ws.empty \in Nat /\ ws.mutex \in WProcs \cup {NoW}
      /\ ws.free \in Nat /\ Len(stack) \in Nat
  BY <1>2, LenProperties DEF WhRegion
<1>4. ws = [ws EXCEPT !.full = ws.full, !.empty = ws.empty, !.mutex = ws.mutex]
  BY <1>2, Zenon DEF WhRegion
<1>5. arg = [arg EXCEPT ![p] = arg[p]] BY <1>2, Zenon
<1>6. /\ ws.full + Cardinality(At(Giving)) = Len(stack)
      /\ ws.empty + Cardinality(At(Taking)) = ws.free
  BY <1>1, Zenon DEF PlaceInv
<1>7. ASSUME NEW s \in WhPC, wpc' = [wpc EXCEPT ![p] = s]
      PROVE  /\ Cardinality(At(Giving)) \in Nat /\ Cardinality(At(Giving)') \in Nat
             /\ s \in Giving /\ wpc[p] \notin Giving =>
                  Cardinality(At(Giving)') = Cardinality(At(Giving)) + 1
             /\ s \notin Giving /\ wpc[p] \in Giving =>
                  Cardinality(At(Giving)') = Cardinality(At(Giving)) - 1
             /\ (s \in Giving <=> wpc[p] \in Giving) =>
                  Cardinality(At(Giving)') = Cardinality(At(Giving))
             /\ wpc[p] \in Giving => Cardinality(At(Giving)) > 0
             /\ Cardinality(At(Taking)) \in Nat /\ Cardinality(At(Taking)') \in Nat
             /\ s \in Taking /\ wpc[p] \notin Taking =>
                  Cardinality(At(Taking)') = Cardinality(At(Taking)) + 1
             /\ s \notin Taking /\ wpc[p] \in Taking =>
                  Cardinality(At(Taking)') = Cardinality(At(Taking)) - 1
             /\ (s \in Taking <=> wpc[p] \in Taking) =>
                  Cardinality(At(Taking)') = Cardinality(At(Taking))
  BY <1>2, <1>7, AtMoves, Zenon
<1>8. ASSUME NEW w \in WWords \cup {0}, NEW s \in {"w", "r", "p"}, s = "w" => w \in WWords,
             start(p, s, w)
      PROVE  WhInv'
  <2> DEFINE t == CASE region = "up" -> s [] region = "torn" -> "lost" [] OTHER -> "shell"
             a == IF region = "up" THEN w ELSE 0
  <2>1. t \in {s, "lost", "shell"} /\ (t = s => region = "up") /\ a \in WWords \cup {0}
    <3>1. CASE region = "up" BY <3>1, Zenon
    <3>2. CASE region = "torn" BY <3>2, <1>8, Zenon
    <3>3. CASE region # "up" /\ region # "torn" BY <3>3, <1>8, Zenon
    <3> QED BY <3>1, <3>2, <3>3, Zenon
  <2>2. region = "up" => a = w BY Zenon
  <2>3. /\ wpc[p] = "shell" /\ wpc' = [wpc EXCEPT ![p] = t] /\ arg' = [arg EXCEPT ![p] = a]
        /\ stack' = stack /\ ws' = ws /\ clean' = clean
    BY <1>8, Zenon DEF start
  <2> HIDE DEF t, a
  <2>4. /\ t \in WhPC /\ (t \in Pushing => a \in WWords) /\ t \notin Locked
        /\ t \notin Giving /\ t \notin Taking /\ t # "w_count" /\ t # "r_count"
    BY <1>8, <2>1, <2>2, Zenon DEF WhPC, Pushing, Locked, Giving, Taking
  <2>5. wpc[p] \notin Giving /\ wpc[p] \notin Taking BY <2>3, Zenon DEF Giving, Taking
  <2>6. /\ ws.full + Cardinality(At(Giving)') = Len(stack)
        /\ ws.empty + Cardinality(At(Taking)') = ws.free
    BY <1>6, <1>7, <2>3, <2>4, <2>5, Zenon
  <2>7. ws' = [ws EXCEPT !.full = ws.full, !.empty = ws.empty, !.mutex = ws.mutex]
    BY <1>4, <2>3, Zenon
  <2>8. wpc[p] # "w_count" BY <2>3, Zenon
  <2> QED BY <1>3, <2>1, <2>3, <2>4, <2>6, <2>7, <2>8, Moved, Zenon
<1>9. CASE sem_wait(p, "w", "empty", "w_lock")
  <2>1. /\ wpc[p] = "w" /\ ws.empty > 0 /\ wpc' = [wpc EXCEPT ![p] = "w_lock"]
        /\ stack' = stack /\ clean' = clean /\ arg' = arg /\ ws' = [ws EXCEPT !.empty = ws.empty - 1]
    BY <1>9, Zenon DEF sem_wait, goto
  <2>2. ws' = [ws EXCEPT !.full = ws.full, !.empty = ws.empty - 1, !.mutex = ws.mutex]
    BY <1>2, <2>1, Zenon DEF WhRegion
  <2>3. /\ "w_lock" \in WhPC /\ "w_lock" \notin Locked /\ arg[p] \in WWords
        /\ "w_lock" \in Taking /\ "w_lock" \notin Giving
        /\ wpc[p] \notin Giving /\ wpc[p] \notin Taking
    BY <1>2, <2>1, Zenon DEF WhPC, Pushing, Locked, Giving, Taking
  <2>3a. /\ Cardinality(At(Giving)') = Cardinality(At(Giving))
         /\ Cardinality(At(Taking)') = Cardinality(At(Taking)) + 1
         /\ Cardinality(At(Taking)) \in Nat
    BY <1>7, <2>1, <2>3, Zenon
  <2>4. /\ ws.full + Cardinality(At(Giving)') = Len(stack)
        /\ (ws.empty - 1) + Cardinality(At(Taking)') = ws.free
    BY <1>3, <1>6, <2>3a, SMTT(60)
  <2>5. ws.empty - 1 \in Nat BY <1>3, <2>1
  <2> DEFINE x == ws.empty - 1
  <2>6. x \in Nat /\ x + Cardinality(At(Taking)') = ws.free BY <2>4, <2>5, Zenon
  <2>7. ws' = [ws EXCEPT !.full = ws.full, !.empty = x, !.mutex = ws.mutex] BY <2>2, Zenon
  <2> HIDE DEF x
  <2>8. wpc[p] # "w_count" /\ arg' = [arg EXCEPT ![p] = arg[p]] BY <1>5, <2>1, Zenon
  <2>9. /\ wpc' = [wpc EXCEPT ![p] = "w_lock"] /\ stack' = stack /\ clean' = clean
        /\ ws.full + Cardinality(At(Giving)') = Len(stack)
    BY <2>1, <2>4, Zenon
  <2>10. arg[p] \in WWords \cup {0} /\ "w_lock" # "w_count" /\ "w_lock" # "r_count" BY <2>3, Zenon
  <2> QED BY <1>3, <2>3, <2>6, <2>7, <2>8, <2>9, <2>10, Moved, Zenon
<1>10. CASE sem_wait(p, "r", "full", "r_lock")
  <2>1. /\ wpc[p] = "r" /\ ws.full > 0 /\ wpc' = [wpc EXCEPT ![p] = "r_lock"]
        /\ stack' = stack /\ clean' = clean /\ arg' = arg /\ ws' = [ws EXCEPT !.full = ws.full - 1]
    BY <1>10, Zenon DEF sem_wait, goto
  <2> DEFINE f == ws.full - 1
  <2>2. ws' = [ws EXCEPT !.full = f, !.empty = ws.empty, !.mutex = ws.mutex]
    BY <1>2, <2>1, Zenon DEF WhRegion
  <2>3. /\ "r_lock" \in WhPC /\ "r_lock" \notin Locked /\ "r_lock" \notin Pushing
        /\ "r_lock" \in Giving /\ "r_lock" \notin Taking
        /\ wpc[p] \notin Giving /\ wpc[p] \notin Taking
    BY <2>1, Zenon DEF WhPC, Pushing, Locked, Giving, Taking
  <2>3a. /\ Cardinality(At(Taking)') = Cardinality(At(Taking))
         /\ Cardinality(At(Giving)') = Cardinality(At(Giving)) + 1
         /\ Cardinality(At(Giving)) \in Nat
    BY <1>7, <2>1, <2>3, Zenon
  <2>4. /\ f \in Nat /\ f + Cardinality(At(Giving)') = Len(stack)
        /\ ws.empty + Cardinality(At(Taking)') = ws.free
    BY <1>3, <1>6, <2>1, <2>3a
  <2> HIDE DEF f
  <2>5. wpc[p] # "w_count" /\ arg' = [arg EXCEPT ![p] = arg[p]] BY <1>5, <2>1, Zenon
  <2>6. arg[p] \in WWords \cup {0} BY <1>2, Zenon
  <2>7. wpc' = [wpc EXCEPT ![p] = "r_lock"] /\ stack' = stack /\ clean' = clean BY <2>1, Zenon
  <2>8. "r_lock" # "w_count" /\ "r_lock" # "r_count" BY Zenon
  <2> QED BY <1>3, <2>2, <2>3, <2>4, <2>5, <2>6, <2>7, <2>8, Moved, Zenon
<1>11. CASE lock(p)
  <2> DEFINE s == CASE wpc[p] = "w_lock" -> "w_copy"
                    [] wpc[p] = "r_lock" -> "r_copy"
                    [] OTHER -> "p_print"
  <2>1. /\ wpc[p] \in {"w_lock", "r_lock", "p_lock"} /\ wpc' = [wpc EXCEPT ![p] = s]
        /\ stack' = stack /\ clean' = clean /\ arg' = arg /\ ws' = [ws EXCEPT !.mutex = p] /\ ws.mutex = NoW
    BY <1>11, Zenon DEF lock, LockFree, goto
  <2>2. ws' = [ws EXCEPT !.full = ws.full, !.empty = ws.empty, !.mutex = p]
    BY <1>2, <2>1, Zenon DEF WhRegion
  <2>3. /\ s \in WhPC /\ (s \in Pushing => arg[p] \in WWords) /\ s # "w_count"
        /\ s # "r_count" /\ wpc[p] # "w_count"
        /\ (s \in Giving <=> wpc[p] \in Giving) /\ (s \in Taking <=> wpc[p] \in Taking)
    <3>1. CASE wpc[p] = "w_lock"
      BY <1>2, <3>1, Zenon DEF WhPC, Pushing, Giving, Taking
    <3>2. CASE wpc[p] = "r_lock" BY <3>2, Zenon DEF WhPC, Pushing, Giving, Taking
    <3>3. CASE wpc[p] = "p_lock" BY <3>3, Zenon DEF WhPC, Pushing, Giving, Taking
    <3> QED BY <2>1, <3>1, <3>2, <3>3, Zenon
  <2> HIDE DEF s
  <2>4. /\ ws.full + Cardinality(At(Giving)') = Len(stack)
        /\ ws.empty + Cardinality(At(Taking)') = ws.free
    BY <1>6, <1>7, <2>1, <2>3, Zenon
  <2>5. arg[p] \in WWords \cup {0} /\ arg' = [arg EXCEPT ![p] = arg[p]] BY <1>2, <1>5, <2>1, Zenon
  <2>6. wpc' = [wpc EXCEPT ![p] = s] /\ stack' = stack /\ clean' = clean /\ ws.mutex = NoW BY <2>1, Zenon
  <2> QED BY <1>3, <2>2, <2>3, <2>4, <2>5, <2>6, Moved, Zenon
<1>12. CASE sem_post(p, "w_post", "full")
  <2>1. /\ wpc[p] = "w_post" /\ wpc' = [wpc EXCEPT ![p] = "shell"]
        /\ stack' = stack /\ clean' = clean /\ arg' = [arg EXCEPT ![p] = 0]
        /\ ws' = [ws EXCEPT !.full = ws.full + 1]
    BY <1>12, Zenon DEF sem_post, goto, Posted
  <2> DEFINE f == ws.full + 1
  <2>2. ws' = [ws EXCEPT !.full = f, !.empty = ws.empty, !.mutex = ws.mutex]
    BY <1>2, <2>1, Zenon DEF WhRegion
  <2>3. /\ "shell" \in WhPC /\ "shell" \notin Locked /\ "shell" \notin Pushing
        /\ "shell" \notin Giving /\ "shell" \notin Taking
        /\ wpc[p] \in Giving /\ wpc[p] \notin Taking
    BY <2>1, Zenon DEF WhPC, Pushing, Locked, Giving, Taking
  <2>3a. /\ Cardinality(At(Taking)') = Cardinality(At(Taking))
         /\ Cardinality(At(Giving)') = Cardinality(At(Giving)) - 1
         /\ Cardinality(At(Giving)) \in Nat
    BY <1>7, <2>1, <2>3, Zenon
  <2>4. /\ f \in Nat /\ f + Cardinality(At(Giving)') = Len(stack)
        /\ ws.empty + Cardinality(At(Taking)') = ws.free
    BY <1>3, <1>6, <2>3a
  <2> HIDE DEF f
  <2>5. wpc[p] # "w_count" /\ arg' = [arg EXCEPT ![p] = 0] BY <2>1, Zenon
  <2>6. wpc' = [wpc EXCEPT ![p] = "shell"] /\ stack' = stack /\ clean' = clean BY <2>1, Zenon
  <2>7. 0 \in WWords \cup {0} /\ "shell" # "w_count" /\ "shell" # "r_count" BY Zenon
  <2> QED BY <1>3, <2>2, <2>3, <2>4, <2>5, <2>6, <2>7, Moved, Zenon
<1>13. CASE sem_post(p, "r_post", "empty")
  <2>1. /\ wpc[p] = "r_post" /\ wpc' = [wpc EXCEPT ![p] = "shell"]
        /\ stack' = stack /\ clean' = clean /\ arg' = [arg EXCEPT ![p] = 0]
        /\ ws' = [ws EXCEPT !.empty = ws.empty + 1]
    BY <1>13, Zenon DEF sem_post, goto, Posted
  <2> DEFINE x == ws.empty + 1
  <2>2. ws' = [ws EXCEPT !.full = ws.full, !.empty = x, !.mutex = ws.mutex]
    BY <1>2, <2>1, Zenon DEF WhRegion
  <2>3. /\ "shell" \in WhPC /\ "shell" \notin Locked /\ "shell" \notin Pushing
        /\ "shell" \notin Giving /\ "shell" \notin Taking
        /\ wpc[p] \notin Giving /\ wpc[p] \in Taking
    BY <2>1, Zenon DEF WhPC, Pushing, Locked, Giving, Taking
  <2>3a. /\ Cardinality(At(Giving)') = Cardinality(At(Giving))
         /\ Cardinality(At(Taking)') = Cardinality(At(Taking)) - 1
         /\ Cardinality(At(Taking)) \in Nat
    BY <1>7, <2>1, <2>3, Zenon
  <2>4. /\ x \in Nat /\ x + Cardinality(At(Taking)') = ws.free
        /\ ws.full + Cardinality(At(Giving)') = Len(stack)
    BY <1>3, <1>6, <2>3a, SMTT(60)
  <2> HIDE DEF x
  <2> QED BY <1>3, <2>1, <2>2, <2>3, <2>4, Moved, Zenon
<1>14. CASE r_copy(p)
  <2> DEFINE a == Popped(ws.heap, ws.free + 1)
  <2>1. /\ wpc[p] = "r_copy" /\ wpc' = [wpc EXCEPT ![p] = "r_count"]
        /\ stack' = stack /\ clean' = clean /\ arg' = [arg EXCEPT ![p] = a] /\ ws' = ws
    BY <1>14, Zenon DEF r_copy, goto
  <2>2. /\ "r_count" \in WhPC /\ "r_count" \in Locked /\ "r_count" \notin Pushing
        /\ "r_count" \in Giving /\ "r_count" \notin Taking
        /\ wpc[p] \in Giving /\ wpc[p] \notin Taking /\ wpc[p] \in Locked
    BY <2>1, Zenon DEF WhPC, Pushing, Locked, Giving, Taking
  <2>2a. Cardinality(At(Giving)) > 0 /\ Cardinality(At(Giving)) \in Nat
    BY <1>7, <2>1, <2>2, Zenon
  <2>3. Len(stack) > 0 BY <1>3, <1>6, <2>2a
  <2>4. stack # <<>> /\ a \in WWords \cup {0} /\ (clean => a = stack[1])
    <3>1. 1 \in 1..Len(stack) BY <1>3, <2>3
    <3>2. stack # <<>> /\ stack[1] \in WWords BY <1>2, <2>3, <3>1, ElementOfSeq
    <3>3. ASSUME clean PROVE a = stack[1]
      <4>1. stack[1] < MAX_WORD /\ ws.heap[ws.free + 1] = Spelt(stack[1])
        BY <1>1, <3>1, <3>3, Zenon DEF HeapInv, BytesInv
      <4> QED BY <3>2, <4>1, PoppedSpelt, Zenon
    <3> QED BY <3>2, <3>3, PoppedType, Zenon
  <2> HIDE DEF a
  <2>5. ws.mutex = p BY <1>1, <2>2, Zenon DEF MutexInv
  <2>6. ws' = [ws EXCEPT !.full = ws.full, !.empty = ws.empty, !.mutex = ws.mutex]
    BY <1>4, <2>1, Zenon
  <2>7. /\ ws.full + Cardinality(At(Giving)') = Len(stack)
        /\ ws.empty + Cardinality(At(Taking)') = ws.free
    BY <1>6, <1>7, <2>1, <2>2, Zenon
  <2>8. /\ wpc' = [wpc EXCEPT ![p] = "r_count"] /\ stack' = stack /\ clean' = clean
        /\ arg' = [arg EXCEPT ![p] = a] /\ wpc[p] # "w_count"
    BY <2>1, Zenon
  <2>9. "r_count" \in WhPC /\ "r_count" \notin Pushing /\ "r_count" # "w_count" BY <2>2, Zenon
  <2> QED BY <1>3, <2>4, <2>5, <2>6, <2>7, <2>8, <2>9, Moved, Zenon
<1>15. CASE p_look(p) \/ p_print(p) \/ lost_ends(p)
  <2>1. PICK s \in {"shell", "p_lock"}, m \in {ws.mutex, NoW} :
          /\ wpc[p] \in {"p", "p_print", "lost"} /\ wpc' = [wpc EXCEPT ![p] = s]
          /\ stack' = stack /\ clean' = clean /\ arg' = arg /\ ws' = [ws EXCEPT !.mutex = m]
          /\ m = ws.mutex \/ wpc[p] = "p_print"
    <3>1. CASE p_look(p)
      <4>1. ws' = [ws EXCEPT !.mutex = ws.mutex] BY <1>2, <3>1, Zenon DEF p_look, WhRegion
      <4> QED BY <3>1, <4>1, Zenon DEF p_look, goto
    <3>2. CASE p_print(p) BY <3>2, Zenon DEF p_print, goto
    <3>3. CASE lost_ends(p)
      <4>1. ws' = [ws EXCEPT !.mutex = ws.mutex] BY <1>2, <3>3, Zenon DEF lost_ends, WhRegion
      <4> QED BY <3>3, <4>1, Zenon DEF lost_ends
    <3> QED BY <1>15, <3>1, <3>2, <3>3, Zenon
  <2>2. ws' = [ws EXCEPT !.full = ws.full, !.empty = ws.empty, !.mutex = m]
    BY <1>2, <2>1, Zenon DEF WhRegion
  <2>3. /\ s \in WhPC /\ s \notin Locked /\ s \notin Pushing /\ s \notin Giving /\ s \notin Taking
        /\ wpc[p] \notin Giving /\ wpc[p] \notin Taking /\ s # "w_count" /\ s # "r_count"
        /\ wpc[p] # "w_count"
    BY <2>1, Zenon DEF WhPC, Pushing, Locked, Giving, Taking
  <2>4. /\ ws.full + Cardinality(At(Giving)') = Len(stack)
        /\ ws.empty + Cardinality(At(Taking)') = ws.free
    BY <1>6, <1>7, <2>1, <2>3, Zenon
  <2>5. ws.mutex # p => m = ws.mutex BY <1>1, <2>1, Zenon DEF MutexInv, Locked
  <2>6. arg[p] \in WWords \cup {0} /\ arg' = [arg EXCEPT ![p] = arg[p]] BY <1>2, <1>5, <2>1, Zenon
  <2>7. m \in WProcs \cup {NoW} BY <1>3, <2>1, Zenon
  <2>8. wpc' = [wpc EXCEPT ![p] = s] /\ stack' = stack /\ clean' = clean BY <2>1, Zenon
  <2> QED BY <1>3, <2>2, <2>3, <2>4, <2>5, <2>6, <2>7, <2>8, Moved, Zenon
<1>16. ASSUME NEW w \in WWords, start(p, "w", w) PROVE WhInv' BY <1>8, <1>16, Zenon
<1>17. CASE start(p, "r", 0) BY <1>8, <1>17, Zenon
<1>18. CASE start(p, "p", 0) BY <1>8, <1>18, Zenon
<1> QED
  BY <1>9, <1>10, <1>11, <1>12, <1>13, <1>14, <1>15, <1>16, <1>17, <1>18, Zenon

(* -w copies its word into the slot `free`, which is zeroed.                 *)
LEMMA CopyInv ==
  ASSUME WhInv, NEW p \in WProcs, w_copy(p)
  PROVE  WhInv'
<1>1. WhTypes /\ MutexInv /\ HeapInv /\ PlaceInv /\ PopsTop BY Zenon DEF WhInv
<1>2. /\ ws \in WhRegion /\ wpc \in [WProcs -> WhPC] /\ arg \in [WProcs -> WWords \cup {0}]
      /\ ITEMS \in Nat \ {0} /\ stack \in Seq(WWords) /\ Len(stack) \in Nat
      /\ ws.free \in 0..ITEMS-1 /\ ws.heap \in [0..ITEMS -> WhSlots]
  BY <1>1, WordHeapAssumption, LenProperties, Zenon DEF WhTypes, WhRegion
<1> DEFINE h == Written(ws.heap, ws.free, arg[p])
<1>3. /\ wpc[p] = "w_copy" /\ wpc' = [wpc EXCEPT ![p] = "w_count"]
      /\ stack' = stack /\ arg' = arg /\ ws' = [ws EXCEPT !.heap = h]
      /\ clean' => clean /\ arg[p] < MAX_WORD
  BY <1>2, Zenon DEF w_copy, goto
<1>4. arg[p] \in WWords BY <1>1, <1>3, Zenon DEF WhTypes, Pushing
<1>5. \A q \in WProcs : q # p => wpc[q] \notin Locked
  <2>1. ws.mutex = p BY <1>1, <1>3, Zenon DEF MutexInv, Locked
  <2> QED BY <1>1, <2>1, Zenon DEF MutexInv
<1>6. clean => ws.heap[ws.free] = Blank
  <2>1. \A q \in WProcs : wpc[q] # "w_count" BY <1>3, <1>5, Zenon DEF Locked
  <2>2. ws.free \in 0..ws.free BY <1>2
  <2> QED BY <1>1, <2>1, <2>2, Zenon DEF HeapInv, BytesInv
<1>7. h \in [0..ITEMS -> WhSlots] BY <1>2, <1>4, WritesType, Zenon
<1>8. clean' => /\ h[ws.free] = Spelt(arg[p])
                /\ \A k \in 0..ITEMS : k # ws.free => h[k] = ws.heap[k]
  BY <1>2, <1>3, <1>4, <1>6, WritesRow, Zenon
<1> HIDE DEF h
<1>9. ws' \in WhRegion BY <1>2, <1>3, <1>7, Zenon DEF WhRegion
<1>10. /\ ws'.free = ws.free /\ ws'.items = ws.items /\ ws'.heap = h
       /\ ws'.full = ws.full /\ ws'.empty = ws.empty /\ ws'.mutex = ws.mutex
  BY <1>2, <1>3, Zenon DEF WhRegion
<1>11. /\ \A q \in WProcs : q # p => wpc'[q] = wpc[q]
       /\ wpc'[p] = "w_count"
  BY <1>2, <1>3, Zenon
<1>12. WhTypes'
  <2>1. wpc' \in [WProcs -> WhPC] BY <1>2, <1>3, Zenon DEF WhPC, Taking
  <2>2. \A q \in WProcs : wpc'[q] \in Pushing => arg'[q] \in WWords
    BY <1>1, <1>3, <1>4, <1>11, Zenon DEF WhTypes
  <2> QED BY <1>2, <1>3, <1>9, <2>1, <2>2, Zenon DEF WhTypes
<1>13. MutexInv' BY <1>1, <1>3, <1>10, <1>11, Zenon DEF MutexInv, Locked
<1>14. HeapInv'
  <2>1. Len(stack) = ITEMS - 1 - ws.free /\ ws.items = Len(stack) BY <1>1, Zenon DEF HeapInv
  <2>2. ASSUME clean' PROVE BytesInv'
    <3>1. BytesInv BY <1>1, <1>3, <2>2, Zenon DEF HeapInv
    <3>2. ASSUME NEW k \in 1..Len(stack)
          PROVE  stack[k] < MAX_WORD /\ h[ws.free + k] = Spelt(stack[k])
      <4>1. ws.free + k \in 0..ITEMS /\ ws.free + k # ws.free BY <1>2, <2>1
      <4>2. h[ws.free + k] = ws.heap[ws.free + k] BY <1>8, <2>2, <4>1, Zenon
      <4> QED BY <3>1, <4>2, Zenon DEF BytesInv
    <3>3. ASSUME NEW k \in 0..ws.free, k # ws.free PROVE h[k] = Blank
      <4>1. k \in 0..ITEMS BY <1>2
      <4> QED BY <1>8, <2>2, <3>1, <3>3, <4>1, Zenon DEF BytesInv
    <3>4. \A k \in 0..ws.free :
            h[k] = Blank \/ (k = ws.free /\ \E q \in WProcs : wpc'[q] = "w_count")
      BY <1>11, <3>3, Zenon
    <3>5. ASSUME NEW q \in WProcs, wpc'[q] = "w_count"
          PROVE  arg[q] < MAX_WORD /\ h[ws.free] = Spelt(arg[q])
      <4>1. q = p BY <1>5, <1>11, <3>5, Zenon DEF Locked
      <4> QED BY <4>1, <1>3, <1>8, <2>2, Zenon
    <3> QED BY <1>3, <1>10, <3>2, <3>4, <3>5, Zenon DEF BytesInv
  <2> QED BY <1>3, <1>10, <2>1, <2>2, Zenon DEF HeapInv
<1>15. PlaceInv'
  <2>1. /\ "w_count" \notin Giving /\ wpc[p] \notin Giving
        /\ "w_count" \in Taking /\ wpc[p] \in Taking
    BY <1>3, Zenon DEF Giving, Taking
  <2>1a. wpc \in [WProcs -> WhPC] /\ wpc' = [wpc EXCEPT ![p] = "w_count"] BY <1>2, <1>3, Zenon
  <2>2. Cardinality(At(Giving)') = Cardinality(At(Giving)) BY <2>1, <2>1a, AtMoves, Zenon
  <2>3. Cardinality(At(Taking)') = Cardinality(At(Taking)) BY <2>1, <2>1a, AtMoves, Zenon
  <2> QED BY <1>1, <1>3, <1>10, <2>2, <2>3, Zenon DEF PlaceInv
<1>16. PopsTop'
  <2>1. \A q \in WProcs : wpc'[q] # "r_count" BY <1>5, <1>11, Zenon DEF Locked
  <2> QED BY <2>1, Zenon DEF PopsTop, At
<1> QED BY <1>12, <1>13, <1>14, <1>15, <1>16, Zenon DEF WhInv

(* -w counts the word it copied: it is on top of the stack.                  *)
LEMMA PushInv ==
  ASSUME WhInv, NEW p \in WProcs, w_count(p)
  PROVE  WhInv'
<1>1. WhTypes /\ MutexInv /\ HeapInv /\ PlaceInv /\ PopsTop BY Zenon DEF WhInv
<1>2. /\ ws \in WhRegion /\ wpc \in [WProcs -> WhPC] /\ arg \in [WProcs -> WWords \cup {0}]
      /\ ITEMS \in Nat \ {0} /\ stack \in Seq(WWords) /\ Len(stack) \in Nat
      /\ ws.free \in 0..ITEMS-1 /\ ws.items \in Nat /\ ws.empty \in Nat /\ ws.full \in Nat
      /\ ws.heap \in [0..ITEMS -> WhSlots]
  BY <1>1, WordHeapAssumption, LenProperties, Zenon DEF WhTypes, WhRegion
<1>3. /\ wpc[p] = "w_count" /\ wpc' = [wpc EXCEPT ![p] = "w_post"] /\ arg' = arg
      /\ stack' = <<arg[p]>> \o stack /\ clean' = clean
      /\ ws' = [ws EXCEPT !.free = @ - 1, !.items = @ + 1, !.mutex = NoW]
  BY Zenon DEF w_count, goto
<1>4. arg[p] \in WWords BY <1>1, <1>3, Zenon DEF WhTypes, Pushing
<1>5. \A q \in WProcs : q # p => wpc[q] \notin Locked
  <2>1. ws.mutex = p BY <1>1, <1>3, Zenon DEF MutexInv, Locked
  <2> QED BY <1>1, <2>1, Zenon DEF MutexInv
<1>6. /\ Cardinality(At(Giving)') = Cardinality(At(Giving)) + 1
      /\ Cardinality(At(Giving)) \in Nat
      /\ Cardinality(At(Taking)') = Cardinality(At(Taking)) - 1
      /\ Cardinality(At(Taking)) \in Nat /\ Cardinality(At(Taking)) > 0
  <2>1. /\ "w_post" \in Giving /\ wpc[p] \notin Giving
        /\ "w_post" \notin Taking /\ wpc[p] \in Taking
    BY <1>3, Zenon DEF Giving, Taking
  <2>2. Cardinality(At(Giving)') = Cardinality(At(Giving)) + 1 /\ Cardinality(At(Giving)) \in Nat
    BY <1>2, <1>3, <2>1, AtMoves, Zenon
  <2>3. /\ Cardinality(At(Taking)') = Cardinality(At(Taking)) - 1
        /\ Cardinality(At(Taking)) \in Nat /\ Cardinality(At(Taking)) > 0
    BY <1>2, <1>3, <2>1, AtMoves, Zenon
  <2> QED BY <2>2, <2>3, Zenon
<1>7. ws.free > 0 BY <1>1, <1>2, <1>6 DEF PlaceInv
<1>8. ws.free - 1 \in 0..ITEMS-1 /\ ws.items + 1 \in Nat BY <1>2, <1>7
<1>9. ws' \in WhRegion BY <1>2, <1>3, <1>8, Zenon DEF WhRegion
<1>10. /\ ws'.free = ws.free - 1 /\ ws'.items = ws.items + 1 /\ ws'.heap = ws.heap
       /\ ws'.full = ws.full /\ ws'.empty = ws.empty /\ ws'.mutex = NoW
  BY <1>2, <1>3, Zenon DEF WhRegion
<1> DEFINE a == <<arg[p]>>
<1>11. a \in Seq(WWords) /\ Len(a) = 1 /\ a[1] = arg[p] BY <1>4
<1> HIDE DEF a
<1>12. /\ stack' \in Seq(WWords) /\ Len(stack') = Len(stack) + 1
       /\ stack'[1] = arg[p]
       /\ \A k \in 1..Len(stack) : stack'[k + 1] = stack[k]
  <2>1. stack' = a \o stack BY <1>3, Zenon DEF a
  <2>2. /\ a \o stack \in Seq(WWords) /\ Len(a \o stack) = 1 + Len(stack)
        /\ \A k \in 1..1 + Len(stack) :
             (a \o stack)[k] = IF k <= 1 THEN a[k] ELSE stack[k - 1]
    <3>1. /\ a \o stack \in Seq(WWords) /\ Len(a \o stack) = Len(a) + Len(stack)
          /\ \A k \in 1..Len(a) + Len(stack) :
               (a \o stack)[k] = IF k <= Len(a) THEN a[k] ELSE stack[k - Len(a)]
      BY <1>2, <1>11, ConcatProperties, ZenonT(60)
    <3> QED BY <1>11, <3>1, Zenon
  <2>3. \A k \in 1..1 + Len(stack) : stack'[k] = IF k <= 1 THEN a[k] ELSE stack[k - 1]
    BY <2>1, <2>2, Zenon
  <2>4. stack'[1] = arg[p] BY <1>2, <1>11, <2>3
  <2>5. ASSUME NEW k \in 1..Len(stack) PROVE stack'[k + 1] = stack[k]
    <3>1. k + 1 \in 1..1 + Len(stack) /\ ~(k + 1 <= 1) /\ (k + 1) - 1 = k BY <1>2
    <3> QED BY <2>3, <3>1, Zenon
  <2> QED BY <1>2, <2>1, <2>2, <2>4, <2>5
<1>13. /\ \A q \in WProcs : q # p => wpc'[q] = wpc[q]
       /\ wpc'[p] = "w_post"
  BY <1>2, <1>3, Zenon
<1>14. \A q \in WProcs : wpc'[q] \notin Locked BY <1>5, <1>13, Zenon DEF Locked
<1>15. WhTypes'
  <2>1. wpc' \in [WProcs -> WhPC] BY <1>2, <1>3, Zenon DEF WhPC, Giving
  <2>2. \A q \in WProcs : wpc'[q] \in Pushing => arg'[q] \in WWords
    BY <1>1, <1>3, <1>13, Zenon DEF WhTypes, Pushing
  <2> QED BY <1>2, <1>3, <1>9, <1>12, <2>1, <2>2, Zenon DEF WhTypes
<1>16. MutexInv' BY <1>14, Zenon DEF MutexInv
<1>17. HeapInv'
  <2>1. Len(stack) = ITEMS - 1 - ws.free /\ ws.items = Len(stack) BY <1>1, Zenon DEF HeapInv
  <2>2. Len(stack') = ITEMS - 1 - ws'.free /\ ws'.items = Len(stack')
    BY <1>2, <1>10, <1>12, <2>1
  <2>3. ASSUME BytesInv, NEW k \in 1..Len(stack')
        PROVE  stack'[k] < MAX_WORD /\ ws'.heap[ws'.free + k] = Spelt(stack'[k])
    <3>1. CASE k = 1
      <4>1. ws'.free + k = ws.free BY <3>1, <1>2, <1>10
      <4>2. arg[p] < MAX_WORD /\ ws.heap[ws.free] = Spelt(arg[p])
        BY <1>3, <2>3, Zenon DEF BytesInv
      <4> QED BY <4>1, <4>2, <3>1, <1>10, <1>12, Zenon
    <3>2. CASE k # 1
      <4> DEFINE j == k - 1
      <4>1. j \in 1..Len(stack) /\ k = j + 1 /\ ws'.free + k = ws.free + j
        <5>1. /\ k \in 1..Len(stack) + 1 /\ Len(stack) \in Nat /\ ws.free \in Int
              /\ ws'.free = ws.free - 1
          BY <1>2, <1>10, <1>12
        <5> QED BY <3>2, <5>1
      <4> HIDE DEF j
      <4>2. stack[j] < MAX_WORD /\ ws.heap[ws.free + j] = Spelt(stack[j])
        BY <2>3, <4>1, Zenon DEF BytesInv
      <4>3. stack'[k] = stack[j] BY <1>12, <4>1, Zenon
      <4> QED BY <4>1, <4>2, <4>3, <1>10, Zenon
    <3> QED BY <3>1, <3>2, Zenon
  <2>4. ASSUME BytesInv, NEW k \in 0..ws'.free PROVE ws'.heap[k] = Blank
    <3>1. k \in 0..ws.free /\ k # ws.free BY <1>2, <1>10
    <3> QED BY <1>10, <2>4, <3>1, Zenon DEF BytesInv
  <2>5. \A q \in WProcs : wpc'[q] # "w_count" BY <1>14, Zenon DEF Locked
  <2>6. BytesInv => BytesInv' BY <2>3, <2>4, <2>5, Zenon DEF BytesInv
  <2> QED BY <1>1, <1>3, <2>2, <2>6, Zenon DEF HeapInv
<1>18. PlaceInv'
  <2>1. /\ ws.full + Cardinality(At(Giving)) = Len(stack)
        /\ ws.empty + Cardinality(At(Taking)) = ws.free
    BY <1>1, Zenon DEF PlaceInv
  <2>2. /\ ws'.full = ws.full /\ ws'.empty = ws.empty /\ ws'.free = ws.free - 1
        /\ Len(stack') = Len(stack) + 1
        /\ ws.full \in Int /\ ws.empty \in Int /\ ws.free \in Int /\ Len(stack) \in Int
    BY <1>2, <1>10, <1>12
  <2>3. ws'.full + Cardinality(At(Giving)') = Len(stack') BY <2>1, <2>2, <1>6, SMTT(60)
  <2>4. ws'.empty + Cardinality(At(Taking)') = ws'.free BY <2>1, <2>2, <1>6
  <2> QED BY <2>3, <2>4, Zenon DEF PlaceInv
<1>19. PopsTop' BY <1>14, Zenon DEF PopsTop, At, Locked
<1> QED BY <1>15, <1>16, <1>17, <1>18, <1>19, Zenon DEF WhInv

(* -r zeroes the slot it has read and takes the word off the stack.          *)
LEMMA PopInv ==
  ASSUME WhInv, NEW p \in WProcs, r_count(p)
  PROVE  WhInv'
<1>1. WhTypes /\ MutexInv /\ HeapInv /\ PlaceInv /\ PopsTop BY Zenon DEF WhInv
<1>2. /\ ws \in WhRegion /\ wpc \in [WProcs -> WhPC] /\ arg \in [WProcs -> WWords \cup {0}]
      /\ ITEMS \in Nat \ {0} /\ stack \in Seq(WWords) /\ Len(stack) \in Nat
      /\ ws.free \in 0..ITEMS-1 /\ ws.items \in Nat /\ ws.empty \in Nat /\ ws.full \in Nat
      /\ ws.heap \in [0..ITEMS -> WhSlots]
  BY <1>1, WordHeapAssumption, LenProperties, Zenon DEF WhTypes, WhRegion
<1> DEFINE g == ws.free + 1
           h == [ws.heap EXCEPT ![g] = Blank]
<1>3. /\ wpc[p] = "r_count" /\ wpc' = [wpc EXCEPT ![p] = "r_post"] /\ arg' = arg
      /\ stack' = Tail(stack) /\ clean' = clean
      /\ ws' = [ws EXCEPT !.free = @ + 1, !.heap = h, !.items = @ - 1, !.mutex = NoW]
  BY <1>2, Zenon DEF r_count, goto, Cleared
<1>4. \A q \in WProcs : q # p => wpc[q] \notin Locked
  <2>1. ws.mutex = p BY <1>1, <1>3, Zenon DEF MutexInv, Locked
  <2> QED BY <1>1, <2>1, Zenon DEF MutexInv
<1>5. stack # <<>> BY <1>1, <1>3, Zenon DEF PopsTop, At
<1>6. /\ stack' \in Seq(WWords) /\ Len(stack') = Len(stack) - 1 /\ Len(stack) > 0
      /\ \A k \in 1..Len(stack') : stack'[k] = stack[k + 1]
  BY <1>2, <1>3, <1>5, HeadTailProperties, EmptySeq
<1>7. Len(stack) = ITEMS - 1 - ws.free /\ ws.items = Len(stack) BY <1>1, Zenon DEF HeapInv
<1>8. g \in 0..ITEMS-1 /\ g \in 0..ITEMS /\ ws.items - 1 \in Nat /\ g = ws.free + 1
  BY <1>2, <1>6, <1>7
<1>9. h \in [0..ITEMS -> WhSlots] /\ h[g] = Blank
      /\ \A k \in 0..ITEMS : k # g => h[k] = ws.heap[k]
  <2>1. Blank \in WhSlots BY Zenon DEF WhSlots, Blank
  <2> QED BY <1>2, <1>8, <2>1, Zenon
<1> HIDE DEF h, g
<1>10. ws' \in WhRegion BY <1>2, <1>3, <1>8, <1>9, Zenon DEF WhRegion
<1>11. /\ ws'.free = ws.free + 1 /\ ws'.items = ws.items - 1 /\ ws'.heap = h
       /\ ws'.full = ws.full /\ ws'.empty = ws.empty /\ ws'.mutex = NoW
  BY <1>2, <1>3, Zenon DEF WhRegion
<1>12. /\ Cardinality(At(Giving)') = Cardinality(At(Giving)) - 1
       /\ Cardinality(At(Giving)) \in Nat
       /\ Cardinality(At(Taking)') = Cardinality(At(Taking)) + 1
       /\ Cardinality(At(Taking)) \in Nat
  <2>1. /\ "r_post" \notin Giving /\ wpc[p] \in Giving
        /\ "r_post" \in Taking /\ wpc[p] \notin Taking
    BY <1>3, Zenon DEF Giving, Taking
  <2>2. Cardinality(At(Giving)') = Cardinality(At(Giving)) - 1 /\ Cardinality(At(Giving)) \in Nat
    BY <1>2, <1>3, <2>1, AtMoves, Zenon
  <2>3. Cardinality(At(Taking)') = Cardinality(At(Taking)) + 1 /\ Cardinality(At(Taking)) \in Nat
    BY <1>2, <1>3, <2>1, AtMoves, Zenon
  <2> QED BY <2>2, <2>3, Zenon
<1>13. /\ \A q \in WProcs : q # p => wpc'[q] = wpc[q]
       /\ wpc'[p] = "r_post"
  BY <1>2, <1>3, Zenon
<1>14. \A q \in WProcs : wpc'[q] \notin Locked BY <1>4, <1>13, Zenon DEF Locked
<1>15. WhTypes'
  <2>1. wpc' \in [WProcs -> WhPC] BY <1>2, <1>3, Zenon DEF WhPC, Taking
  <2>2. \A q \in WProcs : wpc'[q] \in Pushing => arg'[q] \in WWords
    BY <1>1, <1>3, <1>13, Zenon DEF WhTypes, Pushing
  <2> QED BY <1>2, <1>3, <1>6, <1>10, <2>1, <2>2, Zenon DEF WhTypes
<1>16. MutexInv' BY <1>14, Zenon DEF MutexInv
<1>17. HeapInv'
  <2>1. Len(stack') = ITEMS - 1 - ws'.free /\ ws'.items = Len(stack')
    BY <1>2, <1>6, <1>7, <1>11
  <2>2. ASSUME BytesInv, NEW k \in 1..Len(stack')
        PROVE  stack'[k] < MAX_WORD /\ ws'.heap[ws'.free + k] = Spelt(stack'[k])
    <3> DEFINE j == k + 1
    <3>1. /\ j \in 1..Len(stack) /\ ws'.free + k = ws.free + j
          /\ ws.free + j \in 0..ITEMS /\ ws.free + j # g
      <4>1. /\ k \in 1..Len(stack) - 1 /\ Len(stack) \in Nat /\ ws.free \in Int
            /\ ws'.free = ws.free + 1 /\ Len(stack) = ITEMS - 1 - ws.free
            /\ ITEMS \in Int /\ ws.free >= 0 /\ g = ws.free + 1
        BY <1>2, <1>6, <1>7, <1>8, <1>11
      <4>2. j \in 1..Len(stack) /\ ws'.free + k = ws.free + j BY <4>1, SMTT(60)
      <4>3. ws.free + j \in 0..ITEMS
        <5>1. k \in Int /\ 1 <= k /\ k <= Len(stack) - 1 BY <4>1
        <5>2. ws.free + j \in Int /\ 0 <= ws.free + j /\ ws.free + j <= ITEMS BY <4>1, <5>1
        <5> QED BY <4>1, <5>2
      <4>4. ws.free + j # g BY <4>1, SMTT(60)
      <4> QED BY <4>2, <4>3, <4>4, Zenon
    <3>2. stack'[k] = stack[j] BY <1>6, Zenon
    <3> HIDE DEF j
    <3>3. stack[j] < MAX_WORD /\ ws.heap[ws.free + j] = Spelt(stack[j])
      BY <2>2, <3>1, Zenon DEF BytesInv
    <3> QED BY <1>9, <1>11, <3>1, <3>2, <3>3, Zenon
  <2>3. ASSUME BytesInv, NEW k \in 0..ws'.free PROVE ws'.heap[k] = Blank
    <3>1. CASE k = g BY <3>1, <1>9, <1>11, Zenon
    <3>2. CASE k # g
      <4>1. k \in 0..ws.free /\ k \in 0..ITEMS BY <3>2, <1>2, <1>8, <1>11, SMTT(60)
      <4>2. \A q \in WProcs : wpc[q] # "w_count" BY <1>3, <1>4, Zenon DEF Locked
      <4>3. ws.heap[k] = Blank BY <2>3, <4>1, <4>2, Zenon DEF BytesInv
      <4> QED BY <1>9, <1>11, <3>2, <4>1, <4>3, Zenon
    <3> QED BY <3>1, <3>2, Zenon
  <2>4. \A q \in WProcs : wpc'[q] # "w_count" BY <1>14, Zenon DEF Locked
  <2>5. BytesInv => BytesInv' BY <2>2, <2>3, <2>4, Zenon DEF BytesInv
  <2> QED BY <1>1, <1>3, <2>1, <2>5, Zenon DEF HeapInv
<1>18. PlaceInv'
  <2>1. /\ ws.full + Cardinality(At(Giving)) = Len(stack)
        /\ ws.empty + Cardinality(At(Taking)) = ws.free
    BY <1>1, Zenon DEF PlaceInv
  <2>2. /\ ws'.full = ws.full /\ ws'.empty = ws.empty /\ ws'.free = ws.free + 1
        /\ Len(stack') = Len(stack) - 1
        /\ ws.full \in Int /\ ws.empty \in Int /\ ws.free \in Int /\ Len(stack) \in Int
    BY <1>2, <1>6, <1>11
  <2> DEFINE gv == Cardinality(At(Giving))
             tk == Cardinality(At(Taking))
  <2>2a. /\ Cardinality(At(Giving)') = gv - 1 /\ gv \in Nat
         /\ Cardinality(At(Taking)') = tk + 1 /\ tk \in Nat
    BY <1>12, Zenon
  <2>2b. ws.full + gv = Len(stack) /\ ws.empty + tk = ws.free BY <2>1, Zenon
  <2> HIDE DEF gv, tk
  <2>3. ws'.full + Cardinality(At(Giving)') = Len(stack') BY <2>2, <2>2a, <2>2b
  <2>4. ws'.empty + Cardinality(At(Taking)') = ws'.free BY <2>2, <2>2a, <2>2b
  <2> QED BY <2>3, <2>4, Zenon DEF PlaceInv
<1>19. PopsTop' BY <1>14, Zenon DEF PopsTop, At, Locked
<1> QED BY <1>15, <1>16, <1>17, <1>18, <1>19, Zenon DEF WhInv

(* Every step of every command keeps the invariant.                          *)
LEMMA WordHeapNext == WhInv /\ [WhNext]_whvars => WhInv'
<1> SUFFICES ASSUME WhInv, [WhNext]_whvars PROVE WhInv' BY Zenon
<1>1. CASE UNCHANGED whvars
  BY <1>1, Zenon DEF whvars, WhInv, WhTypes, MutexInv, HeapInv, BytesInv, PlaceInv, PopsTop, At
<1>2. CASE create_heap \/ delete_heap BY <1>2, Emptied, Zenon
<1>3. ASSUME NEW p \in WProcs, WhStep(p) PROVE WhInv'
  <2>1. CASE w_copy(p) BY <2>1, CopyInv, Zenon
  <2>2. CASE w_count(p) BY <2>2, PushInv, Zenon
  <2>3. CASE r_count(p) BY <2>3, PopInv, Zenon
  <2> QED BY <1>3, <2>1, <2>2, <2>3, QuickSteps, Zenon DEF WhStep
<1> QED BY <1>1, <1>2, <1>3, Zenon DEF WhNext

(* The inductive invariant of wordheap.                                      *)
THEOREM WordHeapInvariant == WhSpec => []WhInv
<1> QED BY WordHeapInit, WordHeapNext, PTL DEF WhSpec

(* For any number of processes, any number and size of slots and words of up *)
(* to two slots: unless -c runs under commands in progress, the semaphores   *)
(* count places and words exactly and a -r has a word to pop; and as long as *)
(* every word had room for its NUL and -c left none behind, the slots above  *)
(* `free` hold whole words and -r prints the last one pushed.                *)
THEOREM WordsAreKept == WhSpec => []WordsAreStack
<1>1. WhInv => WordsAreStack
  <2> SUFFICES ASSUME WhInv PROVE WordsAreStack BY Zenon
  <2>1. WhTypes /\ HeapInv /\ PlaceInv /\ PopsTop BY Zenon DEF WhInv
  <2>2. /\ ITEMS \in Nat \ {0} /\ Len(stack) \in Nat /\ ws.free \in 0..ITEMS-1
        /\ ws.full \in Nat /\ ws.empty \in Nat /\ Len(stack) = ITEMS - 1 - ws.free
    BY <2>1, WordHeapAssumption, LenProperties, Zenon DEF WhTypes, WhRegion, HeapInv
  <2>3. HeapIsStack
    <3>1. ASSUME clean, NEW k \in 0..(ITEMS - 1), k > ws.free
          PROVE  ws.heap[k] = Spelt(stack[k - ws.free])
      <4> DEFINE j == k - ws.free
      <4>1. j \in 1..Len(stack) /\ ws.free + j = k BY <2>2, <3>1
      <4> HIDE DEF j
      <4>2. ws.heap[ws.free + j] = Spelt(stack[j]) BY <2>1, <3>1, <4>1, Zenon DEF HeapInv, BytesInv
      <4> QED BY <4>1, <4>2, Zenon DEF j
    <3>2. ASSUME clean, NEW k \in 0..(ITEMS - 1), ~(k > ws.free)
          PROVE  ws.heap[k] = Blank \/ (k = ws.free /\ At({"w_count"}) # {})
      <4>1. k \in 0..ws.free BY <2>2, <3>2
      <4>2. (\E q \in WProcs : wpc[q] = "w_count") => At({"w_count"}) # {} BY Zenon DEF At
      <4> QED BY <2>1, <3>2, <4>1, <4>2, Zenon DEF HeapInv, BytesInv
    <3>3. Len(stack) = ITEMS - 1 - ws.free /\ ws.items = Len(stack) BY <2>1, Zenon DEF HeapInv
    <3> QED BY <3>1, <3>2, <3>3, Zenon DEF HeapIsStack
  <2>4. PlacesConserved
    <3> DEFINE A == At(Giving)
               B == At(Taking)
    <3>1. At({"w_post", "r_lock", "r_copy", "r_count"}) = A BY Zenon DEF Giving
    <3>2. At({"w_lock", "w_copy", "w_count", "w_post",
              "r_lock", "r_copy", "r_count", "r_post"}) = A \cup B
      BY Zenon DEF At, Giving, Taking
    <3>3. A \cap B = {} BY Zenon DEF At, Giving, Taking
    <3>4. A \subseteq WProcs /\ B \subseteq WProcs /\ IsFiniteSet(WProcs)
      BY WordHeapAssumption, Zenon DEF At
    <3> HIDE DEF A, B
    <3>5. IsFiniteSet(A) /\ IsFiniteSet(B) BY <3>4, FS_Subset, Zenon
    <3>6. Cardinality(A) \in Nat /\ Cardinality(B) \in Nat BY <3>5, FS_CardinalityType, Zenon
    <3>7. Cardinality(A \cup B) = Cardinality(A) + Cardinality(B)
      <4>1. Cardinality({}) = 0 BY FS_EmptySet, Zenon
      <4>2. Cardinality(A \cup B) = Cardinality(A) + Cardinality(B) - Cardinality(A \cap B)
        BY <3>5, FS_Union, Zenon
      <4>3. Cardinality(A \cap B) = 0 BY <3>3, <4>1, Zenon
      <4> QED BY <3>6, <4>2, <4>3
    <3>8. ws.full + Cardinality(A) = Len(stack) /\ ws.empty + Cardinality(B) = ws.free
      BY <2>1, Zenon DEF PlaceInv, A, B
    <3>9. ws.full + ws.empty + Cardinality(A \cup B) = ITEMS - 1
      <4>1. /\ ITEMS \in Int /\ ws.free \in Int /\ ws.full \in Int /\ ws.empty \in Int
            /\ Len(stack) = ITEMS - 1 - ws.free
        BY <2>2
      <4> QED BY <4>1, <3>6, <3>7, <3>8
    <3> QED BY <3>1, <3>2, <3>8, <3>9, Zenon DEF PlacesConserved
  <2> QED BY <2>1, <2>3, <2>4, Zenon DEF WordsAreStack
<1> QED BY <1>1, WordHeapInvariant, PTL

-----------------------------------------------------------------------------
(*** lab-04/glob.c and sched-threads.c ***)

(* glob.c.  A counter is at most the number of stores so far; it is at least *)
(* 1 after the first store, and a thread that loads after its own first      *)
(* store will store at least 2.                                              *)
GlobTypes ==
  /\ loops \in 1..MaxLoops /\ glob \in Nat
  /\ inc \in [1..2 -> [at : {"load", "store", "exited"}, loc : Nat, j : Nat]]
GlobInv ==
  /\ GlobTypes
  /\ glob <= inc[1].j + inc[2].j
  /\ (inc[1].j > 0 \/ inc[2].j > 0) => glob >= 1
  /\ \A t \in 1..2 :
       /\ inc[t].at = "exited" => inc[t].j = loops
       /\ inc[t].at # "exited" => inc[t].j < loops
       /\ inc[t].at = "store" => /\ inc[t].loc \in 1..inc[1].j + inc[2].j + 1
                                 /\ inc[t].j > 0 => inc[t].loc >= 2
  /\ Joined /\ loops > 1 => glob >= 2

(* sched-threads.c.  The rounds the threads have finished.                   *)
Rounds == {tk \in SThreads \X (0..(items - 1)) : tk[2] < wr[tk[1]].i}

SchedPC == {"none", "write", "store", "written", "advance", "exited"}
SchedTypes ==
  /\ policy \in {"R", "F", "C"} /\ items \in 1..MaxItems /\ pos \in Nat
  /\ spawned \in 0..NThreads
  /\ wr \in [SThreads -> [at : SchedPC, i : Nat, pos : Nat]]
  /\ sbuf \in [0..(NThreads * items - 1) -> Nat]
  /\ \A t \in SThreads : /\ wr[t].at = "none" <=> t >= spawned
                         /\ wr[t].at = "none" => wr[t].i = 0
                         /\ wr[t].at = "exited" => wr[t].i = items
                         /\ wr[t].at # "exited" => wr[t].i < items

(* Lost updates only make pos smaller than the number of finished rounds.    *)
PosInv ==
  /\ pos <= Cardinality(Rounds)
  /\ \A t \in SThreads :
       wr[t].at \in {"store", "advance"} => wr[t].pos <= Cardinality(Rounds)

(* Under SCHED_FIFO: the thread c that has the CPU, or is next to get it.    *)
FifoAt(c) ==
  /\ \A u \in SThreads : u < c => wr[u].at = "exited"
  /\ \A u \in SThreads : u > c => wr[u].i = 0 /\ wr[u].at \in {"none", "write"}
  /\ c = NThreads => pos = c * items
  /\ c < NThreads => /\ wr[c].at # "exited"
                     /\ pos = c * items + wr[c].i
                     /\ wr[c].at \in {"written", "advance"} => sbuf[pos] = c
                     /\ wr[c].at \in {"store", "advance"} => wr[c].pos = pos
  /\ \A k \in DOMAIN sbuf : k < pos => sbuf[k] = k \div items

FifoInv == policy = "F" => \E c \in 0..NThreads : FifoAt(c)

SchedInv == SchedTypes /\ PosInv /\ FifoInv

(* glob.c starts with the invariant, and both steps of a thread keep it.     *)
LEMMA GlobKeeps ==
  /\ GlobInit => GlobInv
  /\ GlobInv /\ [GlobNext]_globvars => GlobInv'
<1>1. ASSUME GlobInit PROVE GlobInv
  <2>1. \A t \in 1..2 : inc[t] = [at |-> "load", loc |-> 0, j |-> 0] BY <1>1, Zenon DEF GlobInit
  <2>2. \A t \in 1..2 : inc[t].at = "load" /\ inc[t].loc = 0 /\ inc[t].j = 0 BY <2>1
  <2>3. GlobTypes BY <1>1, Zenon DEF GlobInit, GlobTypes
  <2>4. glob = 0 /\ loops \in 1..MaxLoops /\ MaxLoops \in Nat
    BY <1>1, RacesAssumption, Zenon DEF GlobInit
  <2>5. 1 \in 1..2 /\ 2 \in 1..2 OBVIOUS
  <2> QED BY <2>2, <2>3, <2>4, <2>5 DEF GlobInv, Joined
<1>2. ASSUME GlobInv, NEW t \in 1..2, NEW u \in 1..2, u # t, GlobStep(t) PROVE GlobInv'
  <2> DEFINE R == [at : {"load", "store", "exited"}, loc : Nat, j : Nat]
  <2>1. /\ inc \in [1..2 -> R] /\ inc[t] \in R /\ inc[u] \in R /\ glob \in Nat
        /\ loops \in 1..MaxLoops /\ MaxLoops \in Nat
    BY <1>2, RacesAssumption, Zenon DEF GlobInv, GlobTypes
  <2>2. /\ inc[t].j \in Nat /\ inc[t].loc \in Nat /\ inc[u].j \in Nat /\ inc[u].loc \in Nat
        /\ loops \in Nat
    BY <2>1
  <2>3. inc[1].j + inc[2].j = inc[t].j + inc[u].j /\ \A v \in 1..2 : v = t \/ v = u
    BY <1>2, <2>2
  <2>4. /\ glob <= inc[t].j + inc[u].j
        /\ (inc[t].j > 0 \/ inc[u].j > 0) => glob >= 1
        /\ \A v \in {t, u} :
             /\ inc[v].at = "exited" => inc[v].j = loops
             /\ inc[v].at # "exited" => inc[v].j < loops
             /\ inc[v].at = "store" => /\ inc[v].loc \in 1..inc[t].j + inc[u].j + 1
                                       /\ inc[v].j > 0 => inc[v].loc >= 2
    BY <1>2, <2>3 DEF GlobInv
  <2>5. SUFFICES
          /\ inc' \in [1..2 -> R] /\ glob' \in Nat /\ loops' = loops
          /\ glob' <= inc'[t].j + inc'[u].j
          /\ (inc'[t].j > 0 \/ inc'[u].j > 0) => glob' >= 1
          /\ \A v \in {t, u} :
               /\ inc'[v].at = "exited" => inc'[v].j = loops
               /\ inc'[v].at # "exited" => inc'[v].j < loops
               /\ inc'[v].at = "store" => /\ inc'[v].loc \in 1..inc'[t].j + inc'[u].j + 1
                                          /\ inc'[v].j > 0 => inc'[v].loc >= 2
          /\ inc'[t].at = "exited" /\ inc'[u].at = "exited" /\ loops > 1 => glob' >= 2
    <3>1. inc'[t].j \in Nat /\ inc'[u].j \in Nat BY <2>5, Zenon
    <3>2. inc'[1].j + inc'[2].j = inc'[t].j + inc'[u].j BY <1>2, <3>1
    <3>3. GlobTypes' BY <2>1, <2>5, Zenon DEF GlobTypes
    <3>4. Joined' <=> inc'[t].at = "exited" /\ inc'[u].at = "exited" BY <2>3, Zenon DEF Joined
    <3>5. (inc[1].j > 0 \/ inc[2].j > 0)' => inc'[t].j > 0 \/ inc'[u].j > 0
      <4>1. 1 \in 1..2 /\ 2 \in 1..2 OBVIOUS
      <4> QED BY <2>3, <4>1, Zenon
    <3>6. \A v \in 1..2 : v \in {t, u} BY <2>3, Zenon
    <3> QED BY <2>5, <3>2, <3>3, <3>4, <3>5, <3>6, Zenon DEF GlobInv
  <2>6. CASE increment_load(t)
    <3> DEFINE rec == [inc[t] EXCEPT !.at = "store", !.loc = glob + 1]
    <3>1. rec \in R /\ rec.at = "store" /\ rec.loc = glob + 1 /\ rec.j = inc[t].j
      <4>1. inc[t] \in R /\ glob + 1 \in Nat BY <2>1
      <4> QED BY <4>1, Zenon
    <3>2. inc' = [inc EXCEPT ![t] = rec] /\ glob' = glob /\ loops' = loops
          /\ inc[t].at = "load"
      BY <2>1, <2>6, Zenon DEF increment_load
    <3> HIDE DEF rec
    <3>3. inc' \in [1..2 -> R] /\ inc'[t] = rec /\ inc'[u] = inc[u] BY <1>2, <2>1, <3>1, <3>2, Zenon
    <3> HIDE DEF R
    <3>4. /\ inc'[t].at = "store" /\ inc'[t].loc = glob + 1 /\ inc'[t].j = inc[t].j
          /\ inc'[u].at = inc[u].at /\ inc'[u].loc = inc[u].loc /\ inc'[u].j = inc[u].j
      BY <3>1, <3>3, Zenon
    <3>5. \A v \in {t, u} :
            /\ inc'[v].at = "exited" => inc'[v].j = loops
            /\ inc'[v].at # "exited" => inc'[v].j < loops
            /\ inc'[v].at = "store" => /\ inc'[v].loc \in 1..inc'[t].j + inc'[u].j + 1
                                       /\ inc'[v].j > 0 => inc'[v].loc >= 2
      <4>1. inc'[t].j < loops BY <2>4, <3>2, <3>4, Zenon
      <4>2. glob + 1 \in 1..inc[t].j + inc[u].j + 1 /\ (inc[t].j > 0 => glob + 1 >= 2)
        BY <2>1, <2>2, <2>4
      <4>3. /\ inc[u].at = "exited" => inc[u].j = loops
            /\ inc[u].at # "exited" => inc[u].j < loops
            /\ inc[u].at = "store" => /\ inc[u].loc \in 1..inc[t].j + inc[u].j + 1
                                      /\ inc[u].j > 0 => inc[u].loc >= 2
        BY <2>4, Zenon
      <4> QED BY <3>4, <4>1, <4>2, <4>3, Zenon
    <3> QED BY <2>1, <2>4, <3>2, <3>3, <3>4, <3>5, Zenon
  <2>7. CASE increment_store(t)
    <3> DEFINE s == IF Again(inc[t].j) THEN "load" ELSE "exited"
               rec == [inc[t] EXCEPT !.j = @ + 1, !.at = s]
    <3>1. rec \in R /\ rec.at = s /\ rec.loc = inc[t].loc /\ rec.j = inc[t].j + 1
      <4>1. inc[t] \in R /\ inc[t].j + 1 \in Nat BY <2>1, <2>2
      <4>2. s \in {"load", "exited"} BY Zenon
      <4> HIDE DEF s
      <4> QED BY <4>1, <4>2, Zenon
    <3>2. inc' = [inc EXCEPT ![t] = rec] /\ glob' = inc[t].loc /\ loops' = loops
          /\ inc[t].at = "store"
      BY <2>1, <2>7, Zenon DEF increment_store
    <3>3. /\ s # "store" /\ (s = "exited" => ~(inc[t].j + 1 < loops))
          /\ (s # "exited" => inc[t].j + 1 < loops)
      BY Zenon DEF Again
    <3> HIDE DEF rec, s
    <3>4. inc' \in [1..2 -> R] /\ inc'[t] = rec /\ inc'[u] = inc[u] BY <1>2, <2>1, <3>1, <3>2, Zenon
    <3> HIDE DEF R
    <3>5. /\ inc'[t].at = s /\ inc'[t].j = inc[t].j + 1
          /\ inc'[u].at = inc[u].at /\ inc'[u].loc = inc[u].loc /\ inc'[u].j = inc[u].j
      BY <3>1, <3>4, Zenon
    <3>6. /\ inc[t].j < loops /\ inc[t].loc \in 1..inc[t].j + inc[u].j + 1
          /\ inc[t].j > 0 => inc[t].loc >= 2
      BY <2>4, <3>2, Zenon
    <3>7. /\ inc[u].at = "exited" => inc[u].j = loops
          /\ inc[u].at # "exited" => inc[u].j < loops
          /\ inc[u].at = "store" => /\ inc[u].loc \in 1..inc[t].j + inc[u].j + 1
                                    /\ inc[u].j > 0 => inc[u].loc >= 2
      BY <2>4, Zenon
    <3>8. \A v \in {t, u} :
            /\ inc'[v].at = "exited" => inc'[v].j = loops
            /\ inc'[v].at # "exited" => inc'[v].j < loops
            /\ inc'[v].at = "store" => /\ inc'[v].loc \in 1..inc'[t].j + inc'[u].j + 1
                                       /\ inc'[v].j > 0 => inc'[v].loc >= 2
      <4>1. /\ inc'[t].at = "exited" => inc'[t].j = loops
            /\ inc'[t].at # "exited" => inc'[t].j < loops
            /\ inc'[t].at # "store"
        BY <2>2, <3>3, <3>5, <3>6
      <4>2. inc[u].loc \in 1..inc[t].j + inc[u].j + 1 =>
              inc[u].loc \in 1..(inc[t].j + 1) + inc[u].j + 1
        BY <2>2
      <4> QED BY <3>5, <3>7, <4>1, <4>2
    <3>9. glob' \in Nat /\ glob' >= 1 /\ glob' <= inc'[t].j + inc'[u].j
      BY <2>2, <3>2, <3>5, <3>6
    <3>10. inc'[t].at = "exited" /\ loops > 1 => glob' >= 2
      BY <2>2, <3>2, <3>3, <3>5, <3>6
    <3> QED BY <3>2, <3>4, <3>8, <3>9, <3>10, Zenon
  <2> QED BY <1>2, <2>6, <2>7, Zenon DEF GlobStep
<1>3. ASSUME GlobInv, NEW t \in 1..2, GlobStep(t) PROVE GlobInv'
  <2>1. PICK u \in 1..2 : u # t
    <3>1. t = 1 \/ t = 2 OBVIOUS
    <3>2. 1 \in 1..2 /\ 2 \in 1..2 OBVIOUS
    <3> QED BY <3>1, <3>2
  <2> QED BY <1>2, <1>3, <2>1, Zenon
<1>4. ASSUME GlobInv, UNCHANGED globvars PROVE GlobInv'
  BY <1>4, Zenon DEF globvars, GlobInv, GlobTypes, Joined
<1> QED BY <1>1, <1>3, <1>4, Zenon DEF GlobNext

(* The inductive invariant of glob.c.                                        *)
THEOREM GlobInvariant == GlobSpec => []GlobInv
<1> QED BY GlobKeeps, PTL DEF GlobSpec

(* For any number of loops, what glob prints is between 2 (1 when a thread   *)
(* loops once) and 2 * loops, however the increments interleave.             *)
THEOREM LossIsBounded == GlobSpec => []PrintedGlob
<1>1. GlobInv => PrintedGlob
  <2> SUFFICES ASSUME GlobInv, Joined
               PROVE  glob \in (IF loops = 1 THEN 1 ELSE 2)..(2 * loops)
    BY Zenon DEF PrintedGlob
  <2>1. 1 \in 1..2 /\ 2 \in 1..2 OBVIOUS
  <2>2. inc[1].at = "exited" /\ inc[2].at = "exited" BY <2>1, Zenon DEF Joined
  <2>3. inc[1].j = loops /\ inc[2].j = loops BY <2>1, <2>2, Zenon DEF GlobInv
  <2>4. loops \in Nat /\ loops >= 1 /\ glob \in Nat
    BY RacesAssumption DEF GlobInv, GlobTypes
  <2>5. glob <= loops + loops /\ glob >= 1 /\ (loops > 1 => glob >= 2)
    BY <2>3, <2>4 DEF GlobInv
  <2> QED BY <2>4, <2>5
<1> QED BY <1>1, GlobInvariant, PTL

(* The rounds are finite and are count * items when every thread has ended;  *)
(* a thread that has not ended leaves one out.                               *)
LEMMA RoundsCount ==
  ASSUME SchedTypes
  PROVE  /\ IsFiniteSet(Rounds) /\ Cardinality(Rounds) \in Nat
         /\ \A t \in SThreads : wr[t].i < items => Cardinality(Rounds) < NThreads * items
<1> DEFINE B == 0..(items - 1)
           All == SThreads \X B
<1>1. items \in Nat /\ items >= 1 /\ NThreads \in Nat BY RacesAssumption DEF SchedTypes
<1>2. /\ IsFiniteSet(SThreads) /\ IsFiniteSet(B)
      /\ Cardinality(SThreads) = NThreads /\ Cardinality(B) = items
  <2> DEFINE a == items - 1
             n == NThreads - 1
  <2>1. 0 \in Int /\ a \in Int /\ n \in Int BY <1>1
  <2>2. a + 1 = items /\ n + 1 = NThreads /\ ~(0 > a) /\ (0 > n <=> NThreads = 0) BY <1>1
  <2>3. B = 0..a /\ SThreads = 0..n BY Zenon DEF SThreads
  <2> HIDE DEF a, n, B
  <2>4. /\ IsFiniteSet(0..a) /\ Cardinality(0..a) = IF 0 > a THEN 0 ELSE a - 0 + 1
        /\ IsFiniteSet(0..n) /\ Cardinality(0..n) = IF 0 > n THEN 0 ELSE n - 0 + 1
    BY <2>1, FS_Interval, Zenon
  <2> QED BY <1>1, <2>1, <2>2, <2>3, <2>4
<1>3. IsFiniteSet(All) /\ Cardinality(All) = NThreads * items
  <2> HIDE DEF B
  <2> QED BY <1>2, FS_Product, Zenon
<1>4. Rounds \in SUBSET All BY Zenon DEF Rounds
<1>5. /\ IsFiniteSet(Rounds) /\ Cardinality(Rounds) <= Cardinality(All)
      /\ Cardinality(All) = Cardinality(Rounds) => All = Rounds
  <2> HIDE DEF All
  <2> QED BY <1>3, <1>4, FS_Subset, Zenon
<1>6. Cardinality(Rounds) \in Nat BY <1>5, FS_CardinalityType, Zenon
<1>7. ASSUME NEW t \in SThreads, wr[t].i < items PROVE Cardinality(Rounds) < NThreads * items
  <2>1. wr[t].i \in Nat BY Zenon DEF SchedTypes
  <2>2. items - 1 \in B /\ ~(items - 1 < wr[t].i) BY <1>1, <1>7, <2>1
  <2>3. <<t, items - 1>> \in All /\ <<t, items - 1>> \notin Rounds BY <2>2, Zenon DEF Rounds
  <2>4. All # Rounds BY <2>3, Zenon
  <2>5. NThreads * items \in Nat BY <1>1
  <2> HIDE DEF All
  <2> QED BY <1>3, <1>5, <1>6, <2>4, <2>5
<1> QED BY <1>5, <1>6, <1>7, Zenon

(* So a write, which needs a thread that has not ended, is inside the buffer.*)
LEMMA InsideBuffer ==
  ASSUME SchedTypes, PosInv, NEW t \in SThreads, wr[t].at = "store"
  PROVE  wr[t].pos \in DOMAIN sbuf
<1>1. wr[t].i < items BY Zenon DEF SchedTypes
<1>2. Cardinality(Rounds) \in Nat /\ Cardinality(Rounds) < NThreads * items BY <1>1, RoundsCount, Zenon
<1>3. wr[t].pos \in Nat /\ wr[t].pos <= Cardinality(Rounds) BY Zenon DEF PosInv, SchedTypes
<1>4. NThreads * items \in Nat
  <2>1. items \in Nat /\ NThreads \in Nat BY RacesAssumption DEF SchedTypes
  <2> QED BY <2>1
<1>5. DOMAIN sbuf = 0..(NThreads * items - 1) BY Zenon DEF SchedTypes
<1> QED BY <1>2, <1>3, <1>4, <1>5

(* Only pos_store, the end of a round, changes the rounds.                   *)
LEMMA RoundsSame ==
  ASSUME SchedTypes, items' = items, \A u \in SThreads : wr'[u].i = wr[u].i
  PROVE  Rounds' = Rounds
BY Zenon DEF Rounds

(* pos_store ends one round of its thread.                                   *)
LEMMA RoundsGain ==
  ASSUME SchedTypes, items' = items, NEW t \in SThreads, wr[t].i < items,
         wr'[t].i = wr[t].i + 1, \A u \in SThreads : u # t => wr'[u].i = wr[u].i
  PROVE  Cardinality(Rounds') = Cardinality(Rounds) + 1
<1>1. items \in Nat /\ \A u \in SThreads : wr[u].i \in Nat BY RacesAssumption DEF SchedTypes
<1> DEFINE new == <<t, wr[t].i>>
<1>2. new \in SThreads \X (0..(items - 1)) BY <1>1
<1>3. new \notin Rounds BY <1>1 DEF Rounds
<1>4. Rounds' = Rounds \cup {new}
  <2>1. ASSUME NEW tk \in SThreads \X (0..(items - 1))
        PROVE  tk \in Rounds' <=> tk \in Rounds \/ tk = new
    <3>1. tk = <<tk[1], tk[2]>> /\ tk[1] \in SThreads /\ tk[2] \in 0..(items - 1) OBVIOUS
    <3>2. tk \in Rounds <=> tk[2] < wr[tk[1]].i BY Zenon DEF Rounds
    <3>3. tk \in Rounds' <=> tk[2] < wr'[tk[1]].i BY Zenon DEF Rounds
    <3>4. CASE tk[1] = t
      <4>1. tk[2] < wr[t].i + 1 <=> tk[2] < wr[t].i \/ tk[2] = wr[t].i BY <1>1, <3>1
      <4>2. tk = new <=> tk[2] = wr[t].i BY <3>1, <3>4
      <4> QED BY <3>2, <3>3, <3>4, <4>1, <4>2, Zenon
    <3>5. CASE tk[1] # t
      <4>1. tk # new BY <3>5
      <4> QED BY <3>1, <3>2, <3>3, <3>5, <4>1, Zenon
    <3> QED BY <3>4, <3>5, Zenon
  <2>2. Rounds' \subseteq SThreads \X (0..(items - 1)) BY Zenon DEF Rounds
  <2>3. Rounds \subseteq SThreads \X (0..(items - 1)) BY Zenon DEF Rounds
  <2> HIDE DEF new
  <2> QED BY <1>2, <2>1, <2>2, <2>3, Zenon
<1> HIDE DEF new
<1> QED BY <1>3, <1>4, RoundsCount, FS_AddElement, Zenon

(* Under SCHED_FIFO only the thread at the front runs.                       *)
LEMMA FrontRuns ==
  ASSUME SchedTypes, policy = "F", NEW c \in 0..NThreads, FifoAt(c),
         NEW t \in SThreads, Scheduled(t)
  PROVE  t = c
<1>1. t \in Nat /\ c \in Nat /\ t < NThreads /\ NThreads \in Nat
  BY RacesAssumption DEF SThreads
<1>2. ~(t < c) BY Zenon DEF FifoAt, Scheduled
<1>3. ASSUME c < t PROVE FALSE
  <2>1. c \in 0..(t - 1) /\ c < NThreads BY <1>1, <1>3
  <2> QED BY <2>1, Zenon DEF FifoAt, Scheduled
<1> QED BY <1>1, <1>2, <1>3

(* sched-threads.c starts with the invariant.                                *)
LEMMA SchedStart == SchedInit => SchedInv
<1> SUFFICES ASSUME SchedInit PROVE SchedInv BY Zenon
<1>1. NThreads \in Nat /\ MaxItems \in Nat /\ items \in 1..MaxItems /\ pos = 0 /\ spawned = 0
  BY RacesAssumption, Zenon DEF SchedInit
<1>2. \A t \in SThreads : wr[t].at = "none" /\ wr[t].i = 0 BY Zenon DEF SchedInit
<1>3. SchedTypes
  <2>1. wr \in [SThreads -> [at : SchedPC, i : Nat, pos : Nat]] BY Zenon DEF SchedInit, SchedPC
  <2>2. sbuf \in [0..(NThreads * items - 1) -> Nat] BY Zenon DEF SchedInit
  <2>3. \A t \in SThreads : t >= spawned BY <1>1 DEF SThreads
  <2> QED BY <1>1, <1>2, <2>1, <2>2, <2>3 DEF SchedTypes, SchedInit
<1>4. PosInv
  <2>1. Cardinality(Rounds) \in Nat BY <1>3, RoundsCount, Zenon
  <2> QED BY <1>1, <1>2, <2>1 DEF PosInv
<1>5. FifoAt(0)
  <2>1. \A u \in SThreads : u \in Nat BY DEF SThreads
  <2>2. 0 < NThreads => 0 \in SThreads BY <1>1 DEF SThreads
  <2>3. 0 * items = 0 BY <1>1
  <2>4. \A k \in DOMAIN sbuf : k \in Nat BY <1>3 DEF SchedTypes
  <2> QED BY <1>1, <1>2, <2>1, <2>2, <2>3, <2>4, SMTT(60) DEF FifoAt
<1>6. FifoInv BY <1>1, <1>5 DEF FifoInv
<1> QED BY <1>3, <1>4, <1>6, Zenon DEF SchedInv

(* main creates a thread: nobody's round changes, and under SCHED_FIFO the   *)
(* new thread is at the front or behind it.                                  *)
LEMMA CreateKeeps == SchedInv /\ create_thread => SchedInv'
<1> SUFFICES ASSUME SchedInv, create_thread PROVE SchedInv' BY Zenon
<1> DEFINE R == [at : SchedPC, i : Nat, pos : Nat]
           s == spawned
           rec == [wr[s] EXCEPT !.at = "write"]
<1>1. /\ SchedTypes /\ wr \in [SThreads -> R] /\ s \in SThreads /\ NThreads \in Nat
      /\ wr[s] \in R /\ s \in Nat /\ items \in Nat /\ MaxItems \in Nat
  BY RacesAssumption DEF SchedInv, SchedTypes, create_thread, SThreads
<1>2. wr[s].at = "none" /\ wr[s].i = 0 /\ 0 < items BY <1>1 DEF SchedTypes
<1>3. rec \in R /\ rec.at = "write" /\ rec.i = 0 /\ rec.pos = wr[s].pos
  BY <1>1, <1>2, Zenon DEF SchedPC
<1>4. wr' = [wr EXCEPT ![s] = rec] BY <1>1, Zenon DEF create_thread
<1>5. /\ spawned' = s + 1 /\ policy' = policy /\ items' = items /\ pos' = pos /\ sbuf' = sbuf
  BY Zenon DEF create_thread
<1> HIDE DEF rec, s
<1>6. wr' \in [SThreads -> R] /\ wr'[s] = rec /\ \A u \in SThreads : u # s => wr'[u] = wr[u]
  BY <1>1, <1>3, <1>4, Zenon
<1>7. SchedTypes'
  <2>1. \A u \in SThreads : u >= s + 1 <=> u >= s /\ u # s BY <1>1 DEF SThreads
  <2>2. s + 1 \in 0..NThreads BY <1>1 DEF SThreads
  <2>3. \A u \in SThreads : wr[u].at = "none" <=> u >= s BY <1>1, Zenon DEF SchedTypes, s
  <2>4. \A u \in SThreads : /\ wr[u].at = "none" => wr[u].i = 0
                            /\ wr[u].at = "exited" => wr[u].i = items
                            /\ wr[u].at # "exited" => wr[u].i < items
    BY <1>1, Zenon DEF SchedTypes
  <2>5. ASSUME NEW u \in SThreads
        PROVE  /\ wr'[u].at = "none" <=> u >= s + 1
               /\ wr'[u].at = "none" => wr'[u].i = 0
               /\ wr'[u].at = "exited" => wr'[u].i = items
               /\ wr'[u].at # "exited" => wr'[u].i < items
    <3>1. CASE u = s BY <3>1, <1>2, <1>3, <1>6, <2>1, Zenon
    <3>2. CASE u # s BY <3>2, <1>6, <2>1, <2>3, <2>4, Zenon
    <3> QED BY <3>1, <3>2, Zenon
  <2> HIDE DEF R
  <2>6. wr' \in [SThreads -> [at : SchedPC, i : Nat, pos : Nat]] BY <1>6, Zenon DEF R
  <2> QED BY <1>1, <1>5, <2>2, <2>5, <2>6, Zenon DEF SchedTypes
<1>8. PosInv'
  <2>1. \A u \in SThreads : wr'[u].i = wr[u].i BY <1>2, <1>3, <1>6, Zenon
  <2>2. Rounds' = Rounds BY <1>1, <1>5, <2>1, RoundsSame, Zenon
  <2>3. ASSUME NEW u \in SThreads, wr'[u].at \in {"store", "advance"}
        PROVE  wr'[u] = wr[u]
    BY <1>3, <1>6, <2>3, Zenon
  <2> QED BY <1>5, <2>2, <2>3, Zenon DEF SchedInv, PosInv
<1>9. FifoInv'
  <2> SUFFICES ASSUME policy = "F" PROVE \E c \in 0..NThreads : FifoAt(c)'
    BY <1>5, Zenon DEF FifoInv
  <2>1. PICK c \in 0..NThreads : FifoAt(c) BY Zenon DEF SchedInv, FifoInv
  <2>2. ~(s < c) BY <1>1, <1>2, <2>1, Zenon DEF FifoAt
  <2>3. s < NThreads /\ c < NThreads /\ c \in SThreads BY <1>1, <2>2 DEF SThreads
  <2>4. \A u \in SThreads : u < c => wr'[u].at = "exited" BY <1>6, <2>1, <2>2, Zenon DEF FifoAt
  <2>5. ASSUME NEW u \in SThreads, u > c PROVE wr'[u].i = 0 /\ wr'[u].at \in {"none", "write"}
    <3>1. CASE u = s BY <3>1, <1>3, <1>6, Zenon
    <3>2. CASE u # s BY <3>2, <2>5, <1>6, <2>1, Zenon DEF FifoAt
    <3> QED BY <3>1, <3>2, Zenon
  <2>6. /\ wr'[c].at # "exited" /\ wr'[c].i = wr[c].i
        /\ wr'[c].at \in {"store", "written", "advance"} => wr'[c] = wr[c]
    <3>1. CASE c = s BY <3>1, <1>2, <1>3, <1>6, Zenon
    <3>2. CASE c # s BY <3>2, <1>6, <2>1, <2>3, Zenon DEF FifoAt
    <3> QED BY <3>1, <3>2, Zenon
  <2>7. c # NThreads BY <1>1, <2>3
  <2>8. FifoAt(c)' BY <1>5, <2>1, <2>3, <2>4, <2>5, <2>6, <2>7, Zenon DEF FifoAt
  <2> QED BY <2>8, Zenon
<1> QED BY <1>7, <1>8, <1>9, Zenon DEF SchedInv

(* A thread loads pos, or stores its id where the pos it loaded says: the    *)
(* rounds and pos stay, and under SCHED_FIFO the store is at the front's     *)
(* place.                                                                    *)
LEMMA RoundKeeps ==
  ASSUME SchedInv, NEW t \in SThreads, write_load(t) \/ write_store(t) \/ pos_load(t)
  PROVE  SchedInv'
<1> DEFINE R == [at : SchedPC, i : Nat, pos : Nat]
<1>1. /\ SchedTypes /\ PosInv /\ wr \in [SThreads -> R] /\ wr[t] \in R /\ NThreads \in Nat
      /\ items \in Nat /\ pos \in Nat /\ t \in Nat /\ Scheduled(t)
      /\ wr[t].at \in {"write", "store", "written"}
  BY RacesAssumption, SMTT(60)
     DEF SchedInv, SchedTypes, write_load, write_store, pos_load, SThreads
<1>2. /\ policy' = policy /\ items' = items /\ pos' = pos /\ spawned' = spawned
  BY Zenon DEF write_load, write_store, pos_load
<1>3. PICK rec \in R : /\ wr' = [wr EXCEPT ![t] = rec] /\ rec.i = wr[t].i
                       /\ rec.at \in {"store", "written", "advance"}
                       /\ rec.at \in {"store", "advance"} => rec.pos = pos
                       /\ rec.at = "advance" => wr[t].at = "written"
                       /\ rec.at = "written" => write_store(t)
  <2>1. CASE write_store(t)
    <3> DEFINE x == [wr[t] EXCEPT !.at = "written"]
    <3>1. x \in R /\ x.i = wr[t].i /\ x.at = "written" BY <1>1, Zenon DEF SchedPC
    <3>2. wr' = [wr EXCEPT ![t] = x] BY <1>1, <2>1, Zenon DEF write_store
    <3> HIDE DEF x, R
    <3> QED BY <2>1, <3>1, <3>2, Zenon
  <2>2. CASE write_load(t)
    <3> DEFINE x == [wr[t] EXCEPT !.at = "store", !.pos = pos]
    <3>1. x \in R /\ x.i = wr[t].i /\ x.at = "store" /\ x.pos = pos BY <1>1, Zenon DEF SchedPC
    <3>2. wr' = [wr EXCEPT ![t] = x] BY <1>1, <2>2, Zenon DEF write_load
    <3> HIDE DEF x, R
    <3> QED BY <3>1, <3>2, Zenon
  <2>3. CASE pos_load(t)
    <3> DEFINE x == [wr[t] EXCEPT !.at = "advance", !.pos = pos]
    <3>1. x \in R /\ x.i = wr[t].i /\ x.at = "advance" /\ x.pos = pos BY <1>1, Zenon DEF SchedPC
    <3>2. wr' = [wr EXCEPT ![t] = x] /\ wr[t].at = "written" BY <1>1, <2>3, Zenon DEF pos_load
    <3> HIDE DEF x, R
    <3> QED BY <3>1, <3>2, Zenon
  <2> QED BY <2>1, <2>2, <2>3, Zenon
<1>4. wr' \in [SThreads -> R] /\ wr'[t] = rec /\ \A u \in SThreads : u # t => wr'[u] = wr[u]
  BY <1>1, <1>3, Zenon
<1> DEFINE q == wr[t].pos
<1>5. write_store(t) => wr[t].at = "store" /\ q \in DOMAIN sbuf
  <2> SUFFICES ASSUME write_store(t) PROVE wr[t].at = "store" /\ q \in DOMAIN sbuf BY Zenon
  <2>1. wr[t].at = "store" BY Zenon DEF write_store
  <2> QED BY <1>1, <2>1, InsideBuffer, Zenon
<1>6. /\ sbuf' \in [0..(NThreads * items - 1) -> Nat] /\ DOMAIN sbuf' = DOMAIN sbuf
      /\ \A k \in DOMAIN sbuf : k # q => sbuf'[k] = sbuf[k]
      /\ write_store(t) => sbuf'[q] = t
      /\ ~write_store(t) => sbuf' = sbuf
  <2>1. sbuf \in [0..(NThreads * items - 1) -> Nat] BY <1>1, Zenon DEF SchedTypes
  <2>2. CASE write_store(t)
    <3>1. sbuf' = [sbuf EXCEPT ![q] = t] BY <1>5, <2>2, Zenon DEF write_store
    <3> HIDE DEF q
    <3> QED BY <1>1, <1>5, <2>1, <2>2, <3>1, Zenon
  <2>3. CASE ~write_store(t)
    <3>1. sbuf' = sbuf BY <2>3, Zenon DEF write_load, pos_load
    <3> QED BY <2>1, <2>3, <3>1, Zenon
  <2> QED BY <2>2, <2>3, Zenon
<1>7. SchedTypes'
  <2>1. \A u \in SThreads : /\ wr[u].at = "none" <=> u >= spawned
                            /\ wr[u].at = "none" => wr[u].i = 0
                            /\ wr[u].at = "exited" => wr[u].i = items
                            /\ wr[u].at # "exited" => wr[u].i < items
    BY <1>1, Zenon DEF SchedTypes
  <2>2. ASSUME NEW u \in SThreads
        PROVE  /\ wr'[u].at = "none" <=> u >= spawned
               /\ wr'[u].at = "none" => wr'[u].i = 0
               /\ wr'[u].at = "exited" => wr'[u].i = items
               /\ wr'[u].at # "exited" => wr'[u].i < items
    <3>1. CASE u = t BY <3>1, <1>1, <1>3, <1>4, <2>1, Zenon
    <3>2. CASE u # t BY <3>2, <1>4, <2>1
    <3> QED BY <3>1, <3>2, Zenon
  <2> HIDE DEF R
  <2>3. wr' \in [SThreads -> [at : SchedPC, i : Nat, pos : Nat]] BY <1>4, Zenon DEF R
  <2> QED BY <1>1, <1>2, <1>6, <2>2, <2>3, SMTT(60) DEF SchedTypes
<1>8. PosInv'
  <2>1. \A u \in SThreads : wr'[u].i = wr[u].i BY <1>3, <1>4, Zenon
  <2>2. Rounds' = Rounds BY <1>1, <1>2, <2>1, RoundsSame, Zenon
  <2>3. ASSUME NEW u \in SThreads, wr'[u].at \in {"store", "advance"}
        PROVE  wr'[u].pos <= Cardinality(Rounds)
    <3>1. CASE u = t BY <3>1, <2>3, <1>1, <1>3, <1>4, Zenon DEF PosInv
    <3>2. CASE u # t BY <3>2, <2>3, <1>1, <1>4, Zenon DEF PosInv
    <3> QED BY <3>1, <3>2, Zenon
  <2> QED BY <1>1, <1>2, <2>2, <2>3, Zenon DEF PosInv
<1>9. FifoInv'
  <2> SUFFICES ASSUME policy = "F" PROVE \E c \in 0..NThreads : FifoAt(c)'
    BY <1>2, Zenon DEF FifoInv
  <2>1. PICK c \in 0..NThreads : FifoAt(c) BY Zenon DEF SchedInv, FifoInv
  <2>2. c = t BY <1>1, <2>1, FrontRuns, Zenon
  <2>3. t < NThreads /\ c # NThreads /\ \A u \in SThreads : u < c \/ u > c => u # t
    BY <1>1, <2>2 DEF SThreads
  <2>4. /\ \A u \in SThreads : u < c => wr'[u].at = "exited"
        /\ \A u \in SThreads : u > c => wr'[u].i = 0 /\ wr'[u].at \in {"none", "write"}
    BY <1>4, <2>1, <2>3, Zenon DEF FifoAt
  <2>5. pos = c * items + wr'[c].i BY <1>3, <1>4, <2>1, <2>2, <2>3, Zenon DEF FifoAt
  <2>6. wr'[c].at \in {"written", "advance"} => sbuf'[pos] = c
    <3>1. CASE rec.at = "written"
      <4>1. write_store(t) /\ q = pos BY <3>1, <1>3, <1>5, <2>1, <2>2, <2>3, Zenon DEF FifoAt
      <4> QED BY <4>1, <1>6, <2>2, Zenon
    <3>2. CASE rec.at = "advance"
      <4>1. ~write_store(t) BY <3>2, <1>3, Zenon DEF write_store
      <4> QED BY <3>2, <4>1, <1>3, <1>6, <2>1, <2>2, <2>3, Zenon DEF FifoAt
    <3>3. CASE rec.at = "store" BY <3>3, <1>4, <2>2, Zenon
    <3> QED BY <1>3, <3>1, <3>2, <3>3, Zenon
  <2>7. wr'[c].at \in {"store", "advance"} => wr'[c].pos = pos BY <1>3, <1>4, <2>2, Zenon
  <2>8. \A k \in DOMAIN sbuf' : k < pos => sbuf'[k] = k \div items
    <3>1. \A k \in DOMAIN sbuf : k \in Nat BY <1>1 DEF SchedTypes
    <3>2. \A k \in DOMAIN sbuf : k < pos => k # pos BY <1>1, <3>1
    <3>3. \A k \in DOMAIN sbuf : k < pos => sbuf[k] = k \div items BY <2>1, Zenon DEF FifoAt
    <3>4. write_store(t) => q = pos BY <1>5, <2>1, <2>2, <2>3, Zenon DEF FifoAt
    <3> HIDE DEF q
    <3> QED BY <1>6, <3>2, <3>3, <3>4, Zenon
  <2>9. wr'[c].at # "exited" BY <1>3, <1>4, <2>2, Zenon
  <2>10. FifoAt(c)' BY <1>2, <2>3, <2>4, <2>5, <2>6, <2>7, <2>8, <2>9, Zenon DEF FifoAt
  <2> QED BY <2>10, Zenon
<1> QED BY <1>7, <1>8, <1>9, Zenon DEF SchedInv

(* A thread stores pos + 1, which ends its round: one more round, and pos at *)
(* most one more; under SCHED_FIFO exactly one more, and the next thread is  *)
(* at the front when this was the last round.                                *)
LEMMA AdvanceKeeps ==
  ASSUME SchedInv, NEW t \in SThreads, pos_store(t)
  PROVE  SchedInv'
<1> DEFINE R == [at : SchedPC, i : Nat, pos : Nat]
           n == wr[t].i
           s == IF MoreItems(n) THEN "write" ELSE "exited"
           rec == [wr[t] EXCEPT !.i = n + 1, !.at = s]
<1>1. /\ SchedTypes /\ PosInv /\ wr \in [SThreads -> R] /\ wr[t] \in R /\ NThreads \in Nat
      /\ items \in Nat /\ pos \in Nat /\ t \in Nat /\ t < NThreads /\ Scheduled(t)
      /\ wr[t].at = "advance"
  BY RacesAssumption, SMTT(60) DEF SchedInv, SchedTypes, pos_store, SThreads
<1>2. n \in Nat /\ n < items /\ items > 0 /\ wr[t].pos \in Nat BY <1>1 DEF SchedTypes
<1>3. /\ policy' = policy /\ items' = items /\ pos' = wr[t].pos + 1 /\ spawned' = spawned
      /\ sbuf' = sbuf /\ wr' = [wr EXCEPT ![t] = rec]
  BY <1>1, Zenon DEF pos_store
<1>4. s \in {"write", "exited"} /\ (s = "write" => n + 1 < items) /\ (s = "exited" => n + 1 = items)
  BY <1>1, <1>2 DEF MoreItems
<1> HIDE DEF s, n
<1>5. rec \in R /\ rec.i = n + 1 /\ rec.at = s
  <2>1. wr[t] \in R /\ n + 1 \in Nat /\ s \in SchedPC BY <1>1, <1>2, <1>4 DEF SchedPC
  <2> QED BY <2>1, Zenon
<1> HIDE DEF rec
<1>6. wr' \in [SThreads -> R] /\ wr'[t] = rec /\ \A u \in SThreads : u # t => wr'[u] = wr[u]
  BY <1>1, <1>3, <1>5, Zenon
<1>7. SchedTypes'
  <2>1. \A u \in SThreads : /\ wr[u].at = "none" <=> u >= spawned
                            /\ wr[u].at = "none" => wr[u].i = 0
                            /\ wr[u].at = "exited" => wr[u].i = items
                            /\ wr[u].at # "exited" => wr[u].i < items
    BY <1>1, Zenon DEF SchedTypes
  <2>2. ASSUME NEW u \in SThreads
        PROVE  /\ wr'[u].at = "none" <=> u >= spawned
               /\ wr'[u].at = "none" => wr'[u].i = 0
               /\ wr'[u].at = "exited" => wr'[u].i = items
               /\ wr'[u].at # "exited" => wr'[u].i < items
    <3>1. CASE u = t BY <3>1, <1>1, <1>4, <1>5, <1>6, <2>1, Zenon
    <3>2. CASE u # t BY <3>2, <1>6, <2>1
    <3> QED BY <3>1, <3>2, Zenon
  <2> HIDE DEF R
  <2>3. wr' \in [SThreads -> [at : SchedPC, i : Nat, pos : Nat]] BY <1>6, Zenon DEF R
  <2>4. pos' \in Nat BY <1>2, <1>3
  <2> QED BY <1>1, <1>3, <2>2, <2>3, <2>4, SMTT(60) DEF SchedTypes
<1>8. PosInv'
  <2>1. Cardinality(Rounds') = Cardinality(Rounds) + 1 /\ Cardinality(Rounds) \in Nat
    BY <1>1, <1>2, <1>3, <1>5, <1>6, RoundsGain, RoundsCount, Zenon DEF n
  <2>2. wr[t].pos <= Cardinality(Rounds) BY <1>1, Zenon DEF PosInv
  <2>3. pos' <= Cardinality(Rounds') BY <1>2, <1>3, <2>1, <2>2
  <2>4. ASSUME NEW u \in SThreads, wr'[u].at \in {"store", "advance"}
        PROVE  wr'[u].pos <= Cardinality(Rounds')
    <3>1. u # t /\ wr'[u] = wr[u] BY <2>4, <1>4, <1>5, <1>6, Zenon
    <3>2. wr[u].pos \in Nat /\ wr[u].pos <= Cardinality(Rounds)
      BY <1>1, <2>4, <3>1, Zenon DEF PosInv
    <3> QED BY <2>1, <3>1, <3>2
  <2> QED BY <2>3, <2>4, Zenon DEF PosInv
<1>9. FifoInv'
  <2> SUFFICES ASSUME policy = "F" PROVE \E c \in 0..NThreads : FifoAt(c)'
    BY <1>3, Zenon DEF FifoInv
  <2>1. PICK c \in 0..NThreads : FifoAt(c) BY Zenon DEF SchedInv, FifoInv
  <2>2. c = t BY <1>1, <2>1, FrontRuns, Zenon
  <2>3. /\ pos = t * items + n /\ sbuf[pos] = t /\ wr[t].pos = pos /\ pos' = pos + 1
        /\ \A u \in SThreads : u < t => wr'[u].at = "exited"
        /\ \A u \in SThreads : u > t => wr'[u].i = 0 /\ wr'[u].at \in {"none", "write"}
        /\ \A k \in DOMAIN sbuf : k < pos => sbuf[k] = k \div items
    <3>1. \A u \in SThreads : u < t \/ u > t => u # t BY DEF SThreads
    <3> QED BY <1>1, <1>3, <1>6, <2>1, <2>2, <3>1, Zenon DEF FifoAt, n
  <2>4. pos \div items = t
    <3>1. /\ pos = items * t + n /\ n \in 0..items-1 /\ items \in Nat \ {0}
          /\ t \in Int /\ pos \in Int
      BY <1>1, <1>2, <2>3
    <3> QED BY <3>1, DivModIs, Zenon
  <2>5. \A k \in DOMAIN sbuf' : k < pos' => sbuf'[k] = k \div items
    <3>1. \A k \in DOMAIN sbuf : k \in Nat BY <1>1 DEF SchedTypes
    <3>2. ASSUME NEW k \in DOMAIN sbuf, k < pos + 1 PROVE sbuf[k] = k \div items
      <4>1. k < pos \/ k = pos BY <1>1, <3>1, <3>2
      <4> QED BY <2>3, <2>4, <4>1, Zenon
    <3> QED BY <1>3, <2>3, <3>2, Zenon
  <2>6. CASE s = "write"
    <3>1. pos' = t * items + wr'[t].i BY <1>1, <1>2, <1>5, <1>6, <2>3
    <3>2. wr'[t].at = "write" /\ t # NThreads BY <1>1, <1>5, <1>6, <2>6
    <3>3. FifoAt(t)' BY <1>1, <1>3, <2>3, <2>5, <3>1, <3>2, Zenon DEF FifoAt
    <3> QED BY <2>2, <3>3, Zenon
  <2>7. CASE s = "exited"
    <3> DEFINE d == t + 1
    <3>1. d \in 0..NThreads /\ d \in Nat /\ (d < NThreads => d \in SThreads /\ d > t)
      BY <1>1 DEF SThreads
    <3>2. pos' = d * items
      <4>1. pos' = t * items + n + 1 /\ n + 1 = items BY <1>1, <1>2, <1>4, <2>3, <2>7, Zenon
      <4>2. d * items = t * items + items BY <1>1
      <4>3. t * items \in Nat BY <1>1
      <4> HIDE DEF d
      <4> QED BY <1>1, <1>2, <4>1, <4>2, <4>3
    <3>3. wr'[t].at = "exited" BY <1>5, <1>6, <2>7, Zenon
    <3>4. \A u \in SThreads : (u < d => u < t \/ u = t) /\ (u > d => u > t)
      BY <1>1 DEF SThreads
    <3> HIDE DEF d
    <3>5. /\ \A u \in SThreads : u < d => wr'[u].at = "exited"
          /\ \A u \in SThreads : u > d => wr'[u].i = 0 /\ wr'[u].at \in {"none", "write"}
      BY <2>3, <3>3, <3>4, Zenon
    <3>6. ASSUME d < NThreads
          PROVE  /\ wr'[d].at \in {"none", "write"} /\ pos' = d * items + wr'[d].i
      <4>1. wr'[d].i = 0 /\ wr'[d].at \in {"none", "write"} BY <2>3, <3>1, <3>6, Zenon
      <4>2. d * items \in Nat BY <1>1, <3>1
      <4> QED BY <3>2, <4>1, <4>2
    <3>7. FifoAt(d)' BY <1>3, <2>5, <3>2, <3>5, <3>6, Zenon DEF FifoAt
    <3> QED BY <3>1, <3>7, Zenon
  <2> QED BY <1>4, <2>6, <2>7, Zenon
<1> QED BY <1>7, <1>8, <1>9, Zenon DEF SchedInv

(* Every step of sched-threads.c keeps the invariant.                        *)
LEMMA SchedKeeps == SchedInv /\ [SchedNext]_schedvars => SchedInv'
<1>1. ASSUME SchedInv, UNCHANGED schedvars PROVE SchedInv'
  <2>1. /\ policy' = policy /\ items' = items /\ pos' = pos /\ sbuf' = sbuf /\ wr' = wr
        /\ spawned' = spawned
    BY <1>1, Zenon DEF schedvars
  <2>2. Rounds' = Rounds BY <2>1, Zenon DEF Rounds
  <2>3. SchedTypes' /\ PosInv' BY <1>1, <2>1, <2>2, Zenon DEF SchedInv, SchedTypes, PosInv
  <2>4. \A c \in 0..NThreads : FifoAt(c) => FifoAt(c)' BY <2>1, Zenon DEF FifoAt
  <2>5. FifoInv' BY <1>1, <2>1, <2>4, Zenon DEF SchedInv, FifoInv
  <2> QED BY <2>3, <2>5, Zenon DEF SchedInv
<1> QED BY <1>1, CreateKeeps, RoundKeeps, AdvanceKeeps, Zenon DEF SchedNext, SchedStep

(* The inductive invariant of sched-threads.c.                               *)
THEOREM SchedInvariant == SchedSpec => []SchedInv
<1> QED BY SchedStart, SchedKeeps, PTL DEF SchedSpec

(* The races of glob.c and sched-threads.c, for any number of loops, threads *)
(* and items: the counter glob prints is off by a bounded amount, no store   *)
(* of sched-threads leaves its buffer, and SCHED_FIFO hides the race.        *)
THEOREM RacesBounded == GlobSpec /\ SchedSpec => []RacesAreBounded
<1>1. SchedInv => WritesInBuffer
  <2> SUFFICES ASSUME SchedInv, NEW t \in SThreads, wr[t].at = "store"
               PROVE  wr[t].pos \in DOMAIN sbuf
    BY Zenon DEF WritesInBuffer
  <2> QED BY InsideBuffer, Zenon DEF SchedInv
<1>2. SchedInv => FifoInOrder
  <2> SUFFICES ASSUME SchedInv, policy = "F", \A t \in SThreads : wr[t].at = "exited",
                      NEW k \in DOMAIN sbuf
               PROVE  sbuf[k] = k \div items
    BY Zenon DEF FifoInOrder
  <2>1. PICK c \in 0..NThreads : FifoAt(c) BY Zenon DEF SchedInv, FifoInv
  <2>2. NThreads \in Nat /\ items \in Nat BY RacesAssumption DEF SchedInv, SchedTypes
  <2>3. c < NThreads => c \in SThreads BY <2>2 DEF SThreads
  <2>4. c = NThreads BY <2>1, <2>2, <2>3 DEF FifoAt
  <2>5. pos = NThreads * items BY <2>1, <2>4, Zenon DEF FifoAt
  <2>6. k \in 0..(NThreads * items - 1) /\ NThreads * items \in Nat
    BY <2>2 DEF SchedInv, SchedTypes
  <2>7. k < pos BY <2>5, <2>6
  <2> QED BY <2>1, <2>7, Zenon DEF FifoAt
<1>3. PrintedGlob /\ WritesInBuffer /\ FifoInOrder => RacesAreBounded BY Zenon DEF RacesAreBounded
<1> QED BY <1>1, <1>2, <1>3, LossIsBounded, SchedInvariant, PTL
=============================================================================
