------------------------------ MODULE WordHeap ------------------------------
(* lab-05/wordheap.c: a stack of words in shared memory that processes push  *)
(* (-w), pop (-r) and print (-p) under two semaphores and a mutex.  Each     *)
(* process runs one command after another; every command is one run of main. *)
(*                                                                           *)
(* The mutex is initialised without PTHREAD_PROCESS_SHARED, so a process     *)
(* that has to wait for it may or may not be woken by another one: taking it *)
(* is a step with no fairness, and nothing is claimed to happen eventually.  *)
(* A -c that initialises the mutex and the semaphores under commands that    *)
(* use them makes the region "torn": what they do to it is undefined and not *)
(* followed.                                                                 *)
(*                                                                           *)
(* A definition X_Suffix is a mutant of X, a bug the code could have had; it *)
(* is used by no other definition.                                           *)
EXTENDS Naturals, Sequences, FiniteSets

CONSTANTS
  WProcs,       \* processes
  ITEMS,        \* slots of the heap
  MAX_WORD,     \* bytes of a slot
  WWords,       \* the words pushed: w has w letters, and each letter is w
  NoW           \* the mutex is free

(* Bound: no word is longer than two slots with its NUL.                     *)
ASSUME WordHeapAssumption ==
  /\ ITEMS \in Nat \ {0} /\ MAX_WORD \in Nat \ {0}
  /\ WWords \subseteq 1..(2 * MAX_WORD - 1)
  /\ IsFiniteSet(WProcs) /\ NoW \notin WProcs

VARIABLES
  ws,           \* the shared region: free, items, full, empty, mutex, heap
  region,       \* "none": no region has the name; "up", or "torn"
  wpc,          \* wpc[p]: where in its command process p is; "lost" when its
                \* region was unlinked or initialised under it
  arg,          \* arg[p]: the word p pushes, or the word it has popped
  stack,        \* history: the words on the stack, last pushed first
  clean         \* history: every word had room for its NUL, and -c left no
                \* words behind in the region

whvars == <<ws, region, wpc, arg, stack, clean>>

(* A slot is its bytes; row ITEMS is what lies behind the heap.              *)
Cols == 0..(MAX_WORD - 1)
Blank == [k \in Cols |-> 0]
Spelt(w) == [k \in Cols |-> IF k < w THEN w ELSE 0]

(* strncpy of strlen bytes into slot f: no NUL, and no regard for the slot's *)
(* end.                                                                      *)
Written(h, f, w) ==
  [i \in 0..ITEMS |-> [k \in Cols |->
     IF (i = f /\ k < w) \/ (i = f + 1 /\ MAX_WORD + k < w) THEN w ELSE h[i][k]]]

(* What printf's %s shows of slot i: a word, or 0 for any other string.      *)
Byte(h, i, n) == IF n < MAX_WORD THEN h[i][n] ELSE h[i + 1][n - MAX_WORD]
Shows(h, i, w) == (\A n \in 0..(w - 1) : Byte(h, i, n) = w) /\ Byte(h, i, w) = 0
Popped(h, i) ==
  IF \E w \in WWords : Shows(h, i, w) THEN CHOOSE w \in WWords : Shows(h, i, w) ELSE 0

(* What -c sets, over the zeroes of a new region.                            *)
Created ==
  [free |-> ITEMS - 1, items |-> 0, full |-> 0, empty |-> ITEMS - 1,
   mutex |-> NoW, heap |-> [i \in 0..ITEMS |-> Blank]]

WhInit ==
  /\ ws = Created
  /\ region = "none"
  /\ wpc = [p \in WProcs |-> "shell"]
  /\ arg = [p \in WProcs |-> 0]
  /\ stack = <<>>
  /\ clean = TRUE

Quiet == \A p \in WProcs : wpc[p] \in {"shell", "lost"}

-----------------------------------------------------------------------------
(* The commands in progress when the region changes under them.              *)
Left ==
  /\ wpc' = [p \in WProcs |-> IF wpc[p] = "shell" THEN "shell" ELSE "lost"]
  /\ arg' = [p \in WProcs |-> 0]
  /\ stack' = <<>>

(* wordheap -c: a region that exists keeps its heap bytes, and the words on  *)
(* its stack are forgotten.                                                  *)
create_heap ==
  /\ region' = IF Quiet /\ region # "torn" THEN "up" ELSE "torn"
  /\ ws' = IF region = "none" THEN Created ELSE [Created EXCEPT !.heap = ws.heap]
  /\ clean' = (region = "none" \/ (clean /\ Quiet /\ stack = <<>>))
  /\ Left

(* wordheap -d: the words go with the name; commands in progress still have  *)
(* the region, and nobody else.  Without a region the program faults.        *)
delete_heap ==
  /\ region' = "none"
  /\ ws' = Created
  /\ clean' = TRUE
  /\ Left

(* wordheap -w, -r, -p: shm_open and mmap of an existing region.  Without    *)
(* one mmap fails, unchecked, and the command ends in a fault.               *)
start(p, cmd, w) ==
  /\ wpc[p] = "shell"
  /\ wpc' = [wpc EXCEPT ![p] = CASE region = "up" -> cmd
                                 [] region = "torn" -> "lost"
                                 [] OTHER -> "shell"]
  /\ arg' = [arg EXCEPT ![p] = IF region = "up" THEN w ELSE 0]
  /\ UNCHANGED <<ws, region, stack, clean>>
lost_ends(p) ==
  /\ wpc[p] = "lost"
  /\ wpc' = [wpc EXCEPT ![p] = "shell"]
  /\ UNCHANGED <<ws, region, arg, stack, clean>>

goto(p, at) == wpc' = [wpc EXCEPT ![p] = at]

(* sem_wait(&empty) of -w, sem_wait(&full) of -r.                            *)
sem_wait(p, cmd, sem, next) ==
  /\ wpc[p] = cmd
  /\ ws[sem] > 0
  /\ ws' = [ws EXCEPT ![sem] = @ - 1]
  /\ goto(p, next)
  /\ UNCHANGED <<region, arg, stack, clean>>

(* pthread_mutex_lock of the three commands.                                 *)
LockFree(p) == ws.mutex = NoW
lock(p) ==
  /\ wpc[p] \in {"w_lock", "r_lock", "p_lock"}
  /\ LockFree(p)
  /\ ws' = [ws EXCEPT !.mutex = p]
  /\ goto(p, CASE wpc[p] = "w_lock" -> "w_copy"
               [] wpc[p] = "r_lock" -> "r_copy"
               [] OTHER -> "p_print")
  /\ UNCHANGED <<region, arg, stack, clean>>

w_copy(p) ==
  /\ wpc[p] = "w_copy"
  /\ ws' = [ws EXCEPT !.heap = Written(ws.heap, ws.free, arg[p])]
  /\ clean' = (clean /\ arg[p] < MAX_WORD)
  /\ goto(p, "w_count")
  /\ UNCHANGED <<region, arg, stack>>
w_count(p) ==
  /\ wpc[p] = "w_count"
  /\ ws' = [ws EXCEPT !.free = @ - 1, !.items = @ + 1, !.mutex = NoW]
  /\ stack' = <<arg[p]>> \o stack
  /\ goto(p, "w_post")
  /\ UNCHANGED <<region, arg, clean>>

(* printf of heap[free + 1], free + 1, bzero of the slot, items - 1.         *)
Cleared(old) == Blank
r_copy(p) ==
  /\ wpc[p] = "r_copy"
  /\ arg' = [arg EXCEPT ![p] = Popped(ws.heap, ws.free + 1)]
  /\ goto(p, "r_count")
  /\ UNCHANGED <<ws, region, stack, clean>>
r_count(p) ==
  /\ wpc[p] = "r_count"
  /\ ws' = [ws EXCEPT !.free = @ + 1, !.heap[ws.free + 1] = Cleared(@),
                      !.items = @ - 1, !.mutex = NoW]
  /\ stack' = Tail(stack)
  /\ goto(p, "r_post")
  /\ UNCHANGED <<region, arg, clean>>

(* sem_post(&full) of -w, sem_post(&empty) of -r; the command ends.          *)
Posted_Other(sem) == IF sem = "full" THEN "empty" ELSE "full"
Posted(sem) == sem
sem_post(p, cmd, sem) ==
  /\ wpc[p] = cmd
  /\ ws' = [ws EXCEPT ![Posted(sem)] = @ + 1]
  /\ goto(p, "shell")
  /\ arg' = [arg EXCEPT ![p] = 0]
  /\ UNCHANGED <<region, stack, clean>>

(* -p looks at items without the mutex, and prints with it.                  *)
p_look(p) ==
  /\ wpc[p] = "p"
  /\ goto(p, IF ws.items = 0 THEN "shell" ELSE "p_lock")
  /\ UNCHANGED <<ws, region, arg, stack, clean>>
p_print(p) ==
  /\ wpc[p] = "p_print"
  /\ ws' = [ws EXCEPT !.mutex = NoW]
  /\ goto(p, "shell")
  /\ UNCHANGED <<region, arg, stack, clean>>

WhStep(p) ==
  \/ \E w \in WWords : start(p, "w", w)
  \/ start(p, "r", 0)
  \/ start(p, "p", 0)
  \/ sem_wait(p, "w", "empty", "w_lock")
  \/ sem_wait(p, "r", "full", "r_lock")
  \/ lock(p)
  \/ w_copy(p) \/ w_count(p) \/ sem_post(p, "w_post", "full")
  \/ r_copy(p) \/ r_count(p) \/ sem_post(p, "r_post", "empty")
  \/ p_look(p) \/ p_print(p) \/ lost_ends(p)

WhNext == create_heap \/ delete_heap \/ \E p \in WProcs : WhStep(p)

WhSpec == WhInit /\ [][WhNext]_whvars

-----------------------------------------------------------------------------
At(pcs) == {p \in WProcs : wpc[p] \in pcs}

(* free stays in the heap and counts the words, and the slots above it hold  *)
(* the stack, whole: the words come back as they were pushed, last first,    *)
(* although strncpy writes no NUL; slots below are zeroed.  The bytes are so *)
(* until a word of MAX_WORD letters or more is pushed, which runs into the   *)
(* slot of the word before (wordheap.c:66), or -c is run over a stack with   *)
(* words, whose bytes stay.                                                  *)
HeapIsStack ==
  LET busy == At({"w_count"})
  IN /\ Len(stack) = ITEMS - 1 - ws.free /\ ws.items = Len(stack)
     /\ clean => \A i \in 0..(ITEMS - 1) :
          IF i > ws.free THEN ws.heap[i] = Spelt(stack[i - ws.free])
          ELSE ws.heap[i] = Blank \/ (i = ws.free /\ busy # {})

(* A reader that holds the mutex has a word to print, and as long as the     *)
(* bytes are clean it prints the one on top.                                 *)
PopsTop == \A p \in At({"r_count"}) : stack # <<>> /\ (clean => arg[p] = stack[1])

(* Every word is accounted for by `full`, by a -w that has yet to post it or *)
(* by a -r that has yet to take it, and every other place by `empty` or by a *)
(* command on its way: no place leaks, and ITEMS - 1 words always fit.       *)
PlacesConserved ==
  /\ ws.full + Cardinality(At({"w_post", "r_lock", "r_copy", "r_count"})) = Len(stack)
  /\ ws.full + ws.empty
       + Cardinality(At({"w_lock", "w_copy", "w_count", "w_post",
                         "r_lock", "r_copy", "r_count", "r_post"})) = ITEMS - 1

(* The shared words are a stack: what it holds, what a reader pops from it   *)
(* and what the semaphores say of it agree at every moment, unless -c was    *)
(* run under commands in progress.                                           *)
WordsAreStack == region # "torn" => HeapIsStack /\ PopsTop /\ PlacesConserved
=============================================================================
