---------------------------- MODULE BoundedBuffer ----------------------------
(***************************************************************************)
(* lab-05/buf.c: one producer and one consumer thread share a circular     *)
(* buffer guarded by two semaphores (vacios: free slots, llenos: filled    *)
(* slots) and a mutex.  main starts both threads and at once destroys the  *)
(* semaphores and the mutex under them.  POSIX leaves that undefined; with *)
(* glibc sem_destroy does nothing, and pthread_mutex_destroy either finds  *)
(* the mutex in use and fails, or invalidates it, after which lock and     *)
(* unlock fail without doing anything.                                     *)
(*                                                                         *)
(* A definition X_Suffix is a mutant of X, a bug the code could have had;  *)
(* it is used by no other definition.                                      *)
(***************************************************************************)
EXTENDS Integers

CONSTANTS
  Size,      \* buf->size
  Items,     \* params->items
  Junk       \* what malloc left in the buffer and in reader_results

ASSUME BufferAssumption ==
  /\ Size \in Nat \ {0}
  /\ Items \in Nat \ {0}
  /\ Junk \notin Int

VARIABLES
  buf,                   \* buf->buf
  vacios, llenos,        \* values of the semaphores
  mutex,                 \* "free", "producer", "consumer" or "destroyed"
  ppc, pi,               \* producer: control point and i
  cpc, ci,               \* consumer: control point and i
  reader_results,
  main                   \* what main does next

vars == <<buf, vacios, llenos, mutex, ppc, pi, cpc, ci, reader_results, main>>
producer_vars == <<ppc, pi>>
consumer_vars == <<cpc, ci, reader_results>>

Slots == 0..Size-1
PPC == {"wait", "lock", "store", "unlock", "post", "done"}
CPC == {"wait", "lock", "load", "unlock", "post", "done"}

Init_ExtraSlot ==
  /\ buf = [s \in Slots |-> Junk]
  /\ vacios = Size + 1 /\ llenos = 0
  /\ mutex = "free"
  /\ ppc = "wait" /\ pi = 0
  /\ cpc = "wait" /\ ci = 0
  /\ reader_results = [k \in 0..Items-1 |-> Junk]
  /\ main = "producer"

Init ==
  /\ buf = [s \in Slots |-> Junk]
  /\ vacios = Size /\ llenos = 0
  /\ mutex = "free"
  /\ ppc = "wait" /\ pi = 0
  /\ cpc = "wait" /\ ci = 0
  /\ reader_results = [k \in 0..Items-1 |-> Junk]
  /\ main = "producer"

-----------------------------------------------------------------------------
(* main starts the producer, then the consumer; each runs from then on.    *)
pthread_create ==
  /\ main \in {"producer", "consumer"}
  /\ main' = IF main = "producer" THEN "consumer" ELSE "destroy"
  /\ UNCHANGED <<buf, vacios, llenos, mutex, producer_vars, consumer_vars>>

(* sem_destroy (no effect), pthread_mutex_destroy, pthread_exit.           *)
main_destroy ==
  /\ main = "destroy"
  /\ mutex' = IF mutex = "free" THEN "destroyed" ELSE mutex
  /\ main' = "exited"
  /\ UNCHANGED <<buf, vacios, llenos, producer_vars, consumer_vars>>

Lock(who) ==
  /\ mutex \in {"free", "destroyed"}
  /\ mutex' = IF mutex = "free" THEN who ELSE mutex
Unlock(who) == mutex' = IF mutex = who THEN "free" ELSE mutex

-----------------------------------------------------------------------------

(* producer *)
p_wait ==
  /\ main # "producer" /\ ppc = "wait" /\ pi < Items
  /\ vacios > 0
  /\ vacios' = vacios - 1
  /\ ppc' = "lock"
  /\ UNCHANGED <<buf, llenos, mutex, pi, consumer_vars, main>>

p_lock ==
  /\ ppc = "lock" /\ Lock("producer")
  /\ ppc' = "store"
  /\ UNCHANGED <<buf, vacios, llenos, pi, consumer_vars, main>>

p_store ==
  /\ ppc = "store"
  /\ buf' = [buf EXCEPT ![pi % Size] = pi]
  /\ ppc' = "unlock"
  /\ UNCHANGED <<vacios, llenos, mutex, pi, consumer_vars, main>>

p_unlock ==
  /\ ppc = "unlock" /\ Unlock("producer")
  /\ ppc' = "post"
  /\ UNCHANGED <<buf, vacios, llenos, pi, consumer_vars, main>>

p_post_WrongSem ==
  /\ ppc = "post"
  /\ vacios' = vacios + 1
  /\ pi' = pi + 1
  /\ ppc' = IF pi' < Items THEN "wait" ELSE "done"
  /\ UNCHANGED <<buf, llenos, mutex, consumer_vars, main>>

(* sem_post(llenos); i++; the loop ends after Items rounds.                *)
p_post ==
  /\ ppc = "post"
  /\ llenos' = llenos + 1
  /\ pi' = pi + 1
  /\ ppc' = IF pi' < Items THEN "wait" ELSE "done"
  /\ UNCHANGED <<buf, vacios, mutex, consumer_vars, main>>

(* consumer *)
c_wait ==
  /\ main \notin {"producer", "consumer"} /\ cpc = "wait" /\ ci < Items
  /\ llenos > 0
  /\ llenos' = llenos - 1
  /\ cpc' = "lock"
  /\ UNCHANGED <<buf, vacios, mutex, producer_vars, ci, reader_results, main>>

c_lock ==
  /\ cpc = "lock" /\ Lock("consumer")
  /\ cpc' = "load"
  /\ UNCHANGED <<buf, vacios, llenos, producer_vars, ci, reader_results, main>>

c_load ==
  /\ cpc = "load"
  /\ reader_results' = [reader_results EXCEPT ![ci] = buf[ci % Size]]
  /\ cpc' = "unlock"
  /\ UNCHANGED <<buf, vacios, llenos, mutex, producer_vars, ci, main>>

c_unlock ==
  /\ cpc = "unlock" /\ Unlock("consumer")
  /\ cpc' = "post"
  /\ UNCHANGED <<buf, vacios, llenos, producer_vars, ci, reader_results, main>>

c_post ==
  /\ cpc = "post"
  /\ vacios' = vacios + 1
  /\ ci' = ci + 1
  /\ cpc' = IF ci' < Items THEN "wait" ELSE "done"
  /\ UNCHANGED <<buf, llenos, mutex, producer_vars, reader_results, main>>

-----------------------------------------------------------------------------
producer == p_wait \/ p_lock \/ p_store \/ p_unlock \/ p_post
consumer == c_wait \/ c_lock \/ c_load \/ c_unlock \/ c_post

Next == pthread_create \/ main_destroy \/ producer \/ consumer

Spec == Init /\ [][Next]_vars

-----------------------------------------------------------------------------
TypeOK ==
  /\ buf \in [Slots -> Int \cup {Junk}]
  /\ vacios \in Nat /\ llenos \in Nat
  /\ mutex \in {"free", "producer", "consumer", "destroyed"}
  /\ ppc \in PPC /\ pi \in 0..Items
  /\ cpc \in CPC /\ ci \in 0..Items
  /\ reader_results \in [0..Items-1 -> Int \cup {Junk}]
  /\ main \in {"producer", "consumer", "destroy", "exited"}

(* The consumer reads the items in order, each once, none lost: whatever   *)
(* it has read is 0, 1, 2, ... (buf.c:38-46 against 62-71), although the   *)
(* mutex may be destroyed under both threads (buf.c:160).                  *)
ReadsInOrder ==
  \A k \in 0..Items-1 :
    k < ci \/ (k = ci /\ cpc \in {"unlock", "post"}) => reader_results[k] = k

(* The semaphores alone keep the threads apart: the producer never stores  *)
(* into the slot the consumer is loading from, mutex or no mutex           *)
(* (buf.c:41 and 65).                                                      *)
NoSlotRace ==
  ppc = "store" /\ cpc = "load" => pi % Size # ci % Size
==============================================================================
