----------------------------- MODULE AtomicDisk -----------------------------
(***************************************************************************)
(* What log.c promises to the file system: calls see their own and each    *)
(* other's writes at once, the writes become durable all together and only *)
(* when no call is half done, and a crash goes back to the durable state.  *)
(***************************************************************************)
CONSTANTS Ops, Block, Val

VARIABLES
  stable,   \* contents after a crash and recovery
  view,     \* contents the running system sees
  active    \* calls between begin_op and end_op

vars == <<stable, view, active>>

Init ==
  /\ stable \in [Block -> Val]
  /\ view = stable
  /\ active = {}

Begin(o) ==
  /\ o \notin active
  /\ active' = active \cup {o}
  /\ UNCHANGED <<stable, view>>

Write(b, v) ==
  /\ active # {}
  /\ view' = [view EXCEPT ![b] = v]
  /\ UNCHANGED <<stable, active>>

End(o) ==
  /\ o \in active
  /\ active' = active \ {o}
  /\ UNCHANGED <<stable, view>>

Commit ==
  /\ active = {}
  /\ stable' = view
  /\ UNCHANGED <<view, active>>

Crash ==
  /\ view' = stable
  /\ active' = {}
  /\ UNCHANGED stable

Next ==
  \/ \E o \in Ops : Begin(o) \/ End(o)
  \/ \E b \in Block, v \in Val : Write(b, v)
  \/ Commit
  \/ Crash

Spec == Init /\ [][Next]_vars
=============================================================================
