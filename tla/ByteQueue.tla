------------------------------ MODULE ByteQueue ------------------------------
(***************************************************************************)
(* What a pipe promises to its users: a bounded first-in first-out queue   *)
(* of bytes with two ends that are opened together and closed one by one.  *)
(***************************************************************************)
EXTENDS Integers, Sequences

CONSTANTS Byte, Capacity

VARIABLES
  q,        \* the bytes written and not yet read, oldest first
  out,      \* the last byte handed to a reader
  ropen,    \* the read end is open
  wopen     \* the write end is open

vars == <<q, out, ropen, wopen>>

Init ==
  /\ q = << >>
  /\ out \in Byte
  /\ ~ropen /\ ~wopen

(* A fresh pipe is empty.                                                  *)
Open ==
  /\ ~ropen /\ ~wopen
  /\ ropen' /\ wopen'
  /\ q' = << >>
  /\ UNCHANGED out

Put ==
  /\ wopen /\ Len(q) < Capacity
  /\ \E b \in Byte : q' = Append(q, b)
  /\ UNCHANGED <<out, ropen, wopen>>

Get ==
  /\ ropen /\ q # << >>
  /\ out' = Head(q)
  /\ q' = Tail(q)
  /\ UNCHANGED <<ropen, wopen>>

Close ==
  /\ \/ ropen /\ ~ropen' /\ wopen' = wopen
     \/ wopen /\ ~wopen' /\ ropen' = ropen
  /\ UNCHANGED <<q, out>>

Next == Open \/ Put \/ Get \/ Close

Spec == Init /\ [][Next]_vars
=============================================================================
