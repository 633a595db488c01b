----------------------------- MODULE MCPrograms -----------------------------
(* The user programs for TLC: `prog` says which one runs, and the others     *)
(* stay as they start.                                                       *)
EXTENDS Lab2Sh, PageSim, Umalloc, Grep, BoundedBuffer, Uthread, WordHeap, Races, Libc

VARIABLE prog

seqvars == <<shvars, pgvars, umvars, gvars, lcvars>>
thrvars == <<vars, utvars, whvars, globvars, schedvars>>
pvars == <<prog, seqvars, thrvars>>

StringsTo(n, chars) == UNION {[1..k -> chars] : k \in 0..n}

(* Every command line of up to four of the characters sh tells apart, of up  *)
(* to six of those that nest or redirect, and of up to seven of those that   *)
(* make words and redirections between them.                                 *)
ShLines ==
  (StringsTo(4, {"x", " ", "<", ">", "|", "&", ";", "(", ")"}) \cup StringsTo(6, {"x", "<", "(", ")"})
     \cup StringsTo(7, {"x", " ", "<"})) \ {<<>>}

SimRefs == {<<1, 0>>, <<1, 1>>, <<1, 2>>, <<1, 3>>, <<2, 0>>, <<2, 1>>, <<2, 2>>, <<3, 0>>, <<1, 4>>}

GrepPatterns ==
  StringsTo(2, {"a", ".", "*", "^", "$"})
    \cup {<<"a", "*", "b">>, <<".", "*", "$">>, <<"^", "a", "$">>, <<"a", "*", "b", "$">>, <<"^", "a", "*", "a">>}
LibcNames == StringsTo(5, {1, 2}) \ {<<>>}
LibcFormats == StringsTo(4, {"%", "d", "c", "s", "o"})
LibcInputs == StringsTo(4, {"a", "nl"})
GrepTexts == StringsTo(5, {"a", "b", "nl"})

(* The pages of the simulator are interchangeable: the input names new pages *)
(* in order.                                                                 *)
InOrder(p) ==
  Supported(p) => \A q \in SimPages :
    (q[1] < p[1] \/ (q[1] = p[1] /\ q[2] < p[2])) => tabla[q].memoria # NoMemoria

ShIdle == cmdbuf = <<"x">> /\ L2Init
PgIdle == modo = "f" /\ PgInit
LcIdle == lcall = [fn |-> "gets", in |-> <<>>, max |-> 1] /\ LcInit
GIdle == pattern = <<>> /\ gin = <<>> /\ GInit
SeqIdle == ShIdle /\ PgIdle /\ GIdle /\ LcIdle
UtIdle == numthreads = 0 /\ numexecs = 0 /\ UtInit
GlobIdle == loops = 1 /\ GlobInit
SchedIdle == policy = "F" /\ items = 1 /\ SchedInit
ThrIdle == UtIdle /\ GlobIdle /\ SchedIdle

PInit ==
  /\ UmInit /\ Init /\ WhInit
  /\ \/ prog = "sh" /\ ShInit /\ PgIdle /\ GIdle /\ LcIdle /\ ThrIdle
     \/ prog = "lab2sh" /\ L2Init /\ PgIdle /\ GIdle /\ LcIdle /\ ThrIdle
     \/ prog = "sim" /\ ShIdle /\ PgInit /\ GIdle /\ LcIdle /\ ThrIdle
     \/ prog = "grep" /\ ShIdle /\ PgIdle /\ GInit /\ LcIdle /\ ThrIdle
     \/ prog = "libc" /\ ShIdle /\ PgIdle /\ GIdle /\ LcInit /\ ThrIdle
     \/ prog \in {"malloc", "buf", "wordheap"} /\ SeqIdle /\ ThrIdle
     \/ prog = "uthread" /\ SeqIdle /\ UtInit /\ GlobIdle /\ SchedIdle
     \/ prog = "glob" /\ SeqIdle /\ UtIdle /\ GlobInit /\ SchedIdle
     \/ prog = "sched" /\ SeqIdle /\ UtIdle /\ GlobIdle /\ SchedInit

SeqNext ==
  /\ UNCHANGED thrvars
  /\ \/ prog = "sh" /\ ShNext /\ UNCHANGED <<pgvars, umvars, gvars, lcvars>>
     \/ prog = "lab2sh" /\ L2Next /\ UNCHANGED <<pgvars, umvars, gvars, lcvars>>
     \/ /\ prog = "sim" /\ UNCHANGED <<shvars, umvars, gvars, lcvars>>
        /\ (\E p \in SimPairs : InOrder(p) /\ Reference(p)) \/ EndOfInput
     \/ prog = "malloc" /\ UmNext /\ UNCHANGED <<shvars, pgvars, gvars, lcvars>>
     \/ prog = "grep" /\ GNext /\ UNCHANGED <<shvars, pgvars, umvars, lcvars>>
     \/ prog = "libc" /\ LcNext /\ UNCHANGED <<shvars, pgvars, umvars, gvars>>

ThrNext ==
  /\ UNCHANGED seqvars
  /\ \/ prog = "buf" /\ Next /\ UNCHANGED <<utvars, whvars, globvars, schedvars>>
     \/ prog = "uthread" /\ UtNext /\ UNCHANGED <<vars, whvars, globvars, schedvars>>
     \/ prog = "wordheap" /\ WhNext /\ UNCHANGED <<vars, utvars, globvars, schedvars>>
     \/ prog = "glob" /\ GlobNext /\ UNCHANGED <<vars, utvars, whvars, schedvars>>
     \/ prog = "sched" /\ SchedNext /\ UNCHANGED <<vars, utvars, whvars, globvars>>

PNext == UNCHANGED prog /\ (SeqNext \/ ThrNext)

(* buf: every thread keeps running, and a lock that is free again and again  *)
(* is obtained.  uthread: one flow of control that never waits.              *)
PSpec ==
  /\ PInit /\ [][PNext]_pvars
  /\ WF_vars(prog = "buf" /\ pthread_create)
  /\ WF_vars(prog = "buf" /\ main_destroy)
  /\ SF_vars(prog = "buf" /\ producer)
  /\ SF_vars(prog = "buf" /\ consumer)
  /\ WF_utvars(prog = "uthread" /\ UtNext)

(* Both threads of buf finish: nobody waits for ever on a semaphore or the   *)
(* mutex (buf.c:30-75).                                                      *)
BufFinishes == prog = "buf" ~> (ppc = "done" /\ cpc = "done")

(* uthread ends: main prints "all threads ended." (uthread.c:41), or it was  *)
(* asked for more threads than the table holds.                              *)
UthreadEnds == prog = "uthread" ~> (umain \in {"ended", "overrun"})

(* The programs whose threads wait for each other come to an end: buf.c    *)
(* when items run out, uthread.c when its last thread exits.               *)
ProgramsEnd == BufFinishes /\ UthreadEnds
=============================================================================
