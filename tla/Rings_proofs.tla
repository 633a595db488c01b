----------------------------- MODULE Rings_proofs -----------------------------
(***************************************************************************)
(* The two rings of the kernel, for every size, every number of processes  *)
(* and every wrap-around of their uint indices.                            *)
(*                                                                         *)
(* xv6/pipe.c.  The pipe keeps its types, is never used after it was       *)
(* freed, loses no wakeup, reports end of file only when no writer is      *)
(* left, and is to its users a bounded first-in first-out queue.  The      *)
(* invariant says who holds p->lock (LockInv), that a process inside a     *)
(* call has its end open (RefInv), how the reference counts of file.c and  *)
(* the flags of the pipe agree, a pending pipeclose included (EndsInv),    *)
(* why each sleeper may sleep, from the test under the lock on (SleepInv), *)
(* and that a reader that has copied nothing found bytes or no writer      *)
(* (CopyInv).  CountInv bounds the bytes that wait; with the arithmetic of *)
(* counters that wrap modulo UINT and slots modulo PIPESIZE it gives the   *)
(* refinement of ByteQueue.                                                *)
(*                                                                         *)
(* xv6/console.c.  The ring between the keyboard and the readers is a      *)
(* queue of ended lines followed by the line being edited, no reader       *)
(* sleeps through a line, the ring never fills up unread, and the cursor   *)
(* stays on the screen.  ConsoleKeepsLines is not inductive: C('U') goes   *)
(* back to the last newline, which is the whole line only because the line *)
(* holds no newline, and a ring without an ended line always has room only *)
(* because the last free slot ends the line.  CInv says so.  Its ring      *)
(* counts every position from input.r, so that what an edit or a read      *)
(* leaves alone is the same slot before and after.                         *)
(***************************************************************************)
EXTENDS Pipe, Console, SequenceTheorems, TLAPS

-----------------------------------------------------------------------------
(*** Remainders ***)

(* A positive multiple of b is at least b.                                 *)
LEMMA AtLeast ==
  ASSUME NEW b \in Nat \ {0}, NEW d \in Int, d >= 1
  PROVE  b * d >= b
<1>1. b * (d-1) >= 0 /\ b * d = b * (d-1) + b OBVIOUS
<1> QED BY <1>1

(* Division with remainder, as C computes it for unsigned numbers.         *)
LEMMA DivMod ==
  ASSUME NEW b \in Nat \ {0}, NEW x \in Int
  PROVE  /\ x \div b \in Int
         /\ x % b \in 0..b-1
         /\ x = b * (x \div b) + (x % b)
OBVIOUS

(* The remainder is the only one in range.                                 *)
LEMMA ModIs ==
  ASSUME NEW b \in Nat \ {0}, NEW x \in Int, NEW k \in Int, NEW h \in 0..b-1,
         x = b * k + h
  PROVE  x % b = h
<1> DEFINE j == x \div b
           s == x % b
<1>1. j \in Int /\ s \in 0..b-1 /\ x = b * j + s BY DivMod, Zenon
<1> HIDE DEF j, s
<1>2. b * (k - j) = s - h /\ b * (j - k) = h - s BY <1>1
<1>3. ~(k - j >= 1) BY <1>1, <1>2, AtLeast
<1>4. ~(j - k >= 1) BY <1>1, <1>2, AtLeast
<1>5. k = j BY <1>1, <1>3, <1>4
<1> QED BY <1>1, <1>5 DEF s

(* A counter that wraps at most once, in either direction.                 *)
LEMMA ModNear ==
  ASSUME NEW b \in Nat \ {0}, NEW x \in Int
  PROVE  /\ x \in 0..b-1 => x % b = x
         /\ x \in b..2*b-1 => x % b = x - b
         /\ x \in (-b)..(-1) => x % b = x + b
<1>1. ASSUME x \in 0..b-1 PROVE x % b = x
  <2>1. x = b * 0 + x OBVIOUS
  <2> QED BY <2>1, <1>1, ModIs
<1>2. ASSUME x \in b..2*b-1 PROVE x % b = x - b
  <2>1. x = b * 1 + (x - b) /\ x - b \in 0..b-1 BY <1>2
  <2> QED BY <2>1, ModIs
<1>3. ASSUME x \in (-b)..(-1) PROVE x % b = x + b
  <2>1. x = b * (-1) + (x + b) /\ x + b \in 0..b-1 BY <1>3
  <2> QED BY <2>1, ModIs
<1> QED BY <1>1, <1>2, <1>3

(* A counter that wraps at u selects the same slot of c as one that does   *)
(* not, when c divides u: 512 and 128 divide 2^32.                         *)
LEMMA WrapKeepsSlot ==
  ASSUME NEW u \in Nat \ {0}, NEW c \in Nat \ {0}, u % c = 0, NEW x \in Int
  PROVE  (x % u) % c = x % c
<1> DEFINE m == u \div c
           d == x \div u
           y == x % u
           j == y \div c
           h == y % c
<1>2. m \in Int /\ u = c * m BY DivMod
<1>3. d \in Int /\ y \in Int /\ x = u * d + y BY DivMod
<1>4. j \in Int /\ h \in 0..c-1 /\ y = c * j + h
  BY <1>3, DivMod, Zenon
<1> HIDE DEF m, d, y, j, h
<1>5. (c * m) * d = c * (m * d) /\ m * d \in Int
  BY <1>2, <1>3
<1>6. c * (m * d) + c * j = c * (m * d + j)
  BY <1>4, <1>5
<1> DEFINE t == m * d + j
<1>7. t \in Int /\ x = c * t + h
  <2>1. u * d = c * (m * d) BY <1>2, <1>5
  <2>2. x = c * (m * d) + (c * j + h) BY <2>1, <1>3, <1>4
  <2>3. t \in Int BY <1>4, <1>5
  <2>4. c * (m * d) \in Int /\ c * j \in Int
    BY <1>4, <1>5
  <2>5. x = (c * (m * d) + c * j) + h BY <2>2, <2>4, <1>4
  <2> QED BY <2>3, <2>5, <1>6
<1> HIDE DEF t
<1>8. x % c = h BY <1>4, <1>7, ModIs, Zenon
<1> QED BY <1>8 DEF h, y

(* Two positions less than c apart have slots of their own.                *)
LEMMA ModDistinct ==
  ASSUME NEW c \in Nat \ {0}, NEW x \in Int, NEW y \in Int, x < y, y - x < c
  PROVE  x % c # y % c
<1> SUFFICES ASSUME x % c = y % c PROVE FALSE OBVIOUS
<1> DEFINE d == x \div c
           j == y \div c
           h == x % c
<1>2. d \in Int /\ h \in 0..c-1 /\ x = c * d + h
  BY DivMod
<1>3. j \in Int /\ y = c * j + h BY DivMod
<1> HIDE DEF d, j, h
<1>4. c * (j - d) = y - x BY <1>2, <1>3
<1>5. j - d >= 1
  <2>1. ASSUME j - d <= 0 PROVE FALSE
    <3>1. c * (d - j) >= 0 BY <1>2, <1>3, <2>1
    <3>2. c * (d - j) = x - y BY <1>2, <1>3
    <3> QED BY <3>1, <3>2
  <2> QED BY <2>1, <1>2, <1>3
<1>6. c * (j - d) >= c BY <1>2, <1>3, <1>5, AtLeast
<1> QED BY <1>4, <1>6

-----------------------------------------------------------------------------
(*** xv6/pipe.c ***)

LockInv == \A p \in Procs : pc[p] \in LockedPC <=> lock = p

RefInv ==
  \A p \in Procs :
    /\ pc[p] \in WritePC => p \in wref
    /\ pc[p] \in ReadPC => p \in rref

EndsInv ==
  /\ freed <=> ~readopen /\ ~writeopen
  /\ rref # {} => readopen
  /\ wref # {} => writeopen
  /\ \A p \in Procs :
       /\ pc[p] = "rclose" =>
            readopen /\ rref = {} /\ \A q \in Procs : pc[q] = "rclose" => q = p
       /\ pc[p] = "wclose" =>
            writeopen /\ wref = {} /\ \A q \in Procs : pc[q] = "wclose" => q = p

SleepInv ==
  \A p \in Procs :
    /\ pc[p] = "wfull" => Full /\ readopen
    /\ pc[p] = "rempty" => Empty /\ writeopen
    /\ pc[p] = "wsleep" => WriterMaySleep
    /\ pc[p] = "rsleep" => ReaderMaySleep \/ \E q \in Procs : killed[q]

CopyInv ==
  \A p \in Procs : pc[p] = "rcopy" /\ i[p] = 0 => ~(Empty /\ writeopen)

IInv == TypeOK /\ LockInv /\ RefInv /\ EndsInv /\ SleepInv /\ CopyInv

-----------------------------------------------------------------------------

(* A machine without pipes satisfies the invariant.                        *)
LEMMA InitInv == Init => IInv
<1> SUFFICES ASSUME Init PROVE IInv BY Zenon
<1>1. TypeOK
  <2>1. 0 \in 0..UINT-1 BY PipeAssumption
  <2>2. nread \in 0..UINT-1 /\ nwrite \in 0..UINT-1 BY <2>1, Zenon DEF Init
  <2> QED BY <2>2, Zenon DEF Init, TypeOK, PC
<1>2. LockInv /\ RefInv /\ EndsInv /\ SleepInv /\ CopyInv
  BY PipeAssumption, Zenon
     DEF Init, LockInv, RefInv, EndsInv, SleepInv, CopyInv, WritePC, ReadPC,
         LockedPC
<1> QED BY <1>1, <1>2, Zenon DEF IInv

(* Every step of every process preserves it.                              *)
LEMMA NextInv == IInv /\ [Next]_vars => IInv'
<1> SUFFICES ASSUME IInv, [Next]_vars PROVE IInv' BY Zenon
<1> USE PipeAssumption
<1> USE DEF IInv, TypeOK, PC, WritePC, ReadPC, LockedPC, ClosePC
<1>1. CASE UNCHANGED vars
  BY <1>1, Zenon
     DEF vars, LockInv, RefInv, EndsInv, SleepInv, CopyInv, ReaderMaySleep,
         WriterMaySleep, Full, Empty
<1>2. SUFFICES ASSUME NEW p \in Procs,
                    \/ pipealloc(p) \/ (\E q \in Procs : filedup(p, q))
                    \/ fileclose(p) \/ pipeclose(p)
                    \/ pipewrite(p) \/ piperead(p)
                    \/ Acquire(p) \/ Write(p) \/ Read(p) \/ kill(p)
             PROVE IInv'
  BY <1>1, SMTT(60) DEF Next
<1>3. CASE \E q \in Procs : filedup(p, q)
  <2>1. TypeOK' BY <1>3, Zenon DEF filedup, ring
  <2>2. LockInv' BY <1>3, Zenon DEF filedup, ring, LockInv
  <2>3. RefInv' BY <1>3, Zenon DEF filedup, ring, RefInv, EndsInv
  <2>4. EndsInv' BY <1>3 DEF filedup, ring, RefInv, EndsInv, LockInv
  <2>5. SleepInv'
    BY <1>3
       DEF filedup, ring, SleepInv, LockInv, RefInv, EndsInv, ReaderMaySleep,
           WriterMaySleep, Full, Empty
  <2>6. CopyInv'
    BY <1>3 DEF filedup, ring, CopyInv, LockInv, RefInv, EndsInv, Empty
  <2> QED BY <2>1, <2>2, <2>3, <2>4, <2>5, <2>6, Zenon
<1>4. CASE pipealloc(p)
  <2>1. TypeOK'
    <3>1. 0 \in 0..UINT-1 OBVIOUS
    <3> QED BY <3>1, <1>4, Zenon DEF pipealloc, ring
  <2>2. LockInv'
    <3>1. \A q \in Procs : pc[q] \notin LockedPC
      BY <1>4, Zenon DEF pipealloc, RefInv, EndsInv
    <3> QED BY <3>1, <1>4, Zenon DEF pipealloc, LockInv
  <2>3. RefInv' BY <1>4, Zenon DEF pipealloc, ring, RefInv, EndsInv
  <2>4. EndsInv' BY <1>4, Zenon DEF pipealloc, ring, RefInv, EndsInv, LockInv
  <2>5. SleepInv'
    BY <1>4, Zenon
       DEF pipealloc, ring, SleepInv, LockInv, RefInv, EndsInv, ReaderMaySleep,
           WriterMaySleep, Full, Empty
  <2>6. CopyInv'
    BY <1>4, Zenon DEF pipealloc, ring, CopyInv, LockInv, RefInv, EndsInv, Empty
  <2> QED BY <2>1, <2>2, <2>3, <2>4, <2>5, <2>6, Zenon
<1>5. CASE fileclose(p)
  <2>1. TypeOK' BY <1>5, Zenon DEF fileclose, LastRef, ring
  <2>2. LockInv' BY <1>5 DEF fileclose, LastRef, ring, LockInv
  <2>3. RefInv' BY <1>5 DEF fileclose, LastRef, ring, RefInv, EndsInv
  <2>4. EndsInv' BY <1>5, SMTT(60) DEF fileclose, LastRef, ring, RefInv, EndsInv, LockInv
  <2>5. SleepInv'
    BY <1>5
       DEF fileclose, LastRef, ring, SleepInv, LockInv, RefInv, EndsInv, ReaderMaySleep,
           WriterMaySleep, Full, Empty
  <2>6. CopyInv'
    BY <1>5
       DEF fileclose, LastRef, ring, CopyInv, LockInv, RefInv, EndsInv, Empty
  <2> QED BY <2>1, <2>2, <2>3, <2>4, <2>5, <2>6, Zenon
<1>6. CASE pipeclose(p)
  <2>1. TypeOK' BY <1>6, Zenon DEF pipeclose, ring, WakeReaders, WakeWriters, ClosePC
  <2>2. LockInv'
    BY <1>6, ZenonT(60) DEF pipeclose, ring, WakeReaders, WakeWriters, ClosePC, LockInv
  <2>3. CASE pc[p] = "wclose"
    <3>1. /\ writeopen' = FALSE /\ readopen' = readopen
          /\ \A q \in Procs : pc'[q] = IF q = p THEN "user"
                                       ELSE IF pc[q] = "rsleep" THEN "racq"
                                       ELSE pc[q]
          /\ rref' = rref /\ wref' = wref /\ lock' = lock /\ killed' = killed
          /\ freed' = (~readopen' /\ ~writeopen')
          /\ nread' = nread /\ nwrite' = nwrite
      BY <2>3, <1>6, Zenon DEF pipeclose, WakeReaders, ring
    <3>2. RefInv' BY <2>3, <3>1, SMTT(60) DEF RefInv
    <3>3. EndsInv' BY <2>3, <3>1, Zenon DEF EndsInv
    <3>4. SleepInv'
      BY <2>3, <3>1, <1>6, SMTT(60)
         DEF pipeclose, SleepInv, ReaderMaySleep, WriterMaySleep, Full, Empty,
             LockInv, EndsInv
    <3>5. CopyInv' BY <2>3, <3>1, <1>6, Zenon DEF pipeclose, CopyInv, LockInv, Empty
    <3> QED BY <2>1, <2>2, <3>2, <3>3, <3>4, <3>5, SMTT(60)
  <2>4. CASE pc[p] = "rclose"
    <3>1. /\ readopen' = FALSE /\ writeopen' = writeopen
          /\ \A q \in Procs : pc'[q] = IF q = p THEN "user"
                                       ELSE IF pc[q] = "wsleep" THEN "wacq"
                                       ELSE pc[q]
          /\ rref' = rref /\ wref' = wref /\ lock' = lock /\ killed' = killed
          /\ freed' = (~readopen' /\ ~writeopen')
          /\ nread' = nread /\ nwrite' = nwrite
      BY <2>4, <1>6, Zenon DEF pipeclose, WakeWriters, ring
    <3>2. RefInv' BY <2>4, <3>1, SMTT(60) DEF RefInv
    <3>3. EndsInv' BY <2>4, <3>1, Zenon DEF EndsInv
    <3>4. SleepInv'
      BY <2>4, <3>1, <1>6, SMTT(60)
         DEF pipeclose, SleepInv, ReaderMaySleep, WriterMaySleep, Full, Empty,
             LockInv, EndsInv
    <3>5. CopyInv' BY <2>4, <3>1, <1>6, SMTT(60) DEF pipeclose, CopyInv, LockInv, Empty
    <3> QED BY <2>1, <2>2, <3>2, <3>3, <3>4, <3>5, SMTT(60)
  <2> QED BY <2>3, <2>4, <1>6, Zenon DEF pipeclose
<1>7. CASE pipewrite(p)
  <2>1. TypeOK' BY <1>7 DEF pipewrite, Call, ring, ends
  <2>2. LockInv' BY <1>7 DEF pipewrite, Call, ring, ends, LockInv
  <2>3. RefInv' BY <1>7 DEF pipewrite, Call, ring, ends, RefInv, EndsInv
  <2>4. EndsInv'
    BY <1>7 DEF pipewrite, Call, ring, ends, RefInv, EndsInv, LockInv
  <2>5. SleepInv'
    BY <1>7
       DEF pipewrite, Call, ring, ends, SleepInv, LockInv, RefInv, EndsInv,
           ReaderMaySleep, WriterMaySleep, Full, Empty
  <2>6. CopyInv'
    BY <1>7
       DEF pipewrite, Call, ring, ends, CopyInv, LockInv, RefInv, EndsInv,
           Empty
  <2> QED BY <2>1, <2>2, <2>3, <2>4, <2>5, <2>6, Zenon
<1>8. CASE piperead(p)
  <2>1. TypeOK' BY <1>8 DEF piperead, Call, ring, ends
  <2>2. LockInv' BY <1>8 DEF piperead, Call, ring, ends, LockInv
  <2>3. RefInv' BY <1>8 DEF piperead, Call, ring, ends, RefInv, EndsInv
  <2>4. EndsInv'
    BY <1>8 DEF piperead, Call, ring, ends, RefInv, EndsInv, LockInv
  <2>5. SleepInv'
    BY <1>8
       DEF piperead, Call, ring, ends, SleepInv, LockInv, RefInv, EndsInv,
           ReaderMaySleep, WriterMaySleep, Full, Empty
  <2>6. CopyInv'
    BY <1>8
       DEF piperead, Call, ring, ends, CopyInv, LockInv, RefInv, EndsInv, Empty
  <2> QED BY <2>1, <2>2, <2>3, <2>4, <2>5, <2>6, Zenon
<1>9. CASE Acquire(p)
  <2>1. TypeOK' BY <1>9, Zenon DEF Acquire, ring, ends
  <2>2. LockInv' BY <1>9, Zenon DEF Acquire, ring, ends, LockInv
  <2>3. RefInv' BY <1>9, Zenon DEF Acquire, ring, ends, RefInv, EndsInv
  <2>4. EndsInv' BY <1>9 DEF Acquire, ring, ends, RefInv, EndsInv, LockInv
  <2>5. SleepInv'
    BY <1>9
       DEF Acquire, ring, ends, SleepInv, LockInv, RefInv, EndsInv,
           ReaderMaySleep, WriterMaySleep, Full, Empty
  <2>6. CopyInv'
    BY <1>9, Zenon DEF Acquire, ring, ends, CopyInv, LockInv, RefInv, EndsInv, Empty
  <2> QED BY <2>1, <2>2, <2>3, <2>4, <2>5, <2>6, Zenon
<1>10. CASE WriteFail(p)
  <2>1. TypeOK' BY <1>10, Zenon DEF WriteFail, Return, ring, ends
  <2>2. LockInv' BY <1>10, Zenon DEF WriteFail, Return, ring, ends, LockInv
  <2>3. RefInv' BY <1>10, Zenon DEF WriteFail, Return, ring, ends, RefInv, EndsInv
  <2>4. EndsInv'
    BY <1>10 DEF WriteFail, Return, ring, ends, RefInv, EndsInv, LockInv
  <2>5. SleepInv'
    BY <1>10, Zenon
       DEF WriteFail, Return, ring, ends, SleepInv, LockInv, RefInv, EndsInv,
           ReaderMaySleep, WriterMaySleep, Full, Empty
  <2>6. CopyInv'
    BY <1>10, Zenon
       DEF WriteFail, Return, ring, ends, CopyInv, LockInv, RefInv, EndsInv,
           Empty
  <2> QED BY <2>1, <2>2, <2>3, <2>4, <2>5, <2>6, Zenon
<1>11. CASE WriteFull(p)
  <2>1. TypeOK' BY <1>11, Zenon DEF WriteFull, WakeReaders, ring, ends
  <2>2. LockInv' BY <1>11, Zenon DEF WriteFull, WakeReaders, ring, ends, LockInv
  <2>3. RefInv'
    BY <1>11, Zenon DEF WriteFull, WakeReaders, ring, ends, RefInv, EndsInv
  <2>4. EndsInv'
    BY <1>11, SMTT(60) DEF WriteFull, WakeReaders, ring, ends, RefInv, EndsInv, LockInv
  <2>5. SleepInv'
    BY <1>11, Zenon
       DEF WriteFull, WakeReaders, ring, ends, SleepInv, LockInv, RefInv,
           EndsInv, ReaderMaySleep, WriterMaySleep, Full, Empty
  <2>6. CopyInv'
    BY <1>11, Zenon
       DEF WriteFull, WakeReaders, ring, ends, CopyInv, LockInv, RefInv,
           EndsInv, Empty
  <2> QED BY <2>1, <2>2, <2>3, <2>4, <2>5, <2>6, Zenon
<1>12. CASE WriteSleep(p)
  <2>1. TypeOK' BY <1>12, Zenon DEF WriteSleep, ring, ends
  <2>2. LockInv' BY <1>12, Zenon DEF WriteSleep, ring, ends, LockInv
  <2>3. RefInv' BY <1>12, Zenon DEF WriteSleep, ring, ends, RefInv, EndsInv
  <2>4. EndsInv' BY <1>12 DEF WriteSleep, ring, ends, RefInv, EndsInv, LockInv
  <2>5. SleepInv'
    <3>1. /\ nread' = nread /\ nwrite' = nwrite /\ readopen' = readopen /\ writeopen' = writeopen
          /\ killed' = killed /\ lock' = NoProc
          /\ \A q \in Procs : pc'[q] = IF q = p THEN "wsleep" ELSE pc[q]
      BY <1>12, Zenon DEF WriteSleep, ring, ends
    <3>2. pc[p] = "wfull" /\ lock = p /\ Full /\ readopen
      BY <1>12, Zenon DEF WriteSleep, LockInv, SleepInv
    <3> QED BY <3>1, <3>2, Zenon DEF SleepInv, ReaderMaySleep, WriterMaySleep, Full, Empty
  <2>6. CopyInv'
    BY <1>12, Zenon
       DEF WriteSleep, ring, ends, CopyInv, LockInv, RefInv, EndsInv, Empty
  <2> QED BY <2>1, <2>2, <2>3, <2>4, <2>5, <2>6, Zenon
<1>13. CASE WriteByte(p)
  <2>1. TypeOK' BY <1>13, SMTT(60) DEF WriteByte, Inc, ends
  <2>2. LockInv' BY <1>13, Zenon DEF WriteByte, Inc, ends, LockInv
  <2>3. RefInv' BY <1>13, Zenon DEF WriteByte, Inc, ends, RefInv, EndsInv
  <2>4. EndsInv' BY <1>13, Zenon DEF WriteByte, Inc, ends, RefInv, EndsInv, LockInv
  <2>5. SleepInv'
    BY <1>13, Zenon
       DEF WriteByte, Inc, ends, SleepInv, LockInv, RefInv, EndsInv,
           ReaderMaySleep, WriterMaySleep, Full, Empty
  <2>6. CopyInv'
    BY <1>13, Zenon DEF WriteByte, Inc, ends, CopyInv, LockInv, RefInv, EndsInv, Empty
  <2> QED BY <2>1, <2>2, <2>3, <2>4, <2>5, <2>6, Zenon
<1>14. CASE WriteDone(p)
  <2>1. TypeOK' BY <1>14, Zenon DEF WriteDone, Return, WakeReaders, ring, ends
  <2>2. LockInv'
    BY <1>14, Zenon DEF WriteDone, Return, WakeReaders, ring, ends, LockInv
  <2>3. RefInv'
    BY <1>14, Zenon DEF WriteDone, Return, WakeReaders, ring, ends, RefInv, EndsInv
  <2>4. EndsInv'
    BY <1>14, Zenon
       DEF WriteDone, Return, WakeReaders, ring, ends, RefInv, EndsInv, LockInv
  <2>5. SleepInv'
    BY <1>14, Zenon
       DEF WriteDone, Return, WakeReaders, ring, ends, SleepInv, LockInv,
           RefInv, EndsInv, ReaderMaySleep, WriterMaySleep, Full, Empty
  <2>6. CopyInv'
    BY <1>14, Zenon
       DEF WriteDone, Return, WakeReaders, ring, ends, CopyInv, LockInv,
           RefInv, EndsInv, Empty
  <2> QED BY <2>1, <2>2, <2>3, <2>4, <2>5, <2>6, Zenon
<1>15. CASE ReadKilled(p)
  <2>1. TypeOK' BY <1>15, Zenon DEF ReadKilled, Return, ring, ends
  <2>2. LockInv' BY <1>15, Zenon DEF ReadKilled, Return, ring, ends, LockInv
  <2>3. RefInv' BY <1>15, Zenon DEF ReadKilled, Return, ring, ends, RefInv, EndsInv
  <2>4. EndsInv'
    BY <1>15 DEF ReadKilled, Return, ring, ends, RefInv, EndsInv, LockInv
  <2>5. SleepInv'
    BY <1>15
       DEF ReadKilled, Return, ring, ends, SleepInv, LockInv, RefInv, EndsInv,
           ReaderMaySleep, WriterMaySleep, Full, Empty
  <2>6. CopyInv'
    BY <1>15
       DEF ReadKilled, Return, ring, ends, CopyInv, LockInv, RefInv, EndsInv,
           Empty
  <2> QED BY <2>1, <2>2, <2>3, <2>4, <2>5, <2>6, Zenon
<1>16. CASE ReadEmpty(p)
  <2>1. TypeOK' BY <1>16, Zenon DEF ReadEmpty, ring, ends
  <2>2. LockInv' BY <1>16, Zenon DEF ReadEmpty, ring, ends, LockInv
  <2>3. RefInv' BY <1>16 DEF ReadEmpty, ring, ends, RefInv, EndsInv
  <2>4. EndsInv' BY <1>16 DEF ReadEmpty, ring, ends, RefInv, EndsInv, LockInv
  <2>5. SleepInv'
    BY <1>16
       DEF ReadEmpty, ring, ends, SleepInv, LockInv, RefInv, EndsInv,
           ReaderMaySleep, WriterMaySleep, Full, Empty
  <2>6. CopyInv'
    BY <1>16, Zenon
       DEF ReadEmpty, ring, ends, CopyInv, LockInv, RefInv, EndsInv, Empty
  <2> QED BY <2>1, <2>2, <2>3, <2>4, <2>5, <2>6, Zenon
<1>17. CASE ReadSleep(p)
  <2>1. TypeOK' BY <1>17, Zenon DEF ReadSleep, ring, ends
  <2>2. LockInv' BY <1>17, Zenon DEF ReadSleep, ring, ends, LockInv
  <2>3. RefInv' BY <1>17, Zenon DEF ReadSleep, ring, ends, RefInv, EndsInv
  <2>4. EndsInv' BY <1>17 DEF ReadSleep, ring, ends, RefInv, EndsInv, LockInv
  <2>5. SleepInv'
    BY <1>17
       DEF ReadSleep, ring, ends, SleepInv, LockInv, RefInv, EndsInv,
           ReaderMaySleep, WriterMaySleep, Full, Empty
  <2>6. CopyInv'
    BY <1>17, Zenon
       DEF ReadSleep, ring, ends, CopyInv, LockInv, RefInv, EndsInv, Empty
  <2> QED BY <2>1, <2>2, <2>3, <2>4, <2>5, <2>6, Zenon
<1>18. CASE ReadReady(p)
  <2>1. TypeOK' BY <1>18, Zenon DEF ReadReady, ring, ends
  <2>2. LockInv' BY <1>18, Zenon DEF ReadReady, ring, ends, LockInv
  <2>3. RefInv' BY <1>18, Zenon DEF ReadReady, ring, ends, RefInv, EndsInv
  <2>4. EndsInv' BY <1>18 DEF ReadReady, ring, ends, RefInv, EndsInv, LockInv
  <2>5. SleepInv'
    BY <1>18, Zenon
       DEF ReadReady, ring, ends, SleepInv, LockInv, RefInv, EndsInv,
           ReaderMaySleep, WriterMaySleep, Full, Empty
  <2>6. CopyInv'
    BY <1>18, Zenon
       DEF ReadReady, ring, ends, CopyInv, LockInv, RefInv, EndsInv, Empty
  <2> QED BY <2>1, <2>2, <2>3, <2>4, <2>5, <2>6, Zenon
<1>19. CASE ReadByte(p)
  <2>1. TypeOK' BY <1>19, SMTT(60) DEF ReadByte, Inc, ends
  <2>2. LockInv' BY <1>19, Zenon DEF ReadByte, Inc, ends, LockInv
  <2>3. RefInv' BY <1>19, Zenon DEF ReadByte, Inc, ends, RefInv, EndsInv
  <2>4. EndsInv' BY <1>19, Zenon DEF ReadByte, Inc, ends, RefInv, EndsInv, LockInv
  <2>5. SleepInv'
    BY <1>19, Zenon
       DEF ReadByte, Inc, ends, SleepInv, LockInv, RefInv, EndsInv,
           ReaderMaySleep, WriterMaySleep, Full, Empty
  <2>6. CopyInv'
    BY <1>19 DEF ReadByte, Inc, ends, CopyInv, LockInv, RefInv, EndsInv, Empty
  <2> QED BY <2>1, <2>2, <2>3, <2>4, <2>5, <2>6, Zenon
<1>20. CASE ReadDone(p)
  <2>1. TypeOK' BY <1>20, Zenon DEF ReadDone, Return, WakeWriters, ring, ends
  <2>2. LockInv'
    BY <1>20, Zenon DEF ReadDone, Return, WakeWriters, ring, ends, LockInv
  <2>3. RefInv'
    BY <1>20, Zenon DEF ReadDone, Return, WakeWriters, ring, ends, RefInv, EndsInv
  <2>4. EndsInv'
    BY <1>20, Zenon
       DEF ReadDone, Return, WakeWriters, ring, ends, RefInv, EndsInv, LockInv
  <2>5. SleepInv'
    BY <1>20, Zenon
       DEF ReadDone, Return, WakeWriters, ring, ends, SleepInv, LockInv,
           RefInv, EndsInv, ReaderMaySleep, WriterMaySleep, Full, Empty
  <2>6. CopyInv'
    BY <1>20, Zenon
       DEF ReadDone, Return, WakeWriters, ring, ends, CopyInv, LockInv, RefInv,
           EndsInv, Empty
  <2> QED BY <2>1, <2>2, <2>3, <2>4, <2>5, <2>6, Zenon
<1>21. CASE kill(p)
  <2>1. TypeOK' BY <1>21, SMTT(60) DEF kill, ring, ends
  <2>2. LockInv' BY <1>21, SMTT(60) DEF kill, ring, ends, LockInv
  <2>3. RefInv' BY <1>21, SMTT(60) DEF kill, ring, ends, RefInv, EndsInv
  <2>4. EndsInv' BY <1>21, SMTT(60) DEF kill, ring, ends, RefInv, EndsInv, LockInv
  <2>5. SleepInv'
    BY <1>21, SMTT(60)
       DEF kill, ring, ends, SleepInv, LockInv, RefInv, EndsInv,
           ReaderMaySleep, WriterMaySleep, Full, Empty
  <2>6. CopyInv'
    BY <1>21 DEF kill, ring, ends, CopyInv, LockInv, RefInv, EndsInv, Empty
  <2> QED BY <2>1, <2>2, <2>3, <2>4, <2>5, <2>6, Zenon
<1> QED
  BY <1>2, <1>3, <1>4, <1>5, <1>6, <1>7, <1>8, <1>9, <1>10,
     <1>11, <1>12, <1>13, <1>14, <1>15, <1>16, <1>17, <1>18,
     <1>19, <1>20, <1>21, Zenon
     DEF Write, Read

-----------------------------------------------------------------------------
(* The invariant holds for ever.                                           *)
THEOREM PipeInvariant == Spec => []IInv
BY InitInv, NextInv, PTL DEF Spec

(* The types of all variables are kept: the uint counters stay in range    *)
(* through every wrap-around.                                              *)
THEOREM PipeTypes == Spec => []TypeOK
<1>1. IInv => TypeOK BY Zenon DEF IInv
<1> QED BY <1>1, PipeInvariant, PTL

(* No process uses the pipe after pipeclose freed its page (pipe.c:70-72). *)
THEOREM UseBeforeFree == Spec => []NoUseAfterFree
<1>1. IInv => NoUseAfterFree
  BY Zenon DEF IInv, TypeOK, PC, WritePC, ReadPC, ClosePC, RefInv, EndsInv,
         NoUseAfterFree
<1> QED BY <1>1, PipeInvariant, PTL

(* No wakeup is lost between the tests of pipe.c:85 and 106 and the sleeps *)
(* that follow them.                                                       *)
THEOREM WakeupsArrive == Spec => []NoLostWakeup
<1>1. IInv => NoLostWakeup BY Zenon DEF IInv, SleepInv, NoLostWakeup
<1> QED BY <1>1, PipeInvariant, PTL

(* piperead returns 0 for a positive n (pipe.c:113-120) only after the     *)
(* last write end was closed.                                              *)
THEOREM EofIsFinal == Spec => EofOnlyAfterLastWriter
<1>1. ASSUME IInv, NEW p \in Procs, ReadDone(p), n[p] > 0, i[p] = 0
      PROVE  wref = {} /\ Empty
  <2>1. Empty BY <1>1 DEF ReadDone, IInv, TypeOK
  <2>2. ~writeopen BY <1>1, <2>1, Zenon DEF ReadDone, IInv, CopyInv
  <2> QED BY <1>1, <2>1, <2>2, Zenon DEF IInv, EndsInv
<1>2. IInv /\ [Next]_vars =>
        [\A p \in Procs :
           ReadDone(p) /\ n[p] > 0 /\ i[p] = 0 => wref = {} /\ Empty]_vars
  BY <1>1, Zenon
<1> QED BY <1>2, PipeInvariant, PTL DEF Spec, EofOnlyAfterLastWriter

-----------------------------------------------------------------------------
-----------------------------------------------------------------------------
(* A uint counter may be reduced modulo PIPESIZE before or after it wraps, *)
(* because PIPESIZE divides UINT (512 divides 2^32).                       *)
LEMMA WrapSlot ==
  ASSUME NEW x \in Int
  PROVE  (x % UINT) % PIPESIZE = x % PIPESIZE
<1>1. UINT \in Nat \ {0} /\ PIPESIZE \in Nat \ {0} BY PipeAssumption
<1>2. UINT % PIPESIZE = 0 BY PipeAssumption, Zenon
<1> QED BY <1>1, <1>2, WrapKeepsSlot, Zenon

(* The bytes of a ring, as a function of its array and its two counters.   *)
Distance(lo, hi) == (hi - lo) % UINT
QueueOf(d, lo, hi) ==
  [k \in 1..Distance(lo, hi) |-> d[((lo + k - 1) % UINT) % PIPESIZE]]

(* The distance from nread to nwrite, wrapped or not.                      *)
LEMMA DistanceIs ==
  ASSUME NEW lo \in 0..UINT-1, NEW hi \in 0..UINT-1
  PROVE  /\ Distance(lo, hi) \in 0..UINT-1
         /\ Distance(lo, hi) = IF lo <= hi THEN hi - lo ELSE (hi - lo) + UINT
<1>1. UINT \in Nat \ {0} BY PipeAssumption
<1>2. CASE lo <= hi
  <2> DEFINE x == hi - lo
  <2>1. x \in Int /\ x \in 0..UINT-1 BY <1>1, <1>2
  <2>2. Distance(lo, hi) = x % UINT BY Zenon DEF Distance
  <2>3. x % UINT = x
    <3> HIDE DEF x
    <3> QED BY <1>1, <2>1, ModNear, Zenon
  <2> QED BY <1>2, <2>1, <2>2, <2>3, Zenon
<1>3. CASE ~(lo <= hi)
  <2>1. hi - lo \in (-UINT)..(-1) /\ (hi - lo) + UINT \in 0..UINT-1 BY <1>1, <1>3
  <2> QED BY <1>1, <1>3, <2>1, ModNear DEF Distance
<1> QED BY <1>2, <1>3, Zenon

(* Inc is the ++ of a uint.                                                *)
LEMMA IncIs ==
  ASSUME NEW x \in 0..UINT-1
  PROVE  /\ Inc(x) \in 0..UINT-1
         /\ Inc(x) = IF x = UINT - 1 THEN 0 ELSE x + 1
<1>1. UINT \in Nat \ {0} BY PipeAssumption
<1>2. CASE x = UINT - 1
  <2>1. x + 1 \in UINT..2*UINT-1 /\ (x + 1) - UINT = 0 BY <1>1, <1>2
  <2>2. (x + 1) % UINT = 0 BY <1>1, <2>1, ModNear
  <2> QED BY <1>1, <1>2, <2>2 DEF Inc
<1>3. CASE x # UINT - 1
  <2>1. x + 1 \in 0..UINT-1 BY <1>1, <1>3
  <2>2. (x + 1) % UINT = x + 1 BY <1>1, <2>1, ModNear
  <2> QED BY <1>1, <1>3, <2>1, <2>2, Zenon DEF Inc
<1> QED BY <1>2, <1>3, Zenon

(* pipewrite and piperead move the counters by one: the test for a full    *)
(* ring and the test for an empty one keep the distance within PIPESIZE.   *)
LEMMA DistanceMoves ==
  ASSUME NEW lo \in 0..UINT-1, NEW hi \in 0..UINT-1
  PROVE  /\ lo = hi <=> Distance(lo, hi) = 0
         /\ hi = (lo + PIPESIZE) % UINT <=> Distance(lo, hi) = PIPESIZE
         /\ Distance(lo, hi) < PIPESIZE =>
              Distance(lo, Inc(hi)) = Distance(lo, hi) + 1
         /\ Distance(lo, hi) > 0 => Distance(Inc(lo), hi) = Distance(lo, hi) - 1
<1>1. /\ UINT \in Nat \ {0} /\ PIPESIZE \in Nat \ {0} /\ PIPESIZE < UINT
  BY PipeAssumption
<1>2. Distance(lo, hi) \in 0..UINT-1 BY DistanceIs, Zenon
<1>3. lo = hi <=> Distance(lo, hi) = 0
  <2>1. Distance(lo, hi) = IF lo <= hi THEN hi - lo ELSE (hi - lo) + UINT
    BY DistanceIs, Zenon
  <2> QED BY <2>1, <1>1
<1>4. hi = (lo + PIPESIZE) % UINT <=> Distance(lo, hi) = PIPESIZE
  <2> DEFINE x == lo + PIPESIZE
  <2>3. Distance(lo, hi) = IF lo <= hi THEN hi - lo ELSE (hi - lo) + UINT
    BY DistanceIs, Zenon
  <2>1. CASE lo + PIPESIZE < UINT
    <3>1. (lo + PIPESIZE) % UINT = lo + PIPESIZE
      <4>1. x \in Int /\ x \in 0..UINT-1 BY <1>1, <2>1
      <4> HIDE DEF x
      <4>2. x % UINT = x BY <4>1, <1>1, ModNear, Zenon
      <4> QED BY <4>2, Zenon DEF x
    <3> QED BY <3>1, <1>1, <2>1, <2>3
  <2>2. CASE lo + PIPESIZE >= UINT
    <3>1. (lo + PIPESIZE) % UINT = (lo + PIPESIZE) - UINT
      <4>1. x \in Int /\ x \in UINT..2*UINT-1 BY <1>1, <2>2
      <4> HIDE DEF x
      <4>2. x % UINT = x - UINT BY <4>1, <1>1, ModNear, Zenon
      <4> QED BY <4>2, Zenon DEF x
    <3> QED BY <3>1, <1>1, <2>2, <2>3
  <2> QED BY <2>1, <2>2, <1>1
<1>5. ASSUME Distance(lo, hi) < PIPESIZE
      PROVE  Distance(lo, Inc(hi)) = Distance(lo, hi) + 1
  <2>1. Inc(hi) \in 0..UINT-1 /\ Inc(hi) = IF hi = UINT - 1 THEN 0 ELSE hi + 1
    BY IncIs, Zenon
  <2>2. Distance(lo, Inc(hi)) =
          IF lo <= Inc(hi) THEN Inc(hi) - lo ELSE (Inc(hi) - lo) + UINT
    BY <2>1, DistanceIs, Zenon
  <2>3. Distance(lo, hi) = IF lo <= hi THEN hi - lo ELSE (hi - lo) + UINT
    BY DistanceIs, Zenon
  <2> HIDE DEF Inc, Distance
  <2> QED BY <2>1, <2>2, <2>3, <1>1, <1>5
<1>6. ASSUME Distance(lo, hi) > 0
      PROVE  Distance(Inc(lo), hi) = Distance(lo, hi) - 1
  <2>1. Inc(lo) \in 0..UINT-1 /\ Inc(lo) = IF lo = UINT - 1 THEN 0 ELSE lo + 1
    BY IncIs, Zenon
  <2>2. Distance(Inc(lo), hi) =
          IF Inc(lo) <= hi THEN hi - Inc(lo) ELSE (hi - Inc(lo)) + UINT
    BY <2>1, DistanceIs, Zenon
  <2>3. Distance(lo, hi) = IF lo <= hi THEN hi - lo ELSE (hi - lo) + UINT
    BY DistanceIs, Zenon
  <2> QED BY <2>1, <2>2, <2>3, <1>1, <1>6
<1> QED BY <1>3, <1>4, <1>5, <1>6, Zenon

(* The ring holds a sequence of bytes; its k-th is k - 1 slots after the   *)
(* one that piperead takes next.                                           *)
LEMMA QueueShape ==
  ASSUME NEW d \in [0..PIPESIZE-1 -> Byte],
         NEW lo \in 0..UINT-1, NEW hi \in 0..UINT-1
  PROVE  /\ QueueOf(d, lo, hi) \in Seq(Byte)
         /\ Len(QueueOf(d, lo, hi)) = Distance(lo, hi)
         /\ \A k \in 1..Distance(lo, hi) :
              QueueOf(d, lo, hi)[k] = d[(lo + k - 1) % PIPESIZE]
<1> DEFINE c == Distance(lo, hi)
           s == QueueOf(d, lo, hi)
<1>1. UINT \in Nat \ {0} /\ PIPESIZE \in Nat \ {0} BY PipeAssumption
<1>2. c \in Nat
  <2>1. c \in 0..UINT-1 BY DistanceIs, Zenon
  <2> QED BY <2>1, <1>1
<1>3. \A k \in 1..c : s[k] = d[(lo + k - 1) % PIPESIZE]
  <2> TAKE k \in 1..c
  <2>1. lo + k - 1 \in Int BY <1>1, <1>2
  <2>2. ((lo + k - 1) % UINT) % PIPESIZE = (lo + k - 1) % PIPESIZE
    BY <2>1, WrapSlot, Zenon
  <2> QED BY <2>2, Zenon DEF QueueOf
<1>4. \A k \in 1..c : s[k] \in Byte
  <2> TAKE k \in 1..c
  <2>1. lo + k - 1 \in Int BY <1>1, <1>2
  <2>2. (lo + k - 1) % PIPESIZE \in 0..PIPESIZE-1 BY <2>1, <1>1, DivMod, Zenon
  <2> QED BY <1>3, <2>2, Zenon
<1>5. DOMAIN s = 1..c BY Zenon DEF QueueOf
<1>6. s \in [1..c -> Byte] BY <1>4, <1>5, Zenon DEF QueueOf
<1> HIDE DEF s, c
<1>7. s \in Seq(Byte) /\ Len(s) = c BY <1>2, <1>6
<1> QED BY <1>3, <1>7, Zenon DEF s, c

(* A byte stored behind the last one is appended: no byte that waits is    *)
(* overwritten.                                                            *)
LEMMA PutAppends ==
  ASSUME NEW d \in [0..PIPESIZE-1 -> Byte],
         NEW lo \in 0..UINT-1, NEW hi \in 0..UINT-1, NEW b \in Byte,
         Distance(lo, hi) < PIPESIZE
  PROVE  QueueOf([d EXCEPT ![hi % PIPESIZE] = b], lo, Inc(hi))
           = Append(QueueOf(d, lo, hi), b)
<1> DEFINE d2 == [d EXCEPT ![hi % PIPESIZE] = b]
           c == Distance(lo, hi)
           s == QueueOf(d, lo, hi)
           t == QueueOf(d2, lo, Inc(hi))
<1>1. UINT \in Nat \ {0} /\ PIPESIZE \in Nat \ {0} BY PipeAssumption
<1>2. c \in Nat /\ c < PIPESIZE BY DistanceIs, <1>1
<1>3. hi % PIPESIZE \in 0..PIPESIZE-1 BY <1>1, DivMod
<1>4. /\ d2 \in [0..PIPESIZE-1 -> Byte]
      /\ \A x \in 0..PIPESIZE-1 : d2[x] = IF x = hi % PIPESIZE THEN b ELSE d[x]
  BY <1>3, Zenon
<1>5. Inc(hi) \in 0..UINT-1 BY IncIs, Zenon
<1>6. Distance(lo, Inc(hi)) = c + 1 BY DistanceMoves, Zenon
<1>7. /\ s \in Seq(Byte) /\ Len(s) = c
      /\ \A k \in 1..c : s[k] = d[(lo + k - 1) % PIPESIZE]
  BY QueueShape, Zenon
<1> HIDE DEF d2
<1>8. /\ t \in Seq(Byte) /\ Len(t) = c + 1
      /\ \A k \in 1..(c+1) : t[k] = d2[(lo + k - 1) % PIPESIZE]
  <2> DEFINE w1 == Inc(hi)
             m == Distance(lo, w1)
  <2>1. w1 \in 0..UINT-1 BY <1>5, Zenon
  <2>2. m = c + 1 BY <1>6, Zenon
  <2>3. t = QueueOf(d2, lo, w1) BY Zenon
  <2> HIDE DEF w1, t, c
  <2>4. /\ t \in Seq(Byte) /\ Len(t) = m
        /\ \A k \in 1..m : t[k] = d2[(lo + k - 1) % PIPESIZE]
    BY <1>4, <2>1, <2>3, QueueShape, Zenon
  <2> HIDE DEF m
  <2> QED BY <2>2, <2>4, Zenon
<1>9. (lo + c) % PIPESIZE = hi % PIPESIZE
  <2>1. CASE lo <= hi BY <2>1, DistanceIs, <1>1
  <2>2. CASE ~(lo <= hi)
    <3>1. lo + c = hi + UINT BY <2>2, DistanceIs, <1>1
    <3> DEFINE x == hi + UINT
    <3>2. x \in Int /\ x \in UINT..2*UINT-1 /\ x - UINT = hi BY <1>1
    <3> HIDE DEF x
    <3>3. x % UINT = hi BY <3>2, <1>1, ModNear, Zenon
    <3>4. (x % UINT) % PIPESIZE = x % PIPESIZE BY <3>2, WrapSlot, Zenon
    <3> QED BY <3>1, <3>3, <3>4, Zenon DEF x
  <2> QED BY <2>1, <2>2, <1>1, Zenon
<1> HIDE DEF c, s, t
<1>10. ASSUME NEW k \in 1..c PROVE t[k] = s[k]
  <2>1. /\ lo + k - 1 \in Int /\ lo + c \in Int
        /\ lo + k - 1 < lo + c /\ (lo + c) - (lo + k - 1) < PIPESIZE + 1
    BY <1>1, <1>2
  <2>2. (lo + c) - (lo + k - 1) < PIPESIZE BY <1>1, <1>2
  <2>3. (lo + k - 1) % PIPESIZE # hi % PIPESIZE BY <2>1, <2>2, <1>9, PipeAssumption, ModDistinct, Zenon
  <2>4. (lo + k - 1) % PIPESIZE \in 0..PIPESIZE-1 BY <2>1, <1>1, DivMod, Zenon
  <2>5. k \in 1..(c+1) BY <1>2
  <2> QED BY <2>3, <2>4, <2>5, <1>4, <1>7, <1>8, Zenon
<1>11. t[c+1] = b
  <2>1. c + 1 \in 1..(c+1) /\ lo + (c + 1) - 1 = lo + c BY <1>1, <1>2
  <2>2. t[c+1] = d2[hi % PIPESIZE] BY <2>1, <1>8, <1>9, Zenon
  <2> QED BY <2>2, <1>3, <1>4, Zenon
<1>12. /\ Append(s, b) \in Seq(Byte) /\ Len(Append(s, b)) = c + 1
       /\ \A k \in 1..c : Append(s, b)[k] = s[k]
       /\ Append(s, b)[c+1] = b
  BY <1>7, AppendProperties
<1>13. \A k \in 1..Len(t) : t[k] = Append(s, b)[k]
  BY <1>2, <1>8, <1>10, <1>11, <1>12
<1>14. t = Append(s, b) BY <1>8, <1>12, <1>13, SeqEqual, Zenon
<1> QED BY <1>14, Zenon DEF t, s, d2

(* The byte that piperead takes is the oldest one, and the others stay.    *)
LEMMA GetTakesHead ==
  ASSUME NEW d \in [0..PIPESIZE-1 -> Byte],
         NEW lo \in 0..UINT-1, NEW hi \in 0..UINT-1,
         Distance(lo, hi) > 0
  PROVE  /\ QueueOf(d, lo, hi) # << >>
         /\ d[lo % PIPESIZE] = Head(QueueOf(d, lo, hi))
         /\ QueueOf(d, Inc(lo), hi) = Tail(QueueOf(d, lo, hi))
<1> DEFINE c == Distance(lo, hi)
           s == QueueOf(d, lo, hi)
           t == QueueOf(d, Inc(lo), hi)
<1>1. UINT \in Nat \ {0} /\ PIPESIZE \in Nat \ {0} BY PipeAssumption
<1>2. c \in Nat /\ c > 0 BY DistanceIs, <1>1
<1>5. Inc(lo) \in 0..UINT-1 BY IncIs, Zenon
<1>6. Distance(Inc(lo), hi) = c - 1 BY DistanceMoves, Zenon
<1>7. /\ s \in Seq(Byte) /\ Len(s) = c
      /\ \A k \in 1..c : s[k] = d[(lo + k - 1) % PIPESIZE]
  BY QueueShape, Zenon
<1>8. /\ t \in Seq(Byte) /\ Len(t) = c - 1
      /\ \A k \in 1..(c-1) : t[k] = d[(Inc(lo) + k - 1) % PIPESIZE]
  <2> DEFINE r1 == Inc(lo)
  <2>1. r1 \in 0..UINT-1 /\ Distance(r1, hi) = c - 1 BY <1>5, <1>6, Zenon
  <2>2. t = QueueOf(d, r1, hi) BY Zenon
  <2> DEFINE m == Distance(r1, hi)
  <2> HIDE DEF r1, t, c
  <2>3. /\ t \in Seq(Byte) /\ Len(t) = m
        /\ \A k \in 1..m : t[k] = d[(r1 + k - 1) % PIPESIZE]
    BY <2>1, <2>2, QueueShape, Zenon
  <2>4. m = c - 1 BY <2>1, Zenon
  <2> HIDE DEF m
  <2> QED BY <2>3, <2>4, Zenon DEF r1
<1> HIDE DEF c, s, t
<1>9. s # << >> BY <1>2, <1>7, EmptySeq
<1>10. Head(s) = d[lo % PIPESIZE]
  <2>1. Head(s) = s[1] BY <1>7, <1>9
  <2>2. 1 \in 1..c /\ lo + 1 - 1 = lo BY <1>1, <1>2
  <2> QED BY <2>1, <2>2, <1>7, Zenon
<1>11. /\ Tail(s) \in Seq(Byte) /\ Len(Tail(s)) = c - 1
       /\ \A k \in 1..(c-1) : Tail(s)[k] = s[k+1]
  BY <1>7, <1>9, HeadTailProperties, Zenon
<1>12. ASSUME NEW k \in 1..(c-1) PROVE t[k] = Tail(s)[k]
  <2>1. /\ k + 1 \in 1..c /\ lo + (k + 1) - 1 = lo + k /\ k - 1 \in Nat
        /\ lo + k \in Int
    BY <1>1, <1>2
  <2>2. s[k+1] = d[(lo + k) % PIPESIZE] BY <2>1, <1>7, Zenon
  <2>3. (Inc(lo) + k - 1) % PIPESIZE = (lo + k) % PIPESIZE
    <3>1. CASE lo # UINT - 1
      <4>1. Inc(lo) + k - 1 = lo + k BY <3>1, <1>1, <2>1, IncIs
      <4> QED BY <4>1, Zenon
    <3>2. CASE lo = UINT - 1
      <4> DEFINE x == (k - 1) + UINT
      <4>1. Inc(lo) + k - 1 = k - 1 /\ lo + k = x
        BY <3>2, <1>1, <2>1, IncIs
      <4>2. c \in 0..UINT-1 BY DistanceIs, Zenon DEF c
      <4>3. x \in Int /\ x \in UINT..2*UINT-1 /\ x - UINT = k - 1
        BY <1>1, <1>2, <4>2
      <4> HIDE DEF x
      <4>4. x % UINT = k - 1 BY <4>3, <1>1, ModNear, Zenon
      <4>5. (x % UINT) % PIPESIZE = x % PIPESIZE BY <4>3, WrapSlot, Zenon
      <4> QED BY <4>1, <4>4, <4>5, Zenon
    <3> QED BY <3>1, <3>2, Zenon
  <2> QED BY <2>2, <2>3, <1>8, <1>11, Zenon
<1>13. t = Tail(s)
  <2>1. \A k \in 1..Len(t) : t[k] = Tail(s)[k] BY <1>8, <1>12, Zenon
  <2> QED BY <2>1, <1>8, <1>11, SeqEqual, Zenon
<1> QED BY <1>9, <1>10, <1>13, Zenon DEF s, t

-----------------------------------------------------------------------------
(* The pipe is a byte queue.                                               *)

(* At most PIPESIZE bytes wait between nread and nwrite.                   *)
CountInv == Distance(nread, nwrite) <= PIPESIZE

(* What a user of the pipe sees is left alone: what every step but         *)
(* pipealloc, pipeclose and the copy of one byte does.                     *)
Quiet == UNCHANGED <<ring, readopen, writeopen, addr>>

(* A step of the machine is quiet, or one of the four that the queue sees. *)
LEMMA StepKinds ==
  ASSUME Next
  PROVE  \/ Quiet
         \/ \E p \in Procs : \/ pipealloc(p) \/ pipeclose(p)
                             \/ WriteByte(p) \/ ReadByte(p)
<1>1. PICK p \in Procs :
        \/ pipealloc(p) \/ (\E q \in Procs : filedup(p, q))
        \/ fileclose(p) \/ pipeclose(p)
        \/ pipewrite(p) \/ piperead(p)
        \/ Acquire(p) \/ Write(p) \/ Read(p) \/ kill(p)
  BY Zenon DEF Next
<1>2. CASE \E q \in Procs : filedup(p, q) BY <1>2, Zenon DEF filedup, Quiet
<1>3. CASE fileclose(p) BY <1>3, Zenon DEF fileclose, Quiet
<1>4. CASE pipewrite(p) BY <1>4, Zenon DEF pipewrite, Call, ends, Quiet
<1>5. CASE piperead(p) BY <1>5, Zenon DEF piperead, Call, ends, Quiet
<1>6. CASE Acquire(p) BY <1>6, Zenon DEF Acquire, ends, Quiet
<1>7. CASE Write(p)
  BY <1>7, Zenon DEF Write, WriteFail, WriteFull, WriteSleep, WriteDone, ends, Quiet
<1>8. CASE Read(p)
  BY <1>8, Zenon
     DEF Read, ReadKilled, ReadEmpty, ReadSleep, ReadReady, ReadDone, ends, Quiet
<1>9. CASE kill(p) BY <1>9, Zenon DEF kill, ends, Quiet
<1> QED BY <1>1, <1>2, <1>3, <1>4, <1>5, <1>6, <1>7, <1>8, <1>9, Zenon

(* The tests of pipe.c:85 and 113 keep the count in range.                 *)
LEMMA CountNext ==
  ASSUME TypeOK, CountInv, [Next]_vars
  PROVE  CountInv'
<1>1. /\ nread \in 0..UINT-1 /\ nwrite \in 0..UINT-1
      /\ Distance(nread, nwrite) \in 0..UINT-1
      /\ Distance(nread, nwrite) <= PIPESIZE
      /\ PIPESIZE \in Nat \ {0} /\ UINT \in Nat \ {0}
  BY PipeAssumption, DistanceIs DEF TypeOK, CountInv
<1>2. CASE UNCHANGED <<nread, nwrite>> BY <1>2, Zenon DEF CountInv, Distance
<1>3. ASSUME NEW p \in Procs, pipealloc(p) PROVE CountInv'
  <2>1. nread' = 0 /\ nwrite' = 0 BY <1>3, Zenon DEF pipealloc
  <2>2. Distance(0, 0) = 0
    <3>1. 0 \in 0..UINT-1 BY <1>1
    <3> QED BY <3>1, DistanceMoves, Zenon
  <2> QED BY <2>1, <2>2, <1>1 DEF CountInv
<1>4. ASSUME NEW p \in Procs, WriteByte(p) PROVE CountInv'
  <2>1. nread' = nread /\ nwrite' = Inc(nwrite) BY <1>4, Zenon DEF WriteByte
  <2>2. Distance(nread, nwrite) # PIPESIZE
    BY <1>1, <1>4, DistanceMoves, Zenon DEF WriteByte, Full
  <2>3. Distance(nread, Inc(nwrite)) = Distance(nread, nwrite) + 1
    BY <1>1, <2>2, DistanceMoves
  <2> QED BY <1>1, <2>1, <2>2, <2>3 DEF CountInv
<1>5. ASSUME NEW p \in Procs, ReadByte(p) PROVE CountInv'
  <2>1. nread' = Inc(nread) /\ nwrite' = nwrite BY <1>5, Zenon DEF ReadByte
  <2>2. Distance(nread, nwrite) # 0
    BY <1>1, <1>5, DistanceMoves, Zenon DEF ReadByte, Empty
  <2>3. Distance(Inc(nread), nwrite) = Distance(nread, nwrite) - 1
    BY <1>1, <2>2, DistanceMoves
  <2> QED BY <1>1, <2>1, <2>2, <2>3 DEF CountInv
<1>6. CASE Next
  <2>1. CASE Quiet BY <2>1, <1>2, Zenon DEF Quiet, ring
  <2>2. ASSUME NEW p \in Procs, pipeclose(p) PROVE CountInv'
    BY <2>2, <1>2, Zenon DEF pipeclose, ring
  <2> QED BY <1>6, <2>1, <2>2, <1>3, <1>4, <1>5, StepKinds, Zenon
<1>7. CASE UNCHANGED vars BY <1>7, <1>2, Zenon DEF vars
<1> QED BY <1>6, <1>7, Zenon

(* Never more than PIPESIZE bytes wait in a pipe, through every            *)
(* wrap-around of its counters.                                            *)
THEOREM CountFits == Spec => []CountInv
<1>1. Init => CountInv
  <2> SUFFICES ASSUME Init PROVE CountInv BY Zenon
  <2>1. 0 \in 0..UINT-1 /\ PIPESIZE \in Nat BY PipeAssumption
  <2>2. Distance(0, 0) = 0 BY <2>1, DistanceMoves, Zenon
  <2> QED BY <2>1, <2>2 DEF Init, CountInv
<1>2. TypeOK /\ CountInv /\ [Next]_vars => CountInv' BY CountNext, Zenon
<1> QED BY <1>1, <1>2, PipeTypes, PTL DEF Spec

(* A machine without pipes is an empty, closed queue.                      *)
LEMMA RefInit == Init => BQ!Init
<1> SUFFICES ASSUME Init PROVE BQ!Init BY Zenon
<1>1. 0 \in 0..UINT-1 BY PipeAssumption
<1>2. Distance(0, 0) = 0 BY <1>1, DistanceMoves, Zenon
<1>3. Queue = [k \in 1..0 |-> data[((0 + k - 1) % UINT) % PIPESIZE]]
  BY <1>2, Zenon DEF Init, Queue, Distance
<1>4. Queue = << >> BY <1>3
<1> QED BY <1>4, Zenon DEF Init, BQ!Init

(* Each step of the pipe is one step of the queue or none: pipealloc opens *)
(* it, a loop iteration of pipewrite (pipe.c:94) puts one byte, one of     *)
(* piperead (pipe.c:116) gets one, and pipeclose closes an end.            *)
LEMMA RefNext == IInv /\ CountInv /\ [Next]_vars => [BQ!Next]_(BQ!vars)
<1> SUFFICES ASSUME IInv, CountInv, [Next]_vars
             PROVE  [BQ!Next]_(BQ!vars)
  BY Zenon
<1>1. /\ data \in [0..PIPESIZE-1 -> Byte]
      /\ nread \in 0..UINT-1 /\ nwrite \in 0..UINT-1
      /\ Distance(nread, nwrite) \in 0..UINT-1
      /\ Distance(nread, nwrite) <= PIPESIZE
      /\ PIPESIZE \in Nat \ {0} /\ UINT \in Nat \ {0}
  <2>1. /\ data \in [0..PIPESIZE-1 -> Byte]
        /\ nread \in 0..UINT-1 /\ nwrite \in 0..UINT-1
    BY Zenon DEF IInv, TypeOK
  <2>2. Distance(nread, nwrite) \in 0..UINT-1 BY <2>1, DistanceIs, Zenon
  <2>3. Distance(nread, nwrite) <= PIPESIZE BY Zenon DEF CountInv
  <2>4. PIPESIZE \in Nat \ {0} /\ UINT \in Nat \ {0} BY PipeAssumption
  <2> QED BY <2>1, <2>2, <2>3, <2>4, Zenon
<1>2. Queue = QueueOf(data, nread, nwrite) BY Zenon DEF Queue, QueueOf, Distance
<1>3. Queue' = QueueOf(data', nread', nwrite')
  BY Zenon DEF Queue, QueueOf, Distance
<1>4. Len(Queue) = Distance(nread, nwrite) BY <1>1, <1>2, QueueShape, Zenon
<1>5. CASE Quiet
  BY <1>5, Zenon DEF Quiet, ring, Queue, BQ!vars
<1>6. ASSUME NEW p \in Procs, pipealloc(p) PROVE BQ!Next
  <2>1. ~readopen /\ ~writeopen BY <1>6, Zenon DEF pipealloc, IInv, EndsInv
  <2>2. readopen' /\ writeopen' /\ addr' = addr /\ nread' = 0 /\ nwrite' = 0
    BY <1>6, Zenon DEF pipealloc
  <2>3. Queue' = << >>
    <3>1. 0 \in 0..UINT-1 BY <1>1
    <3>2. Distance(0, 0) = 0 BY <3>1, DistanceMoves, Zenon
    <3>3. Queue' = [k \in 1..0 |-> data'[((0 + k - 1) % UINT) % PIPESIZE]]
      BY <3>2, <2>2, Zenon DEF Queue, Distance
    <3> QED BY <3>3
  <2>4. BQ!Open BY <2>1, <2>2, <2>3, Zenon DEF BQ!Open
  <2> QED BY <2>4, Zenon DEF BQ!Next
<1>7. ASSUME NEW p \in Procs, pipeclose(p) PROVE BQ!Next
  <2>1. \/ readopen /\ ~readopen' /\ writeopen' = writeopen
        \/ writeopen /\ ~writeopen' /\ readopen' = readopen
    BY <1>7, Zenon DEF pipeclose, ClosePC, IInv, EndsInv
  <2>2. Queue' = Queue /\ addr' = addr
    BY <1>7, <1>2, <1>3, Zenon DEF pipeclose, ring
  <2>3. BQ!Close BY <2>1, <2>2, Zenon DEF BQ!Close
  <2> QED BY <2>3, Zenon DEF BQ!Next
<1>8. ASSUME NEW p \in Procs, WriteByte(p) PROVE BQ!Next
  <2>1. writeopen
    BY <1>8, Zenon DEF WriteByte, IInv, RefInv, EndsInv, WritePC
  <2>2. PICK b \in Byte : data' = [data EXCEPT ![nwrite % PIPESIZE] = b]
    BY <1>8, Zenon DEF WriteByte
  <2>3. /\ nread' = nread /\ nwrite' = Inc(nwrite)
        /\ addr' = addr /\ readopen' = readopen /\ writeopen' = writeopen
    BY <1>8, Zenon DEF WriteByte, ends
  <2>4. Distance(nread, nwrite) # PIPESIZE
    BY <1>1, <1>8, DistanceMoves, Zenon DEF WriteByte, Full
  <2>5. Distance(nread, nwrite) < PIPESIZE BY <1>1, <2>4
  <2>6. Queue' = Append(Queue, b)
    BY <1>1, <1>2, <1>3, <2>2, <2>3, <2>5, PutAppends, Zenon
  <2>7. BQ!Put BY <1>4, <2>1, <2>3, <2>5, <2>6, Zenon DEF BQ!Put
  <2> QED BY <2>7, Zenon DEF BQ!Next
<1>9. ASSUME NEW p \in Procs, ReadByte(p) PROVE BQ!Next
  <2>1. readopen
    BY <1>9, Zenon DEF ReadByte, IInv, RefInv, EndsInv, ReadPC
  <2>2. /\ data' = data /\ nread' = Inc(nread) /\ nwrite' = nwrite
        /\ addr' = data[nread % PIPESIZE]
        /\ readopen' = readopen /\ writeopen' = writeopen
    BY <1>9, Zenon DEF ReadByte, ends
  <2>3. Distance(nread, nwrite) # 0
    BY <1>1, <1>9, DistanceMoves, Zenon DEF ReadByte, Empty
  <2>4. Distance(nread, nwrite) > 0 BY <1>1, <2>3
  <2>5. Queue # << >> /\ addr' = Head(Queue) /\ Queue' = Tail(Queue)
    BY <1>1, <1>2, <1>3, <2>2, <2>4, GetTakesHead, Zenon
  <2>6. BQ!Get BY <2>1, <2>2, <2>5, Zenon DEF BQ!Get
  <2> QED BY <2>6, Zenon DEF BQ!Next
<1>10. CASE Next BY <1>10, <1>5, <1>6, <1>7, <1>8, <1>9, StepKinds, Zenon
<1>11. CASE UNCHANGED vars BY <1>11, <1>5, Zenon DEF vars, Quiet, ring
<1> QED BY <1>10, <1>11, Zenon

(* What a user of the pipe sees is a bounded first-in first-out queue: no  *)
(* byte is lost, repeated or reordered, for any number of processes, any   *)
(* capacity that divides UINT and any number of wrap-arounds.              *)
THEOREM PipeIsQueue == Spec => ImplementsByteQueue
BY RefInit, RefNext, PipeInvariant, CountFits, PTL
   DEF Spec, ImplementsByteQueue, BQ!Spec

-----------------------------------------------------------------------------
(*** xv6/console.c ***)

(* The slot of the k-th character after rr.                                *)
SlotOf(rr, k) == plus(rr, k) % INPUT_BUF

(* The array b holds the queue q and behind it the line l, from rr on.     *)
Ring(b, rr, q, l) ==
  /\ Len(q) + Len(l) <= INPUT_BUF
  /\ \A h \in 1..Len(q) : b[SlotOf(rr, h - 1)] = q[h]
  /\ \A h \in 1..Len(l) : b[SlotOf(rr, Len(q) + h - 1)] = l[h]

ReaderPC == {"user", "loop", "doze", "sleep", "woken"}

CTypes ==
  /\ inbuf \in [0..INPUT_BUF-1 -> Keys]
  /\ r \in 0..CUINT-1 /\ w \in 0..CUINT-1 /\ e \in 0..CUINT-1
  /\ conslock \in Readers \cup {NoReader}
  /\ rpc \in [Readers -> ReaderPC]
  /\ left \in [Readers -> 0..MaxRead] /\ target \in [Readers -> 0..MaxRead]
  /\ \A p \in Readers : left[p] <= target[p]
  /\ rkilled \in [Readers -> BOOLEAN]
  /\ queue \in Seq(Chars) /\ line \in Seq({"x"})

RingInv ==
  /\ Ring(inbuf, r, queue, line)
  /\ w = plus(r, Len(queue)) /\ e = plus(r, Len(queue) + Len(line))
  /\ Len(queue) = 0 => Len(line) < INPUT_BUF

(* Who is in consoleread's loop has cons.lock, and the ring stays empty    *)
(* from the test to the sleep.                                             *)
ReaderInv ==
  /\ \A p \in Readers : rpc[p] \in {"loop", "doze"} => conslock = p
  /\ \A p \in Readers : rpc[p] \in {"doze", "sleep"} => r = w

CInv == CTypes /\ RingInv /\ ReaderInv /\ CursorOnScreen

-----------------------------------------------------------------------------
(* uint addition, for a sum that wraps at most once in either direction.   *)
LEMMA PlusIs ==
  ASSUME NEW a \in 0..CUINT-1, NEW k \in (-CUINT)..CUINT
  PROVE  /\ plus(a, k) \in 0..CUINT-1
         /\ a + k < 0 => plus(a, k) = a + k + CUINT
         /\ a + k \in 0..CUINT-1 => plus(a, k) = a + k
         /\ a + k >= CUINT => plus(a, k) = a + k - CUINT
<1> DEFINE x == a + k + CUINT
           y == x - CUINT
<1>1. CUINT \in Nat \ {0} /\ x \in 0..3*CUINT-1 /\ y \in Int /\ x \in Int
  BY ConsoleAssumption
<1>2. plus(a, k) = x % CUINT BY Zenon DEF plus
<1> HIDE DEF x
<1>3. x \in 2*CUINT..3*CUINT-1 => x % CUINT = x - 2 * CUINT
  <2> SUFFICES ASSUME x \in 2*CUINT..3*CUINT-1 PROVE x % CUINT = x - 2 * CUINT
    BY Zenon
  <2> DEFINE z == x - 2 * CUINT
  <2>1. z \in 0..CUINT-1 /\ x = CUINT * 2 + z BY <1>1
  <2> HIDE DEF z
  <2>2. x % CUINT = z BY <2>1, <1>1, ModIs
  <2> QED BY <2>2, Zenon DEF z
<1>4. x \in 0..CUINT-1 => x % CUINT = x BY <1>1, ModNear, Zenon
<1>5. x \in CUINT..2*CUINT-1 => x % CUINT = x - CUINT BY <1>1, ModNear, Zenon
<1>6. x % CUINT \in 0..CUINT-1 BY <1>1, <1>3, <1>4, <1>5
<1> QED BY <1>1, <1>2, <1>3, <1>4, <1>5, <1>6 DEF x

(* Two additions are one.                                                  *)
LEMMA PlusPlus ==
  ASSUME NEW a \in 0..CUINT-1, NEW j \in 0..INPUT_BUF, NEW k \in (-INPUT_BUF)..INPUT_BUF,
         j + k \in (-INPUT_BUF)..INPUT_BUF
  PROVE  plus(plus(a, j), k) = plus(a, j + k)
<1> DEFINE b == plus(a, j)
           m == j + k
           d == plus(b, k)
           f == plus(a, m)
<1>1. /\ CUINT \in Nat /\ INPUT_BUF \in Nat /\ INPUT_BUF < CUINT
      /\ a \in Int /\ j \in Int /\ k \in Int /\ m \in Int
  BY ConsoleAssumption
<1>2. j \in (-CUINT)..CUINT /\ k \in (-CUINT)..CUINT /\ m \in (-CUINT)..CUINT
  BY <1>1
<1> HIDE DEF m
<1>3. /\ b \in 0..CUINT-1
      /\ a + j \in 0..CUINT-1 => b = a + j
      /\ a + j >= CUINT => b = a + j - CUINT
  BY <1>2, PlusIs, Zenon
<1>4. /\ f \in 0..CUINT-1
      /\ a + m < 0 => f = a + m + CUINT
      /\ a + m \in 0..CUINT-1 => f = a + m
      /\ a + m >= CUINT => f = a + m - CUINT
  BY <1>2, PlusIs, Zenon
<1> HIDE DEF b
<1>5. /\ d \in 0..CUINT-1
      /\ b + k < 0 => d = b + k + CUINT
      /\ b + k \in 0..CUINT-1 => d = b + k
      /\ b + k >= CUINT => d = b + k - CUINT
  BY <1>2, <1>3, PlusIs, Zenon
<1> HIDE DEF d, f
<1>6. m = j + k BY Zenon DEF m
<1>7. d = f BY <1>1, <1>3, <1>4, <1>5, <1>6
<1> QED BY <1>7, Zenon DEF d, f, b, m

(* Two counts of at most INPUT_BUF reach the same index only when equal.   *)
LEMMA PlusDistinct ==
  ASSUME NEW a \in 0..CUINT-1, NEW j \in 0..INPUT_BUF, NEW k \in 0..INPUT_BUF,
         plus(a, j) = plus(a, k)
  PROVE  j = k
<1>1. CUINT \in Nat /\ INPUT_BUF \in Nat /\ INPUT_BUF < CUINT BY ConsoleAssumption, Zenon
<1>2. j \in (-CUINT)..CUINT /\ k \in (-CUINT)..CUINT BY <1>1
<1>3. /\ a + j \in 0..CUINT-1 => plus(a, j) = a + j
      /\ a + j >= CUINT => plus(a, j) = a + j - CUINT
  BY <1>2, PlusIs, Zenon
<1>4. /\ a + k \in 0..CUINT-1 => plus(a, k) = a + k
      /\ a + k >= CUINT => plus(a, k) = a + k - CUINT
  BY <1>2, PlusIs, Zenon
<1> QED BY <1>1, <1>3, <1>4

(* Fewer than INPUT_BUF characters apart, two positions have slots of      *)
(* their own, although the index may wrap between them.                    *)
LEMMA SlotsDiffer ==
  ASSUME NEW a \in 0..CUINT-1, NEW j \in 0..INPUT_BUF, NEW k \in 0..INPUT_BUF,
         j < k, k - j < INPUT_BUF
  PROVE  SlotOf(a, j) # SlotOf(a, k)
<1> DEFINE x == a + j + CUINT
           y == a + k + CUINT
<1>1. /\ CUINT \in Nat \ {0} /\ INPUT_BUF \in Nat \ {0} /\ CUINT % INPUT_BUF = 0
      /\ x \in Int /\ y \in Int /\ x < y /\ y - x < INPUT_BUF
  BY ConsoleAssumption
<1>2. SlotOf(a, j) = (x % CUINT) % INPUT_BUF /\ SlotOf(a, k) = (y % CUINT) % INPUT_BUF
  BY Zenon DEF SlotOf, plus
<1> HIDE DEF x, y
<1>3. (x % CUINT) % INPUT_BUF = x % INPUT_BUF BY <1>1, WrapKeepsSlot, Zenon
<1>4. (y % CUINT) % INPUT_BUF = y % INPUT_BUF BY <1>1, WrapKeepsSlot, Zenon
<1>5. x % INPUT_BUF # y % INPUT_BUF BY <1>1, ModDistinct, Zenon
<1> QED BY <1>2, <1>3, <1>4, <1>5, Zenon

(* A slot is a slot of the array.                                          *)
LEMMA SlotType ==
  ASSUME NEW a \in 0..CUINT-1, NEW k \in 0..INPUT_BUF
  PROVE  SlotOf(a, k) \in 0..INPUT_BUF-1
<1> DEFINE x == plus(a, k)
<1>1. /\ INPUT_BUF \in Nat \ {0} /\ k \in (-CUINT)..CUINT
  BY ConsoleAssumption
<1>2. x \in Int BY <1>1, PlusIs
<1>3. SlotOf(a, k) = x % INPUT_BUF BY Zenon DEF SlotOf
<1> HIDE DEF x
<1> QED BY <1>1, <1>2, <1>3, DivMod, Zenon

-----------------------------------------------------------------------------
(* default: of consoleintr: a character stored at input.e joins the line.  *)
LEMMA RingEntry ==
  ASSUME NEW b \in [0..INPUT_BUF-1 -> Keys], NEW rr \in 0..CUINT-1,
         NEW q \in Seq(Chars), NEW l \in Seq(Chars), NEW c \in Chars,
         Ring(b, rr, q, l), Len(q) + Len(l) < INPUT_BUF
  PROVE  Ring([b EXCEPT ![SlotOf(rr, Len(q) + Len(l))] = c], rr, q, Append(l, c))
<1> DEFINE num == Len(q) + Len(l)
           s == SlotOf(rr, num)
           b2 == [b EXCEPT ![s] = c]
           l2 == Append(l, c)
<1>1. /\ INPUT_BUF \in Nat /\ Len(q) \in Nat /\ Len(l) \in Nat
      /\ num \in 0..INPUT_BUF /\ num < INPUT_BUF
  BY ConsoleAssumption, LenProperties
<1>2. /\ l2 \in Seq(Chars) /\ Len(l2) = Len(l) + 1
      /\ \A h \in 1..Len(l) : l2[h] = l[h]
      /\ l2[Len(l) + 1] = c
  BY AppendProperties
<1>3. num = Len(q) + Len(l) BY Zenon
<1> HIDE DEF num, l2
<1>4. s \in 0..INPUT_BUF-1 BY <1>1, SlotType, SMTT(60)
<1>5. ASSUME NEW k \in 0..num-1
      PROVE  b2[SlotOf(rr, k)] = b[SlotOf(rr, k)]
  <2>1. k \in 0..INPUT_BUF /\ k < num /\ num - k < INPUT_BUF BY <1>1
  <2>2. SlotOf(rr, k) # s BY <2>1, <1>1, SlotsDiffer, Zenon
  <2>3. SlotOf(rr, k) \in 0..INPUT_BUF-1 BY <2>1, SlotType, Zenon
  <2> QED BY <2>2, <2>3, Zenon
<1>6. b2[s] = c BY <1>4, Zenon
<1>6a. s = SlotOf(rr, num) BY Zenon
<1> HIDE DEF s, b2
<1>7. ASSUME NEW h \in 1..Len(q) PROVE b2[SlotOf(rr, h - 1)] = q[h]
  <2>1. h - 1 \in 0..num-1 BY <1>1, <1>3
  <2>2. b[SlotOf(rr, h - 1)] = q[h] BY Zenon DEF Ring
  <2> QED BY <2>1, <2>2, <1>5, Zenon
<1>8. ASSUME NEW h \in 1..Len(l2) PROVE b2[SlotOf(rr, Len(q) + h - 1)] = l2[h]
  <2>1. CASE h = Len(l) + 1
    <3>1. Len(q) + h - 1 = num BY <2>1, <1>1, <1>3
    <3> QED BY <3>1, <2>1, <1>6, <1>6a, <1>2, Zenon
  <2>2. CASE h \in 1..Len(l)
    <3>1. Len(q) + h - 1 \in 0..num-1 BY <2>2, <1>1, <1>3
    <3>2. b[SlotOf(rr, Len(q) + h - 1)] = l[h] BY <2>2, Zenon DEF Ring
    <3> QED BY <3>1, <3>2, <2>2, <1>5, <1>2, Zenon
  <2> QED BY <2>1, <2>2, <1>1, <1>2
<1>9. Len(q) + Len(l2) <= INPUT_BUF BY <1>1, <1>2, <1>3
<1>10. Ring(b2, rr, q, l2) BY <1>7, <1>8, <1>9, Zenon DEF Ring
<1> QED BY <1>10, <1>3, <1>6a, Zenon DEF b2, l2

(* input.w = input.e: the line joins the queue.                            *)
LEMMA RingCommit ==
  ASSUME NEW b, NEW rr \in 0..CUINT-1,
         NEW q \in Seq(Chars), NEW l \in Seq(Chars), Ring(b, rr, q, l)
  PROVE  Ring(b, rr, q \o l, <<>>)
<1> DEFINE t == q \o l
<1>1. Len(q) \in Nat /\ Len(l) \in Nat BY LenProperties, Zenon
<1>2. /\ Len(t) = Len(q) + Len(l)
      /\ \A h \in 1..Len(q) + Len(l) : t[h] = IF h <= Len(q) THEN q[h] ELSE l[h - Len(q)]
  BY ConcatProperties, Zenon
<1> HIDE DEF t
<1>3. ASSUME NEW h \in 1..Len(t) PROVE b[SlotOf(rr, h - 1)] = t[h]
  <2>1. CASE h <= Len(q)
    <3>1. h \in 1..Len(q) /\ t[h] = q[h] BY <1>1, <1>2, <2>1
    <3> QED BY <3>1, Zenon DEF Ring
  <2>2. CASE ~(h <= Len(q))
    <3> DEFINE j == h - Len(q)
    <3>1. j \in 1..Len(l) /\ t[h] = l[j] /\ Len(q) + j - 1 = h - 1
      BY <1>1, <1>2, <2>2
    <3> HIDE DEF j
    <3>2. b[SlotOf(rr, Len(q) + j - 1)] = l[j] BY <3>1, Zenon DEF Ring
    <3> QED BY <3>1, <3>2, Zenon
  <2> QED BY <2>1, <2>2, Zenon
<1>4. Len(<<>>) = 0 BY Zenon
<1>5. Len(t) + Len(<<>>) <= INPUT_BUF BY <1>1, <1>2, <1>4 DEF Ring
<1>6. Ring(b, rr, t, <<>>) BY <1>3, <1>4, <1>5 DEF Ring
<1> QED BY <1>6, Zenon DEF t

(* consoleread: input.r++ takes the head of the queue.                     *)
LEMMA RingTake ==
  ASSUME NEW b, NEW rr \in 0..CUINT-1,
         NEW q \in Seq(Chars), NEW l \in Seq(Chars), Ring(b, rr, q, l), Len(q) > 0
  PROVE  Ring(b, plus(rr, 1), Tail(q), l)
<1> DEFINE t == Tail(q)
           r1 == plus(rr, 1)
<1>1. Len(q) \in Nat /\ Len(l) \in Nat /\ INPUT_BUF \in Nat \ {0}
  BY LenProperties, ConsoleAssumption, Zenon
<1>2. q # <<>> OBVIOUS
<1>3. /\ Len(t) = Len(q) - 1
      /\ \A h \in 1..Len(t) : t[h] = q[h + 1]
  BY <1>2, HeadTailProperties, Zenon
<1> HIDE DEF t
<1>4. ASSUME NEW k \in 0..INPUT_BUF-1 PROVE SlotOf(r1, k) = SlotOf(rr, 1 + k)
  <2>1. /\ 1 \in 0..INPUT_BUF /\ k \in (-INPUT_BUF)..INPUT_BUF
        /\ 1 + k \in (-INPUT_BUF)..INPUT_BUF
    BY <1>1
  <2>2. plus(plus(rr, 1), k) = plus(rr, 1 + k) BY <2>1, PlusPlus, Zenon
  <2> QED BY <2>2, Zenon DEF SlotOf
<1> HIDE DEF r1
<1>5. Len(q) + Len(l) <= INPUT_BUF BY Zenon DEF Ring
<1>6. ASSUME NEW h \in 1..Len(t) PROVE b[SlotOf(r1, h - 1)] = t[h]
  <2> DEFINE j == h + 1
             k == h - 1
  <2>1. j \in 1..Len(q) /\ 1 + k = j - 1 /\ k \in 0..INPUT_BUF-1 /\ t[h] = q[j]
    BY <1>1, <1>3, <1>5
  <2>2. b[SlotOf(rr, j - 1)] = q[j] BY <2>1, Zenon DEF Ring
  <2>3. SlotOf(r1, k) = SlotOf(rr, 1 + k) BY <2>1, <1>4, Zenon
  <2> QED BY <2>1, <2>2, <2>3, Zenon
<1>7. ASSUME NEW h \in 1..Len(l) PROVE b[SlotOf(r1, Len(t) + h - 1)] = l[h]
  <2> DEFINE k == Len(t) + h - 1
  <2>1. 1 + k = Len(q) + h - 1 /\ k \in 0..INPUT_BUF-1
    BY <1>1, <1>3, <1>5
  <2>2. b[SlotOf(rr, Len(q) + h - 1)] = l[h] BY Zenon DEF Ring
  <2>3. SlotOf(r1, k) = SlotOf(rr, 1 + k) BY <2>1, <1>4, Zenon
  <2> QED BY <2>1, <2>2, <2>3, SMTT(60)
<1>8. Len(t) + Len(l) <= INPUT_BUF BY <1>1, <1>3, <1>5
<1>9. Ring(b, r1, t, l) BY <1>6, <1>7, <1>8, Zenon DEF Ring
<1> QED BY <1>9, Zenon DEF r1, t

(* Erasing: what stays of the line is where it was.                        *)
LEMMA RingErase ==
  ASSUME NEW b, NEW rr \in 0..CUINT-1, NEW q \in Seq(Chars), NEW l \in Seq(Chars),
         NEW m \in Seq(Chars), Ring(b, rr, q, l), Len(m) <= Len(l),
         \A h \in 1..Len(m) : m[h] = l[h]
  PROVE  Ring(b, rr, q, m)
<1>1. Len(q) \in Nat /\ Len(l) \in Nat /\ Len(m) \in Nat /\ INPUT_BUF \in Nat
  BY LenProperties, ConsoleAssumption, Zenon
<1>2. Len(q) + Len(m) <= INPUT_BUF BY <1>1 DEF Ring
<1>3. ASSUME NEW h \in 1..Len(m) PROVE b[SlotOf(rr, Len(q) + h - 1)] = m[h]
  <2>1. h \in 1..Len(l) BY <1>1
  <2> QED BY <2>1, Zenon DEF Ring
<1> QED BY <1>2, <1>3, Zenon DEF Ring

-----------------------------------------------------------------------------
(* What the indices say in a state of the invariant: the number of         *)
(* characters in the ring, whether a line has ended, whether it is full.   *)
LEMMA Counters ==
  ASSUME CTypes, RingInv
  PROVE  /\ Len(queue) \in Nat /\ Len(line) \in Nat
         /\ Len(queue) + Len(line) \in 0..INPUT_BUF
         /\ plus(e, -r) = Len(queue) + Len(line)
         /\ plus(e, -w) = Len(line)
         /\ r = w <=> Len(queue) = 0
         /\ e = w <=> Len(line) = 0
         /\ plus(e, 1) = plus(r, Len(queue) + Len(line) + 1)
         /\ \A c : EndsLine(c) <=> c \in {"\n", "^D"} \/ Len(queue) + Len(line) + 1 = INPUT_BUF
<1> DEFINE m == Len(queue)
           num == Len(queue) + Len(line)
           l == Len(line)
<1>1. /\ m \in Nat /\ l \in Nat /\ num = m + l /\ num \in 0..INPUT_BUF /\ m \in 0..INPUT_BUF
      /\ CUINT \in Nat /\ INPUT_BUF \in Nat \ {0} /\ INPUT_BUF < CUINT
      /\ r \in 0..CUINT-1 /\ w \in 0..CUINT-1 /\ e \in 0..CUINT-1
      /\ w = plus(r, m) /\ e = plus(r, num)
  BY LenProperties, ConsoleAssumption, SMTT(60) DEF CTypes, RingInv, Ring
<1> HIDE DEF m, num, l
<1>2. m \in (-CUINT)..CUINT /\ num \in (-CUINT)..CUINT BY <1>1
<1>3. /\ r + m \in 0..CUINT-1 => w = r + m
      /\ r + m >= CUINT => w = r + m - CUINT
  BY <1>1, <1>2, PlusIs, Zenon
<1>4. /\ r + num \in 0..CUINT-1 => e = r + num
      /\ r + num >= CUINT => e = r + num - CUINT
  BY <1>1, <1>2, PlusIs, Zenon
<1>5. plus(e, -r) = num
  <2> DEFINE k == -r
  <2>1. k \in (-CUINT)..CUINT /\ k = -r BY <1>1
  <2> HIDE DEF k
  <2>2. /\ e + k < 0 => plus(e, k) = e + k + CUINT
        /\ e + k \in 0..CUINT-1 => plus(e, k) = e + k
        /\ e + k >= CUINT => plus(e, k) = e + k - CUINT
    BY <2>1, <1>1, PlusIs, Zenon
  <2>3. plus(e, k) = num BY <2>1, <2>2, <1>1, <1>4
  <2> QED BY <2>3, <2>1, Zenon
<1>6. plus(e, -w) = l
  <2> DEFINE k == -w
  <2>1. k \in (-CUINT)..CUINT /\ k = -w BY <1>1
  <2> HIDE DEF k
  <2>2. /\ e + k < 0 => plus(e, k) = e + k + CUINT
        /\ e + k \in 0..CUINT-1 => plus(e, k) = e + k
        /\ e + k >= CUINT => plus(e, k) = e + k - CUINT
    BY <2>1, <1>1, PlusIs, Zenon
  <2>3. plus(e, k) = l BY <2>1, <2>2, <1>1, <1>3, <1>4
  <2> QED BY <2>3, <2>1, Zenon
<1>7. r = w <=> m = 0 BY <1>1, <1>3
<1>8. e = w <=> l = 0 BY <1>1, <1>3, <1>4
<1>9. plus(e, 1) = plus(r, num + 1)
  <2> DEFINE k == num + 1
  <2>1. 1 \in (-CUINT)..CUINT /\ k \in (-CUINT)..CUINT /\ k = num + 1 BY <1>1
  <2> HIDE DEF k
  <2>2. /\ r + k \in 0..CUINT-1 => plus(r, k) = r + k
        /\ r + k >= CUINT => plus(r, k) = r + k - CUINT
    BY <2>1, <1>1, PlusIs, ZenonT(60)
  <2>3. /\ e + 1 \in 0..CUINT-1 => plus(e, 1) = e + 1
        /\ e + 1 >= CUINT => plus(e, 1) = e + 1 - CUINT
    BY <2>1, <1>1, PlusIs, Zenon
  <2>4. plus(e, 1) = plus(r, k) BY <2>1, <2>2, <2>3, <1>1, <1>4
  <2> QED BY <2>4, <2>1, Zenon
<1>10. plus(e, 1) = plus(r, INPUT_BUF) <=> num + 1 = INPUT_BUF
  <2> DEFINE k == num + 1
  <2>1. k \in 0..INPUT_BUF \/ k = INPUT_BUF + 1 BY <1>1
  <2>2. k \in (-CUINT)..CUINT /\ INPUT_BUF \in (-CUINT)..CUINT /\ k = num + 1 BY <1>1
  <2> HIDE DEF k
  <2>3. /\ r + k \in 0..CUINT-1 => plus(r, k) = r + k
        /\ r + k >= CUINT => plus(r, k) = r + k - CUINT
    BY <2>2, <1>1, PlusIs, ZenonT(60)
  <2>4. /\ r + INPUT_BUF \in 0..CUINT-1 => plus(r, INPUT_BUF) = r + INPUT_BUF
        /\ r + INPUT_BUF >= CUINT => plus(r, INPUT_BUF) = r + INPUT_BUF - CUINT
    BY <2>2, <1>1, PlusIs, Zenon
  <2>5. plus(r, k) = plus(r, INPUT_BUF) <=> k = INPUT_BUF
    BY <1>1, <2>1, <2>2, <2>3, <2>4
  <2> QED BY <2>5, <2>2, <1>9, Zenon
<1>11. \A c : EndsLine(c) <=> c \in {"\n", "^D"} \/ num + 1 = INPUT_BUF
  BY <1>10, Zenon DEF EndsLine
<1>12. num + 1 = Len(queue) + Len(line) + 1 BY Zenon DEF num
<1> QED BY <1>1, <1>5, <1>6, <1>7, <1>8, <1>9, <1>11, <1>12, Zenon DEF m, num, l

(* C('U'): the loop that looks for a newline stops only at input.w, since  *)
(* a newline has ended its line; it takes back the whole line.             *)
LEMMA KillsLine ==
  ASSUME CTypes, RingInv
  PROVE  KillTo = Len(line)
<1> DEFINE num == Len(line)
           P(k) == /\ \A j \in 0..k-1 : at(plus(e, -1 - j)) # "\n"
                   /\ k = plus(e, -w) \/ at(plus(e, -1 - k)) = "\n"
<1>1. plus(e, -w) = num /\ num \in Nat /\ Len(queue) \in Nat
      /\ Len(queue) + num \in 0..INPUT_BUF
  BY Counters, Zenon
<1>2. ASSUME NEW j \in 0..num-1 PROVE at(plus(e, -1 - j)) = "x"
  <2> DEFINE a == Len(queue) + num
             k == -1 - j
             h == num - j
  <2>1. /\ a \in 0..INPUT_BUF /\ k \in (-INPUT_BUF)..INPUT_BUF
        /\ a + k \in (-INPUT_BUF)..INPUT_BUF /\ r \in 0..CUINT-1
        /\ a + k = Len(queue) + h - 1 /\ h \in 1..num
    BY <1>1, ConsoleAssumption DEF CTypes
  <2>2. e = plus(r, a) BY Zenon DEF RingInv
  <2> HIDE DEF a, k, h
  <2>3. plus(plus(r, a), k) = plus(r, a + k) BY <2>1, PlusPlus, Zenon
  <2>4. inbuf[SlotOf(r, Len(queue) + h - 1)] = line[h]
    BY <2>1, Zenon DEF RingInv, Ring
  <2>5. line[h] = "x"
    <3>1. line \in Seq({"x"}) BY Zenon DEF CTypes
    <3> QED BY <3>1, <2>1, ElementOfSeq
  <2>6. at(plus(e, k)) = "x" BY <2>1, <2>2, <2>3, <2>4, <2>5, SMTT(60) DEF at, SlotOf
  <2> QED BY <2>6, Zenon DEF k
<1>3. KillTo = CHOOSE k \in 0..num : P(k) BY <1>1, SMTT(60) DEF KillTo
<1> HIDE DEF num
<1>4. num \in 0..num /\ P(num)
  <2>1. \A j \in 0..num-1 : at(plus(e, -1 - j)) # "\n" BY <1>2, Zenon
  <2> QED BY <2>1, <1>1
<1>5. ASSUME NEW k \in 0..num, P(k) PROVE k = num
  <2> SUFFICES ASSUME k # num PROVE FALSE BY Zenon
  <2>1. k \in 0..num-1 BY <1>1
  <2>2. at(plus(e, -1 - k)) = "\n" BY <1>1, <1>5, Zenon
  <2> QED BY <2>1, <2>2, <1>2, Zenon
<1> HIDE DEF P
<1>6. (CHOOSE k \in 0..num : P(k)) = num BY <1>4, <1>5, Zenon
<1> QED BY <1>3, <1>6, Zenon DEF num

-----------------------------------------------------------------------------
LastRow == (ROWS - 1) * COLS

(* Scrolling brings a cursor that has reached the last row back above it.  *)
LEMMA ScrolledFits ==
  ASSUME NEW q \in 0..LastRow
  PROVE  Scrolled(q) \in 0..LastRow-1
<1> DEFINE d == q \div COLS
           s == q % COLS
           num == ROWS - 1
<1>1. COLS \in Nat \ {0} /\ num \in Nat \ {0} /\ LastRow = COLS * num /\ LastRow \in Int
  BY ConsoleAssumption DEF LastRow
<1>2. d \in Int /\ s \in 0..COLS-1 /\ q = COLS * d + s BY <1>1, DivMod
<1>3. Scrolled(q) = IF d >= num THEN q - COLS ELSE q BY Zenon DEF Scrolled
<1> HIDE DEF d, s, num
<1>4. COLS * num >= COLS BY <1>1, AtLeast
<1>5. CASE d >= num
  <2>1. COLS * (d - num) >= 0 BY <1>1, <1>2, <1>5
  <2>2. COLS * (d - num) = COLS * d - COLS * num BY <1>1, <1>2
  <2>3. COLS * d \in Int BY <1>1, <1>2
  <2>4. q = LastRow BY <1>1, <1>2, <2>1, <2>2, <2>3
  <2> QED BY <2>4, <1>1, <1>3, <1>4, <1>5
<1>6. CASE ~(d >= num)
  <2>1. num - d \in Int /\ num - d >= 1 BY <1>1, <1>2, <1>6
  <2> DEFINE k == num - d
  <2> HIDE DEF k
  <2>2. COLS * k >= COLS BY <2>1, <1>1, AtLeast, Zenon DEF k
  <2>3. COLS * k = COLS * num - COLS * d BY <1>1, <1>2 DEF k
  <2>4. COLS * d \in Int BY <1>1, <1>2
  <2>5. q < LastRow BY <2>2, <2>3, <2>4, <1>1, <1>2
  <2> QED BY <2>5, <1>1, <1>3, <1>6
<1> QED BY <1>5, <1>6, Zenon

(* cgaputc keeps the cursor on the screen, for every character.            *)
LEMMA CursorMoves ==
  ASSUME NEW q \in 0..LastRow-1, NEW c
  PROVE  cgaputc(q, c) \in 0..LastRow-1
<1> DEFINE d == q \div COLS
           s == q % COLS
           num == ROWS - 1
           x == CASE c = "\n" -> (q + COLS) - s
                  [] c = "BS" -> IF q > 0 THEN q - 1 ELSE q
                  [] OTHER -> q + 1
<1>1. COLS \in Nat \ {0} /\ num \in Nat \ {0} /\ LastRow = COLS * num /\ LastRow \in Int
  BY ConsoleAssumption DEF LastRow
<1>2. d \in Int /\ s \in 0..COLS-1 /\ q = COLS * d + s BY <1>1, DivMod
<1>3. cgaputc(q, c) = Scrolled(x) BY Zenon DEF cgaputc
<1> HIDE DEF d, s, num
<1>4. (q + COLS) - s \in 0..LastRow
  <2>1. ASSUME d >= num PROVE FALSE
    <3>1. COLS * (d - num) >= 0 BY <1>1, <1>2, <2>1
    <3>2. COLS * (d - num) = COLS * d - COLS * num BY <1>1, <1>2
    <3>3. COLS * d \in Int BY <1>1, <1>2
    <3> QED BY <1>1, <1>2, <3>1, <3>2, <3>3
  <2>2. num - d \in Int /\ num - d >= 1 BY <1>1, <1>2, <2>1
  <2> DEFINE k == num - d
  <2> HIDE DEF k
  <2>3. COLS * k >= COLS BY <2>2, <1>1, AtLeast, Zenon DEF k
  <2>4. COLS * k = COLS * num - COLS * d BY <1>1, <1>2 DEF k
  <2>5. COLS * d \in Int BY <1>1, <1>2
  <2> QED BY <2>3, <2>4, <2>5, <1>1, <1>2
<1>5. x \in 0..LastRow
  <2>1. CASE c = "\n" BY <2>1, <1>4, Zenon
  <2>2. CASE c = "BS" BY <2>2, <1>1
  <2>3. CASE c # "\n" /\ c # "BS" BY <2>3, <1>1
  <2> QED BY <2>1, <2>2, <2>3, Zenon
<1> HIDE DEF x
<1> QED BY <1>3, <1>5, ScrolledFits, Zenon

(* C('U') leaves the cursor on the screen too.                             *)
LEMMA CursorErases ==
  ASSUME NEW q \in 0..LastRow-1, NEW k \in Nat
  PROVE  erased(q, k) \in 0..LastRow-1
<1> DEFINE x == IF q > k THEN q - k ELSE 0
<1>1. LastRow \in Int BY ConsoleAssumption DEF LastRow
<1>2. x \in 0..LastRow BY <1>1
<1>3. erased(q, k) = Scrolled(x) BY Zenon DEF erased
<1> HIDE DEF x
<1> QED BY <1>2, <1>3, ScrolledFits, Zenon

-----------------------------------------------------------------------------
(* An edited line is a sequence of ordinary characters.                    *)
LEMMA PlainLine ==
  ASSUME NEW s \in Seq({"x"})
  PROVE  s \in Seq(Chars)
<1>1. s \in [1..Len(s) -> {"x"}] /\ Len(s) \in Nat BY LenProperties, Zenon
<1>2. s \in [1..Len(s) -> Chars] BY <1>1, Zenon DEF Chars
<1> QED BY <1>1, <1>2

(* The console starts empty.                                               *)
LEMMA ConsoleInit == CInit => CInv
<1> SUFFICES ASSUME CInit PROVE CInv BY Zenon
<1>1. CUINT \in Nat \ {0} /\ INPUT_BUF \in Nat \ {0} /\ MaxRead \in Nat
  BY ConsoleAssumption
<1>2. queue \in Seq(Chars) /\ line \in Seq({"x"}) /\ Len(queue) = 0 /\ Len(line) = 0
  BY EmptySeq, Zenon DEF CInit
<1>3. CTypes
  <2>1. inbuf \in [0..INPUT_BUF-1 -> Keys] BY Zenon DEF CInit, Keys
  <2>2. r \in 0..CUINT-1 /\ w \in 0..CUINT-1 /\ e \in 0..CUINT-1 BY <1>1 DEF CInit
  <2>3. /\ conslock \in Readers \cup {NoReader} /\ rpc \in [Readers -> ReaderPC]
        /\ rkilled \in [Readers -> BOOLEAN]
    BY Zenon DEF CInit, ReaderPC
  <2>4. left \in [Readers -> 0..MaxRead] /\ target \in [Readers -> 0..MaxRead]
    BY <1>1 DEF CInit
  <2>5. \A p \in Readers : left[p] <= target[p] BY DEF CInit
  <2> QED BY <1>2, <2>1, <2>2, <2>3, <2>4, <2>5, Zenon DEF CTypes
<1>4. RingInv
  <2>1. Ring(inbuf, r, queue, line) BY <1>1, <1>2 DEF Ring
  <2>2. plus(0, 0) = 0
    <3>1. 0 \in 0..CUINT-1 /\ 0 \in (-CUINT)..CUINT /\ 0 + 0 = 0 BY <1>1
    <3> QED BY <3>1, PlusIs, Zenon
  <2>3. w = plus(r, Len(queue)) /\ e = plus(r, Len(queue) + Len(line))
    BY <1>2, <2>2 DEF CInit
  <2> QED BY <1>1, <1>2, <2>1, <2>3 DEF RingInv
<1>5. ReaderInv BY Zenon DEF CInit, ReaderInv
<1>6. CursorOnScreen
  <2> DEFINE num == ROWS - 1
  <2>1. num \in Nat \ {0} /\ COLS \in Nat \ {0} BY ConsoleAssumption
  <2>1a. CursorOnScreen <=> pos \in 0..num * COLS - 1 BY Zenon DEF CursorOnScreen
  <2> HIDE DEF num
  <2>2. COLS * num >= COLS BY <2>1, AtLeast
  <2>3. num * COLS \in Int /\ num * COLS > 0 BY <2>1, <2>2
  <2> QED BY <2>1a, <2>3 DEF CInit
<1> QED BY <1>3, <1>4, <1>5, <1>6, Zenon DEF CInv

(* A step that leaves the ring alone keeps what is said of it.             *)
LEMMA RingFrame ==
  ASSUME RingInv, input' = input, queue' = queue, line' = line
  PROVE  RingInv'
BY Zenon DEF RingInv, Ring, SlotOf, plus, input

(* The same for the types of the ring.                                     *)
InputTypes ==
  /\ inbuf \in [0..INPUT_BUF-1 -> Keys]
  /\ r \in 0..CUINT-1 /\ w \in 0..CUINT-1 /\ e \in 0..CUINT-1
  /\ queue \in Seq(Chars) /\ line \in Seq({"x"})
CallTypes ==
  /\ conslock \in Readers \cup {NoReader}
  /\ rpc \in [Readers -> ReaderPC]
  /\ left \in [Readers -> 0..MaxRead] /\ target \in [Readers -> 0..MaxRead]
  /\ \A p \in Readers : left[p] <= target[p]
  /\ rkilled \in [Readers -> BOOLEAN]

(* C('U') and C('H'): a step that shortens the line to m and moves input.e *)
(* back by as much.                                                        *)
LEMMA Shortened ==
  ASSUME CTypes, RingInv, NEW m \in Seq({"x"}), Len(m) <= Len(line),
         line' = m, e' = plus(e, Len(m) - Len(line)), UNCHANGED <<inbuf, r, w, queue>>
  PROVE  InputTypes' /\ RingInv'
<1> DEFINE num == Len(queue) + Len(line)
           k == Len(m) - Len(line)
<1>1. /\ Len(queue) \in Nat /\ Len(line) \in Nat /\ Len(m) \in Nat
      /\ num \in 0..INPUT_BUF /\ CUINT \in Nat /\ INPUT_BUF \in Nat /\ INPUT_BUF < CUINT
  BY Counters, LenProperties, ConsoleAssumption, Zenon
<1>2. line \in Seq({"x"}) /\ queue \in Seq(Chars) /\ r \in 0..CUINT-1 /\ e = plus(r, num)
  BY Zenon DEF CTypes, RingInv
<1>3. line \in Seq(Chars) /\ m \in Seq(Chars) BY <1>2, PlainLine, Zenon
<1>4. \A h \in 1..Len(m) : m[h] = line[h]
  <2> TAKE h \in 1..Len(m)
  <2>1. h \in 1..Len(line) BY <1>1
  <2>2. m[h] \in {"x"} BY ElementOfSeq, Zenon
  <2>3. line[h] \in {"x"} BY <1>2, <2>1, ElementOfSeq, Zenon
  <2> QED BY <2>2, <2>3, Zenon
<1>5. Ring(inbuf, r, queue, m) BY <1>2, <1>3, <1>4, RingErase, Zenon DEF RingInv
<1>6. k \in (-INPUT_BUF)..INPUT_BUF /\ num + k \in (-INPUT_BUF)..INPUT_BUF
      /\ num + k = Len(queue) + Len(m) /\ k \in (-CUINT)..CUINT
      /\ e' = plus(e, k)
  BY <1>1
<1> HIDE DEF num, k
<1>7. plus(plus(r, num), k) = plus(r, num + k) BY <1>1, <1>2, <1>6, PlusPlus, Zenon
<1>8. e' = plus(r, Len(queue) + Len(m)) BY <1>2, <1>6, <1>7, Zenon
<1>9. e' \in 0..CUINT-1
  <2>1. e \in 0..CUINT-1 BY Zenon DEF CTypes
  <2> QED BY <2>1, <1>6, PlusIs, Zenon
<1>10. InputTypes' BY <1>9, Zenon DEF InputTypes, CTypes
<1>11. RingInv'
  <2>2. (w = plus(r, Len(queue)))' BY Zenon DEF RingInv, plus
  <2>3. (e = plus(r, Len(queue) + Len(line)))' BY <1>8, Zenon DEF plus
  <2>4. (Len(queue) = 0 => Len(line) < INPUT_BUF)' BY <1>1 DEF RingInv
  <2>5. Ring(inbuf, r, queue, line)' BY <1>5, Zenon DEF Ring, SlotOf, plus
  <2> QED BY <2>2, <2>3, <2>4, <2>5, Zenon DEF RingInv
<1> QED BY <1>10, <1>11, Zenon

(* default: of consoleintr.  The character joins the line, and the line    *)
(* joins the queue when it has ended.                                      *)
LEMMA Stored ==
  ASSUME CTypes, RingInv, NEW c \in Chars, HasRoom, store(c)
  PROVE  InputTypes' /\ RingInv'
<1> DEFINE num == Len(queue) + Len(line)
           b == [inbuf EXCEPT ![SlotOf(r, num)] = c]
           l == Append(line, c)
<1>1. /\ Len(queue) \in Nat /\ Len(line) \in Nat /\ num \in 0..INPUT_BUF
      /\ plus(e, -r) = num /\ plus(e, 1) = plus(r, num + 1)
      /\ CUINT \in Nat /\ INPUT_BUF \in Nat /\ INPUT_BUF < CUINT
  BY Counters, ConsoleAssumption, Zenon
<1>2. /\ inbuf \in [0..INPUT_BUF-1 -> Keys] /\ r \in 0..CUINT-1 /\ e \in 0..CUINT-1
      /\ queue \in Seq(Chars) /\ line \in Seq({"x"}) /\ w \in 0..CUINT-1
  BY Zenon DEF CTypes
<1>3. line \in Seq(Chars) BY <1>2, PlainLine, Zenon
<1>4. num < INPUT_BUF BY <1>1, Zenon DEF HasRoom
<1>5. inbuf' = b /\ e' = plus(e, 1) /\ r' = r
  BY Zenon DEF store, RingInv, SlotOf
<1>6. b \in [0..INPUT_BUF-1 -> Keys] BY <1>2, Zenon DEF Keys
<1>7. e' \in 0..CUINT-1
  <2>1. 1 \in (-CUINT)..CUINT BY <1>1
  <2> QED BY <2>1, <1>2, <1>5, PlusIs, Zenon
<1>8. Ring(b, r, queue, l)
  BY <1>2, <1>3, <1>4, RingEntry, Zenon DEF RingInv
<1>9. l \in Seq(Chars) /\ Len(l) = Len(line) + 1 BY <1>3, AppendProperties, Zenon
<1>9a. num + 1 = Len(queue) + Len(l) BY <1>1, <1>9
<1>9b. num = Len(queue) + Len(line) BY Zenon
<1> HIDE DEF num, b
<1>10. CASE EndsLine(c)
  <2> DEFINE q == queue \o l
  <2>1. w' = e' /\ queue' = q /\ line' = <<>> BY <1>10, Zenon DEF store
  <2>2. q \in Seq(Chars) /\ Len(q) = Len(queue) + Len(l) BY <1>2, <1>9, ConcatProperties, Zenon
  <2>3. Ring(b, r, q, <<>>) BY <1>2, <1>8, <1>9, RingCommit, Zenon
  <2> HIDE DEF q, l
  <2>4. <<>> \in Seq({"x"}) /\ Len(<<>>) = 0 BY EmptySeq, Zenon
  <2>5. InputTypes' BY <1>2, <1>5, <1>6, <1>7, <2>1, <2>2, <2>4, Zenon DEF InputTypes
  <2>6. Ring(inbuf, r, queue, line)' BY <1>5, <2>1, <2>3, Zenon DEF Ring, SlotOf, plus
  <2>7. e' = plus(r, Len(q)) BY <1>1, <1>5, <1>9a, <2>2, Zenon
  <2>8. (w = plus(r, Len(queue)))' BY <1>5, <2>1, <2>7, Zenon DEF plus
  <2>9. Len(q) + 0 = Len(q) BY <1>1, <1>9, <2>2
  <2>10. (e = plus(r, Len(queue) + Len(line)))' BY <1>5, <2>1, <2>4, <2>7, <2>9, Zenon DEF plus
  <2>11. (Len(queue) = 0 => Len(line) < INPUT_BUF)' BY <1>1, <1>4, <2>1, <2>4
  <2> QED BY <2>5, <2>6, <2>8, <2>10, <2>11, Zenon DEF RingInv
<1>11. CASE ~EndsLine(c)
  <2>1. line' = l /\ w' = w /\ queue' = queue BY <1>11, Zenon DEF store
  <2>2. c = "x" /\ num + 1 # INPUT_BUF
    <3>1. ~(c \in {"\n", "^D"} \/ num + 1 = INPUT_BUF) BY <1>11, <1>9b, Counters, Zenon
    <3> QED BY <3>1, Zenon DEF Chars
  <2>3. l \in Seq({"x"}) BY <1>2, <2>2, AppendProperties, Zenon
  <2> HIDE DEF l
  <2>4. InputTypes' BY <1>2, <1>5, <1>6, <1>7, <2>1, <2>3, Zenon DEF InputTypes
  <2>5. Ring(inbuf, r, queue, line)' BY <1>5, <1>8, <2>1, Zenon DEF Ring, SlotOf, plus
  <2>6. (w = plus(r, Len(queue)))' BY <1>5, <2>1, Zenon DEF RingInv, plus
  <2>7. e' = plus(r, Len(queue) + Len(l)) BY <1>1, <1>5, <1>9a, Zenon
  <2>8. (e = plus(r, Len(queue) + Len(line)))' BY <1>5, <2>1, <2>7, Zenon DEF plus
  <2>9. (Len(queue) = 0 => Len(line) < INPUT_BUF)'
    BY <1>1, <1>4, <1>9, <1>9a, <2>1, <2>2
  <2> QED BY <2>4, <2>5, <2>6, <2>8, <2>9, Zenon DEF RingInv
<1> QED BY <1>10, <1>11, Zenon

(* consoleread: the character at input.r is taken.                         *)
LEMMA Taken ==
  ASSUME CTypes, RingInv, r # w, r' = plus(r, 1), queue' = Tail(queue),
         UNCHANGED <<inbuf, w, e, line>>
  PROVE  InputTypes' /\ RingInv'
<1> DEFINE num == Len(queue) + Len(line)
           m == Len(queue)
           t == Tail(queue)
           r1 == plus(r, 1)
           m1 == m - 1
           n1 == num - 1
<1>1. /\ m \in Nat /\ Len(line) \in Nat /\ num \in 0..INPUT_BUF /\ m > 0
      /\ num = m + Len(line)
      /\ CUINT \in Nat /\ INPUT_BUF \in Nat \ {0} /\ INPUT_BUF < CUINT
  BY Counters, ConsoleAssumption
<1>2. /\ r \in 0..CUINT-1 /\ queue \in Seq(Chars) /\ line \in Seq({"x"})
      /\ w = plus(r, m) /\ e = plus(r, num)
  BY Zenon DEF CTypes, RingInv
<1>3. line \in Seq(Chars) BY <1>2, PlainLine, Zenon
<1>4. Ring(inbuf, r1, t, line)
  BY <1>1, <1>2, <1>3, RingTake, Zenon DEF RingInv
<1>5. queue # <<>> BY <1>1
<1>6. t \in Seq(Chars) /\ Len(t) = m1 BY <1>2, <1>5, HeadTailProperties, Zenon
<1> HIDE DEF num, m, t
<1>7. r1 \in 0..CUINT-1
  <2>1. 1 \in (-CUINT)..CUINT BY <1>1
  <2> QED BY <2>1, <1>2, PlusIs, Zenon
<1>8. /\ 1 \in 0..INPUT_BUF /\ m1 \in (-INPUT_BUF)..INPUT_BUF /\ 1 + m1 = m
      /\ n1 \in (-INPUT_BUF)..INPUT_BUF /\ 1 + n1 = num
      /\ 1 + m1 \in (-INPUT_BUF)..INPUT_BUF /\ 1 + n1 \in (-INPUT_BUF)..INPUT_BUF
      /\ m1 + Len(line) = n1 /\ m1 + Len(line) < INPUT_BUF
  BY <1>1
<1> HIDE DEF m1, n1
<1>9. plus(r1, m1) = w BY <1>2, <1>8, PlusPlus, Zenon
<1>10. plus(r1, n1) = e BY <1>2, <1>8, PlusPlus, Zenon
<1> HIDE DEF r1
<1>10a. r' = r1 /\ queue' = t BY Zenon DEF r1, t
<1>11. InputTypes' BY <1>6, <1>7, <1>10a, Zenon DEF InputTypes, CTypes
<1>12. Ring(inbuf, r, queue, line)' BY <1>4, <1>10a, Zenon DEF Ring, SlotOf, plus
<1>13. (w = plus(r, Len(queue)))' BY <1>6, <1>9, <1>10a, Zenon DEF plus
<1>14. (e = plus(r, Len(queue) + Len(line)))' BY <1>6, <1>8, <1>10, <1>10a, Zenon DEF plus
<1>15. (Len(line) < INPUT_BUF)'
  <2>1. m1 + Len(line) < INPUT_BUF /\ m1 \in Nat BY <1>1, <1>8 DEF m1
  <2> QED BY <2>1, <1>1
<1> QED BY <1>11, <1>12, <1>13, <1>14, <1>15, Zenon DEF RingInv

-----------------------------------------------------------------------------
(* consoleintr, for every key: the line is edited, or ends and wakes every *)
(* sleeping reader.                                                        *)
LEMMA IntrInv ==
  ASSUME CInv, NEW c \in Keys, consoleintr(c)
  PROVE  CInv'
<1>1. CTypes /\ RingInv /\ ReaderInv /\ pos \in 0..LastRow-1
  BY Zenon DEF CInv, CursorOnScreen, LastRow
<1> DEFINE num == Len(line)
<1>2. num \in Nat /\ line \in Seq({"x"}) /\ KillTo = num /\ (e = w <=> num = 0)
  BY <1>1, Counters, KillsLine, SMTT(60) DEF CTypes
<1>3. UNCHANGED <<conslock, left, target, rkilled>> BY Zenon DEF consoleintr
<1>3a. \A q \in Readers : rpc[q] \notin {"loop", "doze"}
  BY <1>1, ConsoleAssumption, Zenon DEF consoleintr, ReaderInv
<1>4. SUFFICES /\ InputTypes' /\ RingInv' /\ rpc' \in [Readers -> ReaderPC]
               /\ ReaderInv' /\ pos' \in 0..LastRow-1
  BY <1>1, <1>3, SMTT(60) DEF CTypes, InputTypes, CInv, CursorOnScreen, LastRow
<1>5. CASE UNCHANGED <<input, rpc, pos, queue, line>>
  <2>1. RingInv' BY <1>1, <1>5, RingFrame, Zenon
  <2> QED BY <1>1, <1>3, <1>5, <2>1, Zenon DEF InputTypes, CTypes, ReaderInv, input
<1>6. CASE /\ c = "^U" /\ e' = plus(e, -KillTo) /\ pos' = erased(pos, KillTo)
           /\ line' = <<>> /\ UNCHANGED <<inbuf, r, w, rpc, queue>>
  <2>1. <<>> \in Seq({"x"}) /\ Len(<<>>) = 0 BY EmptySeq, Zenon
  <2>2. -num = 0 - num BY <1>2
  <2>3. e' = plus(e, Len(<<>>) - num) BY <1>2, <1>6, <2>1, <2>2, Zenon
  <2>4. Len(<<>>) <= num BY <1>2, <2>1
  <2>5. InputTypes' /\ RingInv' BY <1>1, <1>6, <2>1, <2>3, <2>4, Shortened, Zenon
  <2>6. pos' \in 0..LastRow-1 BY <1>1, <1>2, <1>6, CursorErases, Zenon
  <2> QED BY <1>1, <1>3, <1>6, <2>5, <2>6, Zenon DEF CTypes, ReaderInv
<1>7. CASE /\ c = "^H" /\ Editable
           /\ e' = plus(e, -1) /\ pos' = cgaputc(pos, "BS")
           /\ line' = SubSeq(line, 1, Len(line) - 1) /\ UNCHANGED <<inbuf, r, w, rpc, queue>>
  <2> DEFINE k == num - 1
             m == SubSeq(line, 1, k)
  <2>1. k \in Int /\ 1 \in Int /\ k >= 0 BY <1>2, <1>7 DEF Editable
  <2>2. \A h \in 1..k : line[h] \in {"x"}
    <3> TAKE h \in 1..k
    <3>1. h \in 1..Len(line) BY <1>2
    <3> QED BY <3>1, <1>2, ElementOfSeq, Zenon
  <2> HIDE DEF k
  <2>3. m \in Seq({"x"}) /\ Len(m) = (IF 1 <= k THEN k - 1 + 1 ELSE 0)
    BY <2>1, <2>2, SubSeqProperties
  <2>4. Len(m) = k BY <2>1, <2>3
  <2>5. line' = m BY <1>7, Zenon DEF k
  <2> HIDE DEF m
  <2>6. Len(m) - num = -1 /\ Len(m) <= num BY <1>2, <2>4 DEF k
  <2>7. e' = plus(e, Len(m) - num) BY <1>7, <2>6, Zenon
  <2>8. InputTypes' /\ RingInv' BY <1>1, <1>7, <2>3, <2>5, <2>6, <2>7, Shortened, Zenon
  <2>9. pos' \in 0..LastRow-1 BY <1>1, <1>7, CursorMoves, Zenon
  <2> QED BY <1>1, <1>3, <1>7, <2>8, <2>9, Zenon DEF CTypes, ReaderInv
<1>8. CASE /\ c \in Chars \cup {"\r"} /\ HasRoom
           /\ store(IF c = "\r" THEN "\n" ELSE c)
  <2> DEFINE d == IF c = "\r" THEN "\n" ELSE c
  <2>1. d \in Chars BY <1>8, Zenon DEF Chars
  <2>2. store(d) /\ HasRoom BY <1>8, Zenon
  <2> HIDE DEF d
  <2>3. InputTypes' /\ RingInv' BY <1>1, <2>1, <2>2, Stored, Zenon
  <2>4. pos' = cgaputc(pos, d) /\ r' = r BY <2>2, Zenon DEF store
  <2>5. pos' \in 0..LastRow-1 BY <1>1, <2>4, CursorMoves, Zenon
  <2>6. \/ rpc' = WakeReader(rpc)
        \/ w' = w /\ rpc' = rpc
    BY <2>2, Zenon DEF store
  <2>7. rpc' \in [Readers -> ReaderPC] BY <1>1, <2>6, Zenon DEF CTypes, WakeReader, ReaderPC
  <2>8. ReaderInv'
    <3>1. CASE rpc' = WakeReader(rpc)
      BY <3>1, <1>3a, Zenon DEF ReaderInv, WakeReader
    <3>2. CASE w' = w /\ rpc' = rpc
      BY <3>2, <1>1, <1>3, <2>4, Zenon DEF ReaderInv
    <3> QED BY <2>6, <3>1, <3>2, Zenon
  <2> QED BY <2>3, <2>5, <2>7, <2>8, Zenon
<1> QED BY <1>5, <1>6, <1>7, <1>8, Zenon DEF consoleintr

(* A turn of consoleread's loop.                                           *)
LEMMA LoopInv ==
  ASSUME CInv, NEW p \in Readers, readloop(p)
  PROVE  CInv'
<1>1. CTypes /\ RingInv /\ ReaderInv /\ CursorOnScreen BY Zenon DEF CInv
<1>2. UNCHANGED <<target, rkilled, pos, line>> /\ rpc[p] = "loop" BY Zenon DEF readloop
<1>3. CursorOnScreen' BY <1>1, <1>2, Zenon DEF CursorOnScreen
<1>4. SUFFICES /\ InputTypes' /\ RingInv' /\ conslock' \in Readers \cup {NoReader}
               /\ rpc' \in [Readers -> ReaderPC] /\ left' \in [Readers -> 0..MaxRead]
               /\ \A q \in Readers : left'[q] <= left[q]
               /\ ReaderInv'
  <2>1. \A q \in Readers : left[q] \in 0..MaxRead /\ target[q] \in 0..MaxRead
                           /\ left[q] <= target[q]
    BY <1>1, Zenon DEF CTypes
  <2>2. (\A q \in Readers : left[q] <= target[q])'
    BY <1>2, <1>4, <2>1, ConsoleAssumption
  <2> QED BY <1>1, <1>2, <1>3, <1>4, <2>2, Zenon DEF CTypes, InputTypes, CInv
<1>5. CASE /\ left[p] = 0 \/ (NothingToRead /\ rkilled[p])
           /\ ret(p) /\ UNCHANGED <<input, left, queue>>
  <2>1. RingInv' BY <1>1, <1>2, <1>5, RingFrame, Zenon
  <2>2. InputTypes' BY <1>1, <1>2, <1>5, Zenon DEF CTypes, InputTypes, input
  <2>3. /\ conslock' = NoReader /\ rpc' = [rpc EXCEPT ![p] = "user"] /\ left' = left
        /\ r' = r /\ w' = w
    BY <1>5, Zenon DEF ret, input
  <2>4. ReaderInv'
    BY <1>1, <1>2, <2>3, Zenon DEF CTypes, ReaderInv
  <2>5. \A q \in Readers : left'[q] <= left[q]
    BY <1>1, <2>3, ConsoleAssumption DEF CTypes
  <2> QED BY <1>1, <2>1, <2>2, <2>3, <2>4, <2>5, Zenon DEF CTypes, ReaderPC
<1>6. CASE /\ left[p] > 0 /\ NothingToRead /\ ~rkilled[p]
           /\ rpc' = [rpc EXCEPT ![p] = "doze"]
           /\ UNCHANGED <<input, conslock, left, queue>>
  <2>1. RingInv' BY <1>1, <1>2, <1>6, RingFrame, Zenon
  <2>2. InputTypes' BY <1>1, <1>2, <1>6, Zenon DEF CTypes, InputTypes, input
  <2>3. /\ r' = r /\ w' = w /\ r = w /\ left' = left
    BY <1>6, Zenon DEF input, NothingToRead
  <2>4. ReaderInv'
    BY <1>1, <1>2, <1>6, <2>3, Zenon DEF CTypes, ReaderInv
  <2>5. \A q \in Readers : left'[q] <= left[q]
    BY <1>1, <2>3, ConsoleAssumption DEF CTypes
  <2>6. rpc' \in [Readers -> ReaderPC] BY <1>1, <1>6, Zenon DEF CTypes, ReaderPC
  <2> QED BY <1>1, <1>6, <2>1, <2>2, <2>3, <2>4, <2>5, <2>6, Zenon DEF CTypes
<1>7. ASSUME NEW keep \in BOOLEAN, NEW last \in BOOLEAN, NEW stay \in BOOLEAN,
             left[p] > 0, ~NothingToRead,
             r' = (IF keep THEN r ELSE plus(r, 1)),
             left' = (IF stay THEN left ELSE [left EXCEPT ![p] = @ - 1]),
             queue' = (IF keep THEN queue ELSE Tail(queue)),
             IF last THEN ret(p) ELSE UNCHANGED <<rpc, conslock>>,
             UNCHANGED <<inbuf, w, e>>
      PROVE  /\ InputTypes' /\ RingInv' /\ conslock' \in Readers \cup {NoReader}
             /\ rpc' \in [Readers -> ReaderPC] /\ left' \in [Readers -> 0..MaxRead]
             /\ \A q \in Readers : left'[q] <= left[q]
             /\ ReaderInv'
  <2>1. InputTypes' /\ RingInv'
    <3>1. CASE keep
      <4>1. input' = input /\ queue' = queue BY <3>1, <1>7, Zenon DEF input
      <4>2. RingInv' BY <4>1, <1>1, <1>2, RingFrame, Zenon
      <4> QED BY <4>1, <4>2, <1>1, <1>2, Zenon DEF CTypes, InputTypes, input
    <3>2. CASE ~keep
      <4>1. r' = plus(r, 1) /\ queue' = Tail(queue) BY <3>2, <1>7, Zenon
      <4> QED BY <4>1, <1>1, <1>2, <1>7, Taken, Zenon DEF NothingToRead
    <3> QED BY <3>1, <3>2, Zenon
  <2>2. /\ conslock' \in Readers \cup {NoReader}
        /\ rpc' = rpc \/ rpc' = [rpc EXCEPT ![p] = "user"]
    BY <1>1, <1>7, Zenon DEF ret, CTypes
  <2>3. \A q \in Readers : rpc[q] \notin {"doze", "sleep"} /\ (rpc[q] = "loop" => q = p)
    BY <1>1, <1>2, <1>7, Zenon DEF ReaderInv, NothingToRead
  <2>4. rpc' \in [Readers -> ReaderPC] BY <1>1, <2>2, Zenon DEF CTypes, ReaderPC
  <2>4a. ReaderInv'
    <3>1. CASE last
      <4>1. conslock' = NoReader /\ rpc' = [rpc EXCEPT ![p] = "user"] BY <3>1, <1>7, Zenon DEF ret
      <4> QED BY <4>1, <1>1, <2>3, Zenon DEF CTypes, ReaderInv
    <3>2. CASE ~last BY <3>2, <1>1, <1>7, <2>3, Zenon DEF ReaderInv
    <3> QED BY <3>1, <3>2, Zenon
  <2>5. left' \in [Readers -> 0..MaxRead] /\ \A q \in Readers : left'[q] <= left[q]
    <3>1. left \in [Readers -> 0..MaxRead] /\ left[p] \in 1..MaxRead /\ MaxRead \in Nat
      BY <1>1, <1>7, ConsoleAssumption DEF CTypes
    <3>2. CASE stay
      <4>1. left' = left BY <3>2, <1>7, Zenon
      <4> QED BY <3>1, <4>1
    <3>3. CASE ~stay
      <4>1. left' = [left EXCEPT ![p] = @ - 1] BY <3>3, <1>7, Zenon
      <4> QED BY <3>1, <4>1
    <3> QED BY <3>2, <3>3, Zenon
  <2> QED BY <2>1, <2>2, <2>4, <2>4a, <2>5, Zenon
<1>8. CASE /\ left[p] > 0 /\ ~NothingToRead
           /\ LET c == at(r)
                  keep == c = "^D" /\ left[p] < target[p] IN
                /\ r' = IF keep THEN r ELSE plus(r, 1)
                /\ left' = IF c = "^D" THEN left ELSE [left EXCEPT ![p] = @ - 1]
                /\ queue' = IF keep THEN queue ELSE Tail(queue)
                /\ IF c \in {"\n", "^D"} THEN ret(p) ELSE UNCHANGED <<rpc, conslock>>
           /\ UNCHANGED <<inbuf, w, e>>
  <2> DEFINE keep == at(r) = "^D" /\ left[p] < target[p]
             last == at(r) \in {"\n", "^D"}
             stay == at(r) = "^D"
  <2>1. keep \in BOOLEAN /\ last \in BOOLEAN /\ stay \in BOOLEAN OBVIOUS
  <2>2. /\ left[p] > 0 /\ ~NothingToRead
        /\ r' = (IF keep THEN r ELSE plus(r, 1))
        /\ left' = (IF stay THEN left ELSE [left EXCEPT ![p] = @ - 1])
        /\ queue' = (IF keep THEN queue ELSE Tail(queue))
        /\ IF last THEN ret(p) ELSE UNCHANGED <<rpc, conslock>>
        /\ UNCHANGED <<inbuf, w, e>>
    BY <1>8, Zenon
  <2> HIDE DEF keep, last, stay
  <2> QED BY <2>1, <2>2, <1>7, Zenon
<1> QED BY <1>5, <1>6, <1>8, Zenon DEF readloop

(* The steps that leave the ring alone: consoleread's entry, its sleep,    *)
(* its return from it, and kill().                                         *)
LEMMA OtherInv ==
  ASSUME CInv, NEW p \in Readers, NEW num \in 0..MaxRead,
         wokenread(p) \/ sleepread(p) \/ killreader(p) \/ consoleread(p, num)
  PROVE  CInv'
<1>1. CTypes /\ RingInv /\ ReaderInv /\ CursorOnScreen BY Zenon DEF CInv
<1>2. UNCHANGED <<input, queue, line, pos>> BY Zenon DEF wokenread, sleepread, killreader, consoleread
<1>3. RingInv' /\ InputTypes'
  <2>1. RingInv' BY <1>1, <1>2, RingFrame, Zenon
  <2> QED BY <2>1, <1>1, <1>2, Zenon DEF CTypes, InputTypes, input
<1>4. CursorOnScreen' BY <1>1, <1>2, Zenon DEF CursorOnScreen
<1>5. SUFFICES CallTypes' /\ ReaderInv'
  BY <1>3, <1>4, Zenon DEF CInv, CTypes, InputTypes, CallTypes
<1>6. r' = r /\ w' = w BY <1>2, Zenon DEF input
<1>6a. conslock = NoReader => \A q \in Readers : rpc[q] \notin {"loop", "doze"}
  BY <1>1, ConsoleAssumption, Zenon DEF ReaderInv
<1>7. CASE wokenread(p)
  BY <1>1, <1>6, <1>6a, <1>7, Zenon DEF wokenread, CTypes, CallTypes, ReaderInv, ReaderPC
<1>7a. CASE sleepread(p)
  <2>1. \A q \in Readers : q # p => rpc[q] \notin {"loop", "doze"}
    BY <1>1, <1>7a, Zenon DEF ReaderInv, sleepread
  <2> QED BY <2>1, <1>1, <1>6, <1>7a, Zenon DEF sleepread, CTypes, CallTypes, ReaderInv, ReaderPC
<1>8. CASE killreader(p)
  BY <1>1, <1>6, <1>8, Zenon DEF killreader, CTypes, CallTypes, ReaderInv, ReaderPC
<1>9. CASE consoleread(p, num)
  <2>1. left'[p] <= target'[p]
    BY <1>1, <1>9, ConsoleAssumption DEF consoleread, CTypes
  <2>2. \A q \in Readers : left'[q] <= target'[q]
    BY <1>1, <1>9, <2>1, Zenon DEF consoleread, CTypes
  <2> QED
    BY <1>1, <1>6, <1>6a, <1>9, <2>2, Zenon
    DEF consoleread, CTypes, CallTypes, ReaderInv, ReaderPC
<1> QED BY <1>7, <1>7a, <1>8, <1>9, Zenon

(* Every step of the console keeps the invariant.                          *)
LEMMA ConsoleNext == CInv /\ [CNext]_cvars => CInv'
<1> SUFFICES ASSUME CInv, [CNext]_cvars PROVE CInv' BY Zenon
<1>1. CASE UNCHANGED cvars
  <2>1. RingInv' BY <1>1, RingFrame, Zenon DEF CInv, cvars, input
  <2> QED
    BY <1>1, <2>1, Zenon DEF CInv, cvars, CTypes, ReaderInv, CursorOnScreen
<1>2. ASSUME NEW c \in Keys, consoleintr(c) PROVE CInv'
  BY <1>2, IntrInv, Zenon
<1>3. ASSUME NEW c \in {"x", "\n"}, consolewrite(c) PROVE CInv'
  <2>1. RingInv' BY <1>3, RingFrame, Zenon DEF CInv, consolewrite
  <2>2. CursorOnScreen'
    <3>1. pos \in 0..LastRow-1 BY Zenon DEF CInv, CursorOnScreen, LastRow
    <3>2. pos' = cgaputc(pos, c) BY <1>3, Zenon DEF consolewrite
    <3>3. pos' \in 0..LastRow-1 BY <3>1, <3>2, CursorMoves, Zenon
    <3> QED BY <3>3, Zenon DEF CursorOnScreen, LastRow
  <2>3. UNCHANGED <<input, calls, queue, line>> BY <1>3, Zenon DEF consolewrite
  <2> QED
    BY <2>1, <2>2, <2>3, Zenon DEF CInv, CTypes, ReaderInv, input, calls
<1>4. ASSUME NEW p \in Readers, CReadStep(p) \/ killreader(p) PROVE CInv'
  <2>1. CASE readloop(p) BY <2>1, <1>4, LoopInv, Zenon
  <2>2. CASE wokenread(p) \/ sleepread(p) \/ killreader(p)
    <3>1. 0 \in 0..MaxRead BY ConsoleAssumption
    <3> QED BY <3>1, <2>2, <1>4, OtherInv, Zenon
  <2> QED BY <2>1, <2>2, <1>4, Zenon DEF CReadStep
<1>5. ASSUME NEW p \in Readers, NEW num \in 0..MaxRead, consoleread(p, num) PROVE CInv'
  BY <1>5, OtherInv, Zenon
<1> QED BY <1>1, <1>2, <1>3, <1>4, <1>5, Zenon DEF CNext

(* The inductive invariant of the console.                                 *)
THEOREM ConsoleInvariant == CSpec => []CInv
<1> QED BY ConsoleInit, ConsoleNext, PTL DEF CSpec

(* For every ring, screen and number of readers, the console keeps its     *)
(* lines: what consoleintr stored and consoleread has not taken is in the  *)
(* ring in order, a full ring always has an ended line, no reader sleeps   *)
(* through one, and cgaputc never panics.                                  *)
THEOREM LinesAreKept == CSpec => []ConsoleKeepsLines
<1>1. CInv => ConsoleKeepsLines
  <2> SUFFICES ASSUME CInv PROVE ConsoleKeepsLines BY Zenon
  <2>1. CTypes /\ RingInv /\ SleepingReaderHasNothing /\ CursorOnScreen
    BY Zenon DEF CInv, ReaderInv, SleepingReaderHasNothing
  <2>2. CTypeOK
    <3>1. {r, w, e} \subseteq 0..CUINT-1 /\ conslock \in Readers \cup {NoReader}
      BY <2>1, Zenon DEF CTypes
    <3>2. \A h \in DOMAIN inbuf : inbuf[h] \in Keys BY <2>1, Zenon DEF CTypes
    <3>3. \A p \in Readers : 0 <= left[p] /\ left[p] <= target[p] /\ target[p] <= MaxRead
      BY <2>1, ConsoleAssumption DEF CTypes
    <3> QED BY <3>1, <3>2, <3>3, Zenon DEF CTypeOK
  <2> DEFINE m == Len(queue)
             num == Len(line)
  <2>3. /\ m \in Nat /\ num \in Nat /\ m + num \in 0..INPUT_BUF /\ plus(e, -r) = m + num
        /\ (r = w <=> m = 0) /\ INPUT_BUF \in Nat
    BY <2>1, Counters, ConsoleAssumption, Zenon
  <2>4. /\ r \in 0..CUINT-1 /\ w = plus(r, m) /\ e = plus(r, m + num)
        /\ Ring(inbuf, r, queue, line)
        /\ m = 0 => num < INPUT_BUF
    BY <2>1, Zenon DEF CTypes, RingInv
  <2>5. FullRingIsReadable BY <2>3, <2>4 DEF FullRingIsReadable, HasRoom
  <2>6. RingIsLineQueue
    <3> HIDE DEF m, num
    <3>1. m \in 0..INPUT_BUF /\ num \in (-INPUT_BUF)..INPUT_BUF
          /\ m + num \in (-INPUT_BUF)..INPUT_BUF
      BY <2>3
    <3>2. e = plus(w, num) BY <3>1, <2>4, PlusPlus, Zenon
    <3>3. \A h \in 1..m : at(plus(r, h - 1)) = queue[h]
      BY <2>4, Zenon DEF Ring, SlotOf, at, m
    <3>4. ASSUME NEW h \in 1..num PROVE at(plus(w, h - 1)) = line[h]
      <4> DEFINE k == h - 1
      <4>1. k \in (-INPUT_BUF)..INPUT_BUF /\ m + k \in (-INPUT_BUF)..INPUT_BUF
            /\ m + k = m + h - 1
        BY <2>3
      <4>2. inbuf[SlotOf(r, m + h - 1)] = line[h] BY <2>4, Zenon DEF Ring, m, num
      <4> HIDE DEF k
      <4>3. plus(plus(r, m), k) = plus(r, m + k) BY <3>1, <4>1, <2>4, PlusPlus, Zenon
      <4>4. at(plus(w, k)) = line[h] BY <4>1, <4>2, <4>3, <2>4, Zenon DEF SlotOf, at
      <4> QED BY <4>4, Zenon DEF k
    <3>5. m + num <= INPUT_BUF BY <2>3
    <3> QED BY <3>2, <3>3, <3>4, <3>5, <2>4, Zenon DEF RingIsLineQueue, m, num
  <2> QED BY <2>1, <2>2, <2>5, <2>6, Zenon DEF ConsoleKeepsLines
<1> QED BY <1>1, ConsoleInvariant, PTL
=============================================================================
