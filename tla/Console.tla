------------------------------- MODULE Console -------------------------------
(***************************************************************************)
(* xv6/console.c: the input line, edited by the keyboard interrupt and     *)
(* read by processes, and the screen it is echoed on.  Characters are      *)
(* classes: "x" for any ordinary one, "\n" (a "\r" is turned into it),     *)
(* "^D", "^U", "^H" (backspace or delete), "^P" and the ignored 0.         *)
(* consoleread keeps cons.lock except while it sleeps, so the lock is a    *)
(* variable; consoleintr handles one character per step.                   *)
(*                                                                         *)
(* A definition X_Suffix is a mutant of X, a bug the code could have had;  *)
(* it is used by no other definition.                                      *)
(***************************************************************************)
EXTENDS Integers, Sequences, FiniteSets

CONSTANTS
  Readers,      \* processes that read the console
  INPUT_BUF,    \* size of input.buf
  CUINT,        \* the indices are uint: arithmetic modulo CUINT (2^32)
  MaxRead,      \* largest n of a read
  COLS, ROWS,   \* 80 and 25
  NoReader

(* The ring is smaller than the range of its indices and its size divides  *)
(* it (128 and 2^32); the screen has a row to scroll into.                 *)
ASSUME ConsoleAssumption ==
  /\ INPUT_BUF \in Nat \ {0} /\ CUINT \in Nat
  /\ INPUT_BUF < CUINT /\ CUINT % INPUT_BUF = 0
  /\ MaxRead \in Nat /\ NoReader \notin Readers
  /\ COLS \in Nat \ {0} /\ ROWS \in Nat \ {0, 1}

VARIABLES
  inbuf, r, w, e,     \* input
  conslock,           \* holder of cons.lock
  rpc, left, target,  \* each consoleread: where it is, n and target
  rkilled,            \* proc->killed
  pos,                \* cursor position of the screen
  queue, line         \* history: characters entered but not read, line being edited

cvars == <<inbuf, r, w, e, conslock, rpc, left, target, rkilled, pos, queue, line>>
input == <<inbuf, r, w, e>>
calls == <<conslock, rpc, left, target, rkilled>>
Chars == {"x", "\n", "^D"}
Keys == Chars \cup {"\r", "^U", "^H", "^P", "0"}

CInit ==
  /\ inbuf = [i \in 0..INPUT_BUF-1 |-> "0"] /\ r = 0 /\ w = 0 /\ e = 0
  /\ conslock = NoReader
  /\ rpc = [p \in Readers |-> "user"]
  /\ left = [p \in Readers |-> 0] /\ target = [p \in Readers |-> 0]
  /\ rkilled = [p \in Readers |-> FALSE]
  /\ pos = 0
  /\ queue = <<>> /\ line = <<>>

-----------------------------------------------------------------------------
plus(a, k) == (a + k + CUINT) % CUINT      \* uint arithmetic
at(i) == inbuf[i % INPUT_BUF]

(* cgaputc: the cursor after c, the screen scrolled when it passes the     *)
(* last row but one                                                        *)
Scrolled(q) == IF q \div COLS >= ROWS - 1 THEN q - COLS ELSE q
cgaputc(q, c) ==
  Scrolled(CASE c = "\n" -> (q + COLS) - (q % COLS)
             [] c = "BS" -> IF q > 0 THEN q - 1 ELSE q
             [] OTHER -> q + 1)

(* k backspaces                                                            *)
erased(q, k) == Scrolled(IF q > k THEN q - k ELSE 0)

(* C('U'): input.e goes back to input.w or to the last newline             *)
KillTo == CHOOSE k \in 0..plus(e, -w) :
            /\ \A j \in 0..k-1 : at(plus(e, -1 - j)) # "\n"
            /\ k = plus(e, -w) \/ at(plus(e, -1 - k)) = "\n"

(* default: the character is stored while the ring has room; a newline,    *)
(* an end of file or a full ring ends the line and wakes the readers.      *)
HasRoom_Off == plus(e, -r) <= INPUT_BUF
HasRoom == plus(e, -r) < INPUT_BUF
EndsLine(c) == c \in {"\n", "^D"} \/ plus(e, 1) = plus(r, INPUT_BUF)
WakeReader(f) == [p \in Readers |-> IF f[p] = "sleep" THEN "woken" ELSE f[p]]

store(c) ==
  /\ inbuf' = [inbuf EXCEPT ![e % INPUT_BUF] = c]
  /\ e' = plus(e, 1)
  /\ pos' = cgaputc(pos, c)
  /\ IF EndsLine(c)
     THEN /\ w' = e' /\ rpc' = WakeReader(rpc)
          /\ queue' = queue \o Append(line, c) /\ line' = <<>>
     ELSE /\ line' = Append(line, c) /\ UNCHANGED <<w, rpc, queue>>
  /\ r' = r

Editable == e # w

consoleintr(c) ==
  /\ conslock = NoReader
  /\ \/ /\ c = "^P" /\ UNCHANGED <<input, rpc, pos, queue, line>>    \* procdump
     \/ /\ c = "^U" /\ e' = plus(e, -KillTo) /\ pos' = erased(pos, KillTo)
        /\ line' = <<>> /\ UNCHANGED <<inbuf, r, w, rpc, queue>>
     \/ /\ c = "^H" /\ Editable
        /\ e' = plus(e, -1) /\ pos' = cgaputc(pos, "BS")
        /\ line' = SubSeq(line, 1, Len(line) - 1) /\ UNCHANGED <<inbuf, r, w, rpc, queue>>
     \/ /\ c \in Chars \cup {"\r"} /\ HasRoom
        /\ store(IF c = "\r" THEN "\n" ELSE c)
     \/ /\ c = "0" \/ (c = "^H" /\ ~Editable) \/ (c \in Chars \cup {"\r"} /\ ~HasRoom)
        /\ UNCHANGED <<input, rpc, pos, queue, line>>
  /\ UNCHANGED <<conslock, left, target, rkilled>>

-----------------------------------------------------------------------------
(* consoleread.  It returns with cons.lock released.                       *)
ret(p) == rpc' = [rpc EXCEPT ![p] = "user"] /\ conslock' = NoReader

consoleread(p, n) ==
  /\ rpc[p] = "user" /\ conslock = NoReader /\ ~rkilled[p]
  /\ conslock' = p
  /\ rpc' = [rpc EXCEPT ![p] = "loop"]
  /\ left' = [left EXCEPT ![p] = n] /\ target' = [target EXCEPT ![p] = n]
  /\ UNCHANGED <<input, rkilled, pos, queue, line>>

(* sleep() reacquires cons.lock before it returns                          *)
wokenread(p) ==
  /\ rpc[p] = "woken" /\ conslock = NoReader
  /\ conslock' = p /\ rpc' = [rpc EXCEPT ![p] = "loop"]
  /\ UNCHANGED <<input, left, target, rkilled, pos, queue, line>>

NothingToRead == r = w

(* One turn of the loops, cons.lock held: return when n = 0, fail when     *)
(* killed, decide to sleep, or take one character.  ^D ends the read, and  *)
(* stays in the ring when the read already has something to return.        *)
readloop(p) ==
  /\ rpc[p] = "loop"
  /\ \/ /\ left[p] = 0 \/ (NothingToRead /\ rkilled[p])
        /\ ret(p) /\ UNCHANGED <<input, left, queue>>
     \/ /\ left[p] > 0 /\ NothingToRead /\ ~rkilled[p]
        /\ rpc' = [rpc EXCEPT ![p] = "doze"]
        /\ UNCHANGED <<input, conslock, left, queue>>
     \/ /\ left[p] > 0 /\ ~NothingToRead
        /\ LET c == at(r)
               keep == c = "^D" /\ left[p] < target[p] IN
             /\ r' = IF keep THEN r ELSE plus(r, 1)
             /\ left' = IF c = "^D" THEN left ELSE [left EXCEPT ![p] = @ - 1]
             /\ queue' = IF keep THEN queue ELSE Tail(queue)
             /\ IF c \in {"\n", "^D"} THEN ret(p) ELSE UNCHANGED <<rpc, conslock>>
        /\ UNCHANGED <<inbuf, w, e>>
  /\ UNCHANGED <<target, rkilled, pos, line>>

(* sleep(&input.r, &cons.lock), a step after the test of killed: kill()    *)
(* takes ptable.lock only and may come between them.                       *)
sleepread(p) ==
  /\ rpc[p] = "doze"
  /\ rpc' = [rpc EXCEPT ![p] = "sleep"] /\ conslock' = NoReader
  /\ UNCHANGED <<input, left, target, rkilled, pos, queue, line>>

(* consolewrite(p): its characters go to the screen under cons.lock.       *)
consolewrite(c) ==
  /\ conslock = NoReader
  /\ pos' = cgaputc(pos, c)
  /\ UNCHANGED <<input, calls, queue, line>>

(* proc.c: kill() makes a sleeping process runnable.                       *)
killreader(p) ==
  /\ ~rkilled[p]
  /\ rkilled' = [rkilled EXCEPT ![p] = TRUE]
  /\ rpc' = [rpc EXCEPT ![p] = IF @ = "sleep" THEN "woken" ELSE @]
  /\ UNCHANGED <<input, conslock, left, target, pos, queue, line>>

CReadStep(p) == wokenread(p) \/ readloop(p) \/ sleepread(p)

CNext ==
  \/ \E c \in Keys : consoleintr(c)
  \/ \E c \in {"x", "\n"} : consolewrite(c)
  \/ \E p \in Readers : CReadStep(p) \/ killreader(p) \/ \E n \in 0..MaxRead : consoleread(p, n)

CSpec == CInit /\ [][CNext]_cvars

-----------------------------------------------------------------------------
(* Types.                                                                  *)
CTypeOK ==
  /\ {r, w, e} \subseteq 0..CUINT-1 /\ \A i \in DOMAIN inbuf : inbuf[i] \in Keys
  /\ conslock \in Readers \cup {NoReader}
  /\ \A p \in Readers : 0 <= left[p] /\ left[p] <= target[p] /\ target[p] <= MaxRead

(* The ring implements a line editor in front of a queue: between r and w  *)
(* it holds what was entered and not read, between w and e the line being  *)
(* edited, for every wrap-around of the uint indices, full rings, erased   *)
(* characters and a ^D that is put back included.                          *)
RingIsLineQueue ==
  /\ Len(queue) + Len(line) <= INPUT_BUF
  /\ w = plus(r, Len(queue)) /\ e = plus(w, Len(line))
  /\ \A i \in 1..Len(queue) : at(plus(r, i - 1)) = queue[i]
  /\ \A i \in 1..Len(line) : at(plus(w, i - 1)) = line[i]

(* A full ring can be read: input is never refused for want of room while  *)
(* every reader sleeps because no line has ended.                          *)
FullRingIsReadable == HasRoom \/ r # w

(* No lost wakeup: a reader sleeps only while no complete line is there.   *)
(* Of a kill it is not true: one that comes between the test of killed and *)
(* the sleep (console.c:246 and 251) is noticed when the next line ends.   *)
SleepingReaderHasNothing == \A p \in Readers : rpc[p] = "sleep" => r = w

(* cgaputc never panics with "pos under/overflow", and leaves the cursor   *)
(* on the screen above the last row, whatever is typed, erased or printed. *)
CursorOnScreen == pos \in 0..(ROWS - 1) * COLS - 1

(* The console between the keyboard and its readers: the ring is a queue of*)
(* lines that never jams, no reader sleeps through a line, and the cursor  *)
(* stays on the screen.                                                    *)
ConsoleKeepsLines ==
  /\ CTypeOK
  /\ RingIsLineQueue
  /\ FullRingIsReadable
  /\ SleepingReaderHasNothing
  /\ CursorOnScreen
=============================================================================
