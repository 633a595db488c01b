-------------------------------- MODULE Libc --------------------------------
(* The small library of xv6: string.c (kernel), ulib.c (user), and the       *)
(* formatted output of printf.c and console.c.  A behaviour is one call with *)
(* one input: the copying, comparing and number routines are operators       *)
(* evaluated at once, the loops of gets, printf and cprintf take one         *)
(* character per step.  A char array is a function from 0..n-1 to            *)
(* characters, which are small numbers with 0 the NUL.                       *)
(*                                                                           *)
(* A definition X_Suffix is a mutant of X, a bug the code could have had; it *)
(* is used by no other definition.                                           *)
EXTENDS Integers, Sequences, SequencesExt, FiniteSetsExt

CONSTANTS
  MemLen,       \* bytes of the array memmove works in
  LDIRSIZ,      \* DIRSIZ, 14 in the source
  NAMELEN,      \* sizeof(p->name), 16 in the source
  Names,        \* path elements and program names: sequences of characters
  INTBITS,      \* width of int and uint, 32 in the source
  Formats,      \* format strings: sequences of one-character strings
  Inputs,       \* what read(0, &c, 1) delivers to gets
  MaxGets       \* values of max given to gets

VARIABLES
  lcall,        \* the call: its name and arguments
  lpos,         \* i of the loop, or whether the call returned
  lstate,       \* state of printf: "0" or "%"
  lap,          \* arguments consumed, ap or argp
  lout          \* what the call has produced

lcvars == <<lcall, lpos, lstate, lap, lout>>

End == -1

-----------------------------------------------------------------------------
(* memmove: byte by byte, from the top down when the target overlaps the end *)
(* of the source.                                                            *)
CopyBytes(mem, dst, src, order) ==
  FoldLeft(LAMBDA m, i : [m EXCEPT ![dst + i] = m[src + i]], mem, order)
Upward(n) == [i \in 1..n |-> i - 1]

OverlapsUp(dst, src, n) == src < dst /\ src + n > dst

memmove(mem, dst, src, n) ==
  CopyBytes(mem, dst, src, IF OverlapsUp(dst, src, n) THEN Reverse(Upward(n)) ELSE Upward(n))
ulib_memmove(mem, dst, src, n) == CopyBytes(mem, dst, src, Upward(n))

-----------------------------------------------------------------------------
(* A C string: the characters of t and a NUL.                                *)
CStr(t) == [i \in 0..Len(t) |-> IF i < Len(t) THEN t[i + 1] ELSE 0]

(* Where a loop over s that also counts to n stops at a NUL, or n.           *)
NulBefore(s, n) == Min({i \in DOMAIN s : s[i] = 0} \cup {n})

(* strncpy copies up to the NUL or to n characters, and fills the rest of n  *)
(* with NULs.                                                                *)
strncpy(s, t, n) ==
  [i \in DOMAIN s |-> IF i >= n THEN s[i] ELSE IF i < NulBefore(t, n) THEN t[i] ELSE 0]

(* safestrcpy: after a NUL copied by the loop, `*s = 0` writes a second one. *)
LastCopied(t, n) == NulBefore(t, n - 1)
safestrcpy(s, t, n) ==
  LET k == LastCopied(t, n)
      last == IF k < n - 1 THEN k + 1 ELSE k
  IN [i \in DOMAIN s \cup {last} |-> IF i < k THEN t[i] ELSE IF i <= last THEN 0 ELSE s[i]]

(* strncmp, and namecmp of fs.c.                                             *)
StopsAt_NoNul(p, q, i) == p[i] # q[i]
StopsAt(p, q, i) == p[i] = 0 \/ p[i] # q[i]
strncmp(p, q, n) ==
  LET k == Min({i \in 0..(n - 1) : StopsAt(p, q, i)} \cup {n})
  IN IF k = n THEN 0 ELSE p[k] - q[k]
namecmp(s, t) == strncmp(s, t, LDIRSIZ)

(* The name skipelem leaves in its DIRSIZ bytes, which held junk before: a   *)
(* long element is cut and has no NUL.                                       *)
Elem(e, junk) ==
  [i \in 0..(LDIRSIZ - 1) |->
     IF i < Len(e) THEN e[i + 1] ELSE IF i = Len(e) THEN 0 ELSE junk]

(* The name dirlink stores for an element.                                   *)
Dirent(e, junk) == strncpy([i \in 0..(LDIRSIZ - 1) |-> junk], Elem(e, junk), LDIRSIZ)

-----------------------------------------------------------------------------
(* printint: x is a uint, and the digits come out lowest first.              *)
Uint(x) == x % (2^INTBITS)
Minus == -1

Magnitude(xx, sign) == IF sign /\ xx < 0 THEN Uint(-xx) ELSE Uint(xx)

RECURSIVE Digits(_, _)
Digits(x, base) ==
  <<x % base>> \o IF x \div base = 0 THEN <<>> ELSE Digits(x \div base, base)

printint(xx, base, sign) ==
  Reverse(Digits(Magnitude(xx, sign), base) \o IF sign /\ xx < 0 THEN <<Minus>> ELSE <<>>)

atoi(s) ==
  LET n == Min({i \in 1..Len(s) : s[i] \notin 0..9} \cup {Len(s) + 1}) - 1
  IN FoldLeft(LAMBDA v, d : v * 10 + d, 0, SubSeq(s, 1, n))

-----------------------------------------------------------------------------
IntMin == -(2^(INTBITS - 1))

Calls ==
  [fn : {"memmove"}, dst : 0..(MemLen - 1), src : 0..(MemLen - 1), n : 0..MemLen]
    \cup [fn : {"namecmp"}, a : Names, b : Names]
    \cup [fn : {"safestrcpy"}, t : Names]
    \cup [fn : {"printint"}, xx : IntMin..(-IntMin - 1), how : {"d", "x"}]
    \cup [fn : {"printf", "cprintf"}, fmt : Formats]
    \cup [fn : {"gets"}, in : Inputs, max : MaxGets]

InRange(c) == c.fn = "memmove" => c.dst + c.n <= MemLen /\ c.src + c.n <= MemLen

LcInit ==
  /\ lcall \in {c \in Calls : InRange(c)}
  /\ lpos = 1 /\ lstate = "0" /\ lap = 0 /\ lout = <<>>

Running(fn) == lcall.fn = fn /\ lpos # End
returns(value) == lpos' = End /\ lout' = value /\ UNCHANGED <<lcall, lstate, lap>>

Mem == [i \in 0..(MemLen - 1) |-> i]

call_memmove ==
  /\ Running("memmove")
  /\ returns(<<memmove(Mem, lcall.dst, lcall.src, lcall.n),
               ulib_memmove(Mem, lcall.dst, lcall.src, lcall.n)>>)

call_namecmp ==
  /\ Running("namecmp")
  /\ \E junk \in {0, 1} : returns(<<namecmp(Elem(lcall.a, 1 - junk), Dirent(lcall.b, junk))>>)

call_safestrcpy ==
  /\ Running("safestrcpy")
  /\ returns(<<safestrcpy([i \in 0..NAMELEN |-> 9], CStr(lcall.t), NAMELEN)>>)

call_printint ==
  /\ Running("printint")
  /\ returns(IF lcall.how = "d" THEN printint(lcall.xx, 10, TRUE) ELSE printint(lcall.xx, 16, FALSE))

-----------------------------------------------------------------------------
(* What is printed: a character, or an argument formatted as told.           *)
literal(c) == <<"char", c>>
argument(k, c) == <<c, k>>

Convs(fn) == {"d", "x", "p", "s"} \cup IF fn = "printf" THEN {"c"} ELSE {}

(* The switch on the character after a `%`.                                  *)
convert(c) ==
  IF c \in Convs(lcall.fn)
    THEN lout' = Append(lout, argument(lap, c)) /\ lap' = lap + 1
    ELSE /\ lout' = lout \o IF c = "%" THEN <<literal("%")>> ELSE <<literal("%"), literal(c)>>
         /\ UNCHANGED lap

StateAfter == "0"

(* printf.c: one turn of the loop, with `state` remembering a `%`.           *)
printf ==
  /\ Running("printf") /\ UNCHANGED lcall
  /\ lpos' = IF lpos > Len(lcall.fmt) THEN End ELSE lpos + 1
  /\ \/ lpos > Len(lcall.fmt) /\ UNCHANGED <<lout, lap, lstate>>
     \/ /\ lpos <= Len(lcall.fmt) /\ lstate = "0"
        /\ IF lcall.fmt[lpos] = "%"
             THEN lstate' = "%" /\ UNCHANGED <<lout, lap>>
             ELSE lout' = Append(lout, literal(lcall.fmt[lpos])) /\ UNCHANGED <<lap, lstate>>
     \/ /\ lpos <= Len(lcall.fmt) /\ lstate = "%"
        /\ convert(lcall.fmt[lpos]) /\ lstate' = StateAfter

(* console.c: one turn of the loop, which takes the character after a `%` in *)
(* the same turn and stops if there is none.                                 *)
cprintf ==
  /\ Running("cprintf") /\ UNCHANGED <<lcall, lstate>>
  /\ \/ /\ \/ lpos > Len(lcall.fmt)
           \/ lpos = Len(lcall.fmt) /\ lcall.fmt[lpos] = "%"
        /\ lpos' = End /\ UNCHANGED <<lout, lap>>
     \/ /\ lpos <= Len(lcall.fmt) /\ lcall.fmt[lpos] # "%"
        /\ lout' = Append(lout, literal(lcall.fmt[lpos])) /\ lpos' = lpos + 1 /\ UNCHANGED lap
     \/ /\ lpos < Len(lcall.fmt) /\ lcall.fmt[lpos] = "%"
        /\ convert(lcall.fmt[lpos + 1]) /\ lpos' = lpos + 2

(* gets: one character per read; a read may also fail (cc < 1).              *)
HasRoomFor == lpos < lcall.max

gets ==
  /\ Running("gets") /\ UNCHANGED <<lcall, lstate, lap>>
  /\ \/ lpos' = End /\ UNCHANGED lout
     \/ /\ HasRoomFor /\ lpos <= Len(lcall.in)
        /\ lout' = Append(lout, lcall.in[lpos])
        /\ lpos' = IF lcall.in[lpos] \in {"nl", "cr"} THEN End ELSE lpos + 1

LcNext ==
  \/ call_memmove \/ call_namecmp \/ call_safestrcpy \/ call_printint
  \/ printf \/ cprintf \/ gets

-----------------------------------------------------------------------------
Returned(fn) == lcall.fn = fn /\ lpos = End

Moved(mem, dst, src, n) ==
  [i \in DOMAIN mem |-> IF i \in dst..(dst + n - 1) THEN mem[src + i - dst] ELSE mem[i]]

(* The kernel's memmove leaves in the target what the source held, and       *)
(* touches nothing else, however the two overlap (string.c:31-49); that of   *)
(* ulib.c does unless the target overlaps the source from above, which no    *)
(* caller asks of it (grep.c:33 moves down).                                 *)
MemmoveCopies ==
  Returned("memmove") =>
    LET m == Moved(Mem, lcall.dst, lcall.src, lcall.n)
    IN /\ lout[1] = m
       /\ lout[2] = m \/ lcall.dst \in (lcall.src + 1)..(lcall.src + lcall.n - 1)

(* Two path elements name the same directory entry exactly when their first  *)
(* DIRSIZ characters agree: what skipelem cuts, dirlink pads and namecmp     *)
(* compares fit together, whatever the buffers held before                   *)
(* (fs.c:516-612, string.c:58-79).                                           *)
SameEntry ==
  Returned("namecmp") =>
    (lout[1] = 0) =
      (SubSeq(lcall.a, 1, Min({LDIRSIZ, Len(lcall.a)})) = SubSeq(lcall.b, 1, Min({LDIRSIZ, Len(lcall.b)})))

(* A process name is always terminated inside its array, is the longest      *)
(* prefix that fits, and the byte after the array is left alone              *)
(* (exec.c:94, string.c:81-94).                                              *)
NameTerminated ==
  Returned("safestrcpy") =>
    LET k == Min({Len(lcall.t), NAMELEN - 1})
    IN /\ \A i \in 0..(k - 1) : lout[1][i] = lcall.t[i + 1]
       /\ lout[1][k] = 0 /\ lout[1][NAMELEN] = 9

Denotes(digits, base) ==
  LET s == IF Head(digits) = Minus THEN -1 ELSE 1
      ds == IF s = -1 THEN Tail(digits) ELSE digits
  IN s * FoldLeft(LAMBDA v, d : v * base + d, 0, ds)

(* %d prints the number it is given, the most negative one included, %x the  *)
(* same bits read as a uint, both without a superfluous zero; atoi reads     *)
(* back what %d printed of a number that is not negative                     *)
(* (printf.c:11-36, console.c:27-50, ulib.c:84-93).                          *)
PrintsNumber ==
  Returned("printint") =>
    /\ Denotes(lout, IF lcall.how = "d" THEN 10 ELSE 16)
         = (IF lcall.how = "d" THEN lcall.xx ELSE Uint(lcall.xx))
    /\ Len(lout) > 1 => lout[1] # 0
    /\ lcall.how = "d" /\ lcall.xx >= 0 => atoi(lout) = lcall.xx

(* What a format asks for.  A `%` opens a directive unless the character     *)
(* before it does; a directive that converts takes the next argument.        *)
OpensAt(f) == LET o[i \in 0..Len(f)] == IF i = 0 THEN FALSE ELSE f[i] = "%" /\ ~o[i - 1] IN o
Converts(fn, f, i) == OpensAt(f)[i] /\ i < Len(f) /\ f[i + 1] \in Convs(fn)
Piece(fn, f, i) ==
  IF OpensAt(f)[i - 1] \/ (OpensAt(f)[i] /\ i = Len(f)) THEN <<>>
  ELSE IF Converts(fn, f, i)
    THEN <<argument(Cardinality({j \in 1..(i - 1) : Converts(fn, f, j)}), f[i + 1])>>
  ELSE IF ~OpensAt(f)[i] THEN <<literal(f[i])>>
  ELSE IF f[i + 1] = "%" THEN <<literal("%")>> ELSE <<literal("%"), literal(f[i + 1])>>

(* The two formatted prints, written as different loops, both print what the *)
(* format asks for and take the arguments in order                           *)
(* (printf.c:38-85, console.c:53-104).                                       *)
PrintsFormat ==
  \A fn \in {"printf", "cprintf"} :
    Returned(fn) => lout = FlattenSeq([i \in 1..Len(lcall.fmt) |-> Piece(fn, lcall.fmt, i)])

(* gets returns a prefix of the input that fits the buffer with its NUL and  *)
(* in which only the last character ends a line (ulib.c:52-68).              *)
GetsOneLine ==
  lcall.fn = "gets" =>
    /\ lout = SubSeq(lcall.in, 1, Len(lout)) /\ (Len(lout) < lcall.max \/ lout = <<>>)
    /\ \A i \in 1..(Len(lout) - 1) : lout[i] \notin {"nl", "cr"}

(* Every library call computes what its callers rely on: copies,           *)
(* comparisons, terminated names, printed numbers and formats, and lines of*)
(* input.                                                                  *)
CallsAreRight ==
  /\ MemmoveCopies
  /\ SameEntry
  /\ NameTerminated
  /\ PrintsNumber
  /\ PrintsFormat
  /\ GetsOneLine
=============================================================================
