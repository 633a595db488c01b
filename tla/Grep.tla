-------------------------------- MODULE Grep --------------------------------
(* xv6/grep.c: the regular expression matcher, against a definition of what  *)
(* a pattern matches, and the loop that cuts lines out of the read buffer.   *)
(* Characters are one-element strings and a string is a sequence of them, so *)
(* that the end of a sequence plays the part of the NUL.                     *)
(*                                                                           *)
(* A definition X_Suffix is a mutant of X, a bug the code could have had; it *)
(* is used by no other definition.                                           *)
EXTENDS Naturals, Sequences, SequencesExt, FiniteSetsExt

CONSTANTS
  Patterns,     \* patterns given to grep
  Texts,        \* what the file or pipe delivers
  GBUF          \* sizeof(buf), 1024 in the source

VARIABLES
  pattern, gin, \* the pattern, and the input still to be read
  gbuf,         \* buf[0..m-1]
  gout,         \* the lines written to file descriptor 1
  glines,       \* history: all the input
  gkept,        \* history: the input read and not dropped (p == buf)
  gdrop,        \* history: some was dropped
  gst           \* "read" or "end"

gvars == <<pattern, gin, gbuf, gout, glines, gkept, gdrop, gst>>

-----------------------------------------------------------------------------
From(s, i) == SubSeq(s, i, Len(s))
Char(s, i) == IF i \in 1..Len(s) THEN s[i] ELSE "NUL"

(* The test at the end of a pattern: `$` is special only as last character.  *)
IsEnd(re) == Char(re, 1) = "$" /\ Char(re, 2) = "NUL"

RECURSIVE matchhere(_, _), matchstar(_, _, _)
matchhere(re, text) ==
  IF re = <<>> THEN TRUE
  ELSE IF Char(re, 2) = "*" THEN matchstar(re[1], From(re, 3), text)
  ELSE IF IsEnd(re) THEN text = <<>>
  ELSE IF text # <<>> /\ re[1] \in {".", text[1]}
    THEN matchhere(From(re, 2), From(text, 2))
  ELSE FALSE

(* The do-while loop: try the rest here, then after each character c takes.  *)
matchstar(c, re, text) ==
  \/ matchhere(re, text)
  \/ text # <<>> /\ c \in {".", text[1]} /\ matchstar(c, re, From(text, 2))

match(re, text) ==
  IF Char(re, 1) = "^" THEN matchhere(From(re, 2), text)
  ELSE \E i \in 1..(Len(text) + 1) : matchhere(re, From(text, i))

-----------------------------------------------------------------------------
(* What a pattern means.  Its items are characters, each possibly starred;   *)
(* it matches a stretch of the text that can be cut into one piece per item. *)
RECURSIVE ReItems(_)
ReItems(re) ==
  IF re = <<>> THEN <<>>
  ELSE IF Char(re, 2) = "*" THEN <<[c |-> re[1], star |-> TRUE]>> \o ReItems(From(re, 3))
  ELSE <<[c |-> re[1], star |-> FALSE]>> \o ReItems(From(re, 2))

Takes(item, piece) ==
  /\ \A i \in 1..Len(piece) : item.c \in {".", piece[i]}
  /\ item.star \/ Len(piece) = 1

Means(re, text) ==
  LET head == Char(re, 1) = "^"
      all == ReItems(IF head THEN From(re, 2) ELSE re)
      tail == all # <<>> /\ Last(all) = [c |-> "$", star |-> FALSE]
      items == IF tail THEN Front(all) ELSE all
      k == Len(items)
  IN \E cut \in [0..k -> 0..Len(text)] :
       /\ head => cut[0] = 0
       /\ tail => cut[k] = Len(text)
       /\ \A i \in 1..k :
            /\ cut[i - 1] <= cut[i]
            /\ Takes(items[i], SubSeq(text, cut[i - 1] + 1, cut[i]))

-----------------------------------------------------------------------------
GInit ==
  /\ pattern \in Patterns /\ gin \in Texts
  /\ gbuf = <<>> /\ gout = <<>> /\ glines = gin /\ gkept = <<>> /\ gdrop = FALSE /\ gst = "read"

(* The complete lines of s in order, and what follows the last newline.      *)
Newlines(s) == {i \in 1..Len(s) : s[i] = "nl"}
LinesOf(s) ==
  LET ends == <<0>> \o SetToSortSeq(Newlines(s), <)
  IN [i \in 1..(Len(ends) - 1) |-> SubSeq(s, ends[i] + 1, ends[i + 1] - 1)]
Rest_Newline(s) == From(s, Max(Newlines(s) \cup {1}))
Rest(s) == From(s, Max(Newlines(s) \cup {0}) + 1)

(* One turn of grep's loop: read at most what fits, print the lines that     *)
(* match, move the rest to the front.  When neither what was in buf nor what *)
(* was read has a newline, m becomes 0 and both are dropped.                 *)
Turn(n) ==
  LET all == gbuf \o SubSeq(gin, 1, n)
  IN /\ gst = "read"
     /\ n \in 1..Len(gin) /\ n <= GBUF - Len(gbuf) - 1
     /\ gin' = From(gin, n + 1)
     /\ gout' = gout \o SelectSeq(LinesOf(all), LAMBDA l : match(pattern, l))
     /\ gbuf' = IF Newlines(all) = {} THEN <<>> ELSE Rest(all)
     /\ gkept' = SubSeq(gkept, 1, Len(gkept) - Len(gbuf)) \o (IF Newlines(all) = {} THEN <<>> ELSE all)
     /\ gdrop' = (gdrop \/ Newlines(all) = {})
     /\ UNCHANGED <<pattern, glines, gst>>

(* read returns 0: end of file, or no room was left for the call.            *)
LastTurn ==
  /\ gst = "read"
  /\ 0 \in {Len(gin), GBUF - Len(gbuf) - 1}
  /\ gst' = "end"
  /\ UNCHANGED <<pattern, gin, gbuf, gout, glines, gkept, gdrop>>

GNext == (\E n \in 1..(GBUF - 1) : Turn(n)) \/ LastTurn

-----------------------------------------------------------------------------
(* The matcher of Kernighan and Pike matches what the pattern means.         *)
MatchIsMeaning == (gst = "read" /\ gbuf = <<>>) => (match(pattern, gin) <=> Means(pattern, gin))

(* However the input is cut into reads, grep has printed the complete lines  *)
(* that match, in order, of the text it kept.  That is the whole input       *)
(* unless a read left the buffer without a newline, the remainder of an      *)
(* earlier line included: grep.c:29-30 drops the remainder and the read.     *)
PrintsMatchingLines ==
  /\ gout = SelectSeq(LinesOf(gkept), LAMBDA l : Means(pattern, l))
  /\ gst = "end" /\ ~gdrop => gkept = glines

(* grep prints what the pattern means: by its matcher on a line, and by its  *)
(* loop on the text it does not drop.                                        *)
GrepIsRight == MatchIsMeaning /\ PrintsMatchingLines
=============================================================================
