-------------------------------- MODULE Lab2Sh --------------------------------
(***************************************************************************)
(* lab-02/sh.c, the simplified shell of the lab, over the state of Sh.     *)
(* Only "<", ">" and "|" are symbols; words and file names are copied      *)
(* (mkcopy) instead of being ended in place.                               *)
(*                                                                         *)
(* A definition X_Suffix is a mutant of X, a bug the code could have had;  *)
(* it is used by no other definition.                                      *)
(***************************************************************************)
EXTENDS Sh

symbols2 == {"<", "|", ">"}
wordend2(s) == Min({j \in s..es : j = es \/ Ch(j) \in whitespace \cup symbols2})
tokenat2(s) ==
  CASE Ch(s) = "0" -> token("0", s, s)
    [] Ch(s) \in symbols2 -> token(Ch(s), s, s + 1)
    [] OTHER -> token("a", s, wordend2(s))
gettoken2(ps) == tokenat2(skip(ps))
(* A copy is known by the characters it was made from.                     *)
mkcopy_Short(q, eq) == <<q, eq - 1>>
mkcopy(q, eq) == <<q, eq>>

redircmd2(cmd, file, type) == [type |-> "REDIR", cmd |-> cmd, file |-> file, fd |-> IF type = "<" THEN 0 ELSE 1]
RECURSIVE parseredirs2(_, _), parseargs2(_, _, _), parsepipe2(_)
redirection2(cmd, op, f) ==
  IF f.tok # "a" THEN Err("missing file for redirection")
  ELSE parseredirs2(redircmd2(cmd, mkcopy(f.q, f.eq), op.tok), f.s)
redirop2(cmd, op) == redirection2(cmd, op, gettoken2(op.s))
parseredirs2(cmd, ps) == IF peek(ps, {"<", ">"}) THEN redirop2(cmd, gettoken2(ps)) ELSE Ok(cmd, ps)

moreargs2(r, argv) == IF r.err # "" THEN r ELSE parseargs2(r.cmd, r.s, argv)
nextarg2(ret, ps, argv, t) ==
  IF t.tok = "0" THEN Ok(withargv(ret, argv), ps)
  ELSE IF t.tok # "a" THEN Err("syntax error")
  ELSE IF TooMany(Len(argv) + 1) THEN Err("too many args")
  ELSE moreargs2(parseredirs2(ret, t.s), Append(argv, mkcopy(t.q, t.eq)))
parseargs2(ret, ps, argv) ==
  IF peek(ps, {"|"}) THEN Ok(withargv(ret, argv), ps)
  ELSE nextarg2(ret, ps, argv, gettoken2(ps))
parseexec2(ps) == moreargs2(parseredirs2(execcmd(<<>>), ps), <<>>)

pipeend2(l) ==
  IF l.err # "" \/ ~peek(l.s, {"|"}) THEN l ELSE piped(l, parsepipe2(gettoken2(l.s).s))
parsepipe2(ps) == pipeend2(parseexec2(ps))
noleftover2(r) == IF r.err = "" /\ skip(r.s) # es THEN Err("leftovers") ELSE r
parsecmd2 == noleftover2(parsepipe2(1))

-----------------------------------------------------------------------------
L2Init ==
  /\ cmdbuf \in Lines /\ shst = "read2"
  /\ shfds = [f \in FD |-> IF f = 3 THEN Closed ELSE Console]
  /\ todo = execcmd(<<>>) /\ kidfds = shfds

(* One turn of main: a failed fork1 is reported, and wait finds no child.  *)
mainloop ==
  /\ shst = "read2"
  /\ \/ UNCHANGED <<shst, todo, kidfds>>
     \/ /\ kidfds' = shfds
        /\ \E r \in {parsecmd2} :
             IF r.err = "" THEN shst' = "wait2" /\ todo' = r.cmd ELSE UNCHANGED <<shst, todo>>
     \/ shst' = "exit2" /\ UNCHANGED <<todo, kidfds>>
  /\ UNCHANGED <<cmdbuf, shfds>>

(* runcmd: close and open for a redirection; a pipe runs its left side     *)
Target(cmd) == cmd.fd
exitkid2 == shst' = "read2" /\ todo' = execcmd(<<>>) /\ UNCHANGED kidfds
runcmd2 ==
  /\ shst = "wait2"
  /\ \/ todo.type = "EXEC" /\ exitkid2
     \/ /\ todo.type = "REDIR"
        /\ \/ exitkid2
           \/ /\ kidfds' = opened([kidfds EXCEPT ![Target(todo)] = Closed], todo.file)
              /\ todo' = todo.cmd /\ shst' = shst
     \/ /\ todo.type = "PIPE" /\ todo' = todo.left /\ UNCHANGED <<kidfds, shst>>
  /\ UNCHANGED <<cmdbuf, shfds>>

L2Next == mainloop \/ runcmd2

-----------------------------------------------------------------------------
(* On the lines both shells understand (no "&", ";", parentheses or ">>")  *)
(* the lab's parser accepts what the xv6 shell's accepts, and builds the   *)
(* same tree with the same words.                                          *)
Common == ToSet(cmdbuf) \cap {"&", ";", "(", ")"} = {} /\ \A i \in 1..Len(cmdbuf)-1 : <<cmdbuf[i], cmdbuf[i+1]>> # <<">", ">">>
SameTreeAsXv6 ==
  shst = "read2" /\ Common => \A r \in {parsecmd}, r2 \in {parsecmd2} :
    IF r.err = "" THEN r2.err = "" /\ r2.cmd = r.cmd ELSE r2.err # ""

(* The program of a line starts with the first file typed for each fd.     *)
FdsAsRedirected2 ==
  shst = "wait2" /\ todo.type = "EXEC" =>
    \A f \in {0, 1} : kidfds[f] = Last(<<Console>> \o Spine(parsecmd2.cmd, f))

(* The lab's shell treats a line as the xv6 shell does: the same tree, and *)
(* the same files when the program starts.                                 *)
RunsAsXv6 == SameTreeAsXv6 /\ FdsAsRedirected2
=============================================================================
