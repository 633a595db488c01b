---------------------------------- MODULE Sh ----------------------------------
(***************************************************************************)
(* xv6/sh.c: reading a line, parsing it with recursive descent over the    *)
(* characters of buf, and running it in a child.  A line is a sequence of  *)
(* characters: "x" stands for any letter, " " for any white space, the     *)
(* symbols for themselves, and reading past the end gives "0", the NUL.    *)
(* A result of the parser is a record of the tree, the next position and   *)
(* the message of panic(), "" when there was none.                         *)
(*                                                                         *)
(* A definition X_Suffix is a mutant of X, a bug the code could have had;  *)
(* it is used by no other definition.                                      *)
(***************************************************************************)
EXTENDS Integers, Sequences, FiniteSets, FiniteSetsExt, SequencesExt

CONSTANTS
  Lines,         \* lines that may be typed
  MAXARGS

VARIABLES
  cmdbuf,        \* the line
  shst,          \* what the shell is doing
  shfds,         \* fds of the shell, by what they refer to
  todo,          \* the child: command still to be run, or what came of it
  kidfds         \* fds of the child

shvars == <<cmdbuf, shst, shfds, todo, kidfds>>
whitespace == {" "}
symbols == {"<", "|", ">", "&", ";", "(", ")"}
Ch(s) == IF s <= Len(cmdbuf) THEN cmdbuf[s] ELSE "0"
es == Len(cmdbuf) + 1

-----------------------------------------------------------------------------
(* gettoken and peek                                                       *)
skip(s) == Min({j \in s..es : j = es \/ Ch(j) \notin whitespace})
wordend(s) == Min({j \in s..es : j = es \/ Ch(j) \in whitespace \cup symbols})
token(tok, q, eq) == [tok |-> tok, q |-> q, eq |-> eq, s |-> skip(eq)]
tokenat(s) ==
  CASE Ch(s) = "0" -> token("0", s, s)
    [] Ch(s) = ">" /\ Ch(s + 1) = ">" -> token("+", s, s + 2)
    [] Ch(s) \in symbols -> token(Ch(s), s, s + 1)
    [] OTHER -> token("a", s, wordend(s))
gettoken(ps) == tokenat(skip(ps))
peek(ps, toks) == Ch(skip(ps)) \in toks

(* The constructors                                                        *)
execcmd(argv) == [type |-> "EXEC", argv |-> argv]
redircmd(cmd, q, eq, fd) == [type |-> "REDIR", cmd |-> cmd, file |-> <<q, eq>>, fd |-> fd]
pipecmd(l, r) == [type |-> "PIPE", left |-> l, right |-> r]
listcmd(l, r) == [type |-> "LIST", left |-> l, right |-> r]
backcmd(cmd) == [type |-> "BACK", cmd |-> cmd]

Ok(cmd, s) == [cmd |-> cmd, s |-> s, err |-> ""]
Err(msg) == [cmd |-> execcmd(<<>>), s |-> 0, err |-> msg]
(* cmd's tree with another argument list in its EXEC node: argv is filled  *)
(* in after the node was wrapped in redirections.                          *)
RECURSIVE withargv(_, _), parseredirs(_, _), parseargs(_, _, _), parsepipe(_), backs(_), parseline(_), nulls(_)
withargv(cmd, argv) ==
  IF cmd.type = "EXEC" THEN execcmd(argv) ELSE [cmd EXCEPT !.cmd = withargv(@, argv)]

redirection(cmd, op, f) ==
  IF f.tok # "a" THEN Err("missing file for redirection")
  ELSE parseredirs(redircmd(cmd, f.q, f.eq, IF op.tok = "<" THEN 0 ELSE 1), f.s)
redirop(cmd, op) == redirection(cmd, op, gettoken(op.s))
parseredirs(cmd, ps) == IF peek(ps, {"<", ">"}) THEN redirop(cmd, gettoken(ps)) ELSE Ok(cmd, ps)

(* parseexec's loop: the arguments, with redirections between them         *)
TooMany(argc) == argc >= MAXARGS
moreargs(r, argv) == IF r.err # "" THEN r ELSE parseargs(r.cmd, r.s, argv)
nextarg(ret, ps, argv, t) ==
  IF t.tok = "0" THEN Ok(withargv(ret, argv), ps)
  ELSE IF t.tok # "a" THEN Err("syntax")
  ELSE IF TooMany(Len(argv) + 1) THEN Err("too many args")
  ELSE moreargs(parseredirs(ret, t.s), Append(argv, <<t.q, t.eq>>))
parseargs(ret, ps, argv) ==
  IF peek(ps, {"|", ")", "&", ";"}) THEN Ok(withargv(ret, argv), ps)
  ELSE nextarg(ret, ps, argv, gettoken(ps))

(* parseblock: "(" line ")" redirections                                   *)
blockend(r) ==
  IF r.err # "" THEN r
  ELSE IF ~peek(r.s, {")"}) THEN Err("syntax - missing )")
  ELSE parseredirs(r.cmd, gettoken(r.s).s)
parseblock(ps) == blockend(parseline(gettoken(ps).s))

parseexec(ps) ==
  IF peek(ps, {"("}) THEN parseblock(ps) ELSE moreargs(parseredirs(execcmd(<<>>), ps), <<>>)

piped(l, r) == IF r.err # "" THEN r ELSE Ok(pipecmd(l.cmd, r.cmd), r.s)
pipeend(l) ==
  IF l.err # "" \/ ~peek(l.s, {"|"}) THEN l ELSE piped(l, parsepipe(gettoken(l.s).s))
parsepipe(ps) == pipeend(parseexec(ps))

backs(r) ==
  IF r.err = "" /\ peek(r.s, {"&"}) THEN backs(Ok(backcmd(r.cmd), gettoken(r.s).s)) ELSE r
listed(l, r) == IF r.err # "" THEN r ELSE Ok(listcmd(l.cmd, r.cmd), r.s)
lineend(l) ==
  IF l.err # "" \/ ~peek(l.s, {";"}) THEN l ELSE listed(l, parseline(gettoken(l.s).s))
parseline(ps) == lineend(backs(parsepipe(ps)))

Leftover_Ignored(r) == FALSE
Leftover(r) == r.err = "" /\ skip(r.s) # es
noleftover(r) == IF Leftover(r) THEN Err("syntax") ELSE r
parsecmd == noleftover(parseline(1))

(* nulterminate: the positions of buf it sets to 0                         *)
NulAt(w) == w[2]
nulls(cmd) ==
  CASE cmd.type = "EXEC" -> {NulAt(cmd.argv[i]) : i \in 1..Len(cmd.argv)}
    [] cmd.type = "REDIR" -> nulls(cmd.cmd) \cup {NulAt(cmd.file)}
    [] cmd.type \in {"PIPE", "LIST"} -> nulls(cmd.left) \cup nulls(cmd.right)
    [] cmd.type = "BACK" -> nulls(cmd.cmd)

-----------------------------------------------------------------------------
(* main and runcmd.  fds are functions from 0..3 to what is open there;    *)
(* a file is the place of its name in buf.                                 *)
FD == 0..3
Closed == <<0, 0>>
Console == <<0, 1>>
opened(fds, what) == [fds EXCEPT ![Min({f \in FD : fds[f] = Closed})] = what]

ShInit ==     \* init, or another shell, left some of the three fds open
  /\ cmdbuf = <<>> /\ shst = "start"
  /\ shfds \in [FD -> {Closed, Console}] /\ shfds[3] = Closed
  /\ todo = execcmd(<<>>) /\ kidfds = shfds

Enough(fd) == fd >= 3
openconsole ==
  /\ shst = "start"
  /\ \/ LET fd == Min({f \in FD : shfds[f] = Closed}) IN
          IF Enough(fd) THEN shst' = "read" /\ shfds' = shfds
                        ELSE shst' = shst /\ shfds' = opened(shfds, Console)
     \/ shst' = "read" /\ shfds' = shfds    \* open fails: the shell goes on as it is
  /\ UNCHANGED <<cmdbuf, todo, kidfds>>

(* getcmd clears buf and reads a line from fd 0, or meets the end of file  *)
(* (which a closed fd 0 amounts to).                                       *)
getcmd ==
  /\ shst = "read"
  /\ \/ shfds[0] = Console /\ shst' = "line" /\ cmdbuf' \in Lines
     \/ shst' = "exit" /\ cmdbuf' = <<>>
  /\ UNCHANGED <<shfds, todo, kidfds>>

(* One line: a child is forked and parses it; fork may fail.  Once the     *)
(* child has ended the line is not looked at again.                        *)
fork1 ==
  /\ shst = "line"
  /\ \/ shst' = "exit" /\ cmdbuf' = <<>> /\ UNCHANGED <<todo, kidfds>>
     \/ /\ kidfds' = shfds
        /\ \E r \in {parsecmd} :
             IF r.err = "" THEN shst' = "wait" /\ todo' = r.cmd /\ cmdbuf' = cmdbuf
                           ELSE shst' = "read" /\ todo' = todo /\ cmdbuf' = <<>>
  /\ UNCHANGED shfds

(* runcmd, one node of the tree per step                                   *)
First(cmd) == cmd.left
exitkid == shst' = "read" /\ cmdbuf' = <<>> /\ todo' = execcmd(<<>>) /\ kidfds' = shfds
runcmd ==
  /\ shst = "wait"
  /\ \/ /\ todo.type = "EXEC"               \* exec, or nothing to run: the child ends
        /\ exitkid
     \/ /\ todo.type = "REDIR"
        /\ \/ exitkid                       \* open fails
           \/ /\ kidfds' = opened([kidfds EXCEPT ![todo.fd] = Closed], todo.file)
              /\ todo' = todo.cmd /\ UNCHANGED <<cmdbuf, shst>>
     \/ /\ todo.type \in {"PIPE", "LIST"} /\ todo' = First(todo) /\ UNCHANGED <<cmdbuf, kidfds, shst>>
     \/ /\ todo.type = "BACK" /\ todo' = todo.cmd /\ UNCHANGED <<cmdbuf, kidfds, shst>>
  /\ UNCHANGED shfds

ShNext == openconsole \/ fork1 \/ runcmd \/ getcmd

-----------------------------------------------------------------------------
(* The grammar, by splitting the token sequence at its outermost symbols   *)
RECURSIVE Tokens(_), Line(_), Pipe(_), Backs(_)
Tokens(s) == LET t == gettoken(s) IN IF t.tok = "0" THEN <<>> ELSE <<t>> \o Tokens(t.s)
Bad == [type |-> "BAD"]
Opens(ts, i, c) == Cardinality({j \in 1..i-1 : ts[j].tok = c})
Outer(ts, c) == {i \in 1..Len(ts) : ts[i].tok = c /\ Opens(ts, i, "(") = Opens(ts, i, ")")}
Before(ts, i) == SubSeq(ts, 1, i - 1)
After(ts, i) == SubSeq(ts, i + 1, Len(ts))

(* words and redirections, each redirection outside the ones before it     *)
IsRedir(ts, i) == ts[i].tok \in {"<", ">", "+"}
IsFile(ts, i) == i > 1 /\ IsRedir(ts, i - 1)
Wrapped(cmd, ts) == FoldLeft(LAMBDA c, i : IF IsFile(ts, i)
  THEN redircmd(c, ts[i].q, ts[i].eq, IF ts[i - 1].tok = "<" THEN 0 ELSE 1) ELSE c, cmd, [i \in 1..Len(ts) |-> i])
Words(ts) == SelectSeq([i \in 1..Len(ts) |-> IF IsFile(ts, i) \/ IsRedir(ts, i) THEN <<>> ELSE <<ts[i].q, ts[i].eq>>],
                       LAMBDA w : w # <<>>)
WellFormed(ts) ==
  /\ \A i \in 1..Len(ts) : ts[i].tok \in {"a", "<", ">", "+"}
  /\ \A i \in 1..Len(ts) : IsRedir(ts, i) => i < Len(ts) /\ ts[i + 1].tok = "a"
Simple(ts) == IF WellFormed(ts) /\ Len(Words(ts)) < MAXARGS THEN Wrapped(execcmd(Words(ts)), ts) ELSE Bad
Block(inner, ts) ==
  IF inner = Bad \/ ~WellFormed(ts) \/ Words(ts) # <<>> THEN Bad ELSE Wrapped(inner, ts)
Closing(ts) == Outer(Tail(ts), ")")
Exec(ts) ==
  IF ts = <<>> \/ ts[1].tok # "(" THEN Simple(ts)
  ELSE IF Closing(ts) = {} THEN Bad
  ELSE LET e == Min(Closing(ts)) + 1 IN Block(Line(SubSeq(ts, 2, e - 1)), After(ts, e))
Both(type, l, r) == IF Bad \in {l, r} THEN Bad ELSE [type |-> type, left |-> l, right |-> r]
Pipe(ts) ==
  IF Outer(ts, "|") = {} THEN Exec(ts)
  ELSE LET i == Min(Outer(ts, "|")) IN Both("PIPE", Exec(Before(ts, i)), Pipe(After(ts, i)))
Behind(c) == IF c = Bad THEN Bad ELSE backcmd(c)
Backs(ts) == IF ts # <<>> /\ Last(ts).tok = "&" THEN Behind(Backs(Front(ts))) ELSE Pipe(ts)
Line(ts) ==
  IF Outer(ts, ";") = {} THEN Backs(ts)
  ELSE LET i == Min(Outer(ts, ";")) IN Both("LIST", Backs(Before(ts, i)), Line(After(ts, i)))

(* The recursive descent accepts exactly the grammar and builds its tree,  *)
(* for every line: precedence, nesting, redirections before, between and   *)
(* after the words, and every kind of malformed line.                      *)
ParserIsGrammar ==
  shst = "line" => \A r \in {parsecmd} : Line(Tokens(1)) = IF r.err = "" THEN r.cmd ELSE Bad

(* Ending the strings in place destroys none of them: after nulterminate   *)
(* every word and file name reads, from its start to the first NUL, as it  *)
(* was typed.                                                              *)
RECURSIVE Strings(_)
Strings(cmd) ==
  CASE cmd.type = "EXEC" -> ToSet(cmd.argv)
    [] cmd.type = "REDIR" -> Strings(cmd.cmd) \cup {cmd.file}
    [] cmd.type = "BACK" -> Strings(cmd.cmd)
    [] OTHER -> Strings(cmd.left) \cup Strings(cmd.right)
StringsSurvive ==
  shst = "line" => \A r \in {parsecmd} : r.err = "" =>
    \A w \in Strings(r.cmd) : w[1] < w[2] /\ w[2] = Min({j \in nulls(r.cmd) : j >= w[1]})

(* When the program starts, fd 0 and fd 1 are the file of the innermost    *)
(* redirection of that fd around it, the first one typed, and the shell's  *)
(* console otherwise: open() returned the redirection's own fd each time,  *)
(* because main left no lower fd closed, which it does unless its open of  *)
(* the console failed.  The shell's fds are untouched.                     *)
RECURSIVE Spine(_, _)
Spine(cmd, f) ==
  CASE cmd.type = "EXEC" -> <<>>
    [] cmd.type = "REDIR" -> (IF cmd.fd = f THEN <<cmd.file>> ELSE <<>>) \o Spine(cmd.cmd, f)
    [] cmd.type = "BACK" -> Spine(cmd.cmd, f)
    [] OTHER -> Spine(cmd.left, f)
FdsAsRedirected ==
  /\ \A f \in FD : shfds[f] \in {Closed, Console}
  /\ shst = "wait" /\ todo.type = "EXEC" /\ (\A f \in 0..2 : shfds[f] = Console) =>
       /\ \A f \in {0, 1} : kidfds[f] = Last(<<Console>> \o Spine(parsecmd.cmd, f))
       /\ kidfds[2] = Console /\ kidfds[3] = Closed

(* A line runs as it was typed: it is parsed by the grammar, its strings   *)
(* survive being ended in place, and its programs start with the files it  *)
(* names.                                                                  *)
LineRunsAsTyped == ParserIsGrammar /\ StringsSurvive /\ FdsAsRedirected
=============================================================================
