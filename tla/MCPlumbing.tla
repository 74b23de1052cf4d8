----------------------------- MODULE MCPlumbing -----------------------------
(***************************************************************************)
(* Plumbing over lines compiled by Codegen, and the data flow of ShellFlow *)
(* it is held to.                                                          *)
(***************************************************************************)
EXTENDS Plumbing, Codegen

P == INSTANCE Parser WITH Developer <- TRUE
F == INSTANCE ShellFlow

(* The same, were every datum readable. *)
Full == INSTANCE ShellFlow WITH Unreadable <- "none"

(* Programs: two that say something, a longer one, one whose output is not *)
(* UTF-8, one that names another, one that never ends, filters, and one    *)
(* that ends without reading; and the built-ins that print or do nothing.  *)
Saying(says) == [reads |-> FALSE, says |-> says, endless |-> FALSE]
Filter       == [reads |-> TRUE, says |-> << >>, endless |-> FALSE]
MCDoes ==
  [src |-> Saying(<< "x", "y" >>), one |-> Saying(<< "z" >>), long |-> Saying(<< "x", "y", "z" >>),
   raw |-> Saying(<< "x", "raw" >>), name |-> Saying(<< "cat" >>),
   yes |-> [Saying(<< "x" >>) EXCEPT !.endless = TRUE],
   quit |-> Saying(<< >>), cat |-> Filter, copy |-> Filter, show |-> Filter,
   help |-> Saying(<< "h" >>), true |-> Saying(<< >>)]
MCFiles == [f |-> << "p" >>, g |-> << >>]

R(cmd) == Invoke(Word(Literal(cmd)), << >>)
B(kind) == Invoke(Word(Builtin(kind, kind)), << >>)
Show(items) == Invoke(Word(Literal("show")), items)
W(value) == Word(Literal(value))
X(ast) == Expansion(<< ast >>)
Pipe(l, r) == [t |-> "pipe", l |-> l, r |-> r]
To(ast, op, file) == [ast EXCEPT !.redirects = Append(@, Redirect(op, Literal(file)))]

Ast ==
  [ pipe3    |-> << Pipe(Pipe(R("long"), R("cat")), R("copy")) >>,
    file     |-> << Pipe(To(R("src"), ">", "g"), R("cat")), To(R("copy"), "<", "g") >>,
    same     |-> << To(To(R("cat"), "<", "f"), ">", "f") >>,
    last     |-> << To(To(R("src"), ">", "f"), ">", "new") >>,
    append   |-> << To(R("src"), ">>", "f"), To(R("cat"), "<", "f") >>,
    nofile   |-> << Pipe(To(R("src"), ">>", "none"), R("cat")) >>,
    noinput  |-> << Pipe(To(To(R("cat"), "<", "none"), ">", "f"), To(R("copy"), ">", "g")) >>,
    quit     |-> << Pipe(R("yes"), R("quit")), R("one") >>,
    builtins |-> << Pipe(Pipe(B("help"), B("true")), R("cat")), R("one") >>,
    fg       |-> << Pipe(B("fg"), R("cat")) >>,
    unknown  |-> << Pipe(R("src"), R("nowhere")) >>,
    exp      |-> << Show(<< X(R("src")), W("w"), X(R("one")) >>), R("one") >>,
    exppipe  |-> << Show(<< X(Pipe(R("src"), R("cat"))) >>) >>,
    expboth  |-> << Pipe(Invoke(W("cat"), << X(R("one")) >>), Show(<< X(R("src")) >>)) >>,
    exptwice |-> << Show(<< X(R("one")), X(R("src")) >>), Invoke(W("copy"), << X(R("one")) >>) >>,
    target   |-> << Invoke(X(R("name")), << X(R("one")), W("w") >>) >>,
    raw      |-> << Show(<< X(R("raw")), X(R("one")) >>), R("one") >>,
    expfile  |-> << To(Show(<< X(To(R("cat"), "<", "f")) >>), ">", "f") >>,
    wide     |-> << Show(<< X(R("one")), X(R("long")) >>) >>,
    expyes   |-> << Show(<< X(R("yes")) >>) >> ]

Line(scope) == Text(scope)
ASSUME LinesParse ==
  \A name \in DOMAIN Ast :
    LET r == P!Parse(P!Scan(Line(Ast[name])))
    IN  r.error = "none" /\ r.got = Ast[name]

MCProgram == [name \in DOMAIN Ast |-> Compile(Ast[name]).code]
Flow == [name \in DOMAIN Ast |-> F!Flow(Ast[name])]
FullFlow == [name \in DOMAIN Ast |-> Full!Flow(Ast[name])]

(* Whether an expansion of the line says more than its pipe holds. *)
Outgrown(name) == Flow[name].widest > Capacity \/ name = "expyes"

MCLines == DOMAIN Ast
(* A system with enough for each line, and with too few processes or pipes.*)
Ample == [pids |-> 1 .. 7, pipes |-> 1 .. 4]
MCLimits == {Ample} \cup {[pids |-> 1 .. n, pipes |-> 1 .. 4] : n \in 2 .. 6}
                    \cup {[pids |-> 1 .. 7, pipes |-> 1 .. n] : n \in 0 .. 2}

-----------------------------------------------------------------------------
(* What flows is at every moment a part of what the line says: each        *)
(* command was started with the words written for it, each expansion's     *)
(* value, or what is left of it when it could not be run, in its own place,*)
(* and has read a beginning of what it is to read; so with the terminal.   *)
(* Whatever the pipes and processes that could not be had.                 *)
NothingMisrouted ==
  LET flow == FullFlow[line] IN
  /\ \A cmd \in DOMAIN argvs :
       /\ cmd \in DOMAIN flow.argvs
       /\ Len(argvs[cmd]) = Len(flow.argvs[cmd])
       /\ \A i \in DOMAIN argvs[cmd] : IsPrefix(argvs[cmd][i], flow.argvs[cmd][i])
  /\ \A cmd \in DOMAIN took : cmd \in DOMAIN flow.took /\ IsPrefix(took[cmd], flow.took[cmd])
  /\ IsPrefix(tty, flow.out)

(* Everybody has left. *)
AllGone == \A p \in DOMAIN procs : Proc(p).state = "zombie"

(* When everybody has left, and there were processes and pipes enough, all *)
(* of it has arrived: in the files, which nobody else changed, on the      *)
(* terminal, and in the words the commands were started with.              *)
DeliversEverything ==
  (AllGone /\ limits = Ample) =>
    LET flow == Flow[line] IN files = flow.files /\ tty = flow.out /\ argvs = flow.argvs

(* The line comes to its end and nobody stays behind, whatever processes   *)
(* and pipes could not be had, filters and endless writers included:       *)
(* unless an expansion says more than its pipe holds, which the shell reads*)
(* only after it has waited for the expansion.                             *)
LineFinishes == ~Outgrown(line) => <>AllGone
=============================================================================
