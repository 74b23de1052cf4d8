------------------------------ MODULE MCRunner ------------------------------
(***************************************************************************)
(* Runner over lines compiled by Codegen, and what the two together are    *)
(* held to.                                                                *)
(***************************************************************************)
EXTENDS Runner, Codegen, ShellSemantics

(* All of the lines below parse alike in both builds. *)
P == INSTANCE Parser WITH Developer <- TRUE

(* Commands of the lines below. *)
Regular(cmd)      == Word(Literal(cmd))
BuiltIn(kind, cmd, args) == Invoke(Word(Builtin(kind, cmd)), args)
Run(cmd)          == Invoke(Regular(cmd), << >>)
With(cmd, scopes) == Invoke(Regular(cmd), [i \in DOMAIN scopes |-> Expansion(scopes[i])])
True(cmd)         == BuiltIn("true", cmd, << >>)
False(cmd)        == BuiltIn("false", cmd, << >>)
Exit_(cmd, n)     == BuiltIn("exit", cmd, << Word(Number(n)) >>)
Again(cmd)        == BuiltIn("again", cmd, << >>)
Fg(cmd)           == BuiltIn("fg", cmd, << >>)
FgNth(cmd, n)     == BuiltIn("fg", cmd, << Word(Number(n)) >>)
ToWord(kind, cmd) == BuiltIn(kind, cmd, << Word(Literal("word")) >>)
Pipe(l, r)        == [t |-> "pipe", l |-> l, r |-> r]
And(l, r)         == [t |-> "and", l |-> l, r |-> r]
Or(l, r)          == [t |-> "or", l |-> l, r |-> r]
IfElse(c, d, r)   == [t |-> "if", cond |-> c, direct |-> d, reverse |-> << r >>]
IfThen(c, d)      == [t |-> "if", cond |-> c, direct |-> d, reverse |-> << >>]
Detach_(ast)      == [t |-> "detach", of |-> ast]

(* name -> what the user means by the line. *)
JobA == Pipe(Run("a"), Run("b"))
JobB == Or(Run("a"), Run("b"))
Ast ==
  [ seq     |-> << Run("a"), Run("b") >>,
    pipe    |-> << Pipe(Pipe(Run("a"), False("f")), Run("b")), True("t") >>,
    and     |-> << And(Run("a"), Run("b")), Run("c") >>,
    orelse  |-> << Or(Or(Run("a"), Run("b")), Run("c")) >>,
    orand   |-> << And(Or(Run("a"), Run("b")), Run("c")) >>,
    ifelse  |-> << IfElse(<< Run("a") >>, << Run("b") >>, << Run("c") >>), True("t") >>,
    ifand   |-> << IfThen(<< And(Run("a"), Run("b")) >>, << Run("c") >>) >>,
    ifif    |-> << IfElse(<< Run("a") >>,
                      << IfThen(<< Run("b") >>, << Run("c") >>), True("t") >>,
                      << Run("d") >>) >>,
    elseif  |-> << IfElse(<< Run("a") >>, << Run("b") >>,
                      << IfElse(<< Run("c") >>, << Run("d") >>, << True("t") >>) >>),
                   True("u") >>,
    ifblank |-> << IfElse(<< Run("a") >>, << Run("b") >>, << >>), True("t") >>,
    blank   |-> << >>,
    andand  |-> << And(And(Run("a"), Run("b")), Run("c")) >>,
    exp     |-> << With("a", << << And(Run("b"), Run("c")) >> >>), Run("d") >>,
    exps    |-> << Pipe(With("a", << << Run("b") >> >>),
                        With("c", << << Run("d") >> >>)) >>,
    expnone |-> << With("a", << << >> >>), Run("b") >>,
    expexit |-> << With("a", << << And(Exit_("x", 3), Run("b")) >> >>) >>,
    expif   |-> << IfThen(<< Run("c") >>,
                      << With("a", << << IfThen(<< Run("b") >>, << True("t") >>) >> >>) >>) >>,
    exit    |-> << Run("a"), Exit_("x", 259), Run("b") >>,
    cd      |-> << Run("a"), ToWord("cd", "d"), Run("b") >>,
    cdpipe  |-> << Pipe(ToWord("cd", "d"), Run("a")), Run("b") >>,
    exitw   |-> << Run("a"), ToWord("exit", "x"), Run("b") >>,
    againw  |-> << Or(ToWord("again", "h"), Run("a")) >>,
    fgword  |-> << Detach_(JobA), And(ToWord("fg", "g"), Run("c")) >>,
    pipexit |-> << Pipe(Exit_("x", 3), Run("a")), Run("b") >>,
    detach  |-> << Detach_(JobA), Run("c") >>,
    job     |-> << JobA >>,
    detach2 |-> << Detach_(JobA), Detach_(JobB) >>,
    job2    |-> << JobB >>,
    fg      |-> << Fg("g"), Run("c") >>,
    fgpipe  |-> << Pipe(Fg("g"), Run("c")) >>,
    fgone   |-> << FgNth("g", 1) >>,
    truebg  |-> << Detach_(True("t")) >>,
    true    |-> << True("t") >>,
    again   |-> << Again("h"), Run("c") >>,
    againfg |-> << Again("h"), Fg("g"), Run("c") >>,
    again2  |-> << Again("h"), Again("i") >>,
    justrun |-> << Run("a") >> ]

(* The lines are written, scanned and parsed, which gives what was meant,  *)
Line(scope) == IF scope = << >> THEN << Separator >> ELSE Text(scope)
ASSUME LinesParse ==
  \A name \in DOMAIN Ast :
    LET r == P!Parse(P!Scan(Line(Ast[name])))
    IN  r.error = "none" /\ r.got = Ast[name]

(* and compiled; a detached command is known by the name it has above.     *)
Named(jobs) == [i \in DOMAIN jobs |-> CHOOSE name \in DOMAIN Ast : Ast[name] = << jobs[i] >>]
Code ==
  [name \in DOMAIN Ast |-> [Compile(Ast[name]) EXCEPT !.detachables = Named(@)]] @@ << >>
MCProgram == Code

(* Settings: an interactive session of a developer build or of the default *)
(* one, and script files, n pids to go round; the lines `again' finds.     *)
Prompt(developer, lines, most, n) ==
  [interactive |-> TRUE, developer |-> developer, lines |-> lines, most |-> most,
   again |-> {"justrun", "detach"}, scripts |-> << >>, pids |-> 1 .. n]
Files(developer, scripts, n) ==
  [interactive |-> FALSE, developer |-> developer, lines |-> {}, most |-> 0,
   again |-> {}, scripts |-> scripts, pids |-> 1 .. n]

Plain == {"seq", "pipe", "and", "orelse", "orand", "ifelse", "ifif", "elseif",
          "exit", "cd", "pipexit", "ifblank", "blank"}
NoNumbers == {"cdpipe", "exitw", "againw", "fgword"}
WithExpansions == {"exp", "exps", "expexit", "expif", "expnone"}

(* Two lines of every shape, and of built-ins given a word that is no      *)
(* number; one line of the default build, where it ends the session, and   *)
(* files, with expansions in them; a full process table; three lines of    *)
(* detached commands, `fg' and `again'; and the two ways to a second       *)
(* reader.                                                                 *)
ShellSettings ==
  {Prompt(TRUE, Plain, 2, 4), Prompt(TRUE, NoNumbers, 2, 3),
   Prompt(FALSE, Plain \cup WithExpansions \cup {"again"}, 2, 5),
   Prompt(FALSE, {"seq", "pipe", "and", "elseif", "exp", "exps", "expif"}, 1, 3)}
  \cup {Files(TRUE, scripts, 5) :
          scripts \in {<< "exp" >>, << "exps" >>, << "expexit" >>, << "expif", "seq" >>,
                      << "expnone" >>, << "detach2" >>, << "fg" >>, << "again", "againw" >>,
                      << "cd", "exitw" >>}}
  \cup {Prompt(TRUE, {"detach", "detach2", "fg", "fgpipe", "fgone", "again", "againfg", "truebg"}, 3, 4)}
  \cup {Prompt(TRUE, WithExpansions \ {"exps"}, 1, 5),
        [Prompt(TRUE, {"again", "again2", "againfg"}, 1, 5)
           EXCEPT !.again = {"true", "and", "exit"}]}

ChainSettings    == {Prompt(TRUE, {"ifand", "andand"}, 1, 4)}
FgSettings       == {Prompt(TRUE, {"detach", "fgone"}, 2, 4)}
DefaultSettings  == {Prompt(FALSE, {"seq"}, 2, 4)}
TwiceSettings    == {[Prompt(TRUE, {"again2"}, 2, 4) EXCEPT !.again = {"true"}]}

(* Commands exit with 0 or 1. *)
Either(cmds) == [c \in cmds |-> {0, 1}]
StatusesABCD == Either({"a", "b", "c", "d"})

-----------------------------------------------------------------------------
(* `again' or `fg' ran a line with built-ins in it.  The child of such a   *)
(* built-in leaves only the frames that were running: it goes on with the  *)
(* line that asked for it, and does what the shell itself is going to do.  *)
Repeated == \E c \in DOMAIN nested : Program[nested[c]].builtins

(* Only the process the user started reads lines or opens scripts: a child *)
(* made for a built-in or an expansion never comes back to main's loop.    *)
(* Two kinds do: a built-in's child that goes on with a second `again',    *)
(* whose end clears the thrown exit; and, at the prompt of a developer     *)
(* build, an expansion's, whose DONE ends a line and not the process.      *)
SecondReader == \E p \in DOMAIN procs : p # Main /\ IsShell(p, "prompt")
OneReader ==
  SecondReader =>
    \/ Repeated /\ Cardinality(DOMAIN nested) > 1
    \/ setting.developer /\ setting.interactive /\ line \in WithExpansions

(* The commands a line launches are those its AST launches, in that order, *)
(* none of them twice, whichever process launches them.  (The two          *)
(* expansions of "exps" run side by side, so their order is open; an       *)
(* expansion cut short by a full process table does not stop its line; and *)
(* what follows a repeated built-in is run by its child too.)              *)
Meaning ==
  MeanScope(Ast[line], [will |-> will, interactive |-> setting.interactive,
                        inside |-> [c \in DOMAIN nested |-> Ast[nested[c]]]])
SideBySide == {"exps"}
CutShort == line \in WithExpansions /\ Cardinality(setting.pids) < 4
FollowsTheLine ==
  (line \notin SideBySide \cup {"none"} /\ ~CutShort /\ ~Repeated) => IsPrefix(launched, Meaning.ran)

(* When the line is over all of them have been launched. *)
RunsTheWholeLine ==
  (line # "none" /\ IsShell(Main, "prompt") /\ ~Repeated) => launched = Meaning.ran

(* exit_code after a complete line that ends in a plain step is that       *)
(* step's status, and the process exits with the code given to `exit', of  *)
(* which the system keeps eight bits.                                      *)
EndsInStep(scope) == scope # << >> /\ Last(scope).t \in {"invoke", "pipe"}
Ended(p) == IsShell(p, "ending") \/ IsShell(p, "zombie")
StatusOfTheLine ==
  (line \notin SideBySide \cup {"none"} /\ ~Repeated /\ launched = Meaning.ran) =>
    /\ IsShell(Main, "prompt") /\ EndsInStep(Ast[line]) => Proc(Main).code = Meaning.status
    /\ Ended(Main) /\ (Meaning.exited \/ EndsInStep(Ast[line])) =>
         Proc(Main).status = Meaning.status % 256

(* Every line comes to its end: the prompt, the next script or the exit.   *)
(* (A second reader is a child the line waits for, until its input ends.)  *)
LineEnds == Running(Main) ~> (~Running(Main) \/ SecondReader)

(* What a line does not launch it does not keep quiet about: a shell that  *)
(* ends before its line is complete, the process table being full, a scope *)
(* being blank, a history line not compiling or the number of a child that *)
(* reports an error being lost, reports a failure.  (An expansion's failure*)
(* is not the line's: its status is folded into a condition the splice     *)
(* resets.)                                                                *)
UnfinishedLineFails ==
  (line \notin WithExpansions \cup {"none"} /\ Ended(Main) /\ Len(launched) < Len(Meaning.ran)) =>
    Proc(Main).status # 0

-----------------------------------------------------------------------------
(* What the repository says of the program and the code does not do.       *)

(* A command after && runs when everything before it in the chain          *)
(* succeeded, and what follows a command that failed is the reverse        *)
(* branch (dossier.stringlist: "&&,||,;" chain commands).                  *)
ChainsAsWritten == line # "none" => IsPrefix(launched, Meaning.ran)

(* fg N brings job N to the front (dossier.stringlist): when the line is   *)
(* over job N is not in the list any more.                                 *)
FgBringsTheJob ==
  (line # "none" /\ IsShell(Main, "prompt")) =>
    \A i \in DOMAIN Ast[line], j \in DOMAIN Proc(Main).jobs :
      (Ast[line][i].t = "invoke" /\ Call(Ast[line][i]).kind = "fg") =>
        Proc(Main).jobs[j].order # Call(Ast[line][i]).arg

(* `true' does nothing and only returns (dossier.stringlist), in a line    *)
(* that is repeated as well: it does not leave a second shell at the       *)
(* prompt, reading the same input.                                         *)
TrueDoesNothing == ~SecondReader

(* The loop of main () reads lines until exit, an error or the end of      *)
(* input: a line that does not exit comes back to the prompt.              *)
PromptComesBack ==
  [][(Running(Main) /\ ~Running(Main)' /\ ~Meaning'.exited) =>
       IsShell(Main, "prompt")']_vars
=============================================================================
