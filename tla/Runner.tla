------------------------------- MODULE Runner -------------------------------
(***************************************************************************)
(* How Jash runs a line: run_unchecked of runtime/runner.c, closure_marshal*)
(* of codegen/codegen.c, the steps codegen/backend/x86_64.dasc.c emits and *)
(* the loop of main.c, over a table of processes.                          *)
(*                                                                         *)
(* A shell process holds a stack of run_unchecked frames (more than one    *)
(* while `again' or `fg' runs a closure inside a closure), the detached    *)
(* jobs and main's exit_code.  fork () copies all of it: a built-in's      *)
(* child and an expansion's child go on from the same stack.  A process    *)
(* is its pid; a pid is free again once its process has been waited for,   *)
(* and fork () fails when none is free.                                    *)
(*                                                                         *)
(* One action is one round of run_unchecked's loop: the marshal waits for  *)
(* one child, or, nothing being left to wait for, enters the closure at    *)
(* its entry, and run_unchecked acts on the status and error it gets back. *)
(* The pass over background jobs at the top of the loop is not an action:  *)
(* it skips a job whose is_running is FALSE, j_runner_job_push leaves it   *)
(* FALSE and no line of the repository sets it.                            *)
(***************************************************************************)
EXTENDS Integers, Sequences, FiniteSets, SequencesExt

CONSTANTS
  Program,     \* name -> compiled command [code, detachables, builtins]
  Settings,    \* the builds and sessions to consider
  Statuses,    \* the exit statuses of each regular command, and whether a cd
               \* finds its directory
  StoreAt,     \* values the unset index of j_codegen_emit may hold
  Pids         \* process identifiers; Main is 1

(* A setting is fixed for the session: whether argc is 1, whether Jash was *)
(* built with --enable-developer, the lines the user may type and how many *)
(* (a bound), the lines `again' may find in the history, the script files   *)
(* named on the command line, and the pids the system's limit leaves.      *)
ASSUME SettingsAreSettings ==
  \A s \in Settings :
    /\ s.interactive \in BOOLEAN /\ s.developer \in BOOLEAN
    /\ s.lines \subseteq DOMAIN Program /\ s.most \in Nat
    /\ s.again \subseteq DOMAIN Program
    /\ s.scripts \in Seq(DOMAIN Program)
    /\ 1 \in s.pids /\ s.pids \subseteq Pids

(* What the code generator emits: every kind of entry has what its step    *)
(* reads, a command that detaches another has it among detachables, and    *)
(* one whose steps call a built-in is one with built-ins.                  *)
CallOK(call) ==
  /\ call.cmd \in STRING
  /\ call.kind \in {"regular", "cd"} => call.cmd \in DOMAIN Statuses
EntryOK(e, detachables) ==
  /\ e.op \in {"empty", "splice", "detach", "step", "expand"} => e.next \in Nat
  /\ e.op = "test" => e.direct \in Nat /\ e.reverse \in Nat
  /\ e.op = "detach" => detachables # << >>
  /\ e.op = "step" => /\ Len(e.calls) \in Nat /\ DOMAIN e.calls = 1 .. Len(e.calls)
                      /\ \A i \in DOMAIN e.calls : CallOK(e.calls[i])
  /\ e.op = "expand" => e.heads \in Seq(Nat)
RegularStep(e) ==
  e.op = "step" => \A i \in DOMAIN e.calls : e.calls[i].kind = "regular"
ASSUME ProgramIsCompiled ==
  \A name \in DOMAIN Program :
    LET prog == Program[name] IN
    /\ \A i \in DOMAIN prog.code : EntryOK(prog.code[i], prog.detachables)
    /\ prog.detachables \in Seq(DOMAIN Program) /\ prog.builtins \in BOOLEAN
    /\ prog.builtins \/ \A i \in DOMAIN prog.code : RegularStep(prog.code[i])
ASSUME StatusesFit ==
  \A c \in DOMAIN Statuses : Statuses[c] # {} /\ Statuses[c] \subseteq 0 .. 255
ASSUME Numbers == StoreAt \subseteq Nat /\ Pids \subseteq Nat \ {0} /\ IsFiniteSet(Pids)

Main == 1
Nobody == 0      \* the parent of Main and of an orphan

SIGABRT == 134   \* what waitpid reports of an aborted or crashed shell,
SIGSEGV == 139   \* folded into one status

VARIABLES
  setting,   \* the setting of this session
  procs,     \* pid -> process, for every pid in use
  typed,     \* lines read so far
  line,      \* history: the line Main is running or ran last
  launched,  \* history: the commands launched since Main read its line
  nested,    \* history: what `again' and `fg' ran in it
  will       \* the status each regular command is going to exit with; 0 for a
             \* cd whose directory can be entered

vars == <<setting, procs, typed, line, launched, nested, will>>

-----------------------------------------------------------------------------
(* Closures, frames and shell memory. *)

(* j_codegen_emit: a closure for the named line or command; slot is the    *)
(* value of the unset index i it stores its detached commands at.          *)
NewClosure(name, slot) ==
  [prog |-> name, code |-> Program[name].code, entry |-> 1, cond |-> 0, waitq |-> << >>,
   slot |-> slot]

NewFrame(cl, code) == [cl |-> cl, thrown |-> FALSE, code |-> code]

Top(m) == m.frames[Len(m.frames)]
SetTop(m, f) == [m EXCEPT !.frames[Len(m.frames)] = f]

Closure(m) == Top(m).cl
SetClosure(m, cl) == [m EXCEPT !.frames[Len(m.frames)].cl = cl]
Entries(m) == Closure(m).code
Entry(m) == Entries(m)[Closure(m).entry]

(* j_step_branch_set_tag, then the marshal's reset of condition. *)
Branch(m, tag) ==
  SetClosure(m, [Closure(m) EXCEPT !.entry = tag, !.cond = 0])

(* Mistaken: the whole int.                                                *)
LeaveWhole(m, status) ==
  [m EXCEPT !.state = "ending", !.status = status, !.frames = << >>, !.jobs = << >>]

(* The process leaves main with this status, of which eight bits remain.   *)
Leave(m, status) ==
  [m EXCEPT !.state = "ending", !.status = status % 256,
            !.frames = << >>, !.jobs = << >>]

(* Mistaken: the end of a nested run ends the whole line.                  *)
ReturnToPrompt(m) ==
  IF Top(m).thrown THEN Leave(m, Top(m).code)
  ELSE [m EXCEPT !.frames = << >>, !.code = Top(m).code, !.state = "prompt"]

(* The innermost run_unchecked returns.  An outer frame folds the code     *)
(* into its closure's condition and takes over the thrown flag; main keeps *)
(* the code and, on a thrown exit, finishes.                               *)
Return(m) ==
  LET n == Len(m.frames)
      f == Top(m)
      outer == m.frames[n - 1]
  IN  IF n = 1
      THEN IF f.thrown THEN Leave(m, f.code)
           ELSE [m EXCEPT !.frames = << >>, !.code = f.code, !.state = "prompt"]
      ELSE SetTop([m EXCEPT !.frames = SubSeq(@, 1, n - 1)],
             [cl |-> [outer.cl EXCEPT !.cond = IF f.code # 0 THEN 1 ELSE @],
              thrown |-> f.thrown,
              code |-> IF f.thrown THEN f.code ELSE outer.code])

(* Mistaken: an exit is no more than the end of the line.                  *)
ExitOfLine(m, code) == Return(SetTop(m, [Top(m) EXCEPT !.code = code]))

(* An interrupt that carries an integer: the frame ends with that code. *)
Exit(m, code) ==
  Return(SetTop(m, [Top(m) EXCEPT !.thrown = TRUE, !.code = code]))

(* Mistaken: the value of the error is not read.                           *)
DoneUnread(m, code) == Return(m)

(* j_set_closure_error_done: only a developer build raises DONE, which an  *)
(* interactive runner takes as the end of the line and not of the shell.   *)
Done(m, code) ==
  IF setting.developer /\ setting.interactive
  THEN Return(SetTop(m, [Top(m) EXCEPT !.code = code]))
  ELSE Exit(m, code)

(* Mistaken: main returns 0 after an error.                                *)
FailQuietly(m) == Leave(m, 0)

(* Any other error goes up through every frame to main, which returns 1. *)
Fail(m) == Leave(m, 1)

-----------------------------------------------------------------------------
(* Processes. *)

Proc(p) == procs[p]
IsShell(p, state) == p \in DOMAIN procs /\ Proc(p).state = state
Running(p) == IsShell(p, "run")
ChildrenOf(p) == {c \in DOMAIN procs : Proc(c).parent = p}

(* The pids the next n calls of fork () return, fewer when they run out:   *)
(* the lowest unused ones.                                                 *)
Forked(n) ==
  LET free == setting.pids \ DOMAIN procs
      k == IF Cardinality(free) < n THEN Cardinality(free) ELSE n
  IN  {s \in [1 .. k -> free] :
         \A i \in 1 .. k : Cardinality({r \in free : r < s[i]}) = i - 1}

Update(p, m) == procs' = [procs EXCEPT ![p] = m]

(* Mistaken: each fork writes its pid over the one before.                 *)
WaitForLast(cl, pids) == [cl EXCEPT !.waitq = << Last(pids) >>]

(* Whom the marshal has to wait for before the next entry.                 *)
WaitFor(cl, pids) == [cl EXCEPT !.waitq = pids]

(* Fork the given children under these pids, as far as they go; m is what  *)
(* the parent goes on with.                                                *)
Fork(p, children, pids, m) ==
  procs' = [q \in DOMAIN procs \cup Range(pids) |->
              IF q = p THEN m
              ELSE IF q \in DOMAIN procs THEN procs[q]
              ELSE [children[CHOOSE i \in DOMAIN pids : pids[i] = q]
                      EXCEPT !.parent = p]]

(* The parent waits for its children, or fails when one does not exist.    *)
ForkAll(p, children, pids, m) ==
  Fork(p, children, pids,
       IF Len(pids) < Len(children) THEN Fail(Proc(p))
       ELSE SetClosure(m, WaitFor(Closure(m), pids)))

(* The marshal has nothing to wait for and enters the closure. *)
Enters(p, op) ==
  /\ Running(p)
  /\ Closure(Proc(p)).waitq = << >>
  /\ Closure(Proc(p)).entry \in DOMAIN Entries(Proc(p))
  /\ Entry(Proc(p)).op = op

(* What parse_staged makes of the named line. *)
Compiled(name) ==
  {NewClosure(name, slot) :
     slot \in IF Program[name].detachables = << >> THEN {0} ELSE StoreAt}

(* Each regular command is going to succeed or fail. *)
Outcomes == {w \in [DOMAIN Statuses -> UNION {Statuses[c] : c \in DOMAIN Statuses}] :
               \A c \in DOMAIN Statuses : w[c] \in Statuses[c]}

Nothing == [cmd \in {} |-> cmd]

StartLine(p, name, m) ==
  /\ \E cl \in Compiled(name) :
       Update(p, [m EXCEPT !.state = "run", !.frames = << NewFrame(cl, m.code) >>])
  /\ IF p = Main THEN /\ line' = name
                      /\ launched' = << >>
                      /\ nested' = Nothing
                      /\ will' \in Outcomes
                 ELSE UNCHANGED <<line, launched, nested, will>>

-----------------------------------------------------------------------------
(* main.c *)

Init ==
  /\ setting \in Settings
  /\ procs = [p \in {Main} |->
                [parent |-> Nobody, state |-> "prompt", status |-> 0,
                 frames |-> << >>, jobs |-> << >>, order |-> 1,
                 code |-> 0, scripts |-> setting.scripts]]
  /\ typed = 0
  /\ line = "none"
  /\ launched = << >>
  /\ nested = Nothing
  /\ will = [c \in DOMAIN Statuses |-> CHOOSE s \in Statuses[c] : TRUE]

(* The interactive loop: j_readline_get, j_runner_run_line. *)
ReadLine(p, name) ==
  /\ setting.interactive
  /\ IsShell(p, "prompt")
  /\ typed < setting.most
  /\ typed' = typed + 1
  /\ UNCHANGED setting
  /\ StartLine(p, name, Proc(p))

(* The loop over the command line: j_runner_run_file on the next script. *)
RunScript(p) ==
  /\ ~setting.interactive
  /\ IsShell(p, "prompt")
  /\ Proc(p).scripts # << >>
  /\ StartLine(p, Head(Proc(p).scripts), [Proc(p) EXCEPT !.scripts = Tail(@)])
  /\ UNCHANGED <<setting, typed>>

(* Text that cannot be opened, scanned, parsed or emitted: the error goes  *)
(* to main, which returns 1, unless the parser brings the shell down at    *)
(* once.                                                                   *)
Refused(p) ==
  \/ Update(p, Fail(Proc(p)))
  \/ Update(p, Leave(Proc(p), SIGABRT))
  \/ Update(p, Leave(Proc(p), SIGSEGV))

(* A line or a script like that. *)
ReadMalformed(p) ==
  /\ IsShell(p, "prompt")
  /\ IF setting.interactive THEN typed < setting.most ELSE Proc(p).scripts # << >>
  /\ Refused(p)
  /\ line' = IF p = Main THEN "none" ELSE line
  /\ UNCHANGED <<setting, typed, launched, nested, will>>

(* End of input, or no script left: run () returns exit_code. *)
EndOfInput(p) ==
  /\ IsShell(p, "prompt")
  /\ ~setting.interactive => Proc(p).scripts = << >>
  /\ Update(p, Leave(Proc(p), Proc(p).code))
  /\ UNCHANGED <<setting, typed, line, launched, nested, will>>

-----------------------------------------------------------------------------
(* closure_marshal *)

(* One waitpid on the head of waitq; a pid that is not a child of p is an  *)
(* error that ends the shell.  A child still running leaves the marshal    *)
(* WAITING, and run_unchecked tries again: no step.                        *)
Reap(p) ==
  /\ Running(p)
  /\ Closure(Proc(p)).waitq # << >>
  /\ LET m == Proc(p)
         cl == Closure(m)
         child == Head(cl.waitq)
     IN  IF child \notin ChildrenOf(p) THEN Update(p, Fail(m))
         ELSE /\ Proc(child).state = "zombie"
              /\ LET m1 == SetClosure(m, [cl EXCEPT
                             !.waitq = Tail(@),
                             !.cond = IF Proc(child).status # 0 THEN 1 ELSE @])
                 IN procs' = [q \in DOMAIN procs \ {child} |->
                                IF q = p THEN m1 ELSE procs[q]]
  /\ UNCHANGED <<setting, typed, line, launched, nested, will>>

-----------------------------------------------------------------------------
(* The emitted entries. *)

(* j_context_emit_chain_empty *)
EnterEmpty(p) ==
  /\ Enters(p, "empty")
  /\ Update(p, Branch(Proc(p), Entry(Proc(p)).next))
  /\ UNCHANGED <<setting, typed, line, launched, nested, will>>

(* j_context_emit_test *)
EnterTest(p) ==
  /\ Enters(p, "test")
  /\ LET e == Entry(Proc(p)) IN
     Update(p, Branch(Proc(p),
                 IF Closure(Proc(p)).cond = 0 THEN e.direct ELSE e.reverse))
  /\ UNCHANGED <<setting, typed, line, launched, nested, will>>

(* j_context_emit_chain_last *)
EnterLast(p) ==
  /\ Enters(p, "last")
  /\ Update(p, Done(Proc(p), Closure(Proc(p)).cond))
  /\ UNCHANGED <<setting, typed, line, launched, nested, will>>

(* Mistaken: the job is queued behind the older ones.                      *)
PushedLast(m, cl) ==
  [m EXCEPT !.order = @ + 1, !.jobs = Append(@, [order |-> m.order, cl |-> cl])]

(* j_runner_job_push *)
Pushed(m, cl) ==
  [m EXCEPT !.order = @ + 1, !.jobs = << [order |-> m.order, cl |-> cl] >> \o @]

(* j_context_emit_chain_step_detach and the arm of run_unchecked that      *)
(* compiles the command and pushes the job.  Every detached command of the *)
(* closure was stored at detachables[i], i unset, so the entry finds the   *)
(* last one stored there when its own index is i.  A built-in in it fails  *)
(* an assertion.                                                           *)
EnterDetach(p) ==
  /\ Enters(p, "detach")
  /\ LET m == Proc(p)
         job == Last(Program[Closure(m).prog].detachables)
     IN  /\ Closure(m).slot = Entry(m).index
         /\ Update(p,
              IF Program[job].builtins THEN Leave(m, SIGABRT)
              ELSE Pushed(Branch(m, Entry(m).next), NewClosure(job, 0)))
  /\ UNCHANGED <<setting, typed, line, launched, nested, will>>

(* The entry reads an element of detachables nobody wrote: a wild pointer, *)
(* or NULL, on which parse_staged and the push only warn.                  *)
EnterDetachUnset(p) ==
  /\ Enters(p, "detach")
  /\ LET m == Proc(p)
     IN  /\ Closure(m).slot # Entry(m).index
         /\ \/ Update(p, Leave(m, SIGSEGV))
            \/ Update(p, Branch(m, Entry(m).next))
  /\ UNCHANGED <<setting, typed, line, launched, nested, will>>

(* A child that inherits nothing the model follows: an exec'd program, or  *)
(* a built-in's child whose error takes it straight out of main.           *)
Ending(status) ==
  [parent |-> Nobody, state |-> "ending", status |-> status, frames |-> << >>,
   jobs |-> << >>, order |-> 1, code |-> 0, scripts |-> << >>]

Cmds(calls) == [i \in DOMAIN calls |-> calls[i].cmd]
Alone(calls, kind) == Len(calls) = 1 /\ calls[1].kind = kind
IsNumber(word) == word \in Nat

(* The built-ins that act in the shell itself when they are not in a pipe. *)
ExitsHere(calls) == Alone(calls, "exit") /\ IsNumber(calls[1].arg)
AgainHere(calls) ==
  Alone(calls, "again") /\ setting.interactive /\ IsNumber(calls[1].arg)
FgHere(m, calls) ==
  /\ Alone(calls, "fg") /\ setting.interactive
  /\ calls[1].arg = 0
  /\ m.jobs # << >>

(* The shell finds an error itself, and forks a child to report it: a word *)
(* that is no number, or a directory `cd' cannot enter.                    *)
ReportsError(calls) ==
  \/ Alone(calls, "exit") /\ ~IsNumber(calls[1].arg)
  \/ Alone(calls, "again") /\ setting.interactive /\ ~IsNumber(calls[1].arg)
  \/ Alone(calls, "fg") /\ setting.interactive /\ ~IsNumber(calls[1].arg)
  \/ Alone(calls, "cd") /\ will[calls[1].cmd] # 0

(* Mistaken: a built-in's child goes on with the line.                     *)
ChildGoesOn(m, calls, i) ==
  IF calls[i].kind \in {"regular", "fg"} THEN Ending(1) ELSE Branch(m, Entry(m).next)

(* What an invocation's child does.  A built-in's child raises an exit     *)
(* with its code and returns through the frames it was forked with; one    *)
(* that has an error to report ends with 1.                                *)
Child(m, calls, i) ==
  IF calls[i].kind = "regular" THEN Ending(will[calls[i].cmd])
  ELSE IF calls[i].kind = "fg" \/ ReportsError(calls) THEN Ending(1)
  ELSE Exit(m, IF calls[i].kind = "false" THEN 1 ELSE 0)

(* j_context_emit_chain_step_expression with a child per invocation.       *)
(* `again' is here when the history has no such line.  `fg' with an order  *)
(* is here too: the order travels in the third argument register, the      *)
(* second holds the address of waitq, and j_runner_job_pop_nth finds no    *)
(* job under it.                                                           *)
(*   A step that reports an error returns what g_error_free left in rax in *)
(* place of its child's pid.  waitpid may accept it (0 and -1 stand for    *)
(* any child, and there is only this one); else the marshal's next round   *)
(* fails and the child is nobody's.  The two rounds are one action.        *)
EnterStep(p) ==
  /\ Enters(p, "step")
  /\ LET m == Proc(p)
         calls == Entry(m).calls
         children == [i \in DOMAIN calls |-> Child(m, calls, i)]
     IN  /\ ~ExitsHere(calls)
         /\ ~FgHere(m, calls)
         /\ \E pids \in Forked(Len(calls)) :
              /\ \/ ForkAll(p, children, pids, Branch(m, Entry(m).next))
                 \/ ReportsError(calls) /\ Fork(p, children, pids, Fail(m))
              /\ launched' = launched \o SubSeq(Cmds(calls), 1, Len(pids))
  /\ UNCHANGED <<setting, typed, line, nested, will>>

(* `exit' outside a pipe: the error takes the step out at once. *)
EnterExit(p) ==
  /\ Enters(p, "step")
  /\ ExitsHere(Entry(Proc(p)).calls)
  /\ Update(p, Exit(Proc(p), Entry(Proc(p)).calls[1].arg))
  /\ launched' = launched \o Cmds(Entry(Proc(p)).calls)
  /\ UNCHANGED <<setting, typed, line, nested, will>>

(* parse_staged on a line of the history or on a popped job, and the nested*)
(* run_unchecked; the closure that asked for it goes on at its next entry. *)
RunInside(p, cl, m) ==
  LET m1 == Branch(m, Entry(m).next)
      cmd == Entry(m).calls[1].cmd
  IN  /\ Update(p, [m1 EXCEPT !.frames = Append(@, NewFrame(cl, 0))])
      /\ launched' = Append(launched, cmd)
      /\ nested' = [c \in DOMAIN nested \cup {cmd} |-> IF c = cmd THEN cl.prog ELSE nested[c]]
      /\ UNCHANGED <<setting, typed, line, will>>

(* `again' finding a line: it is compiled and run inside this one. *)
EnterAgain(p) ==
  /\ Enters(p, "step")
  /\ AgainHere(Entry(Proc(p)).calls)
  /\ \E name \in setting.again : \E cl \in Compiled(name) :
       RunInside(p, cl, Proc(p))

(* `again' finding a line that does not compile. *)
AgainRefused(p) ==
  /\ Enters(p, "step")
  /\ AgainHere(Entry(Proc(p)).calls)
  /\ Refused(p)
  /\ UNCHANGED <<setting, typed, line, launched, nested, will>>

(* `fg': j_runner_job_pop, then the job is run inside this line. *)
EnterFg(p) ==
  /\ Enters(p, "step")
  /\ FgHere(Proc(p), Entry(Proc(p)).calls)
  /\ LET m == Proc(p)
     IN  RunInside(p, m.jobs[1].cl, [m EXCEPT !.jobs = Tail(@)])

(* j_context_emit_chain_step_expansions: a child per expansion, which      *)
(* forgets whom its copy of the closure waits for and goes on at the       *)
(* expansion's own chain; the shell goes on at the splice.                 *)
EnterExpand(p) ==
  /\ Enters(p, "expand")
  /\ LET m == Proc(p)
         heads == Entry(m).heads
         Expander(i) == SetClosure(m, [Closure(m) EXCEPT
                          !.waitq = << >>, !.entry = heads[i], !.cond = 0])
     IN  \E pids \in Forked(Len(heads)) :
           ForkAll(p, [i \in DOMAIN heads |-> Expander(i)], pids,
                   Branch(m, Entry(m).next))
  /\ UNCHANGED <<setting, typed, line, launched, nested, will>>

(* The splice reads what the expansions wrote: they have been waited for. *)
EnterSplice(p) ==
  /\ Enters(p, "splice")
  /\ Update(p, Branch(Proc(p), Entry(Proc(p)).next))
  /\ UNCHANGED <<setting, typed, line, launched, nested, will>>

-----------------------------------------------------------------------------
(* The tag of a scope without statements has no entry: the closure calls   *)
(* what lies in front of its block.                                        *)
EnterNowhere(p) ==
  /\ Running(p)
  /\ Closure(Proc(p)).waitq = << >>
  /\ Closure(Proc(p)).entry \notin DOMAIN Entries(Proc(p))
  /\ Update(p, Leave(Proc(p), SIGSEGV))
  /\ UNCHANGED <<setting, typed, line, launched, nested, will>>

(* A process ends.  The system waits for an orphan; Main's status stays.   *)
Die(p) ==
  /\ IsShell(p, "ending")
  /\ LET gone == {c \in ChildrenOf(p) : Proc(c).state = "zombie"}
                 \cup (IF Proc(p).parent = Nobody /\ p # Main THEN {p} ELSE {})
     IN  procs' = [q \in DOMAIN procs \ gone |->
                     IF q = p THEN [procs[q] EXCEPT !.state = "zombie"]
                     ELSE IF q \in ChildrenOf(p) THEN [procs[q] EXCEPT !.parent = Nobody]
                     ELSE procs[q]]
  /\ UNCHANGED <<setting, typed, line, launched, nested, will>>

(* The session is over. *)
Over ==
  /\ \A p \in DOMAIN procs : Proc(p).state = "zombie"
  /\ UNCHANGED vars

ShellStep(p) ==
  \/ RunScript(p) \/ Reap(p)
  \/ EnterEmpty(p) \/ EnterTest(p) \/ EnterLast(p)
  \/ EnterDetach(p) \/ EnterDetachUnset(p)
  \/ EnterStep(p) \/ EnterExit(p) \/ EnterAgain(p)
  \/ AgainRefused(p) \/ EnterFg(p)
  \/ EnterExpand(p) \/ EnterSplice(p) \/ EnterNowhere(p)

Next ==
  \/ \E p \in Pids :
       \/ \E name \in setting.lines : ReadLine(p, name)
       \/ ReadMalformed(p)
       \/ EndOfInput(p)
       \/ ShellStep(p)
       \/ Die(p)
  \/ Over

(* The kernel lets every process go on, programs end, and nobody has to    *)
(* type.                                                                   *)
Fairness == \A p \in Pids : WF_vars(ShellStep(p)) /\ WF_vars(Die(p))

Spec == Init /\ [][Next]_vars /\ Fairness

-----------------------------------------------------------------------------
(* Type invariant. *)
Codes == {Program[name].code : name \in DOMAIN Program}
ClosureType ==
  [prog : DOMAIN Program, code : Codes, entry : Nat, cond : {0, 1}, waitq : Seq(Pids), slot : Nat]
FrameType == [cl : ClosureType, thrown : BOOLEAN, code : Nat]
ProcessType ==
  [parent : Pids \cup {Nobody}, state : {"prompt", "run", "ending", "zombie"},
   status : 0 .. 255, frames : Seq(FrameType),
   jobs : Seq([order : Nat, cl : ClosureType]), order : Nat, code : Nat,
   scripts : Seq(DOMAIN Program)]
TypeOK ==
  /\ DOMAIN procs \subseteq Pids
  /\ \A p \in DOMAIN procs :
       /\ Proc(p) \in ProcessType
       /\ Running(p) <=> Proc(p).frames # << >>
  /\ setting \in Settings
  /\ typed \in 0 .. setting.most
  /\ line \in DOMAIN Program \cup {"none"}
  /\ launched \in Seq(STRING)
  /\ Range(nested) \subseteq DOMAIN Program
  /\ will \in Outcomes

(* A shell that runs waits for exactly the children it has, each once, and *)
(* only through the closure of its innermost frame: no child is forgotten  *)
(* when a frame ends, none is waited for by two closures, and waitpid is   *)
(* never asked for a process that is not the caller's child.  At the       *)
(* prompt nothing is left to wait for.                                     *)
WaitsForItsChildren ==
  \A p \in DOMAIN procs :
    /\ Running(p) =>
         LET m == Proc(p)
             waitq == Closure(m).waitq
         IN  /\ Range(waitq) = ChildrenOf(p)
             /\ Len(waitq) = Cardinality(ChildrenOf(p))
             /\ \A i \in 1 .. Len(m.frames) - 1 : m.frames[i].cl.waitq = << >>
             /\ \A i \in DOMAIN m.jobs : m.jobs[i].cl.waitq = << >>
    /\ IsShell(p, "prompt") => ChildrenOf(p) = {}

(* A job is detached under an order above all those before it, the list    *)
(* keeps the newest first, and fg takes the newest: orders only descend.   *)
JobsNewestFirst ==
  \A p \in DOMAIN procs :
    \A i, j \in DOMAIN Proc(p).jobs :
      i < j => Proc(p).jobs[i].order > Proc(p).jobs[j].order

(* A child made for a built-in leaves through the frames it was forked with*)
(* and runs no line, job or script of its shell's: whatever is not the     *)
(* process the user started only ends.  The exceptions are the session's   *)
(* own doing: a line with an expansion in it, whose child runs the         *)
(* expansion, and an `again' that finds a line with built-ins, whose frame *)
(* lies on top of another.  And only the interactive shell of a developer  *)
(* build, where an expansion's DONE ends a line, ever has such a process   *)
(* come back to main's loop.                                               *)
Lines == setting.lines \cup setting.again \cup Range(setting.scripts)
Detachable == UNION {Range(Program[name].detachables) : name \in DOMAIN Program}
Known == Lines \cup Detachable
Expands == \E name \in Known : \E e \in Range(Program[name].code) : e.op = "expand"
Repeats == \E name \in setting.again : Program[name].builtins
OnlyMainRuns ==
  \A p \in DOMAIN procs \ {Main} :
    /\ IsShell(p, "prompt") => setting.developer /\ setting.interactive
    /\ Running(p) \/ IsShell(p, "prompt") => Expands \/ Repeats
-----------------------------------------------------------------------------
(* Main as the sequential machine of LineMachine sees it: the children a   *)
(* closure still waits for count as folded into its condition already.     *)
Folded(cl) ==
  IF cl.cond = 1 \/ \E c \in Range(cl.waitq) : Proc(c).status # 0 THEN 1 ELSE 0
Shown(f) ==
  [prog |-> f.cl.prog, entry |-> f.cl.entry, cond |-> Folded(f.cl),
   thrown |-> f.thrown, code |-> f.code]
MainMode == IF Proc(Main).state \in {"ending", "zombie"} THEN "over" ELSE Proc(Main).state
MainStack == [i \in DOMAIN Proc(Main).frames |-> Shown(Proc(Main).frames[i])]
MainJobs == [i \in DOMAIN Proc(Main).jobs |-> Proc(Main).jobs[i].cl.prog]
MainCode == IF MainMode = "over" THEN Proc(Main).status ELSE Proc(Main).code
MainScripts == Proc(Main).scripts
Machine ==
  INSTANCE LineMachine WITH
    mode <- MainMode, stack <- MainStack, jobs <- MainJobs, code <- MainCode,
    scripts <- MainScripts

(* Without expansions and repeated built-ins the shell does what one       *)
(* machine would that executes its entries in order.  That fork copies the *)
(* whole shell, that the children end and are waited for in any order, and *)
(* that each of them is another process, makes no difference to the jobs,  *)
(* the condition, the code or the commands launched.                       *)
Sequential ==
  /\ ~Expands /\ ~Repeats => Machine!Init
  /\ [][~Expands /\ ~Repeats => Machine!Next]_(Machine!vars)
=============================================================================
