---------------------------- MODULE LineMachine ----------------------------
(***************************************************************************)
(* What running a line promises, whatever carries it out: one machine that *)
(* executes the entries of a compiled line one after the other.  There are *)
(* no processes, no fork, no waitpid and no order in which children end: a *)
(* step runs its commands at once, and the line's condition is then set    *)
(* when one of them failed, whichever.  Runner, the process table of the   *)
(* real shell, is shown to implement it.  There is no entry that expands:  *)
(* an expansion's child runs a line of its own, beside this one.           *)
(***************************************************************************)
EXTENDS Integers, Sequences, SequencesExt

CONSTANTS
  Program,    \* name -> compiled command [code, detachables, builtins]
  Outcomes    \* the ways the regular commands may turn out

VARIABLES
  setting,    \* what is fixed for the session
  mode,       \* reading ("prompt"), executing ("run") or "over"
  stack,      \* the lines in execution, each inside the one before
  jobs,       \* the names of the detached commands, newest first
  code,       \* the exit code of the last line, in the end the session's
  scripts,    \* the script files still to open
  launched,   \* the commands launched since the line was read
  will        \* how each regular command turns out

vars == <<setting, mode, stack, jobs, code, scripts, launched, will>>

Frame(name, c) == [prog |-> name, entry |-> 1, cond |-> 0, thrown |-> FALSE, code |-> c]

Top == Last(stack)
Code == Program[Top.prog].code
Entry == Code[Top.entry]
Calls == Entry.calls
Cmds == [i \in DOMAIN Calls |-> Calls[i].cmd]
Alone(kind) == Len(Calls) = 1 /\ Calls[1].kind = kind

(* The built-ins the shell runs itself take a number; a word that is none, *)
(* like a directory that cannot be entered, is reported by a child.        *)
IsNumber(word) == word \in Nat
ReportsError ==
  \/ Alone("exit") /\ ~IsNumber(Calls[1].arg)
  \/ (Alone("again") \/ Alone("fg")) /\ setting.interactive /\ ~IsNumber(Calls[1].arg)
  \/ Alone("cd") /\ will[Calls[1].cmd] # 0

(* How an invocation turns out that is launched in a child.                *)
StatusOf(call) ==
  IF call.kind = "regular" THEN will[call.cmd]
  ELSE IF call.kind \in {"false", "fg"} \/ ReportsError THEN 1 ELSE 0
Condition == IF \E i \in DOMAIN Calls : StatusOf(Calls[i]) # 0 THEN 1 ELSE 0

WithTop(s, f) == Append(Front(s), f)
At(entry, cond) == WithTop(stack, [Top EXCEPT !.entry = entry, !.cond = cond])

Init ==
  /\ mode = "prompt"
  /\ stack = << >> /\ jobs = << >>
  /\ code = 0
  /\ scripts = setting.scripts
  /\ launched = << >>
  /\ will \in Outcomes

-----------------------------------------------------------------------------
Quit(status) ==
  /\ mode' = "over"
  /\ code' = status
  /\ stack' = << >> /\ jobs' = << >>
  /\ UNCHANGED <<setting, scripts, will>>

Begin(name) ==
  /\ mode' = "run"
  /\ stack' = << Frame(name, code) >>
  /\ launched' = << >>
  /\ will' \in Outcomes
  /\ UNCHANGED <<setting, jobs, code>>

ReadLine ==
  /\ mode = "prompt" /\ setting.interactive
  /\ \E name \in setting.lines : Begin(name)
  /\ UNCHANGED scripts

OpenScript ==
  /\ mode = "prompt" /\ ~setting.interactive
  /\ scripts # << >>
  /\ Begin(Head(scripts))
  /\ scripts' = Tail(scripts)

(* A line or a file that does not compile: main returns 1, or is aborted   *)
(* or killed by a signal.                                                  *)
Refuse ==
  /\ mode = "prompt"
  /\ ~setting.interactive => scripts # << >>
  /\ \E status \in {1, 134, 139} : Quit(status)
  /\ UNCHANGED launched

EndOfInput ==
  /\ mode = "prompt"
  /\ ~setting.interactive => scripts = << >>
  /\ Quit(code % 256)
  /\ UNCHANGED launched

-----------------------------------------------------------------------------
Enters(op) == mode = "run" /\ Top.entry \in DOMAIN Code /\ Entry.op = op
Moves(entry, cond) ==
  /\ stack' = At(entry, cond)
  /\ UNCHANGED <<setting, mode, jobs, code, scripts, will>>

(* The innermost line is over, with code c.  The outer one takes over the  *)
(* code and a thrown exit; without an outer one the exit ends the session. *)
Ends(c, thrown) ==
  LET outer == Last(Front(stack))
  IN  IF Len(stack) # 1
      THEN /\ stack' = WithTop(Front(stack),
                         [outer EXCEPT !.cond = IF c # 0 THEN 1 ELSE @,
                                       !.thrown = thrown,
                                       !.code = IF thrown THEN c ELSE @])
           /\ UNCHANGED <<setting, mode, jobs, code, scripts, will>>
      ELSE IF thrown THEN Quit(c % 256)
      ELSE /\ mode' = "prompt" /\ stack' = << >>
           /\ code' = c
           /\ UNCHANGED <<setting, jobs, scripts, will>>

Pass ==
  /\ Enters("empty") \/ Enters("splice")
  /\ Moves(Entry.next, 0)
  /\ UNCHANGED launched

Test ==
  /\ Enters("test")
  /\ Moves(IF Top.cond = 0 THEN Entry.direct ELSE Entry.reverse, 0)
  /\ UNCHANGED launched

Finish ==
  /\ Enters("last")
  /\ Ends(Top.cond, IF setting.developer /\ setting.interactive THEN Top.thrown ELSE TRUE)
  /\ UNCHANGED launched

(* A command is detached, or is not: which one an entry finds is decided   *)
(* by an index nobody set.                                                 *)
Detach ==
  /\ Enters("detach")
  /\ LET job == Last(Program[Top.prog].detachables)
     IN  \/ Quit(139)
         \/ Program[job].builtins /\ Quit(134)
         \/ Moves(Entry.next, 0)
         \/ /\ ~Program[job].builtins
            /\ stack' = At(Entry.next, 0)
            /\ jobs' = << job >> \o jobs
            /\ UNCHANGED <<setting, mode, code, scripts, will>>
  /\ UNCHANGED launched

(* All commands of a step are launched, or the first few of them and the   *)
(* shell reports a failure; it may do so after all of them, too, when the  *)
(* last had an error to report.                                            *)
Step ==
  /\ Enters("step") /\ (Alone("exit") => ~IsNumber(Calls[1].arg))
  /\ \/ Moves(Entry.next, Condition) /\ launched' = launched \o Cmds
     \/ \E n \in 0 .. Len(Calls) :
          /\ n < Len(Calls) \/ ReportsError
          /\ Quit(1) /\ launched' = launched \o SubSeq(Cmds, 1, n)

Exit ==
  /\ Enters("step") /\ Alone("exit") /\ IsNumber(Calls[1].arg)
  /\ Ends(Calls[1].arg, TRUE)
  /\ launched' = launched \o Cmds

(* A line of the history, or the newest job, is run inside this one.       *)
Inside(name) ==
  /\ stack' = Append(At(Entry.next, 0), Frame(name, 0))
  /\ launched' = Append(launched, Calls[1].cmd)
  /\ UNCHANGED <<setting, mode, code, scripts, will>>

Again ==
  /\ Enters("step") /\ Alone("again") /\ setting.interactive
  /\ IsNumber(Calls[1].arg)
  /\ \/ \E name \in setting.again : Inside(name) /\ UNCHANGED jobs
     \/ \E status \in {1, 134, 139} : Quit(status) /\ UNCHANGED launched

Fg ==
  /\ Enters("step") /\ Alone("fg") /\ setting.interactive
  /\ Calls[1].arg = 0
  /\ jobs # << >>
  /\ Inside(Head(jobs))
  /\ jobs' = Tail(jobs)

(* The entry a blank scope leaves behind.                                  *)
Crash ==
  /\ mode = "run" /\ Top.entry \notin DOMAIN Code
  /\ Quit(139)
  /\ UNCHANGED launched

Next ==
  \/ ReadLine \/ OpenScript \/ Refuse \/ EndOfInput
  \/ Pass \/ Test \/ Finish \/ Detach \/ Step \/ Exit \/ Again \/ Fg \/ Crash
=============================================================================
