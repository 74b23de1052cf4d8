------------------------------ MODULE Plumbing ------------------------------
(***************************************************************************)
(* The descriptors of a line: how the steps of the x86_64 backend connect  *)
(* the commands of a pipeline, the files of redirections and the output of *)
(* expansions (codegen/backend/x86_64.dasc.c with codegen/externs.c).      *)
(*                                                                         *)
(* A descriptor is a number in its process's table, as in the code, whose  *)
(* arrays keep numbers across fork (); what it stands for is an end of a   *)
(* pipe, an open file or the terminal.  A line is the chain of steps and   *)
(* expansions Codegen lays out; conditions, nested closures and the        *)
(* built-ins that act in the shell itself are Runner's.  Here a step is as *)
(* many actions as it makes system calls that others can see the effect of.*)
(***************************************************************************)
EXTENDS Integers, Sequences, FiniteSets, FiniteSetsExt, SequencesExt

CONSTANTS
  Program,     \* name -> tag -> entry of the chain
  Lines,       \* the lines a session may run
  Limits,      \* [pids, pipes]: what the system has left for a session
  Does,        \* command -> [reads, says, endless]: what it does once started
  FilesFound,  \* file name -> its content
  Capacity,    \* how much a pipe holds
  Unreadable   \* a datum that is not UTF-8

Main == 1
Nobody == 0
Terminal == "terminal"
NoFile == ""

(* What the code generator lays out: a chain of entries, in which only an  *)
(* expansion goes on at a splice, of as many values, and only what follows *)
(* the splice uses the values; a step that connects its invocations by its *)
(* own pipes, each of which one of them writes to and another one reads.   *)
RedirectOK(r, ops, pipes) ==
  r # << >> => /\ r[1].op \in ops \cup {"|"}
               /\ r[1].op = "|" => r[1].number \in 1 .. pipes
               /\ r[1].op # "|" => r[1].file.value \in STRING \ {"", "terminal"}
CallOK(call, pipes) ==
  /\ RedirectOK(call.in, {"<"}, pipes) /\ RedirectOK(call.out, {">", ">>"}, pipes)
  /\ call.kind \in STRING
  /\ call.argv # << >> /\ Len(call.argv) \in Nat /\ DOMAIN call.argv = 1 .. Len(call.argv)
  /\ \A i \in DOMAIN call.argv :
       IF "word" \in DOMAIN call.argv[i] THEN call.argv[i].word \in STRING
                                         ELSE call.argv[i].value \in Nat \ {0}
Piping(r) == r # << >> /\ r[1].op = "|"
ConnectsOnce(calls) ==
  \A i, j \in DOMAIN calls :
    /\ i # j /\ Piping(calls[i].in) /\ Piping(calls[j].in)
         => calls[i].in[1].number # calls[j].in[1].number
    /\ i # j /\ Piping(calls[i].out) /\ Piping(calls[j].out)
         => calls[i].out[1].number # calls[j].out[1].number
    /\ Piping(calls[i].in) /\ Piping(calls[j].out) /\ i = j
         => calls[i].in[1].number # calls[j].out[1].number
    /\ i # j => calls[i].out # << >> \/ calls[j].out # << >>
UsesValues(e, n) ==
  \A i \in DOMAIN e.calls : \A k \in DOMAIN e.calls[i].argv :
    "word" \in DOMAIN e.calls[i].argv[k] \/ e.calls[i].argv[k].value \in 1 .. n
GoesOn(chain, tag) ==
  /\ tag \in DOMAIN chain
  /\ chain[tag].op # "splice"
  /\ chain[tag].op = "step" => UsesValues(chain[tag], 0)
EntryOK(chain, e) ==
  \/ /\ e.op = "step" /\ GoesOn(chain, e.next)
     /\ e.pipes \in Nat /\ DOMAIN e.calls = 1 .. Len(e.calls) /\ Len(e.calls) \in Nat
     /\ \A i \in DOMAIN e.calls : CallOK(e.calls[i], e.pipes)
     /\ ConnectsOnce(e.calls)
  \/ /\ e.op = "expand" /\ e.heads # << >> /\ e.heads \in Seq(Nat)
     /\ \A i \in DOMAIN e.heads : GoesOn(chain, e.heads[i])
     /\ e.next \in DOMAIN chain /\ chain[e.next].op = "splice"
     /\ chain[e.next].n = Len(e.heads)
  \/ /\ e.op = "splice" /\ e.n \in Nat \ {0}
     /\ e.next \in DOMAIN chain /\ chain[e.next].op = "step"
     /\ UsesValues(chain[e.next], e.n)
  \/ e.op = "last"
IsChain(chain) ==
  /\ DOMAIN chain \subseteq Nat /\ GoesOn(chain, 1)
  /\ \A tag \in DOMAIN chain : EntryOK(chain, chain[tag])
AreLimits(l) ==
  /\ Main \in l.pids /\ l.pids \subseteq Nat \ {Nobody} /\ IsFiniteSet(l.pids)
  /\ l.pipes \subseteq Nat \ {0} /\ IsFiniteSet(l.pipes)
ASSUME LinesAreChains == \A name \in Lines : IsChain(Program[name])
ASSUME LimitsAreLimits == \A l \in Limits : AreLimits(l)
ASSUME DataAreStrings ==
  /\ Unreadable \in STRING /\ Capacity \in Nat \ {0}
  /\ FilesFound \in [DOMAIN FilesFound -> Seq(STRING)]
  /\ \A name \in DOMAIN Does :
       /\ name \in STRING
       /\ Does[name].reads \in BOOLEAN /\ Does[name].endless \in BOOLEAN
       /\ Does[name].says \in Seq(STRING)

VARIABLES
  line,    \* the line of this session
  code,    \* what it was compiled to
  limits,  \* its limits
  procs,   \* pid -> process, for every pid in use
  pipes,   \* pipe -> what is in it
  files,   \* file name -> its content, of those that exist
  tty,     \* history: what was written to the terminal
  took,    \* history: command -> what it has read
  argvs    \* history: command -> the words it was started with

vars == <<line, code, limits, procs, pipes, files, tty, took, argvs>>

-----------------------------------------------------------------------------
(* Descriptors. *)

Put(f, x, v) == [y \in DOMAIN f \cup {x} |-> IF y = x THEN v ELSE f[y]]

File(name, way)  == [pipe |-> 0, file |-> name, way |-> way, at |-> 0]
End(pipe, way)   == [pipe |-> pipe, file |-> NoFile, way |-> way, at |-> 0]
Standard == [fd \in 0 .. 2 |-> File(Terminal, IF fd = 0 THEN "r" ELSE "w")]

Closed(fds, numbers) == [fd \in DOMAIN fds \ numbers |-> fds[fd]]
Dup2(fds, from, to) == Put(fds, to, fds[from])

(* The ends of a pipe that are open, anywhere. *)
Ends(ps, way) == {fd.pipe : fd \in UNION {{e \in Range(ps[p].fds) : e.way = way} : p \in DOMAIN ps}}
                   \ {0}
Used(ps) == Ends(ps, "r") \cup Ends(ps, "w")
HasReader(pipe) == pipe \in Ends(procs, "r")
HasWriter(pipe) == pipe \in Ends(procs, "w")
FreePipes == limits.pipes \ Used(procs)

(* The processes become ps; a pipe without ends is gone with its content. *)
World(ps) ==
  /\ procs' = ps
  /\ pipes' = [pipe \in DOMAIN pipes |-> IF pipe \in Used(procs') THEN pipes[pipe] ELSE << >>]

-----------------------------------------------------------------------------
(* Processes. *)

Proc(p) == procs[p]
In(p, state) == p \in DOMAIN procs /\ Proc(p).state = state
ChildrenOf(p) == {c \in DOMAIN procs : Proc(c).parent = p}
FreePids == limits.pids \ DOMAIN procs
Entry(p) == code[Proc(p).entry]
Enters(p, op) == In(p, "shell") /\ Proc(p).waitq = << >> /\ Entry(p).op = op
Goes(m, entry) == [m EXCEPT !.entry = entry, !.made = 0]

(* A shell between entries: its chain, whom it waits for, how many of the  *)
(* current entry's children it has made, and the memory fork () copies:    *)
(* the step's pipes, the expansions' read ends and values.                 *)
Shell ==
  [parent |-> Nobody, state |-> "shell", fds |-> Standard, entry |-> 1, waitq |-> << >>,
   made |-> 0, pipes |-> << >>, channels |-> << >>, values |-> << >>, call |-> << >>,
   todo |-> << >>, eof |-> FALSE]

(* The process is about to end, and holds its descriptors until it does. *)
Ending(m) ==
  [Shell EXCEPT !.state = "ending", !.parent = m.parent, !.fds = m.fds]

(* An error on the way out of a step ends the shell it happened in. *)
Fail(m) == Ending(m)

(* What the system hands out: the lowest numbers that are not in use. *)
Lowest(S, k) ==
  {s \in [1 .. k -> S] : \A i \in 1 .. k : Cardinality({x \in S : x < s[i]}) = i - 1}

(* k pipes, opened one after another: two numbers for each. *)
Piped(m, k, pipe, number) ==
  LET Ends_(fd) ==
        LET i == CHOOSE i \in 1 .. 2 * k : number[i] = fd
        IN  End(pipe[(i + 1) \div 2], IF i % 2 = 1 THEN "r" ELSE "w")
  IN  [m EXCEPT !.pipes = [i \in 1 .. k |-> << number[2 * i - 1], number[2 * i] >>],
                !.fds = [fd \in DOMAIN @ \cup Range(number) |->
                           IF fd \in DOMAIN @ THEN @[fd] ELSE Ends_(fd)]]

(* j_pipe_init_many: n pipes, or as many as there are. *)
PipesFrom(m, k, free, unused) ==
  {Piped(m, k, pipe, number) : pipe \in Lowest(free, k), number \in Lowest(unused, 2 * k)}
PipeInitMany(m, n) ==
  LET k == Min({n, Cardinality(FreePipes)})
      unused == (0 .. Cardinality(DOMAIN m.fds) + 2 * k) \ DOMAIN m.fds
  IN  PipesFrom(m, k, FreePipes, unused)

(* Mistaken: the write ends stay.                                          *)
PipeClearReadEnds(m) ==
  [m EXCEPT !.fds = Closed(@, {m.pipes[i][1] : i \in DOMAIN m.pipes}), !.pipes = << >>]

(* Mistaken: the pipes' places are closed, not their descriptors.          *)
PipeClearPlaces(m) == [m EXCEPT !.fds = Closed(@, DOMAIN m.pipes), !.pipes = << >>]

(* j_pipe_clear_many *)
PipeClearMany(m) ==
  [m EXCEPT !.fds = Closed(@, UNION {Range(m.pipes[i]) : i \in DOMAIN m.pipes}),
            !.pipes = << >>]

(* fork (): the child's memory and descriptors are the parent's. *)
ForkInto(p, m, next, Made(_)) ==
  \E pid \in Lowest(FreePids, 1) :
    World(Put(Put(procs, pid[1], Made([m EXCEPT !.parent = p, !.waitq = << >>])),
              p, [next EXCEPT !.waitq = Append(@, pid[1]), !.made = @ + 1]))

-----------------------------------------------------------------------------
(* j_context_emit_chain_step_expression: open the pipes, fork a child per  *)
(* invocation, close the pipes, go on.                                     *)
OpenPipes(p) ==
  /\ Enters(p, "step")
  /\ \E m \in PipeInitMany(Proc(p), Entry(p).pipes) :
       World([procs EXCEPT ![p] =
         IF Len(m.pipes) < Entry(p).pipes THEN Fail(m)
         ELSE [m EXCEPT !.state = "forking", !.made = 0]])
  /\ UNCHANGED <<line, code, limits, files, tty, took, argvs>>

Fork(p) ==
  /\ In(p, "forking")
  /\ Proc(p).made < Len(Entry(p).calls)
  /\ LET m == Proc(p)
         Invoked(c) == [c EXCEPT !.state = "child", !.call = << Entry(p).calls[m.made + 1] >>]
     IN  IF FreePids = {} THEN World([procs EXCEPT ![p] = Fail(m)])
         ELSE ForkInto(p, m, m, Invoked)
  /\ UNCHANGED <<line, code, limits, files, tty, took, argvs>>

ClosePipes(p) ==
  /\ In(p, "forking")
  /\ Proc(p).made = Len(Entry(p).calls)
  /\ World([procs EXCEPT ![p] =
       [Goes(PipeClearMany(Proc(p)), Entry(p).next) EXCEPT !.state = "shell"]])
  /\ UNCHANGED <<line, code, limits, files, tty, took, argvs>>

(* closure_marshal: wait for the oldest child of the queue. *)
Reap(p) ==
  /\ In(p, "shell")
  /\ Proc(p).waitq # << >>
  /\ LET child == Head(Proc(p).waitq)
     IN  /\ In(child, "zombie")
         /\ World([q \in DOMAIN procs \ {child} |->
                     IF q = p THEN [procs[q] EXCEPT !.waitq = Tail(@)] ELSE procs[q]])
  /\ UNCHANGED <<line, code, limits, files, tty, took, argvs>>

-----------------------------------------------------------------------------
(* j_step_adjust_io in the child: stdin, then stdout, from the file or the *)
(* pipe the invocation names, then the step's pipes are closed.  `>' makes *)
(* the file anew, `>>' (O_WRONLY | O_APPEND) does not make it.             *)
Exists(name) == name \in DOMAIN files
Cannot(r) == r # << >> /\ r[1].op \in {"<", ">>"} /\ ~Exists(r[1].file.value)
Adjusted(m, r, fd) ==
  LET way == IF fd = 0 THEN "r" ELSE "w" IN
  IF r = << >> THEN m
  ELSE IF r[1].op = "|" THEN [m EXCEPT !.fds = Dup2(@, m.pipes[r[1].number][fd + 1], fd)]
  ELSE [m EXCEPT !.fds[fd] = File(r[1].file.value, way)]
Truncated(r) ==
  IF r # << >> /\ r[1].op = ">" THEN Put(files, r[1].file.value, << >>) ELSE files

(* j_step_load_arg *)
Loaded(m, argv) ==
  [i \in DOMAIN argv |-> IF "word" \in DOMAIN argv[i] THEN << argv[i].word >>
                                                      ELSE m.values[argv[i].value]]

(* What execvp runs: a command it knows, or the built-in's own printing;   *)
(* without the program the child goes back to main with an error.          *)
Named(call, words) ==
  IF call.kind # "regular" THEN call.kind
  ELSE IF Len(words[1]) = 1 THEN words[1][1] ELSE NoFile
Executed(m, name) ==
  [Shell EXCEPT !.state = "program", !.parent = m.parent, !.fds = m.fds, !.call = << name >>,
                !.todo = IF Does[name].reads THEN << >> ELSE Does[name].says,
                !.eof = ~Does[name].reads]

(* `fg' of a pipeline raises its error before it adjusts anything. *)
Start(c) ==
  /\ In(c, "child")
  /\ LET m == Proc(c)
         call == m.call[1]
         in == Adjusted(m, call.in, 0)
         out == PipeClearMany(Adjusted(in, call.out, 1))
         words == Loaded(m, call.argv)
         name == Named(call, words)
     IN  IF call.kind = "fg" \/ Cannot(call.in)
         THEN World([procs EXCEPT ![c] = Ending(m)]) /\ UNCHANGED <<files, argvs>>
         ELSE IF Cannot(call.out)
         THEN World([procs EXCEPT ![c] = Ending(in)]) /\ UNCHANGED <<files, argvs>>
         ELSE /\ files' = Truncated(call.out)
              /\ IF name \in DOMAIN Does
                 THEN /\ World([procs EXCEPT ![c] = Executed(out, name)])
                      /\ argvs' = Put(argvs, name, words)
                 ELSE /\ World([procs EXCEPT ![c] = Ending(out)])
                      /\ UNCHANGED argvs
  /\ UNCHANGED <<line, code, limits, tty, took>>

-----------------------------------------------------------------------------
(* j_context_emit_chain_step_expansions: for each expansion a pipe and a   *)
(* child, which writes to the pipe and goes on at the expansion's chain.   *)

(* Mistaken: the shell keeps the end the child writes to.                  *)
KeepBothEnds(m, pipe) ==
  [m EXCEPT !.pipes = << >>, !.channels = Append(@, pipe[1])]

KeepReadEnd(m, pipe) ==
  [m EXCEPT !.fds = Closed(@, {pipe[2]}), !.pipes = << >>, !.channels = Append(@, pipe[1])]

(* Mistaken: the child goes on writing where the shell writes.             *)
ExpansionChildAside(m, pipe, head) ==
  [PipeClearMany(m) EXCEPT !.state = "shell", !.entry = head, !.made = 0, !.channels = << >>]

ExpansionChild(m, pipe, head) ==
  [PipeClearMany([m EXCEPT !.fds = Dup2(@, pipe[2], 1)])
     EXCEPT !.state = "shell", !.entry = head, !.made = 0, !.channels = << >>]

ForkExpansion(p) ==
  /\ Enters(p, "expand") \/ In(p, "expanding")
  /\ Proc(p).made < Len(Entry(p).heads)
  /\ \E m \in PipeInitMany([Proc(p) EXCEPT !.state = "expanding"], 1) :
       LET Made(c) == ExpansionChild(c, m.pipes[1], Entry(p).heads[m.made + 1])
       IN  IF m.pipes = << >> \/ FreePids = {} THEN World([procs EXCEPT ![p] = Fail(m)])
           ELSE ForkInto(p, m, KeepReadEnd(m, m.pipes[1]), Made)
  /\ UNCHANGED <<line, code, limits, files, tty, took, argvs>>

ExpansionsMade(p) ==
  /\ In(p, "expanding")
  /\ Proc(p).made = Len(Entry(p).heads)
  /\ World([procs EXCEPT ![p] = [Goes(@, Entry(p).next) EXCEPT
              !.state = "shell", !.values = [i \in DOMAIN Entry(p).heads |-> << >>]]])
  /\ UNCHANGED <<line, code, limits, files, tty, took, argvs>>

(* The splice, all children having been waited for: each channel is read   *)
(* to its end and closed.  What is not UTF-8 is an error.                  *)
SpliceRead(p) ==
  /\ Enters(p, "splice")
  /\ LET m == Proc(p)
         pipe == m.fds[m.channels[m.made + 1]].pipe
         read == m.fds[m.channels[m.made + 1]]
         datum == Head(pipes[pipe])
     IN  /\ pipes[pipe] # << >>
         /\ procs' = [procs EXCEPT ![p] =
              IF datum = Unreadable THEN Fail(m)
              ELSE [m EXCEPT !.values[m.made + 1] = Append(@, datum)]]
         /\ pipes' = [pipes EXCEPT ![pipe] = Tail(@)]
  /\ UNCHANGED <<line, code, limits, files, tty, took, argvs>>

SpliceEnd(p) ==
  /\ Enters(p, "splice")
  /\ LET m == Proc(p)
         channel == m.channels[m.made + 1]
         pipe == m.fds[channel].pipe
         m1 == [m EXCEPT !.fds = Closed(@, {channel}), !.made = @ + 1]
     IN  /\ pipes[pipe] = << >>
         /\ ~HasWriter(pipe)
         /\ World([procs EXCEPT ![p] =
              IF m1.made < Entry(p).n THEN m1
              ELSE [Goes(m1, Entry(p).next) EXCEPT !.channels = << >>]])
  /\ UNCHANGED <<line, code, limits, files, tty, took, argvs>>

-----------------------------------------------------------------------------
(* What a program does with its stdin and stdout: a filter passes on what  *)
(* it reads, then every program says what it has to say, then it ends.     *)
(* The terminal has nothing to read; no two programs write to one file.    *)
Reads(p) == In(p, "program") /\ ~Proc(p).eof /\ Proc(p).todo = << >>
Stdin(p) == Proc(p).fds[0]
Stdout(p) == Proc(p).fds[1]
Doing(p) == Does[Proc(p).call[1]]

Takes(m, datum) == [m EXCEPT !.todo = << datum >>]
TakesFromFile(m, datum) == [Takes(m, datum) EXCEPT !.fds[0].at = @ + 1]
TookMore(p, datum) ==
  LET name == Proc(p).call[1]
  IN  took' = Put(took, name, Append(IF name \in DOMAIN took THEN took[name] ELSE << >>, datum))

ReadPipe(p) ==
  /\ Reads(p)
  /\ Stdin(p).pipe # 0
  /\ pipes[Stdin(p).pipe] # << >>
  /\ LET datum == Head(pipes[Stdin(p).pipe])
     IN  /\ procs' = [procs EXCEPT ![p] = Takes(@, datum)]
         /\ TookMore(p, datum)
  /\ pipes' = [pipes EXCEPT ![Stdin(p).pipe] = Tail(@)]
  /\ UNCHANGED <<line, code, limits, files, tty, argvs>>

HasMore(end) ==
  /\ end.pipe = 0
  /\ end.file # Terminal
  /\ end.at < Len(files[end.file])

ReadFile(p) ==
  /\ Reads(p)
  /\ HasMore(Stdin(p))
  /\ LET datum == files[Stdin(p).file][Stdin(p).at + 1]
     IN  /\ procs' = [procs EXCEPT ![p] = TakesFromFile(@, datum)]
         /\ TookMore(p, datum)
  /\ UNCHANGED <<line, code, limits, pipes, files, tty, argvs>>

ReadEnd(p) ==
  /\ Reads(p)
  /\ IF Stdin(p).pipe # 0 THEN pipes[Stdin(p).pipe] = << >> /\ ~HasWriter(Stdin(p).pipe)
                          ELSE ~HasMore(Stdin(p))
  /\ procs' = [procs EXCEPT ![p] = [@ EXCEPT !.eof = TRUE, !.todo = Doing(p).says]]
  /\ UNCHANGED <<line, code, limits, pipes, files, tty, took, argvs>>

Said(p) ==
  [procs EXCEPT ![p].todo = IF Doing(p).endless /\ Len(@) = 1 THEN Doing(p).says ELSE Tail(@)]

Write(p) ==
  /\ In(p, "program")
  /\ Proc(p).todo # << >>
  /\ LET datum == Head(Proc(p).todo)
         to == Stdout(p)
     IN  \/ /\ to.pipe # 0
            /\ HasReader(to.pipe)
            /\ Len(pipes[to.pipe]) < Capacity
            /\ pipes' = [pipes EXCEPT ![to.pipe] = Append(@, datum)]
            /\ UNCHANGED <<files, tty>>
         \/ /\ to.file = Terminal
            /\ tty' = Append(tty, datum)
            /\ UNCHANGED <<pipes, files>>
         \/ /\ to.file \notin {Terminal, NoFile}
            /\ files' = [files EXCEPT ![to.file] = Append(@, datum)]
            /\ UNCHANGED <<pipes, tty>>
  /\ procs' = Said(p)
  /\ UNCHANGED <<line, code, limits, took, argvs>>

(* SIGPIPE *)
Broken(p) ==
  /\ In(p, "program")
  /\ Proc(p).todo # << >>
  /\ Stdout(p).pipe # 0
  /\ ~HasReader(Stdout(p).pipe)
  /\ procs' = [procs EXCEPT ![p] = Ending(@)]
  /\ UNCHANGED <<line, code, limits, pipes, files, tty, took, argvs>>

Finish(p) ==
  /\ In(p, "program")
  /\ Proc(p).eof
  /\ Proc(p).todo = << >>
  /\ procs' = [procs EXCEPT ![p] = Ending(@)]
  /\ UNCHANGED <<line, code, limits, pipes, files, tty, took, argvs>>

-----------------------------------------------------------------------------
(* j_context_emit_chain_last: an expansion's child ends, and so does the   *)
(* session, which is one line.  (A built-in's child that comes to the end  *)
(* of a repeated line in a developer build goes back to the prompt: Runner *)
(* has that, no line here repeats one.)                                    *)
EnterLast(p) ==
  /\ Enters(p, "last")
  /\ procs' = [procs EXCEPT ![p] = Ending(@)]
  /\ UNCHANGED <<line, code, limits, pipes, files, tty, took, argvs>>

(* A process ends and its descriptors close; the system waits for orphans. *)
Die(p) ==
  /\ In(p, "ending")
  /\ LET orphan == Proc(p).parent = Nobody /\ p # Main
         gone == {c \in ChildrenOf(p) : Proc(c).state = "zombie"}
                 \cup (IF orphan THEN {p} ELSE {})
         Zombie == [Shell EXCEPT !.state = "zombie", !.parent = Proc(p).parent, !.fds = << >>]
     IN  World([q \in DOMAIN procs \ gone |->
                  IF q = p THEN Zombie
                  ELSE IF q \in ChildrenOf(p) THEN [procs[q] EXCEPT !.parent = Nobody]
                  ELSE procs[q]])
  /\ UNCHANGED <<line, code, limits, files, tty, took, argvs>>

Init ==
  /\ line \in Lines
  /\ code = Program[line]
  /\ limits \in Limits
  /\ procs = [p \in {Main} |-> Shell]
  /\ pipes = [pipe \in limits.pipes |-> << >>]
  /\ files = FilesFound
  /\ tty = << >>
  /\ took = << >>
  /\ argvs = << >>

Over ==
  /\ \A p \in DOMAIN procs : Proc(p).state = "zombie"
  /\ UNCHANGED vars

ShellStep(p) ==
  \/ OpenPipes(p) \/ Fork(p) \/ ClosePipes(p) \/ Reap(p)
  \/ ForkExpansion(p) \/ ExpansionsMade(p) \/ SpliceRead(p) \/ SpliceEnd(p)
  \/ EnterLast(p)

ProgramStep(p) ==
  \/ Start(p)
  \/ ReadPipe(p) \/ ReadFile(p) \/ ReadEnd(p) \/ Write(p) \/ Broken(p) \/ Finish(p)
  \/ Die(p)

Pids == UNION {l.pids : l \in Limits}
Next == (\E p \in Pids : ShellStep(p) \/ ProgramStep(p)) \/ Over

(* The system goes on as long as some process can. *)
Spec == Init /\ [][Next]_vars /\ WF_vars(Next)

-----------------------------------------------------------------------------
(* Type invariant. *)
States == {"shell", "forking", "expanding", "child", "program", "ending", "zombie"}
Descriptor(l) ==
  {e \in [pipe : l.pipes \cup {0}, file : STRING \cup {Terminal, NoFile},
          way : {"r", "w"}, at : Nat] : e.pipe # 0 => e.file = NoFile}
IsProcess(m, l) ==
  /\ m \in [parent : l.pids \cup {Nobody}, state : States,
            fds : [DOMAIN m.fds -> Descriptor(l)], entry : Nat, waitq : Seq(l.pids),
            made : Nat, pipes : Seq(Nat \X Nat), channels : Seq(Nat),
            values : Seq(Seq(STRING)), call : {m.call}, todo : Seq(STRING), eof : BOOLEAN]
  /\ DOMAIN m.fds \subseteq Nat
  /\ m.state # "zombie" => 0 .. 2 \subseteq DOMAIN m.fds
TypeOK ==
  /\ line \in Lines /\ code = Program[line]
  /\ limits \in Limits
  /\ Main \in DOMAIN procs /\ DOMAIN procs \subseteq limits.pids
  /\ \A p \in DOMAIN procs :
       /\ IsProcess(Proc(p), limits)
       /\ \A n \in DOMAIN Proc(p).fds :
            Proc(p).fds[n].pipe = 0 => Proc(p).fds[n].file \in DOMAIN files \cup {Terminal}
  /\ pipes \in [limits.pipes -> Seq(STRING)]
  /\ \A pipe \in limits.pipes : Len(pipes[pipe]) <= Capacity
  /\ files \in [DOMAIN files -> Seq(STRING)] /\ DOMAIN FilesFound \subseteq DOMAIN files
  /\ tty \in Seq(STRING)
  /\ took \in [DOMAIN took -> Seq(STRING)] /\ DOMAIN took \subseteq DOMAIN Does
  /\ argvs \in [DOMAIN argvs -> Seq(Seq(STRING))] /\ DOMAIN argvs \subseteq DOMAIN Does

(* A program holds the write end of no pipe but the one that is its stdout,*)
(* which is not the pipe it reads; of other pipes it has at most the read  *)
(* ends of the expansions its shell was forked among.  The shell that waits*)
(* holds no pipe but those whose content it is going to read, and no copy  *)
(* of it an end to write to but its stdout: no filter waits for the end of *)
(* what the shell, its neighbours or it itself could still write.          *)
NoStrayEnds ==
  \A p \in DOMAIN procs :
    LET m == Proc(p)
        OnlyReads(numbers) ==
          \A n \in DOMAIN m.fds \cap numbers : m.fds[n].pipe # 0 => m.fds[n].way = "r"
    IN  /\ m.state \in {"program", "shell"} => OnlyReads(DOMAIN m.fds \ {1})
        /\ m.state = "program" /\ Stdin(p).pipe # 0 => Stdin(p).pipe # Stdout(p).pipe
        /\ m.state = "shell" /\ p = Main =>
             DOMAIN m.fds = (0 .. 2) \cup {m.channels[i] : i \in m.made + 1 .. Len(m.channels)}

(* A pipe carries what one program says to one program: no two write to it *)
(* or read from it, whatever runs beside them, orphans included, and no two*)
(* write to the terminal at once.  What a line prints has one order.       *)
PointToPoint ==
  \A p, q \in DOMAIN procs :
    (p # q /\ In(p, "program") /\ In(q, "program")) =>
      /\ Stdin(p).pipe # 0 => Stdin(p).pipe # Stdin(q).pipe
      /\ Stdout(p).pipe # 0 => Stdout(p).pipe # Stdout(q).pipe
      /\ Stdout(p).file = Terminal => Stdout(q).file # Terminal
=============================================================================
