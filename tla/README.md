# Verification of Jash

Jash is a small POSIX shell in C on GLib. A line is scanned, parsed into an
AST, compiled into a chain of x86-64 code fragments, and that chain is run by a
loop that forks the commands, waits for them and re-enters the chain until it
says it is finished. This directory holds TLA+ models of the parts where the
order of events matters and of the algorithms that decide what a line means, the
TLC configurations that check them, and proofs about the job table, the data
channel, the command history, the runner and the descriptors of a line.

All paths below are relative to `src/src/` unless they start with `src/`.

## 1. Inventory

| Component | Files | State | Operations |
|---|---|---|---|
| Lexer | `lexer/lexer.c` | 23 token patterns | scan a string or a file into tokens, a line at a time |
| Data channel | `lexer/datachannel.c` | bytes, a cursor, whether it is closed | read, seek, close |
| Parser | `parser/` | none between lines | tokens to an AST: scopes, `if`, `&&`, `\|\|`, `\|`, `&`, expansions, redirections |
| Code generator | `codegen/generate.c`, `codegen/codegen.c` | tags, detached sub-ASTs, largest number of expansions | walk the AST, lay out the entries, make a closure |
| x86-64 emitter | `codegen/backend/`, `codegen/externs.c` | the code under construction; in the code it emits, pipes, channels and values of expansions | one emitter per kind of entry; one arm per built-in |
| Closure | `codegen/closure.h`, `codegen/codegen.c` | entry, condition, waitq, detachables | one marshal call: wait for children or run the entry |
| Runner | `runtime/runner.c` | exit code, interrupt being handled, nested frames | run a line, a file, or one closure inside another |
| Job table | `runtime/runner.c` | queue, tree, order counter | push, pop, pop by order, dispose |
| Command history | `term/readline.c`, `main.c` | readline's list, control flags, `signaled` | load, read a line, enter it, save, truncate |
| Main loop | `main.c` | `finish`, exit code | scripts one after another, or lines until exit or end of input |
| Variables | `runtime/runner.c` | a hash table and two signals | set, remove, print |
| Debugger interface | `codegen/debug/` | a linked list shared with gdb | register, unregister (developer builds) |
| Code block | `codegen/block.c` | an mmap'd block | allocate, protect, release |
| Help texts | `dossier/` | constant strings | look up |

### How they interact

`main` owns a runner and, when it is started without arguments, a readline object. For every line
`j_runner_run_line` calls `parse_staged`: lexer, parser, code generator. The
result is a GClosure whose marshal (`closure_marshal`) is called by
`run_unchecked` again and again. A call either finds a child of the current
entry still running (`WAITING`), or jumps to the entry, which sets where the
next call goes on and answers `CONTINUE` or `REMOVE`, possibly with an error.
Errors are the shell's control flow. `DONE` ends the line. An *interrupt*
carries a value, and its type says what to do: an integer is `exit`, a string
is a line to repeat (`again`), a closure is a job to bring forward (`fg`), an
AST is a command to detach. The second and third of these start another
`run_unchecked` inside the entry of the first.

Processes share code by `fork`. A regular command's child execs. A built-in's
child does its work, raises an interrupt with its exit code, and then returns
through all the frames it was forked with to `main`, whose loop it has to leave.
An expansion's child runs its own chain to the end. In all three cases the child
owns a *copy* of closures, queues and history, and of every descriptor.

A step opens its pipes, forks its commands, closes the pipes and goes on; each
command connects its ends by number, opens the files of its redirections, closes
the rest and execs. An expansion is a pipe and a copy of the shell that writes to
it; when all of an entry's copies have been waited for, the splice reads the pipes.

The history file is shared by sessions that know nothing of each other, and,
because a built-in's child returns through `main`, by every such child.

### What is hard in this code

- A child is a copy of the whole shell in the middle of a line: what it does on
  its way out must end it and nothing else.
- One flag, `condition`, is written by the marshal, by entries and by nested
  runs, and read by tests several entries later.
- A run can start inside an entry of another run, with a closure that came from
  the job table, while the table, the frame and the code generator hold
  references to it.
- The queue and the tree of jobs are updated apart, under keys of two widths.
- `fork` and `pipe` can fail in the middle of a pipeline or a row of expansions.
- A descriptor left open in any process keeps a filter waiting for an end of input
  that never comes; a pipe is read by the shell only after its writer has ended.
- The lexer tries 23 patterns one after the other over whatever pieces the earlier
  ones leave, and counts bytes where it moves by characters.
- The parser moves tokens from walker to walker at five nested places, skips
  backquotes in pairs, and reduces operators with two queues.
- The generator hands tags of continuations down through scopes, branches and
  expansions; each has to be given an entry once.
- The history is saved by children before their parents have entered the line.

PROJECT.json lists these as hazards, each at its line, with the properties that
would catch them going wrong, or why none does.

### What makes each component correct

- **Job table**: queue and tree stay one list; a closure somebody is about to
  use is alive and has one owner; `runner.h`'s promise is kept.
- **Lexer, data channel**: a text comes out as its tokens from left to right,
  however it is read in pieces; the cursor stays on the content.
- **Parser**: what is meant is what is parsed; what is accepted is all that was
  written.
- **Code generator**: the entries are one chain that calls every command once.
- **Code generator, emitter, runner together**: a line launches the commands its
  AST launches, in order and no more, ends, and has the right status.
- **Emitter, descriptors**: every datum arrives where the line sends it; nobody
  holds an end of a pipe that keeps another waiting; the line ends.
- **Runner and processes**: a shell waits for exactly the children it has; only
  one process reads the terminal, but for the exceptions section 3 names.
- **History**: what sessions and children write over each other stays in the
  order typed without repetitions; what is saved is what was held; the end of
  input ends a session; nothing but what is listed brings a session down.

## 2. Modules

| Module | Models | Source |
|---|---|---|
| `JobStack` | what the runner offers as a list of jobs, abstractly | `runtime/runner.h` |
| `JobTable` | the queue, the tree, the counter and the references of closures | `runtime/runner.c`, `codegen/codegen.c` |
| `JobTableProofs` | the theorems about `JobTable` | |
| `DataChannel` | a cursor over bytes, under any sequence of calls | `lexer/datachannel.c` |
| `DataChannelProofs` | the theorem about it | |
| `Lexer` | bytes to tokens, line by line, over a `DataChannel` | `lexer/lexer.c` |
| `MCText` | short texts, a left-to-right reader, and the properties of lexer and channel | |
| `ShellGrammar` | tokens, ASTs, and how an AST is written | `lexer/token.h`, `parser/ast.h`, `parser/operator.stringlist` |
| `Parser` | tokens to AST, as operators | `parser/parser.c`, `parser/walker.h` |
| `MCParser` | lines, slips, and the properties of parser and generator | |
| `Codegen` | AST to chain of entries, as operators | `codegen/generate.c`, `codegen/backend/x86_64.dasc.c` |
| `ShellSemantics` | what a line means, from the AST alone: the reference `Codegen` and `Runner` are compared with | none: a definition of its own |
| `Runner` | processes, frames, the marshal, one action per kind of entry, the loops of `main` | `runtime/runner.c`, `codegen/codegen.c`, emitter, `main.c` |
| `LineMachine` | what running lines promises, abstractly: one machine, entry by entry, without processes | |
| `RunnerProofs`, `RunnerReaderProofs` | the theorems about `Runner` | |
| `LineMachineProofs` | the theorem that `Runner` implements `LineMachine` | |
| `MCRunner` | lines, settings, and the properties of the three together | |
| `Plumbing` | descriptors, pipes and files of a line's processes, and the programs that use them | emitter, `codegen/externs.c` |
| `ShellFlow` | what a line does with its data, from the AST alone: the reference `Plumbing` is compared with | none: a definition of its own |
| `PlumbingProofs`, `PlumbingRouteProofs` | the theorems about `Plumbing` | |
| `MCPlumbing` | lines, programs, limits, and the properties of `Codegen` and `Plumbing` together | |
| `History` | sessions, built-ins' children, readline's list and the file | `term/readline.c`, `main.c` |
| `MCHistory` | lines and files for `History` | |
| `HistoryProofs` | the theorems about `History` | |

### JobTable

The shell is one thread, so an action is one call of `runner.c`, or one arm of
`run_unchecked` between two calls of the marshal: `RunLine`, `Detach` (the `&`
arm, with `j_runner_job_push` in it), `JobPop`, `JobPopNth`, `JobPopNull`,
`BringToFront` (the arm that runs a popped job), `EndRun` and `Dispose`.

`Job.order` is a bit-field one bit shorter than `guint` (`OrderMod`, 2^31 in the
program), while the key in the tree is the whole `next_order`. From order 2^31 on a
pop removes another key than the one that was inserted, and links of freed jobs stay
in the tree. `NoStaleLink` says that `j_runner_job_pop_nth` finds none of them even
then: it reads the order as a `gint` and refuses those from 2^31 on, which are the
only ones left behind. `job_wrap` and the theorem go past that point. References are
counted exactly: `j_codegen_emit` keeps the reference of its own ref and sink
although `parse_staged` takes another one for its caller, so a closure is never
freed at all. That leak is what keeps a job alive between `job_free`, inside the
pop, and the reference its next owner takes: `ClosureAlive` holds because of it,
and mutant `EmittedUnowned` shows that it would not hold without it.

`JobStack` is what `runner.h` offers: a list of jobs, newest first, from which the
newest can be taken, or the one with a given order, and nothing else.

### DataChannel, Lexer

`DataChannel` has one action per function of the GIOFuncs: `Read`, `Seek` in its
three kinds and `Close`. Sums of offsets are those of `gsize` (`Wrapped`), with
`Half` for 2^63, and a step is any `gint64`. What a call returns is `status` and
`chunk`.

`Lexer` puts the scanner on top. `FillBuffer` is GLib reading on from the channel
until it has a line, in pieces of any of the sizes in `Buffers`; `LexLine` is one
round of `j_lexer_scan_from_channel`, with the whole of `search`, `breakdown` and
`prepare` in it. `Classes` are the patterns in the order of `j_lexer_init`: the
first one with a match in a fragment takes all of its matches (`Matches`), and the
gaps are searched again. One letter stands for all letters, one for a keyword or
built-in, and a character outside ASCII is two bytes. `Prepared` trims a token's
value as `prepare` does, bytes counted and characters moved.

### ShellGrammar, Parser

`Parser` is `parser.c` function by function: the walker is the sequence of tokens
still to be taken, `FirstFrom`, `Before` and `After` are `collect` and what is
withdrawn after it, `Reduce` and `Finish` are the two queues of
`walk_expression`. A walk returns an AST or how it fails: an error, an assertion
(which aborts the shell) or a NULL that is followed. Some asserts are compiled in
developer builds only, hence `Developer`. Keywords, all operators, redirections,
expansions in words and in command position, comments and the numbers of arguments
built-ins claim are in. `WalkArguments` keeps redirections among the arguments, as
the code does, and `Claimed` (`claim_arguments`) moves them to the command.

`MCParser` starts with a scope the user means, writes it (`Text`), and lets slips
happen to the tokens. The AST that is meant is data of the model, so what is parsed
can be compared with it; of a line with slips what was accepted can still be
compared with what was written.

### How the modules compose

`MCRunner` names its lines by the AST the user means. The assumption `LinesParse`,
which TLC evaluates on every run, says that the text of each line (`Text`), scanned
and parsed (`Scan`, `Parse`), gives that AST. `Compile` lays out its chain, `Runner`
runs it, and `ShellSemantics` says from the AST alone what should have been
launched. So `FollowsTheLine` and its companions are about the way from the written
line to the processes, and a line the parser rejects cannot get into a run.

### Codegen, Runner, ShellSemantics

`Codegen` follows `generate.c`: a tag per continuation, an entry per call of the
marshal. The machine code of an entry is a record (`empty`, `test`, `last`,
`step`, `detach`, `expand`, `splice`); `Runner` has one action for each. In
`Runner` a process is a record in `procs`: state, frames (`run_unchecked` calls,
innermost last, each with its closure's entry, condition and waitq), jobs, exit
code, scripts left. Fork copies the record. `Reap` is one `waitpid` of the
marshal; a child still running is no step, because the marshal would only be
called again. A step that finds an error itself (`ReportsError`: a word for `exit`,
`again` or `fg` that is no number, a directory `cd` cannot enter) forks a child which
fails with the error, and frees its own copy in the register that holds the child's
number. What is left there goes to `waitpid`: it may mean any child (0 and -1 do), and
the line goes on with the child's failure, or none, and the shell ends with 1 and leaves
the child to the system. `EnterStep` has both. `will` fixes at the start of a line how each regular command is
going to exit, so that `Meaning` can be computed from the AST and compared with
`launched`, the commands really started. A scope without statements defines none
of the tags it was given (`walk_scope`), so an entry may continue at a tag nobody
emitted: `EnterNowhere` is the crash.

`j_codegen_emit` stores detached commands at `detachables [i]` with `i` unset:
the action that compiles a line chooses `i` from `StoreAt`, and an entry that
reads an element nobody stored either crashes or does nothing.

### LineMachine

`LineMachine` is what the user takes the shell for: a machine that executes the
entries of a line one after the other, keeps a stack of the lines it is in (`again`
and `fg` put one on top), a list of jobs and an exit code. It has no processes: a step
runs its commands at once and sets the condition when one of them failed, or launches
the first few and gives up. The end of `Runner` maps the shell the user started to it:
`MainStack` is its frames, `MainJobs`, `MainCode` and `MainScripts` the rest of its
record, `MainMode` its state. A closure that still waits is shown as if it had waited
for everybody (`Folded`), since what a command is going to say is fixed when it is
launched. So a step of the machine is the step that forks; the waits and the ends of
children are stutters. `Sequential` states the refinement, `Init` and `Next`; that the
machine goes on is what `LineEnds` says of `Runner`.

### Plumbing, ShellFlow

`Plumbing` runs the chain `Codegen` lays out, from the descriptors' side. A process
has a table of descriptors (`fds`), each an end of a pipe or an open file, and the
arrays that `fork` copies with their numbers: the step's `pipes`, the `channels` and
`values` of expansions. A step is as many actions as others can see system calls of:
`OpenPipes`, a `Fork` per command, `ClosePipes`; in the child `Start`, which connects
stdin and stdout (`Adjusted`, `j_step_adjust_io`), loads the words and execs; for
expansions `ForkExpansion`, `ExpansionsMade`, and after the wait (`Reap`)
`SpliceRead` and `SpliceEnd`. Pipes hold `Capacity` data; `Lowest` is how the system
hands out descriptors and pids, so that numbers are reused as they are in the
program. `pipe` and `fork` fail when `limits` are used up.

The programs are not the shell's: `Does` says of each whether it is a filter, what
it says, and whether it ever ends. `ShellFlow` computes from the AST and `Does` what
each command should be started with and read, and what files and terminal should
hold in the end, without processes or pipes; the properties of `MCPlumbing` compare.

### History

A session is a shell process and at most one child of a built-in at a time. The
list is kept with GNU readline's numbering: `history_base` grows when a stifled
list drops an entry and `history_get` counts from it, but readline.c passes
`history_length`. A save is three steps, interleaved with everybody else's: the file
is written (`Write`), read again by `history_truncate_file` (`Truncate`), and if it is
too long overwritten with the end of what was read (`Cut`), which may by then be an
older file than the one that is there. Ctrl-C while a line runs or is saved takes each
process by itself (`Kill`), so that a built-in's child may outlive its shell. An entry carries the number of the line
it comes from, which lets order and repetition be stated.

`set` and `unset` of `HISTCONTROL` and the sizes take effect in the shell before
the built-in's child is forked (`Assigned`). `again` looks an entry up as readline.c
does (`Repeated`) and starts it inside the line being run (`Again`); when it finds
nothing it is a built-in with a child like any other. Lines nested deeper than the
list is long repeat themselves and will until the stack is used up (`AgainForEver`).

## 3. Runs

Passing runs (TLC finds no error):

| Run | Question | Bounds |
|---|---|---|
| `job_table` | Do queue, tree and references stay in step, and do they implement `JobStack`, in every order of calls? | 5 closures, 4 orders, bit-field wide enough |
| `job_wrap` | What is left of that when orders outgrow the bit-field? | 5 closures, 5 orders, `OrderMod` 3 |
| `shell` | Do lines, scripts and the default build launch what they say, with the right status, always ending, with one reader, and fail when `fork` does? And the same around `&`, `fg` and `again`, where runs nest? | two lines of 13 shapes, two of 4 with words that are no numbers, three of 8 with jobs, one of 4 with expansions and one of 3 that repeats built-ins in a developer build; two of 19 shapes in the default build, and one of 7 with the table soon full; 9 lists of scripts; 3 to 5 pids |
| `plumbing` | Does every datum arrive where the line sends it, through pipes from one program to one, does nobody hold an end that keeps others waiting, and does the line end, with and without enough pipes and processes? | 20 lines with pipes, files, expansions and built-ins; pipes of 2 data; 2 to 7 pids, 0 to 4 pipes |
| `parser` | Is a line parsed as it was meant, is nothing lost, and is its chain one chain? | every line of the list in `MCParser` with one token dropped, added or replaced; every line of up to 4 tokens; both builds |
| `text` | Do the patterns give what a reader from left to right takes, whatever the pieces? Does the cursor stay inside? | texts of up to 5 of 10 characters, words of 5 with two-byte characters, pieces of 1 and 3 bytes, 5-bit integers |
| `history` | What do sessions and children do to the history and its file? | 2 sessions, 2 starts, 2 lines of 9 kinds, list of 2, file of 1 |

What the properties say, beside the type invariants:

- `job_table`, `job_wrap`: `TreeIndexesQueue` (both containers hold the same jobs),
  `ClosureAlive` (what is queued, popped or run has a reference), `OneOwner`,
  `NoStaleLink` (what a pop by order finds is the link of a queued job), and
  `StackSpec`, the refinement of `JobStack`.
- `shell`: `WaitsForItsChildren` (exactly the children it has, each once),
  `OneReader` (no copy of the shell returns to the prompt, but for the two kinds named below), `FollowsTheLine` and
  `RunsTheWholeLine` (what is launched is what the AST means, in order),
  `StatusOfTheLine`, `UnfinishedLineFails`, `JobsNewestFirst`, `OnlyMainRuns` (a
  built-in's child only ends, and runs nothing of what it is a copy of), `LineEnds`,
  and `Sequential`, the refinement of `LineMachine`.
- `plumbing`: `NothingMisrouted` (at every moment what was read, printed and passed
  as words is a beginning of what the line says, whatever could not be had),
  `DeliversEverything` (in the end, with enough of everything, it is all of it),
  `NoStrayEnds` (programs and waiting shells hold no end that keeps a filter
  waiting), `PointToPoint` (no two programs write to one pipe, read from one or
  write to the terminal at once), `LineFinishes`.
- `parser`: `ParsedAsMeant`, `NothingLost`, `OneChain`.
- `text`: `CursorInside`, `LexedAsRead`.
- `history`: `InTypedOrder`, `SavedIsKept`, `NoNeighboursAlike`, `CrashesOnlySo`,
  `SessionEnds`.

Runs that find a disagreement between the code and what the repository says of it
(TLC finds the property violated):

| Run | Property | What happens |
|---|---|---|
| `chain_lost` | `ChainsAsWritten` | `a && b && c` runs `c` although `a` failed: the empty entry of the branch not taken resets the condition. `if a && b` has the same fault. |
| `fg_nth` | `FgBringsTheJob` | `fg N` passes the order in the wrong argument register and finds no job. |
| `default_build` | `PromptComesBack` | Without `--enable-developer` the first line typed ends the shell. |
| `two_readers` | `TrueDoesNothing` | `again` of a `true`, twice in a line: the child of the first `true` goes on with the line, its second `again` clears the thrown exit, and it comes back to the prompt beside its parent. |
| `wide_line` | `NulNotReached` | A word with two or more two-byte characters at the end of a line makes `prepare` read on to the terminator, which it asserts not to reach: the shell aborts. |

### Why the bounds are enough

A parser run of one slip per line covers what a misplaced token does to each
context the grammar has, since every line is a nest of at most two of them; the
lines of up to four tokens cover combinations of slips in short ones, among them
every pair of adjacent operators, keywords and backquotes.

The other properties relate at most two orders, two lines, two writers or two frames.
Four jobs give every position a pop can take a job from (head, middle, last);
five closures leave one to run while four are queued. `OrderMod` 3 makes the
order wrap while two jobs are queued. The shapes of lines in `MCRunner` are every
constructor of the AST inside every other where the parser allows it, with
three-command chains of both operators; three lines are what "detach, bring
forward, repeat" takes. Four pids are enough for a pipeline of three under a
shell, five for two expansions and two commands, and with three the table is full
in the middle of a pipeline. Two sessions with a list of two entries and a file
of one let a write of one land between the write, the reading and the rewriting of
another's truncation, and make the list drop entries, which moves `history_base`. A
terminal is used again when nobody is left on it; that two shells and their children
overlap is what the second session is for.

The lines of `plumbing` are every place a file, a pipe or an expansion can stand in
beside each other: a pipeline of three through pipes smaller than what goes through
them, both redirections at once, the last of two, a file that is missing at either
end, a writer that never ends, expansions in pairs, in a pipeline, with a pipeline
inside and as the command's name. Seven pids and four pipes are enough for each of
them (`Ample`), and every smaller number makes `fork` or `pipe` fail at another place.
Five characters let a text have a string or a comment between two others, and a class
tried early split what a later one would have taken whole; with 16 for 2^63 every sum
of offsets that can wrap does.

These runs switch deadlock checking off: the job table's, whose supply of closures and
orders is bounded, so that the model stops where the program would not; the parser's,
where a line stops changing once it has its slip; the lexer's, where a scan ends; and
`plumbing`, where a line whose expansion outgrows its pipe really hangs (see
`LineFinishes`). The others check deadlock; a session that is over stutters in an
action of its own (`Over`).

### Fairness

`Runner`: weak fairness of every process's next step (`ShellStep`) and end
(`Die`): the kernel schedules everybody and commands end. Nobody has to type,
input does not have to end, and nothing has to fail. `History`: weak fairness of a
session's own progress and of a process that enters or saves; none of typing,
Ctrl-C, end of input, or failures. `Plumbing`: weak fairness of the next-state
relation as a whole, that is, the system does not stop while some process can go on;
the endless writer may be the one that does only until its pipe is full or broken.
`JobTable`, `Lexer` and `DataChannel` claim no liveness.

### Exceptions the properties name

- `FollowsTheLine` and `StatusOfTheLine` say nothing of the line with two
  expansions side by side, whose commands run concurrently, nor of an expansion
  cut short by a full process table: an expansion's failure is folded into a
  condition the splice resets, so the line goes on.
- `StatusOfTheLine` takes the status of a line as the code
  defines it: the one of its last entry when that is a plain step.
- `UnfinishedLineFails`: a line cut short by a full process table, a blank scope, a
  repeated line that does not compile or a child whose number was lost ends the shell
  with a failure; a line with expansions is exempt, because an
  expansion's failure is not reported as the line's.
- `ParsedAsMeant` exempts the line without tokens; `OneChain` exempts lines with a
  blank scope (see below for both).
- `LineFinishes` exempts lines with an expansion that says more than its pipe holds
  (`Outgrown`): the shell waits for it before it reads.
- `NothingMisrouted` compares with what would flow were every datum UTF-8: the
  failure of an expansion is not noticed by its line.
- `LexedAsRead` exempts texts with a `#` or `"` inside a string (`StringBroken`:
  comments and double quotes are tried before the string around them), and values
  with a two-byte character with a space or the end of the line close behind
  (`ValueBroken`: `prepare` reads on past the value).
- `TreeIndexesQueue` and `StackSpec` hold until 2^31 jobs have been detached: later ones
  are in the list and cannot be found by order.
- `NoNeighboursAlike` exempts lines typed with blanks around them (the text is
  compared before it is stripped) and lists that have dropped an entry (the entry
  compared is then an older one).
- `SessionEnds` exempts a session in which Ctrl-C was pressed at the prompt:
  `signaled` is never reset, and end of input then loops for ever.
- `OneReader` admits two kinds of second reader, both in the run. At the prompt of
  a developer build an expansion's child takes its `DONE` for the end of a line. And
  the child of a built-in in a line that `again` repeats leaves only that line's
  `run_unchecked`: it goes on with the line outside, and a second `again` there
  assigns FALSE to `exit_thrown` (`runner.c:490`). `two_readers` finds the second.
- `OnlyMainRuns` speaks of sessions by what their lines can do, so that it can be said
  of any program: it exempts those in which some line or job expands something (an
  expansion's child is meant to run) or `again` can find a line with built-ins; and in
  the former, too, only a developer's interactive shell has a second reader.
- `Sequential` speaks of sessions in which no line or job expands anything and `again`
  finds no line with built-ins. An expansion's child runs a chain of its own beside the
  shell's and answers through a condition that is reset; a repeated built-in's child
  runs what follows in its line once more, which no sequential machine does. Lines with
  built-ins that are typed, detached commands, `fg` and `again` are in.
- `FollowsTheLine`, `RunsTheWholeLine` and `StatusOfTheLine` exempt lines in which a
  built-in was repeated (`Repeated`), for that child runs what follows once more.
- `LineEnds` lets a line go on that waits for a second reader: nobody has to end
  that reader's input.

## 4. Proofs

`JobTableProofs` proves, for every set of closures, every width of the bit-field
and every bound on orders:

- `TypeCorrect`: the type invariant; no reference count is negative.
- `TreeMirrorsQueue`: the tree indexes the queue, before orders outgrow the bit-field.
- `NoStaleLinkFollowed`, `ClosuresStayAlive`, `ClosuresHaveOneOwner`: no freed link is
  followed, what is used has a reference and has one owner, past that point too.
- `Implements`: if orders fit the bit-field (`MaxOrder < OrderMod`), every
  behaviour of `JobTable` is one of `JobStack`.

None of the properties is inductive. `IInv` is `TypeOK /\ LinkInv /\ RefInv`.
`LinkInv` adds that links descend from the head of the queue, that an order below
2^31 is the name of its link, and that keys of the tree are links of the queue:
that is what makes removal by order remove the right key. `RefInv` adds the exact
number of references in each place (two while queued or run, one between pop and
use): a lower bound would not survive two decrements in a row. `Inductive` is
`Spec => []IInv`, from `InitIInv` and `IInvStep`, which has a lemma for each of the
three parts and in it a step per action; `Implements` adds a lemma per action that
changes the queue, mapping it to `JobStack`. The assumptions are the three named
ones of `JobTable`; TLC evaluates them on both of its runs.

`DataChannelProofs` proves `CursorStaysInside` for every width of the integers,
every size of a caller's buffer and every content: the cursor stays on the content,
whatever is read and wherever a caller seeks. The assumptions are that the width is
positive and that `gsize` holds the sizes of contents and buffers.

`HistoryProofs` proves five theorems about any number of sessions, any set of lines
and any sizes:

- `HistoryTypeOK`: the type invariant.
- `HistoryIsOrdered`: every list and file is in the order its lines were typed,
  although files are written by several processes and cut at either end.
- `DuplicatesStayOut`: no neighbours alike where `ignoredups` held from the start.
- `CrashesAreAccounted`: a process is lost only in one of the ways listed in
  `MayCrash`.
- `SavedStaysKept`: a file last written for a line that a session has finished is the
  end of the list the session holds.

The first three follow from `HistInv`. Order alone is not inductive: a list is
extended by the line its process is on, so `HistInv` adds that this line is younger
than every entry of the list, that a file's writer is a line already typed, that the
lists which files and processes start from are good, that a file about to be truncated
exists, and that what a process is about to cut the file to is as good as a file. `CrashInv` adds what leads to the crash: a process that has crashed is one
that `MayCrash` describes, and a line that `again` nests is an entry of the list.
`SavedIsKept` speaks of a shell at rest only, while the write it is about may have
been its child's, before the shell itself has entered the line into another copy of
the same list. `SavedInv` says at every point of a session what a file written for
its line must be: `KeptBy` compares the file with the list as it is going to be
(`EndOf`), `Holds` says from where on a process holds that list, and children and
shell start from the same one. It is asked of every `Image`: the file, and whatever some
process has read and is going to write back, since that becomes the file however late.
A child whose shell is gone is asked for nothing.
The assumptions are those of `History` (what a line is, positive bounds and sizes,
`NULL` is no entry, what a file at the start holds); TLC evaluates them on its run.

`RunnerProofs` and `RunnerReaderProofs` prove four theorems about any compiled program,
lines, scripts, process limit and depth of nesting:

- `RunnerTypeOK`: the type invariant.
- `ChildrenAreWaitedFor`: a shell waits for exactly the children it has, each once,
  through the closure of its innermost frame; no child is forgotten when a run ends,
  and the error of a `waitpid` for somebody else's child never occurs.
- `JobsStayNewestFirst`: orders descend in every copy of the job list.
- `ChildrenOnlyEnd`: but for expansions and repeated built-ins, only the process the
  user started runs lines, scripts and jobs, and only it comes to `main`'s loop.

`WaitsForItsChildren` is not inductive: it says nothing of pids. `RunnerInv` adds that
a parent is another process, is in the table and has not ended (`ParentLives`), so
that a new pid is nobody's parent and a pid that was waited for is nobody's child;
that frames below the innermost one and closures of jobs wait for nobody, which is
what a fork copies and `fg` runs again; and that a closure runs the code compiled
for it. The lemmas go from one process (`SetTopGood` to `NestedGood`) to the table
(`UpdateKeeps` for steps that change one process, `ForkAllKeeps`, `ReapKeeps`,
`DieKeeps` for those that change several).

`OnlyMainRuns` is not inductive either: `fork` gives a built-in's child all of its
shell's frames, jobs and scripts, and the thrown exit takes it out of the innermost
frame only. It ends there because a step with a built-in is in the first frame:
`ReaderInv` says that every frame above the first runs a line without built-ins, and
so that every job, which `fg` makes a frame of, has none (`run_unchecked` asserts as
much), and that whatever is a frame, a job or a script yet to open is a line of the
session or a command detached in one. `Narrows` says of a step that it adds nothing of
the kind (`SetTop`, `Branch`, `Return`, `Exit`, `Done`, `Leave`); the steps that do are
`PushedQuiet`, `NestedQuiet` and `StartReads`. `OnlyMainReads` is apart from that: an
exit never leads to the prompt (`ExitNarrows`), and without a developer's interactive
shell `DONE` is one (`DoneNarrows`). TLC checked `ReaderInv` on the `shell` run's
instance before it was proved.

`LineMachineProofs` proves `LinesRunInSequence`, `Spec => Sequential`: `Runner` implements
`LineMachine`. The invariant is `RunnerInv`, `ReaderInv` and, for the sessions
`Sequential` speaks of, `MainInv`: the process the user started stays in the table and
is nobody's child, so that its end is an end of the session, and the closures of its jobs
are at their first entry with no condition, so that `fg` starts them as the machine does.
The argument is a lemma for each step. Reading lines and scripts, the ends of runs
(`EndsSeen`, `QuitSeen`) and the nested runs (`InsideRuns`) change the stack as the machine
says, because the frames below the innermost one wait for nobody and are shown as they are
(`SettledSeen` and the lemmas on `Bare`). A step that forks (`StepRuns`) sets the folded
condition at once: what each child is going to say is what the machine's `StatusOf` says
of its command (`ChildStatus`), and the closure is shown with all of it although none has
ended (`ClosureSeen`, `BranchSeen`). A wait of the shell (`ReapStutters`) takes a child off
the waitq and folds its status in: the same is shown before and after, in whatever order
children ended, because `RunnerInv` says that the child waited for is this closure's,
and its status was fixed when it was forked. The end of a child (`DieStutters`) and of a copy of the shell is not
seen, and by `ReaderInv` no process but this one takes any other step. That is where the
two exemptions come from, and no other.

The assumptions are `SettingsAreSettings`,
`ProgramIsCompiled` (what every kind of entry carries; a command with a built-in among
its steps is one with built-ins), `StatusesFit` and `Numbers`;
TLC evaluates them, for what `Codegen` makes of the lines, on every run of `MCRunner`.

`PlumbingProofs` and `PlumbingRouteProofs` prove three theorems about any chains of
entries, any programs and files, any capacity of a pipe and any limits on processes
and pipes; whatever `pipe`, `fork` and `open` fail at is among the steps:

- `PlumbingTypeOK`: the type invariant; every process has its three standard
  descriptors until it has ended, what is open exists, no pipe is overfull.
- `NoEndsAstray`: no program holds an end to write to but its stdout, and none reads
  the pipe it writes to; the waiting main shell has exactly the standard descriptors
  and those of the expansions it has yet to read.
- `PipesArePointToPoint`: of two programs that run at the same time, no two write to
  one pipe, read from one, or write to the terminal.

`NoStrayEnds` is not inductive: what a program is left with depends on what its shell
had open when it forked it. `PlumbingInv` (`PlumbingInvariant`) says of a process at
every stage where in its chain it is (`PositionOK`), which descriptors it has and what
for (`DescriptorsOK`: the step's pipes in pairs above the standard numbers, the
channels not read yet, and nothing else to write to), whom it waits for (`Awaits`) and
what the main shell has (`MainOK`). The lemmas go from the numbers the system hands out
(`LowestFacts`) and what `j_pipe_init_many` and `j_pipe_clear_many` make of them
(`PipedGood`, `CloseGood`), over one process and each of its steps (`InvokedGood`,
`StartGood`, `ExpansionGood`, `SpliceEndGood` and their like), to the table (`OneChanges`,
`OneForks`, `OneReaps`, `OneEnds`).

`PointToPoint` speaks of programs, but two programs differ because the invocations they
come from do, among them invocations not forked yet. `Routes` (`RoutesStay`, on top of
`PlumbingInv`) follows what a process writes to and reads from, its `Sink` and `Source`,
from the invocation on: no two workers share one; what a shell can still hand out, its
own stdout and its step's pipes (`Offers`), no other shell offers; a worker whose sink is
offered is a child of the shell that offers it, so a shell that has waited for its
children is alone with its stdout; and the invocations still to come get other ends than
those forked already, in this shell and any other (`Spared`). A step that hands nothing
out keeps all that (`RoutesKept`); the three that do are `OpensRoutes` (pipes nobody has),
`ForksRoutes` (two invocations of a step differ, `CallsApart`) and `ExpandsRoutes`.

The assumptions are `LimitsAreLimits`, `DataAreStrings` and `LinesAreChains`, what the
generator promises of a chain: an expansion goes on at a splice of as many values as it
has commands, only the step behind it uses them, and in a step every pipe is written by
one invocation and read by another, and only one writes to the step's own stdout
(`ConnectsOnce`). TLC evaluates them, for what `Codegen` makes of the lines, on the run
of `MCPlumbing`.

Only model-checked:

- `ParsedAsMeant`, `NothingLost`, `OneChain` and `LexedAsRead`, everything about `Parser`,
  `Codegen` and `Lexer`: recursive over characters, tokens and ASTs, and induction over
  data is out of this prover's reach.
- `FollowsTheLine`, `RunsTheWholeLine`, `StatusOfTheLine`, `UnfinishedLineFails`,
  `NothingMisrouted` and `DeliversEverything`: they compare a run with what is computed
  from its AST, by the same kind of recursion. With `LinesRunInSequence` what is left of
  the first four, where it applies, is about the chain `Codegen` makes and one
  sequential machine; the processes are dealt with for every chain.
- `OneReader`, which goes beyond `OnlyMainRuns` by what happened in the line that runs
  (which nested run had built-ins, and which line expands). It relies on the lines of
  its run: each of them is a line whose expansions and repetitions are told by its AST.
- `LineEnds`, `LineFinishes`, `SessionEnds`: liveness under fairness.

## 5. Not modelled

- Signals while a line runs, except in `History`, where Ctrl-C kills the shell, the
  child it had forked, or both, one after the other.
- A file half written: readline's write of the whole file, and its rewriting when it
  truncates, are one step each, so a process killed in the middle of one is not there.
- Past 2^31 detached jobs, what `jobs` prints: `g_tree_foreach` over links of which
  some are freed, and read as jobs, which they never are (`runner.c:268`).
- The value an expansion gives as the number of `exit`, `again` or `fg`: it counts as a
  word that is no number.
- The step of the marshal between a step that lost its child's number and the
  `waitpid` that fails: the two are one action.
- Whether the rule that the end of a file is an `exit` (`runner.c:453`) is right:
  `LineMachine` has the same rule.
- The line of a built-in's child that comes back to the prompt in a developer build, in
  `Plumbing`, where a session is one line and the child ends there; `Runner` has it.
- What C makes of negating the smallest step of a seek (`datachannel.c:116`): it is not
  defined, and `Backward` compares 2^63, the wrapped one as a `gsize`, as the builds do.
- The text of prompts, of `history`, `jobs` and of error messages; the directory `cd`
  changes (whether it can is `will`); `get`, `help` and the other arms of the built-in
  switch that only print; variables that no other component reads.
- Help texts, build, and the code block: constants, and one mapping of pages.
- The debugger interface: a linked list to which closures are only ever added, since
  nothing frees a closure that was registered.
- The finer patterns of the lexer: which letters make a word or a number. `Lexer`
  works on classes of characters.

Seen while reading and not the subject of a run of its own:

- After `cd` to a directory that is not there, `exit abc`, `again abc` or `fg abc` the
  shell waits for whatever `g_error_free` left in `rax` (`x86_64.dasc.c:764`, 811, 687):
  as a rule an error that ends the shell, with the child's message behind it.
- A truncation writes back the end of what it read: a save by another session in
  between is undone. Both files are in order and whole, so no property is broken.
- With an empty history the first line entered is compared with an entry that does
  not exist, and NULL is dereferenced (`readline.c:235`); `CrashesOnlySo` has it
  among its cases.
- A detached command runs only when `fg` brings it forward: `run_unchecked` steps
  the jobs whose `is_running` is set (`runner.c:412`), and nothing sets it.
- `a & ; b &` in one line: `j_codegen_emit` stores both commands at
  `detachables [i]` with `i` never set (`codegen.c:321`), so one is lost, or the
  write is out of bounds.
- `true &`, or any detached built-in, reaches `g_assert_not_reached`
  (`x86_64.dasc.c:1059`): its words have been replaced by pointers into the
  closure's block, which no longer compare equal to the tokens. `Runner` ends the
  process there.
- A blank scope crashes the line when it is reached: `else fi`, an expansion with
  nothing in it, a lone `;` (`generate.c:269`). With `if a then fi` it is the parser
  that follows a NULL (`parser.c:680`); a trailing `&&`, `||` or `|` aborts a
  developer build and crashes the default one. So does an empty line (`parser.c:82`).
- An `if` with an `else` inside a direct branch is rejected, because the direct
  branch ends at the first `else` (`parser.c:646`); so is a command headed by a
  backquote after `|` or `&&`, an expansion as the target of a redirection after `|`,
  and an operator inside a backquote in command position (`parser.c:518`). A `;`
  inside backquotes ends the command.
- A redirection whose target is an expansion loses it: the file opened is named by
  the backquote.
- An expansion that fails is not noticed, its value keeps the last newline, and the
  splice reads it only after waiting for the child: more output than a pipe holds
  waits for ever.
- A second script on the command line is never run: in a shell that is not
  interactive the end of a file counts as `exit` (`runner.c:453`), although
  `main.c:34` describes the arguments as `[<script file>] ...`.
- `exit 259` inside `again` returns the code of the line outside (`runner.c:498`).
- `again` without a number repeats the entry before the last; `again N` finds nothing
  for the last number `history` prints, and a NULL once the list has dropped as many
  entries as it holds. An `again` that reaches itself recurses until the stack is
  exhausted.
- `set HISTSIZE` and `set HISTFILESIZE` with a word that is no number abort
  (`readline.c:176`). `HISTFILE` has no effect after the start.
- A line that does not parse, or Ctrl-C while one runs, loses the session's
  history; sessions overwrite each other's file, and the last one wins.
- `#` or `"` inside quotes of another kind breaks a string; a tab between words is an
  unknown token; values in quotes lose their outer spaces; a keyword is found inside
  a word next to a character that is not a letter (`a-if-b`, `end.txt`).
- `exit -3` and `fg -3` lose their sign in `detectbase` (`externs.c:118`).

## 6. Plan

Done: job table, with its proofs; parser with redirections, code generator, emitter
and runner; descriptors, pipes and variables of a line; lexer and data channel, with
the proof about its cursor; history with `again` and its sizes, with its proofs,
`SavedIsKept` among them; the runner's proofs, for any program, and who
runs what; that it implements `LineMachine`; the proofs about descriptors, for any
chain and any limits.

Next, in this order:

1. Signals while a line runs, in `Runner` and `Plumbing` as in `History`.
2. `OneReader` itself as a theorem: `ReaderInv` knows which lines a session has, and
   what is missing is which of them the frames of a copy come from.
3. Expansions in `LineMachine`: a stack inside a stack, which ends with no status.
4. `j_parse_int` with its widths; the registration of closures with a debugger.
