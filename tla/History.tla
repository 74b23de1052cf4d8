------------------------------- MODULE History -------------------------------
(***************************************************************************)
(* The command history: term/readline.c, the interactive loop of main.c    *)
(* around it, and the file that several sessions, and the built-ins'       *)
(* children of each, overwrite.                                            *)
(*                                                                         *)
(* A built-in other than `exit' runs in a fork of the shell, raises an     *)
(* exit there and so returns through main: the child adds the line to its  *)
(* copy of the history and saves the file, like a shell that ends, before  *)
(* its parent has added the line at all.                                   *)
(*                                                                         *)
(* GNU readline's list is modelled as readline.c uses it: entries are      *)
(* numbered from history_base, which grows when a stifled list drops its   *)
(* oldest entry.                                                           *)
(***************************************************************************)
EXTENDS Integers, Sequences, SequencesExt

CONSTANTS
  Sessions,   \* the terminals
  Lines,      \* what a user may type
  Files,      \* the history files the first session may find
  HistSize,   \* stifle_history's argument: history-size when the shell starts
  FileSize,   \* history-file-size
  MaxTyped,   \* bound: lines ever typed
  MaxStarts,  \* bound: sessions started
  Null,       \* NULL
  NoFile      \* ENOENT

(* A line is its text without surrounding blanks, whether it begins with a *)
(* space, whether it has other blanks around it, and what running it does: *)
(* nothing the history sees, "builtin" (one child of its own), "set" and   *)
(* "unset" of a variable, "again", "exit", or "bad", an error that ends the*)
(* shell.  The number is that of `again', or what `set' takes a value for, *)
(* Null for none.                                                          *)
Text == STRING \cup {Null}
Line ==
  [text : Text, lead : BOOLEAN, trail : BOOLEAN,
   does : {"quiet", "builtin", "set", "unset", "again", "exit", "bad"},
   name : {"none", "HISTCONTROL", "HISTFILESIZE", "HISTSIZE"}, words : Seq(STRING),
   number : Nat \cup {Null}]
ASSUME LinesAreLines == Lines \subseteq Line
ASSUME Bounds == MaxTyped \in Nat /\ MaxStarts \in Nat
ASSUME Sizes == HistSize \in Nat \ {0} /\ FileSize \in Nat

(* History: an entry keeps the number of the line it comes from; those of  *)
(* the file the first session finds are numbered up to 0.  It is apart when*)
(* `ignoredups' was on as it was entered, into a list that had dropped     *)
(* nothing, without blanks around it.                                      *)
Entry == [text : Text, no : Int, apart : BOOLEAN]
Ordered(entries) ==
  \A i, j \in DOMAIN entries : i < j => entries[i].no < entries[j].no
NeighboursApart(entries) ==
  \A i, j \in DOMAIN entries :
    j = i + 1 /\ entries[j].apart => entries[i].text # entries[j].text
ASSUME NullIsNoEntry == Null \notin Entry
ASSUME FilesAreFiles ==
  \A entries \in Files \ {NoFile} :
    /\ entries \in Seq(Entry) /\ Ordered(entries) /\ NeighboursApart(entries)
    /\ \A i \in DOMAIN entries : entries[i].no <= 0

VARIABLES
  file,     \* the history file: entries, or NoFile
  writer,   \* history: who wrote it last, and after which line
  procs,    \* the shell and the built-in's child of every session
  typed,    \* history: how many lines were typed
  starts    \* sessions started so far

vars == <<file, writer, procs, typed, starts>>

Procs == Sessions \X {"shell", "child"}
ShellOf(s) == <<s, "shell">>
ChildOf(s) == <<s, "child">>

QuietLine(text) ==
  [text |-> text, lead |-> FALSE, trail |-> FALSE, does |-> "quiet",
   name |-> "none", words |-> << >>, number |-> Null]
EntryOf(m) ==
  [text |-> m.line.text, no |-> m.no,
   apart |-> "dups" \in m.flags /\ m.base = 1 /\ ~m.line.lead /\ ~m.line.trail]

(* j_readline_class_init: history-control defaults to ignoreboth.  A       *)
(* process has the line read last and its number, what of it runs now, how *)
(* many lines `again' has nested in it, and what it is about to cut the    *)
(* file to (history: from whose writing).  Nothing is left of one that is  *)
(* gone but its end.                                                       *)
DefaultFlags == {"dups", "space"}
Gone(at) ==
  [at |-> at, list |-> << >>, base |-> 1, flags |-> DefaultFlags, file_size |-> FileSize,
   signaled |-> FALSE, eof |-> FALSE, line |-> QuietLine(Null), no |-> 0,
   doing |-> QuietLine(Null),
   nested |-> 0, forked |-> FALSE, finish |-> FALSE, tail |-> << >>, from |-> << >>]
Fresh == Gone("off")

Ended == {"off", "over", "crashed"}
At(p) == procs[p].at
Become(p, m) == procs' = [procs EXCEPT ![p] = m]

-----------------------------------------------------------------------------
(* histcontrol.stringlist and parsecontrol: the words between colons; one  *)
(* that is unknown makes them all count for nothing.  erasedups is known   *)
(* and never looked at.                                                    *)
Control ==
  [ignoredups |-> {"dups"}, ignorespace |-> {"space"},
   ignoreboth |-> {"dups", "space"}, erasedups |-> {}, none |-> {}]
ParseControl(words) ==
  IF \A i \in DOMAIN words : words[i] \in DOMAIN Control
  THEN UNION {Control[words[i]] : i \in DOMAIN words} ELSE {}

(* j_readline_class_set_property from on_variable_modifying and            *)
(* on_variable_removing, which reach the shell before the built-in's child *)
(* is forked.  history-size is only looked at when the list is made; a size*)
(* that is no number is an error that aborts.                              *)
Sets(l, name) == l.does = "set" /\ l.name = name
Unsets(l, name) == l.does = "unset" /\ l.name = name
Aborts(l) == l.number = Null /\ (Sets(l, "HISTFILESIZE") \/ Sets(l, "HISTSIZE"))
Assigned(l, m) ==
  [m EXCEPT !.flags     = IF Sets(l, "HISTCONTROL") THEN ParseControl(l.words)
                          ELSE IF Unsets(l, "HISTCONTROL") THEN DefaultFlags ELSE @,
            !.file_size = IF Sets(l, "HISTFILESIZE") /\ ~Aborts(l) THEN l.number
                          ELSE IF Unsets(l, "HISTFILESIZE") THEN FileSize ELSE @,
            !.at        = IF Aborts(l) THEN "crashed" ELSE @]

(* GNU readline. *)

LastOf(entries, n) ==
  IF Len(entries) <= n THEN entries
  ELSE SubSeq(entries, Len(entries) - n + 1, Len(entries))

(* Mistaken: a list that nobody stifled. *)
AddHistoryUnstifled(m, entry) == [m EXCEPT !.list = Append(@, entry)]

(* add_history on a stifled list. *)
AddHistory(m, entry) ==
  IF Len(m.list) < HistSize THEN [m EXCEPT !.list = Append(@, entry)]
  ELSE [m EXCEPT !.list = Append(Tail(@), entry), !.base = @ + 1]

(* history_get *)
HistoryGet(m, n) ==
  IF n - m.base + 1 \in DOMAIN m.list THEN m.list[n - m.base + 1] ELSE Null

(* Mistaken: what the process already holds is kept in front. *)
ReadHistoryTwice(m, entries) ==
  [m EXCEPT !.list = LastOf(entries \o entries, HistSize),
            !.base = IF Len(entries) > HistSize THEN @ + Len(entries) - HistSize ELSE @]

(* read_history into an empty list: the entries are added one by one. *)
ReadHistory(m, entries) ==
  [m EXCEPT !.list = LastOf(entries, HistSize),
            !.base = IF Len(entries) > HistSize THEN @ + Len(entries) - HistSize ELSE @]

(* j_readline_history_get and j_readline_history_get_nth: what `again'     *)
(* repeats, without a number the entry before the last one.                *)
Repeated(m) ==
  LET nth == IF m.doing.number = Null THEN Len(m.list) - 1 ELSE m.doing.number
  IN  IF nth > 0 /\ Len(m.list) > nth THEN HistoryGet(m, nth) ELSE Null

(* The line an entry is when it runs; nothing is known of what is not one  *)
(* of the lines.                                                           *)
LineOf(entry) ==
  IF \E l \in Lines : l.text = entry.text
  THEN CHOOSE l \in Lines : l.text = entry.text
  ELSE QuietLine(entry.text)

-----------------------------------------------------------------------------
Init ==
  /\ file \in Files
  /\ typed = 0
  /\ writer = << >>
  /\ procs = [p \in Procs |-> Fresh]
  /\ starts = 0

(* j_readline_new and j_readline_history_load, which saves an empty list   *)
(* when there is no file.  A terminal is used again when nobody is left on *)
(* it.                                                                     *)
Load(s) ==
  /\ At(ShellOf(s)) \in Ended
  /\ At(ChildOf(s)) \in Ended
  /\ starts < MaxStarts
  /\ starts' = starts + 1
  /\ Become(ShellOf(s),
       IF file = NoFile THEN [Fresh EXCEPT !.at = "saving"]
       ELSE [ReadHistory(Fresh, file) EXCEPT !.at = "prompt"])
  /\ UNCHANGED <<file, writer, typed>>

(* read_history failing otherwise: the shell returns 1. *)
LoadFails(s) ==
  /\ At(ShellOf(s)) \in Ended
  /\ At(ChildOf(s)) \in Ended
  /\ starts < MaxStarts
  /\ file # NoFile
  /\ starts' = starts + 1
  /\ Become(ShellOf(s), Gone("over"))
  /\ UNCHANGED <<file, writer, typed>>

(* j_readline_get returning a line, which starts to run. *)
TypeLine(s, l) ==
  LET m == procs[ShellOf(s)]
      running == [m EXCEPT !.at = "running", !.line = l, !.no = typed + 1, !.doing = l,
                           !.nested = 0, !.forked = FALSE]
  IN  /\ m.at = "prompt"
      /\ ~m.eof
      /\ typed < MaxTyped
      /\ typed' = typed + 1
      /\ Become(ShellOf(s), Assigned(l, running))
      /\ UNCHANGED <<file, writer, starts>>

(* The interrupt of `again' starts a run of the line it repeats inside the *)
(* one of its own.                                                         *)
Repeats(m) == m.at = "running" /\ m.doing.does = "again" /\ Repeated(m) # Null
Again(s) ==
  LET m == procs[ShellOf(s)]
      line == LineOf(Repeated(m))
  IN  /\ Repeats(m)
      /\ m.nested <= Len(m.list)
      /\ Become(ShellOf(s), Assigned(line, [m EXCEPT !.doing = line, !.nested = @ + 1]))
      /\ UNCHANGED <<file, writer, typed, starts>>

(* More lines nested than there are entries: one of them has come to repeat*)
(* itself, and will until the stack is used up.                            *)
AgainForEver(s) ==
  LET m == procs[ShellOf(s)] IN
  /\ Repeats(m)
  /\ m.nested > Len(m.list)
  /\ Become(ShellOf(s), [m EXCEPT !.at = "crashed"])
  /\ UNCHANGED <<file, writer, typed, starts>>

(* Ctrl-C at the prompt: the handler jumps back into j_readline_get, which *)
(* returns NULL and leaves `signaled' set for good.                        *)
Interrupt(s) ==
  /\ At(ShellOf(s)) = "prompt"
  /\ Become(ShellOf(s), [procs[ShellOf(s)] EXCEPT !.signaled = TRUE])
  /\ UNCHANGED <<file, writer, typed, starts>>

InputEnds(s) ==
  /\ At(ShellOf(s)) = "prompt"
  /\ Become(ShellOf(s), [procs[ShellOf(s)] EXCEPT !.eof = TRUE])
  /\ UNCHANGED <<file, writer, typed, starts>>

(* Mistaken: `continue' and `break' exchanged. *)
ReadEofSwapped(s) ==
  LET m == procs[ShellOf(s)] IN
  /\ m.at = "prompt"
  /\ m.eof
  /\ Become(ShellOf(s),
       IF m.signaled THEN [m EXCEPT !.at = "saving", !.finish = TRUE] ELSE m)
  /\ UNCHANGED <<file, writer, typed, starts>>

(* NULL from j_readline_get: main asks whether a signal made it so and, if *)
(* one ever did, reads on.                                                 *)
ReadEof(s) ==
  LET m == procs[ShellOf(s)] IN
  /\ m.at = "prompt"
  /\ m.eof
  /\ Become(ShellOf(s),
       IF m.signaled THEN m ELSE [m EXCEPT !.at = "saving", !.finish = TRUE])
  /\ UNCHANGED <<file, writer, typed, starts>>

(* A built-in that has a child: `again' when there is nothing to repeat.   *)
Forks(m) ==
  \/ m.doing.does \in {"builtin", "set", "unset"}
  \/ m.doing.does = "again" /\ Repeated(m) = Null

(* Mistaken: the child saves what it was forked with. *)
ForkBuiltinUnadded(s) ==
  LET m == procs[ShellOf(s)] IN
  /\ m.at = "running" /\ Forks(m) /\ ~m.forked
  /\ procs' = [procs EXCEPT
                 ![ShellOf(s)] = [m EXCEPT !.forked = TRUE],
                 ![ChildOf(s)] = [m EXCEPT !.at = "saving", !.finish = TRUE]]
  /\ UNCHANGED <<file, writer, typed, starts>>

(* A built-in of the line is forked: it goes back to main with a thrown    *)
(* exit.                                                                   *)
ForkBuiltin(s) ==
  LET m == procs[ShellOf(s)] IN
  /\ m.at = "running" /\ Forks(m) /\ ~m.forked
  /\ procs' = [procs EXCEPT
                 ![ShellOf(s)] = [m EXCEPT !.forked = TRUE],
                 ![ChildOf(s)] = [m EXCEPT !.at = "adding", !.finish = TRUE]]
  /\ UNCHANGED <<file, writer, typed, starts>>

(* j_runner_run_line returns: the child has been waited for. *)
EndLine(s) ==
  LET m == procs[ShellOf(s)] IN
  /\ m.at = "running"
  /\ ~Repeats(m)
  /\ Forks(m) => m.forked
  /\ At(ChildOf(s)) \in Ended
  /\ Become(ShellOf(s),
       IF m.doing.does = "bad" THEN Gone("over")
       ELSE [m EXCEPT !.at = "adding", !.finish = m.doing.does = "exit"])
  /\ UNCHANGED <<file, writer, typed, starts>>

(* Ctrl-C elsewhere than at the prompt: j_readline_get has put SIGINT back *)
(* to its default.  It reaches the shell and the built-in's child each by  *)
(* itself, and one of them may do its work before it is gone.              *)
Kill(p) ==
  /\ At(p) \notin Ended \cup {"prompt"}
  /\ Become(p, Gone("over"))
  /\ UNCHANGED <<file, writer, typed, starts>>

(* Mistaken: the oldest entry.                                             *)
ComparedOldest(m) == HistoryGet(m, m.base)
(* Mistaken: the place the line is about to have.                          *)
ComparedNext(m) == HistoryGet(m, Len(m.list) + 1)

(* The entry checkduplicated gets for history_length, and whether the line *)
(* as it was typed is that entry.                                          *)
Compared(m) == HistoryGet(m, Len(m.list))
CheckDuplicated(m) ==
  ~m.line.lead /\ ~m.line.trail /\ Compared(m).text = m.line.text

(* j_readline_history_add.  Nobody looks whether there is an entry to      *)
(* compare with.                                                           *)
Crashes(m) == "dups" \in m.flags /\ Compared(m) = Null
Ignored(m) == \/ "dups" \in m.flags /\ CheckDuplicated(m)
              \/ "space" \in m.flags /\ m.line.lead
Added(m) ==
  IF Crashes(m) THEN [m EXCEPT !.at = "crashed"]
  ELSE [(IF Ignored(m) THEN m ELSE AddHistory(m, EntryOf(m)))
          EXCEPT !.at = IF m.finish THEN "saving" ELSE "prompt"]
Add(p) ==
  /\ At(p) = "adding"
  /\ Become(p, Added(procs[p]))
  /\ UNCHANGED <<file, writer, typed, starts>>

(* j_readline_history_save: write_history over the whole file, *)
Write(p) ==
  /\ At(p) = "saving"
  /\ file' = procs[p].list
  /\ writer' = <<p[1], procs[p].no>>
  /\ Become(p, [procs[p] EXCEPT !.at = "truncating"])
  /\ UNCHANGED <<typed, starts>>

(* A shell that had found no file starts to read lines. *)
Saved(m) ==
  [m EXCEPT !.at = IF m.finish THEN "over" ELSE "prompt", !.tail = << >>, !.from = << >>]

(* then history_truncate_file, which reads whatever the file holds by now  *)
Truncate(p) ==
  LET m == procs[p]
  IN  /\ At(p) = "truncating"
      /\ Become(p,
           IF Len(file) <= m.file_size THEN Saved(m)
           ELSE [m EXCEPT !.at = "cutting", !.tail = LastOf(file, m.file_size),
                          !.from = writer])
      /\ UNCHANGED <<file, writer, typed, starts>>

(* and, if that is too long, overwrites it with the end of what it read.   *)
Cut(p) ==
  LET m == procs[p]
  IN  /\ At(p) = "cutting"
      /\ file' = m.tail
      /\ writer' = m.from
      /\ Become(p, Saved(m))
      /\ UNCHANGED <<typed, starts>>

(* One of them fails: the process returns 1 from main. *)
SaveFails(p) ==
  /\ At(p) \in {"saving", "truncating", "cutting"}
  /\ Become(p, Gone("over"))
  /\ UNCHANGED <<file, writer, typed, starts>>

Over ==
  /\ \A p \in Procs : At(p) \in Ended
  /\ UNCHANGED vars

Proceed(s) ==
  ReadEof(s) \/ Again(s) \/ AgainForEver(s) \/ ForkBuiltin(s) \/ EndLine(s)
Keep(p) == Add(p) \/ Write(p) \/ Truncate(p) \/ Cut(p)

Next ==
  \/ \E s \in Sessions :
       \/ Load(s) \/ LoadFails(s)
       \/ \E l \in Lines : TypeLine(s, l)
       \/ Interrupt(s) \/ InputEnds(s)
       \/ Proceed(s)
  \/ \E p \in Procs : Keep(p) \/ SaveFails(p) \/ Kill(p)
  \/ Over

(* Nobody has to type, and a process that can go on does. *)
Fairness ==
  /\ \A s \in Sessions : WF_vars(Proceed(s))
  /\ \A p \in Procs : WF_vars(Keep(p))

Spec == Init /\ [][Next]_vars /\ Fairness

-----------------------------------------------------------------------------
(* Type invariant. *)
Process ==
  [at : {"prompt", "running", "adding", "saving", "truncating", "cutting"} \cup Ended,
   list : Seq(Entry), base : Nat \ {0}, flags : SUBSET DefaultFlags, file_size : Nat,
   signaled : BOOLEAN, eof : BOOLEAN, line : Line, no : Nat, doing : Line,
   nested : Nat, forked : BOOLEAN, finish : BOOLEAN,
   tail : Seq(Entry), from : {<< >>} \cup Sessions \X Nat]
TypeOK ==
  /\ file = NoFile \/ file \in Seq(Entry)
  /\ writer = << >> \/ writer \in Sessions \X (0 .. typed)
  /\ procs \in [Procs -> Process]
  /\ \A p \in Procs : Len(procs[p].list) <= HistSize /\ procs[p].no <= typed
  /\ typed \in 0 .. MaxTyped
  /\ starts \in 0 .. MaxStarts

(* Whatever the sessions and their children overwrite, nothing is entered  *)
(* twice and nothing moves: every list and the file hold lines in the      *)
(* order in which they were typed, each at most once.                      *)
InTypedOrder ==
  /\ file # NoFile => Ordered(file)
  /\ \A p \in Procs : Ordered(procs[p].list) /\ Ordered(procs[p].tail)

(* The child of a built-in and its shell enter the same line into copies   *)
(* of the same list.  If the file was last written for the line a shell    *)
(* has just finished, by either of them, it holds the end of what the      *)
(* shell holds, and all of it or as much as a history-file-size allows.    *)
FileSizes ==
  {FileSize} \cup {l.number : l \in {l \in Lines : l.name = "HISTFILESIZE" /\ l.number # Null}}
SavedIsKept ==
  \A s \in Sessions :
    LET m == procs[ShellOf(s)] IN
    (m.at \in {"prompt", "over"} /\ m.no > 0 /\ writer = <<s, m.no>>) =>
       /\ IsSuffix(file, m.list)
       /\ Len(file) = Len(m.list) \/ \E n \in FileSizes : n <= Len(file)

(* ignoredups keeps neighbours apart, in every list and through any file,  *)
(* if the list the line was added to had dropped nothing (history_get's    *)
(* numbers move with history_base, the ones readline.c passes do not) and  *)
(* the line was typed without blanks around it.                            *)
NoNeighboursAlike ==
  /\ file # NoFile => NeighboursApart(file)
  /\ \A p \in Procs : NeighboursApart(procs[p].list) /\ NeighboursApart(procs[p].tail)

(* The ways a line takes the shell down: there is no entry history_get     *)
(* finds under history_length, because the list is empty or has dropped as *)
(* many as it holds; a size that is no number; `again' reaching an `again'.*)
MayCrash(m) ==
  \/ m.base > Len(m.list) /\ "dups" \in m.flags
  \/ Aborts(m.doing)
  \/ m.doing.does = "again" /\ \E i \in DOMAIN m.list : LineOf(m.list[i]).does = "again"
CrashesOnlySo == \A p \in Procs : At(p) = "crashed" => MayCrash(procs[p])

(* The end of input ends a session, unless Ctrl-C was ever pressed at its  *)
(* prompt.                                                                 *)
SessionEnds ==
  \A s \in Sessions :
    (At(ShellOf(s)) = "prompt" /\ procs[ShellOf(s)].eof) ~>
      (At(ShellOf(s)) \in Ended \/ procs[ShellOf(s)].signaled)
=============================================================================
