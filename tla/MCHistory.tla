----------------------------- MODULE MCHistory ------------------------------
(***************************************************************************)
(* History with the lines a few users type.                                *)
(***************************************************************************)
EXTENDS History

Does(text, does) == [QuietLine(text) EXCEPT !.does = does]
Quiet(text) == Does(text, "quiet")

MCLines ==
  {Quiet("a"),
   [Quiet("a") EXCEPT !.lead = TRUE],
   [Quiet("a") EXCEPT !.trail = TRUE],
   [Does("set", "set") EXCEPT !.name = "HISTCONTROL", !.words = << "ignorespace" >>],
   [Does("size", "set") EXCEPT !.name = "HISTFILESIZE", !.number = 2],
   [Does("wrong", "set") EXCEPT !.name = "HISTSIZE"],
   Does("again", "again"),
   Does("exit", "exit"),
   Does("(", "bad")}

(* No file, a full list, in which `again' may come to repeat itself, and   *)
(* more than a list holds.                                                 *)
File(texts) ==
  [i \in DOMAIN texts |-> [text |-> texts[i], no |-> i - Len(texts), apart |-> FALSE]]
MCFiles == {NoFile, File(<< "again", "x" >>), File(<< "x", "y", "z" >>)}
=============================================================================
