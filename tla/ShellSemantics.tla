--------------------------- MODULE ShellSemantics ---------------------------
(***************************************************************************)
(* What a line means, read from its AST alone: the commands it launches,   *)
(* in order, given the status each of them exits with, and the status of   *)
(* the line.  It knows nothing of closures, entries, conditions or         *)
(* processes; the runs of MCRunner compare it with what the compiled chain *)
(* does.  A pipeline fails when one of its commands does (closure_marshal  *)
(* folds every status); an expansion runs before the step it belongs to.   *)
(* w holds what the AST does not say: w.will, the status each regular      *)
(* command exits with and whether a cd finds its directory, w.inside, the  *)
(* line an `again' or the job a `fg' found, for those that found one, and  *)
(* w.interactive.                                                          *)
(***************************************************************************)
EXTENDS ShellGrammar

Quiet == [ran |-> << >>, status |-> 0, exited |-> FALSE]

(* a, then b unless a ended the shell. *)
Followed(a, b) ==
  IF a.exited THEN a
  ELSE [ran |-> a.ran \o b.ran, status |-> b.status, exited |-> b.exited]

(* `exit', and in an interactive session `again', want a number, and `cd'  *)
(* a directory it can enter; in a pipe they do not look.                   *)
StatusOf(call, alone, w) ==
  LET wrong == \/ call.kind = "exit" /\ call.arg = NoNumber
               \/ call.kind = "again" /\ call.arg = NoNumber /\ w.interactive
               \/ call.kind = "cd" /\ w.will[call.cmd] # 0
  IN  IF call.kind = "regular" THEN w.will[call.cmd]
      ELSE IF call.kind \in {"false", "fg"} \/ (alone /\ wrong) THEN 1 ELSE 0

RECURSIVE MeanScope(_, _), Mean(_, _), Calls(_), Expanding(_, _)

Calls(ast) ==
  IF ast.t = "pipe" THEN Calls(ast.l) \o Calls(ast.r) ELSE << Call(ast) >>

(* Everything the expansions of a step launch. *)
Expanding(ast, w) ==
  IF ast.t = "pipe" THEN Expanding(ast.l, w) \o Expanding(ast.r, w)
  ELSE FoldLeft(LAMBDA ran, scope : ran \o MeanScope(scope, w).ran, << >>, Expansions(ast))

(* A step's own status is 0 or 1, an exit's is the code it was given. *)
MeanStep(ast, w) ==
  LET calls == Calls(ast)
      alone == Len(calls) = 1
      failed == \E i \in DOMAIN calls : StatusOf(calls[i], alone, w) # 0
      before == Expanding(ast, w) \o [i \in DOMAIN calls |-> calls[i].cmd]
  IN  IF alone /\ calls[1].kind = "exit" /\ calls[1].arg # NoNumber
      THEN [ran |-> before, status |-> calls[1].arg, exited |-> TRUE]
      ELSE IF alone /\ calls[1].cmd \in DOMAIN w.inside
      THEN Followed([ran |-> before, status |-> 0, exited |-> FALSE],
                MeanScope(w.inside[calls[1].cmd], w))
      ELSE [ran |-> before, status |-> IF failed THEN 1 ELSE 0, exited |-> FALSE]

Mean(ast, w) ==
  CASE ast.t = "and" ->
         LET l == Mean(ast.l, w)
         IN  IF l.status = 0 THEN Followed(l, Mean(ast.r, w)) ELSE l
    [] ast.t = "or" ->
         LET l == Mean(ast.l, w)
         IN  IF l.status # 0 THEN Followed(l, Mean(ast.r, w)) ELSE l
    [] ast.t = "if" ->
         LET c == MeanScope(ast.cond, w)
         IN  Followed(c, IF c.status = 0 THEN MeanScope(ast.direct, w)
                         ELSE IF ast.reverse = << >> THEN Quiet
                         ELSE MeanScope(ast.reverse[1], w))
    [] ast.t = "detach" -> Quiet
    [] OTHER -> MeanStep(ast, w)

MeanScope(scope, w) ==
  IF scope = << >> THEN Quiet
  ELSE IF Len(scope) = 1 THEN Mean(scope[1], w)
  ELSE Followed(Mean(Head(scope), w), MeanScope(Tail(scope), w))
=============================================================================
