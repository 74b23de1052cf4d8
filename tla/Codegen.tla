------------------------------ MODULE Codegen -------------------------------
(***************************************************************************)
(* codegen/generate.c and the emitters of codegen/backend/x86_64.dasc.c:   *)
(* the walk of a parsed line that lays out the chain of entries a closure  *)
(* goes through, one per invocation of its marshal.                        *)
(*                                                                         *)
(* The machine code between two entries is one record; a tag is a number.  *)
(* Wording, registers and stack frames are left out; a file is the token   *)
(* that names it, and a pipe its number in the step.  RECURSIVE operators: *)
(* only TLC's runs use this module.                                        *)
(***************************************************************************)
EXTENDS ShellGrammar, FiniteSets, TLC

(* What an emission has produced: the next unused tag, the entries laid    *)
(* out so far and the detached commands in the order of their `&'.         *)
Context == [n |-> 2, code |-> << >>, detachables |-> << >>]

EntryTag == 1

Emit(cx, tag, entry) == [cx EXCEPT !.code = @ @@ (tag :> entry)]
NewTags(cx, k) == [cx EXCEPT !.n = @ + k]

(* Mistaken: an empty branch ends the line; it comes back to itself.       *)
EmitEmptyLast(cx, tag, next) == Emit(cx, tag, [op |-> "last"])
EmitEmptyLoop(cx, tag, next) == Emit(cx, tag, [op |-> "empty", next |-> tag])

EmitEmpty(cx, tag, next) == Emit(cx, tag, [op |-> "empty", next |-> next])
EmitLast(cx, tag) == Emit(cx, tag, [op |-> "last"])

(* Mistaken: the branches are exchanged.                                   *)
EmitTestSwapped(cx, tag, direct, reverse) ==
  Emit(cx, tag, [op |-> "test", direct |-> reverse, reverse |-> direct])

EmitTest(cx, tag, direct, reverse) ==
  Emit(cx, tag, [op |-> "test", direct |-> direct, reverse |-> reverse])

(* A step with expansions forks them, splices their output, and then runs  *)
(* its invocations from an entry of its own.                               *)
EmitStep(cx, w, tag, next) ==
  LET step == [op |-> "step", calls |-> w.calls, pipes |-> w.pipes, next |-> next] IN
  IF w.heads = << >> THEN Emit(cx, tag, step)
  ELSE LET intercept == cx.n
           splice == cx.n + 1
           cx1 == NewTags(cx, 2)
           cx2 == Emit(cx1, tag, [op |-> "expand", heads |-> w.heads, next |-> splice])
           cx3 == Emit(cx2, splice, [op |-> "splice", n |-> Len(w.heads), next |-> intercept])
       IN  Emit(cx3, intercept, step)

RECURSIVE WalkScope(_, _, _, _), WalkStatement(_, _, _, _),
          WalkCommand(_, _, _, _), WalkExpansions(_, _)

(* walk_argument on each expansion of an invocation: a chain of its own    *)
(* that ends in a `last'.  w is the step being gathered.                   *)
WalkExpansions(exps, w) ==
  IF exps = << >> THEN w
  ELSE LET head == w.cx.n
           last == w.cx.n + 1
           cx1 == WalkScope(Head(exps), head, last, NewTags(w.cx, 2))
       IN  WalkExpansions(Tail(exps),
             [w EXCEPT !.cx = EmitLast(cx1, last), !.heads = Append(@, head)])

(* Mistaken: the pipe is taken where there is one. *)
AdjustStdfilePipe(redirects, ops, pipe) ==
  LET files == SelectSeq(redirects, LAMBDA r : r.op \in ops)
  IN  IF pipe # << >> THEN pipe
      ELSE IF files # << >> THEN << Last(files) >> ELSE << >>

(* adjust_stdfile: the last redirection of its kind, else the pipe, else   *)
(* nothing.                                                                *)
AdjustStdfile(redirects, ops, pipe) ==
  LET files == SelectSeq(redirects, LAMBDA r : r.op \in ops)
  IN  IF files # << >> THEN << Last(files) >> ELSE pipe

(* The words and expansions execvp is given, the target first.  Expansions *)
(* are numbered through the step, a target's after those of its arguments. *)
Argv(ast, first) ==
  LET items == Append(ast.args, ast.target)
      Number_(i) == first + Cardinality({j \in 1 .. i : items[j].t = "expansion"})
      argv == [i \in DOMAIN items |->
                 IF items[i].t = "word" THEN [word |-> items[i].token.value]
                                        ELSE [value |-> Number_(i)]]
  IN  << Last(argv) >> \o Front(argv)

(* An invocation joins the step after its expansions have been emitted. *)
WalkInvoke(ast, inPipe, outPipe, w) ==
  LET w1 == WalkExpansions(Expansions(ast), w)
      invoke == [in |-> AdjustStdfile(ast.redirects, {"<"}, inPipe),
                 out |-> AdjustStdfile(ast.redirects, {">", ">>"}, outPipe),
                 argv |-> Argv(ast, Len(w.heads))]
  IN  [w1 EXCEPT !.calls = Append(@, Call(ast) @@ invoke)]

(* A pipeline from left to right, with a pipe of the step in between. *)
WalkPipe(ast, inPipe, outPipe, w) ==
  LET w1 == [w EXCEPT !.pipes = @ + 1]
      pipe == << [op |-> "|", number |-> w1.pipes] >>
  IN  WalkCommand(ast.r, pipe, outPipe, WalkCommand(ast.l, inPipe, pipe, w1))

WalkCommand(ast, inPipe, outPipe, w) ==
  IF ast.t = "pipe" THEN WalkPipe(ast, inPipe, outPipe, w)
                    ELSE WalkInvoke(ast, inPipe, outPipe, w)

WalkLogical(ast, tag, next, cx) ==
  LET condition == cx.n
      direct == cx.n + 1
      reverse == cx.n + 2
      cx1 == WalkStatement(ast.l, tag, condition, NewTags(cx, 3))
      cx2 == EmitTest(cx1, condition, direct, reverse)
  IN  IF ast.t = "and"
      THEN WalkStatement(ast.r, direct, next, EmitEmpty(cx2, reverse, next))
      ELSE WalkStatement(ast.r, reverse, next, EmitEmpty(cx2, direct, next))

(* Mistaken: nothing for the branch that is not there.                     *)
WalkReverseNothing(reverse, tag, next, cx) ==
  IF reverse = << >> THEN cx ELSE WalkScope(reverse[1], tag, next, cx)

WalkReverse(reverse, tag, next, cx) ==
  IF reverse = << >> THEN EmitEmpty(cx, tag, next)
                     ELSE WalkScope(reverse[1], tag, next, cx)

WalkIfclosure(ast, tag, next, cx) ==
  LET condition == cx.n
      direct == cx.n + 1
      reverse == cx.n + 2
      cx1 == WalkScope(ast.cond, tag, condition, NewTags(cx, 3))
      cx2 == EmitTest(cx1, condition, direct, reverse)
  IN  WalkReverse(ast.reverse, reverse, next,
        WalkScope(ast.direct, direct, next, cx2))

WalkDetach(ast, tag, next, cx) ==
  LET entry == [op |-> "detach", index |-> Len(cx.detachables), next |-> next]
  IN  [Emit(cx, tag, entry) EXCEPT !.detachables = Append(@, ast.of)]

WalkStatement(ast, tag, next, cx) ==
  CASE ast.t \in {"and", "or"} -> WalkLogical(ast, tag, next, cx)
    [] ast.t = "if"            -> WalkIfclosure(ast, tag, next, cx)
    [] ast.t = "detach"        -> WalkDetach(ast, tag, next, cx)
    [] OTHER ->
         LET w == WalkCommand(ast, << >>, << >>,
                    [cx |-> cx, calls |-> << >>, heads |-> << >>, pipes |-> 0])
         IN  EmitStep(w.cx, w, tag, next)

(* Statements from left to right, each continuing at the next one's tag    *)
(* and the last one at the scope's.  A scope without statements leaves its *)
(* tag without an entry.                                                   *)
WalkScope(scope, tag, last, cx) ==
  IF scope = << >> THEN cx
  ELSE IF Len(scope) = 1 THEN WalkStatement(scope[1], tag, last, cx)
  ELSE LET next == cx.n
       IN  WalkScope(Tail(scope), next, last,
             WalkStatement(Head(scope), tag, next, NewTags(cx, 1)))

(* j_context_generate *)
Generate(scope) ==
  LET last == Context.n
      cx == WalkScope(scope, EntryTag, last, NewTags(Context, 1))
  IN  EmitLast(cx, last)

(* Whether a command holds a built-in anywhere: a detached one is emitted  *)
(* from a copy whose strings were replaced by pointers into the closure's  *)
(* block, where no built-in compares equal to its token any more.          *)
RECURSIVE HasBuiltin(_), ScopeHasBuiltin(_)
ScopeHasBuiltin(scope) == \E i \in DOMAIN scope : HasBuiltin(scope[i])
HasBuiltin(ast) ==
  CASE ast.t = "invoke" ->
         \/ Call(ast).kind # "regular"
         \/ \E i \in DOMAIN Expansions(ast) : ScopeHasBuiltin(Expansions(ast)[i])
    [] ast.t \in {"pipe", "and", "or"} -> HasBuiltin(ast.l) \/ HasBuiltin(ast.r)
    [] ast.t = "if" -> \/ ScopeHasBuiltin(ast.cond)
                       \/ ScopeHasBuiltin(ast.direct)
                       \/ \E i \in DOMAIN ast.reverse : ScopeHasBuiltin(ast.reverse[i])
    [] ast.t = "detach" -> FALSE

(* j_codegen_emit: what a closure is made of. *)
Compile(scope) ==
  LET cx == Generate(scope)
  IN  [code |-> cx.code, detachables |-> cx.detachables,
       builtins |-> ScopeHasBuiltin(scope)]
=============================================================================
