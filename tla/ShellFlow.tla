------------------------------ MODULE ShellFlow ------------------------------
(***************************************************************************)
(* What a line makes of its data: which words each command is started      *)
(* with, what each command reads and where what it says ends up, told from *)
(* the line's AST alone, without processes, descriptors or pipes.          *)
(* RECURSIVE operators: only TLC's runs use this module.                   *)
(***************************************************************************)
EXTENDS ShellGrammar, TLC

CONSTANTS Does, FilesFound, Unreadable

(* The state of a line: the files, what went to the terminal (or to the    *)
(* expansion), what each command read and was started with, the output of  *)
(* the widest expansion, and whether the line goes on.                     *)
Start == [files |-> FilesFound, out |-> << >>, took |-> << >>, argvs |-> << >>,
          widest |-> 0, goes |-> TRUE]

LastOf(redirects, ops) ==
  LET files == SelectSeq(redirects, LAMBDA r : r.op \in ops)
  IN  IF files = << >> THEN << >> ELSE << Last(files) >>

(* One command of a pipeline: what it reads is st.stream, and its words are*)
(* the next of the expansions' values.                                     *)
Runs(st, name, words, from, to) ==
  LET in == IF from = << >> THEN st.stream ELSE st.env.files[from[1].file.value]
      read == IF Does[name].reads THEN in ELSE << >>
      said == read \o Does[name].says
      env == [st.env EXCEPT !.argvs = (name :> words) @@ @,
                            !.took = IF read = << >> THEN @ ELSE (name :> read) @@ @]
  IN  IF to = << >> THEN [st EXCEPT !.env = env, !.stream = said]
      ELSE [st EXCEPT !.env = [env EXCEPT !.files[to[1].file.value] = @ \o said],
                      !.stream = << >>]

Flows(st, ast) ==
  LET from == LastOf(ast.redirects, {"<"})
      to == LastOf(ast.redirects, {">", ">>"})
      files == st.env.files
      found == DOMAIN files
      n == Len(SelectSeq(ast.args, LAMBDA item : item.t = "expansion"))
      Value(i) == st.values[Len(SelectSeq(SubSeq(ast.args, 1, i), LAMBDA item : item.t = "expansion"))]
      target == IF ast.target.t = "word" THEN << ast.target.token.value >> ELSE st.values[n + 1]
      words == << target >> \o [i \in DOMAIN ast.args |->
                 IF ast.args[i].t = "word" THEN << ast.args[i].token.value >> ELSE Value(i)]
      kind == Call(ast).kind
      name == IF kind # "regular" THEN kind ELSE IF Len(target) = 1 THEN target[1] ELSE ""
      st1 == [st EXCEPT !.values = SubSeq(@, Len(Expansions(ast)) + 1, Len(@))]
      st2 == IF to # << >> /\ to[1].op = ">"
             THEN [st1 EXCEPT !.env.files = (to[1].file.value :> << >>) @@ @] ELSE st1
  IN  IF \/ kind = "fg"
         \/ from # << >> /\ from[1].file.value \notin found
         \/ to # << >> /\ to[1].op = ">>" /\ to[1].file.value \notin found
      THEN [st1 EXCEPT !.stream = << >>]
      ELSE IF name \notin DOMAIN Does THEN [st2 EXCEPT !.stream = << >>]
      ELSE Runs(st2, name, words, from, to)

RECURSIVE Pipeline(_)
Pipeline(ast) == IF ast.t = "pipe" THEN Pipeline(ast.l) \o Pipeline(ast.r) ELSE << ast >>

(* A pipeline: first its expansions, then its commands from left to right, *)
(* the last one's output being the line's.                                 *)
RECURSIVE Scope(_, _)
Expand(acc, scope) ==
  LET inner == Scope([acc.env EXCEPT !.out = << >>, !.goes = TRUE], scope)
      width == Len(inner.out)
  IN  [env |-> [inner EXCEPT !.out = acc.env.out, !.goes = acc.env.goes /\ Unreadable \notin Range(inner.out),
                             !.widest = IF width > @ THEN width ELSE @],
       values |-> Append(acc.values, inner.out)]
Statement(env, ast) ==
  LET calls == Pipeline(ast)
      scopes == FoldLeft(LAMBDA all, call : all \o Expansions(call), << >>, calls)
      acc == FoldLeft(Expand, [env |-> env, values |-> << >>], scopes)
      end == FoldLeft(Flows, [env |-> acc.env, values |-> acc.values, stream |-> << >>], calls)
  IN  IF ~acc.env.goes THEN acc.env ELSE [end.env EXCEPT !.out = @ \o end.stream]

Scope(env, scope) ==
  FoldLeft(LAMBDA e, ast : IF e.goes THEN Statement(e, ast) ELSE e, env, scope)

Flow(scope) == Scope(Start, scope)
=============================================================================
