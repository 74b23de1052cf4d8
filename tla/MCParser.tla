------------------------------ MODULE MCParser ------------------------------
(***************************************************************************)
(* The parser and the generator over lines a user writes, over what        *)
(* becomes of those lines after a slip, a token dropped, added or put in   *)
(* place of another, and over every short line slips can make.             *)
(***************************************************************************)
EXTENDS Codegen, BagsExt

CONSTANTS
  Meant,      \* the scopes the user may set out to write
  Slips,      \* tokens that come in by mistake
  ShortLine   \* bound: a longer line takes one slip, a shorter one any number

VARIABLES
  developer,  \* the build
  meant,      \* history: << the scope the line is written for >>, << >> after a slip
  tokens      \* the tokens of the line

vars == <<developer, meant, tokens>>

P(dev) == INSTANCE Parser WITH Developer <- dev
Parsed == P(developer)!Parse(P(developer)!Scan(tokens))
Accepted == Parsed.error = "none"

Init ==
  /\ developer \in BOOLEAN
  /\ \E scope \in Meant : meant = << scope >> /\ tokens = Text(scope)

Slip(after) ==
  /\ meant # << >> \/ Len(tokens) < ShortLine
  /\ tokens' = after
  /\ meant' = << >>
  /\ UNCHANGED developer

Drop    == \E i \in DOMAIN tokens : Slip(RemoveAt(tokens, i))
Add     == \E i \in 1 .. Len(tokens) + 1, token \in Slips : Slip(InsertAt(tokens, i, token))
Mistake == \E i \in DOMAIN tokens, token \in Slips : Slip(ReplaceAt(tokens, i, token))

Next == Drop \/ Add \/ Mistake
Spec == Init /\ [][Next]_vars

-----------------------------------------------------------------------------
(* Lines of the grammar: pipelines and lists that bind to the left, a      *)
(* detached command of each kind, arguments of every type, expansions, and *)
(* `if' in every place the parser has one.                                 *)
Cmd(value, args) == Invoke(Word(Literal(value)), [i \in DOMAIN args |-> Word(args[i])])
A == Cmd("a", << >>)
B == Cmd("b", << Quoted >>)
F == Literal("f")
G == Literal("g")
C == Invoke(Word(Builtin("cd", "cd")), << Word(Literal("c")) >>)
Op(t, l, r) == [t |-> t, l |-> l, r |-> r]
Both(l, r) == {Op(t, l, r) : t \in {"pipe", "and", "or"}}
Chains ==
  UNION {{Op(t, l, C) : t \in {"and", "or"}} : l \in Both(A, B)}
  \cup {Op("pipe", Op("pipe", A, B), C)}
  \cup {Op(t, A, Op("pipe", B, C)) : t \in {"and", "or"}}
IfOf(cond, direct, reverse) ==
  [t |-> "if", cond |-> cond, direct |-> direct, reverse |-> reverse]
Detached(ast) == [t |-> "detach", of |-> ast]
Giving(scope) == Invoke(Word(Literal("a")), << Expansion(scope), Word(If) >>)
From(scope) == Invoke(Expansion(scope), << Word(Literal("b")) >>)

Redirecting ==
  {Redirected(ast, redirects) :
     ast \in {A, C, Giving(<< B >>), From(<< A >>)},
     redirects \in {<< Redirect(">", F) >>, << Redirect("<", F), Redirect(">>", G) >>,
                    << Redirect(">", F), Redirect(">", G) >>}}
  \cup {Op("pipe", Redirected(A, << Redirect(">>", F) >>), Redirected(B, << Redirect("<", Fi) >>)),
        Giving(<< Redirected(B, << Redirect("<", F) >>) >>)}
Statements ==
  {A, B, C, Detached(A), Giving(<< B >>), From(<< A >>), Giving(<< >>),
   Cmd("a", << Fi, Else >>), Detached(Op("pipe", A, Giving(<< B >>)))}
  \cup Chains \cup {Detached(ast) : ast \in Chains}
Ifs ==
  {IfOf(<< ast >>, << B >>, reverse) : ast \in {A, C, Op("and", A, B)},
                                        reverse \in {<< >>, << << >> >>, << << C, A >> >>}}
Nested ==
  {IfOf(<< A, B >>, << C, IfOf(<< A >>, << B >>, << >>), C >>, << << A >> >>),
   IfOf(<< A >>, << >>, << << IfOf(<< B >>, << C >>, << << A >> >>) >> >>),
   Giving(<< IfOf(<< A >>, << B >>, << << C >> >>) >>)}
MCMeant ==
  {<< >>, << A, B, C >>} \cup {<< ast >> : ast \in Statements \cup Redirecting \cup Ifs \cup Nested}
  \cup {<< ast, A >> : ast \in Ifs \cup Nested} \cup {<< A, ast >> : ast \in Chains \cup Ifs}

MCSlips ==
  {Literal("z"), Builtin("true", "true"), Builtin("set", "set"), Quoted, Comment, Separator,
   If, Then, Else, Fi, Backquote, Ampersand, Operator(">")}
  \cup {Symbol[t] : t \in DOMAIN Symbol}

-----------------------------------------------------------------------------
(* A line of the grammar is parsed as it was meant, in both builds; only a *)
(* line that is empty is not.                                              *)
ParsedAsMeant ==
  meant \notin {<< >>, << << >> >>} => (Accepted /\ << Parsed.got >> = meant)

(* Whatever is accepted is all of what was written: the AST holds every    *)
(* word, operator and keyword of the line, in the order they were written  *)
(* in, every redirection with its own file, and nothing else.  Only        *)
(* comments and the places of the separators are lost, the place of a      *)
(* redirection among the arguments, a redirection nothing follows, and the *)
(* scope of a file named by an expansion.  (A keyword after a redirection  *)
(* is a file or ends a scope: such lines are left to ParsedAsMeant.)       *)
Redirects(toks, types) ==
  {i \in DOMAIN toks \ {Len(toks)} : toks[i] \in Redirections /\ toks[i + 1].type \in types}
NamedFilesNamed(toks) == Redirects(toks, {"builtin", "literal", "quoted"})
Words(toks) ==
  LET files == {i + 1 : i \in NamedFilesNamed(toks)}
  IN  FoldLeft(LAMBDA words, i : IF i \in files \/ toks[i] \in {Separator} \cup Redirections THEN words
                                 ELSE Append(words, toks[i]),
               << >>, [i \in DOMAIN toks |-> i])
FilesNamed(toks) ==
  BagOfAll(LAMBDA i : <<toks[i], toks[i + 1]>>, SetToBag(NamedFilesNamed(toks)))
NothingLost ==
  LET written == SelectSeq(tokens, LAMBDA token : token # Comment)
      kept == Text(Parsed.got)
  IN  (/\ Accepted
       /\ Redirects(written, {"keyword"}) = {}
       /\ \A i \in Redirects(written, {"operator"}) : written[i + 1] # Backquote) =>
        Words(kept) = Words(written) /\ FilesNamed(kept) = FilesNamed(written)

(* What the generator lays out for an accepted line is one chain: unless a *)
(* scope of the line is blank, every tag an entry continues at has an      *)
(* entry, every entry is reached from the first, and the entries call each *)
(* command of the line exactly once.                                       *)
NextTags(e) ==
  CASE e.op \in {"empty", "step", "detach", "splice"} -> {e.next}
    [] e.op = "test" -> {e.direct, e.reverse}
    [] e.op = "expand" -> {e.next} \cup Range(e.heads)
    [] e.op = "last" -> {}

RECURSIVE Reached(_, _), Scopes(_), ScopesIn(_), Calls(_)
Reached(code, tags) ==
  LET more == tags \cup UNION {NextTags(code[tag]) : tag \in tags \cap DOMAIN code}
  IN  IF more = tags THEN tags ELSE Reached(code, more)

(* A scope and those in it, but for detached commands, *)
Scopes(scope) == FoldLeft(LAMBDA all, ast : all \o ScopesIn(ast), << scope >>, scope)
ScopesIn(ast) ==
  CASE ast.t = "invoke" ->
         FoldLeft(LAMBDA all, scope : all \o Scopes(scope), << >>, Expansions(ast))
    [] ast.t = "if" ->
         FoldLeft(LAMBDA all, scope : all \o Scopes(scope), << >>,
                  << ast.cond, ast.direct >> \o ast.reverse)
    [] ast.t = "detach" -> << >>
    [] OTHER -> ScopesIn(ast.l) \o ScopesIn(ast.r)

(* and the commands of a statement outside the scopes in it. *)
Calls(ast) ==
  CASE ast.t = "invoke" -> << Call(ast) >>
    [] ast.t \in {"if", "detach"} -> << >>
    [] OTHER -> Calls(ast.l) \o Calls(ast.r)
CallsOf(scopes) ==
  FoldLeft(LAMBDA all, scope : FoldLeft(LAMBDA calls, ast : calls \o Calls(ast), all, scope),
           << >>, scopes)
CallsIn(code) ==
  FoldFunction(LAMBDA e, all :
    IF e.op # "step" THEN all
    ELSE [i \in DOMAIN e.calls |-> [cmd |-> e.calls[i].cmd, kind |-> e.calls[i].kind,
                                    arg |-> e.calls[i].arg]] \o all, << >>, code)
Times(calls, call) == Cardinality({i \in DOMAIN calls : calls[i] = call})

OneChain ==
  Accepted =>
    LET code == Compile(Parsed.got).code
        scopes == Scopes(Parsed.got)
        written == CallsOf(scopes)
        called == CallsIn(code)
    IN  (\A i \in DOMAIN scopes : scopes[i] # << >>) =>
          /\ Reached(code, {EntryTag}) = DOMAIN code
          /\ Len(called) = Len(written)
          /\ \A i \in DOMAIN written : Times(called, written[i]) = Times(written, written[i])

=============================================================================
