------------------------------- MODULE Parser -------------------------------
(***************************************************************************)
(* parser/parser.c: from the tokens of a line or a file to its AST.  The   *)
(* walker is the sequence of tokens still to be taken; `collect' moves     *)
(* them up to and including a given token.  What a walk returns is         *)
(*   error  "none", "error" (a GError), "assert" (the shell aborts),       *)
(*          "null" (a NULL is followed: the shell crashes) or "broken" (the*)
(*          generator aborts or crashes on what was got)                   *)
(*   got    the AST, when there is no error                                *)
(*   hole   whether the generator cannot get through it                    *)
(* Positions and wording are left out.                                     *)
(* RECURSIVE operators: only TLC's runs use this module.                   *)
(***************************************************************************)
EXTENDS ShellGrammar, FiniteSets, FiniteSetsExt

CONSTANT Developer   \* whether Jash was built with --enable-developer

Failed(error) == [error |-> error, got |-> << >>, hole |-> FALSE]
Ok(got) == [error |-> "none", got |-> got, hole |-> FALSE]

(* Go on with what was got, or give the error up. *)
Bind(r, Use(_)) ==
  IF r.error # "none" THEN r
  ELSE LET s == Use(r.got) IN [s EXCEPT !.hole = @ \/ r.hole]
Map(r, Make(_)) == IF r.error # "none" THEN r ELSE [r EXCEPT !.got = Make(@)]

(* Mistaken: one token too many is withdrawn. *)
AfterNext(tokens, i) == IF i = 0 THEN << >> ELSE SubSeq(tokens, i + 2, Len(tokens))

(* collect: the first place at or after i of one of these, 0 for the end   *)
(* of the walker; and the tokens on either side of a place.                *)
FirstFrom(tokens, i, until) ==
  LET at == {k \in i .. Len(tokens) : tokens[k] \in until}
  IN  IF at = {} THEN 0 ELSE Min(at)
Before(tokens, i) == IF i = 0 THEN tokens ELSE SubSeq(tokens, 1, i - 1)
After(tokens, i) == IF i = 0 THEN << >> ELSE SubSeq(tokens, i + 1, Len(tokens))

(* How many `if's are open after the first i tokens, one being open before.*)
Open(tokens, i) ==
  1 + Cardinality({k \in 1 .. i : tokens[k] = If})
    - Cardinality({k \in 1 .. i : tokens[k] = Fi})

(* The `fi' that closes the first `if'. *)
Closed(tokens) ==
  LET at == {i \in DOMAIN tokens : tokens[i] = Fi /\ Open(tokens, i) = 0}
  IN  IF at = {} THEN 0 ELSE Min(at)

-----------------------------------------------------------------------------
(* The operators, as operator.stringlist weighs them. *)
Precedence(token) ==
  CASE token.value = "|" -> 1000
    [] token.value \in {"&&", "||"} -> 800
    [] token.value = "&" -> 700
LeftAssociative(token) == token.value # "&"
AstOf(token) == CHOOSE t \in DOMAIN Symbol : Symbol[t] = token

(* st.operands and st.operators are the two queues, their heads first. *)
PushOperation(st, operation, used) ==
  [operands |-> << operation >> \o SubSeq(st.operands, used + 1, Len(st.operands)),
   operators |-> Tail(st.operators)]

(* pushoper on the newest operator.  The right operand is the newer one;   *)
(* one alone is taken for the left.                                        *)
PushOper(st) ==
  LET op == Head(st.operators)
      newest == st.operands[1]
      Binary(l, r) == [t |-> AstOf(op), l |-> l, r |-> r]
  IN  IF op = Ampersand
      THEN Ok(PushOperation(st, [t |-> "detach", of |-> newest], 1))
      ELSE IF Len(st.operands) >= 2
      THEN Ok(PushOperation(st, Binary(st.operands[2], newest), 2))
      ELSE IF Developer THEN Failed("assert")
      ELSE [Ok(PushOperation(st, Binary(newest, Missing), 1)) EXCEPT !.hole = TRUE]

(* Mistaken: as if every operator bound to the right. *)
BindsFirstRight(new, old) == Precedence(new) < Precedence(old)

(* Whether the older operator takes its operands before the newer one. *)
BindsFirst(new, old) ==
  \/ Precedence(new) < Precedence(old)
  \/ Precedence(new) = Precedence(old) /\ LeftAssociative(new)

RECURSIVE Reduce(_, _), Finish(_)
Reduce(st, oper) ==
  IF st.operators # << >> /\ BindsFirst(oper, Head(st.operators))
  THEN Bind(PushOper(st), LAMBDA next : Reduce(next, oper))
  ELSE Ok([st EXCEPT !.operators = << oper >> \o @])
Finish(st) ==
  IF st.operators = << >> THEN Ok(st.operands[1]) ELSE Bind(PushOper(st), Finish)

-----------------------------------------------------------------------------
RECURSIVE WalkScope(_), WalkArguments(_, _), Commands(_, _, _, _), CommandEnd(_, _, _)

WordTypes == {"builtin", "keyword", "literal", "quoted"}

(* What a word or an expansion is to the command: an argument, or the file *)
(* of the redirection before it.  A file named by an expansion is called by*)
(* the backquote's own text, and the scope in it is dropped.               *)
TakenAs(op, token, item) ==
  IF op = << >> THEN item
  ELSE [t |-> "redirect", of |-> Redirect(op[1].value, token)]

(* walk_arguments: words as they come, a scope between backquotes, and     *)
(* redirections; op is the operator that waits for its file, << >> when    *)
(* none does.  One that still waits at the end is forgotten.               *)
WalkArguments(tokens, op) ==
  IF tokens = << >> THEN Ok(<< >>)
  ELSE LET token == Head(tokens)
           rest == Tail(tokens)
           close == FirstFrom(rest, 1, {Backquote})
           Prepend(item, after) ==
             Map(WalkArguments(after, << >>),
                 LAMBDA items : << TakenAs(op, token, item) >> \o items)
       IN  CASE token.type \in WordTypes -> Prepend(Word(token), rest)
             [] token = Backquote /\ close # 0 ->
                  Bind(WalkScope(Before(rest, close)),
                       LAMBDA scope : Prepend(Expansion(scope), After(rest, close)))
             [] token \in Redirections /\ op = << >> -> WalkArguments(rest, << token >>)
             [] OTHER -> Failed("error")

(* claim_arguments: the redirections leave the arguments for the command.  *)
Claimed(target, items) ==
  LET Redirecting(item) == item.t = "redirect"
      redirects == SelectSeq(items, Redirecting)
  IN  Redirected(Invoke(target, SelectSeq(items, LAMBDA item : ~Redirecting(item))),
                 [i \in DOMAIN redirects |-> redirects[i].of])

(* The bounds claim_arguments gets from walk_command. *)
Claims(value, n) ==
  CASE value \in {"false", "jobs", "true"} -> n = 0
    [] value = "set" -> n \in {0, 2}
    [] OTHER -> n <= 1

(* walk_command on a command's first token and the others.  An operator    *)
(* at the head becomes the first argument, which is then the target: only  *)
(* a backquote gives one.                                                  *)
WalkCommand(head, tokens) ==
  CASE head.type = "builtin" ->
         Bind(WalkArguments(tokens, << >>), LAMBDA items :
           LET command == Claimed(Word(head), items)
           IN  IF Claims(head.value, Len(command.args)) THEN Ok(command) ELSE Failed("error"))
    [] head.type = "literal" ->
         Map(WalkArguments(tokens, << >>), LAMBDA items : Claimed(Word(head), items))
    [] head.type = "operator" /\ (head = Backquote \/ ~Developer) ->
         Bind(WalkArguments(<< head >> \o tokens, << >>), LAMBDA items :
           IF items = << >> \/ Head(items).t = "redirect"
           THEN [Ok(Invoke(Missing, << >>)) EXCEPT !.hole = TRUE]
           ELSE Ok(Claimed(Head(items), Tail(items))))
    [] head.type = "operator" /\ head # Backquote /\ Developer -> Failed("assert")
    [] OTHER -> Failed("error")

(* Where the command that begins at i ends: at an operator, 0 for the end  *)
(* of the expression, -1 for a backquote nobody closes.  Backquotes are    *)
(* skipped in pairs, unless the expression itself begins with one.         *)
Stops == {Ampersand, Backquote} \cup {Symbol[t] : t \in DOMAIN Symbol}
CommandEnd(first, tokens, i) ==
  LET n == FirstFrom(tokens, i, Stops)
      close == FirstFrom(tokens, n + 1, {Backquote})
  IN  CASE n = 0 -> 0
        [] tokens[n] # Backquote -> n
        [] first = Backquote -> CommandEnd(first, tokens, n + 1)
        [] close = 0 -> -1
        [] OTHER -> CommandEnd(first, tokens, close + 1)

(* One round of walk_expression's loop: the command that begins with head, *)
(* and the operator after it.                                              *)
Commands(first, head, tokens, st) ==
  LET end == CommandEnd(first, tokens, 1)
      after == After(tokens, end)
  IN  IF end = -1 THEN Failed("error")
      ELSE Bind(WalkCommand(head, Before(tokens, end)), LAMBDA command :
        LET st1 == [st EXCEPT !.operands = << command >> \o @]
        IN  CASE end = 0 -> Finish(st1)
              [] tokens[end] = Ampersand /\ after # << >> -> Failed("error")
              [] OTHER ->
                   Bind(Reduce(st1, tokens[end]), LAMBDA st2 :
                     IF after = << >> THEN Finish(st2)
                     ELSE Commands(first, Head(after), Tail(after), st2)))

WalkExpression(head, tokens) ==
  Commands(head, head, tokens, [operands |-> << >>, operators |-> << >>])

(* walk_ifclosure on what is between `if' and its `fi'.  The condition     *)
(* ends at the first `then', the direct branch at the first `else', inside *)
(* another `if' or not.                                                    *)
Branches(cond, rest) ==
  LET otherwise == FirstFrom(rest, 1, {Else})
      closed == Closed(rest)
      stop == IF otherwise = 0 THEN closed ELSE IF closed = 0 THEN otherwise
              ELSE Min({otherwise, closed})
      hasElse == stop # 0 /\ rest[stop] = Else
      direct == IF hasElse \/ stop = 0 THEN Before(rest, stop) ELSE SubSeq(rest, 1, stop)
      If_(d, reverse) == [t |-> "if", cond |-> cond, direct |-> d, reverse |-> reverse]
  IN  IF stop = 0 /\ Open(rest, Len(rest)) > 1 THEN Failed("error")
      ELSE IF rest = << >> THEN Failed("null")
      ELSE Bind(WalkScope(direct), LAMBDA d :
        IF hasElse
        THEN Map(WalkScope(After(rest, stop)), LAMBDA r : If_(d, << r >>))
        ELSE IF After(rest, stop) # << >> THEN Failed("error")
        ELSE Ok(If_(d, << >>)))

WalkIfclosure(tokens) ==
  LET then == FirstFrom(tokens, 1, {Then})
      cond == Before(tokens, then)
  IN  CASE then = 0 -> Failed("error")
        [] cond = << >> -> Failed("null")
        [] Head(cond) = If -> Failed("error")
        [] OTHER -> Bind(WalkScope(cond), LAMBDA c : Branches(c, After(tokens, then)))

WalkScope(tokens) ==
  IF tokens = << >> THEN Ok(<< >>)
  ELSE LET head == Head(tokens)
           rest == Tail(tokens)
           end == FirstFrom(rest, 1, {Separator})
           closed == Closed(rest)
           Prepend(r, after) ==
             Bind(r, LAMBDA ast : Map(WalkScope(after), LAMBDA scope : << ast >> \o scope))
       IN  CASE head = Separator -> WalkScope(rest)
             [] head.type \in {"builtin", "literal"} \/ head = Backquote ->
                  Prepend(WalkExpression(head, Before(rest, end)), After(rest, end))
             [] head = If /\ closed # 0 ->
                  Prepend(WalkIfclosure(Before(rest, closed)), After(rest, closed))
             [] OTHER -> Failed("error")

(* j_parser_parse.  A walker without tokens has no last one to report      *)
(* errors at, which is asserted not to happen; and the generator cannot    *)
(* get past an operand that is not there, or a target that is not one.     *)
Parse(tokens) ==
  LET kept == SelectSeq(tokens, LAMBDA token : token # Comment)
      r == WalkScope(kept)
  IN  IF kept = << >> THEN Failed("assert")
      ELSE IF r.error = "none" /\ r.hole THEN Failed("broken")
      ELSE r

(* j_lexer_scan_from_channel: every line that is read ends in a separator, *)
(* and an empty text has no line.                                          *)
Scan(tokens) == IF tokens = << >> THEN << >> ELSE Append(tokens, Separator)
=============================================================================
