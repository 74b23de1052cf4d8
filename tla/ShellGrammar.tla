---------------------------- MODULE ShellGrammar ----------------------------
(***************************************************************************)
(* What a line is made of: the tokens of lexer/token.h, the AST of         *)
(* parser/ast.h, and how an AST is written.  A token's value is its text   *)
(* ("fi" closes an `if'); cmd names the occurrence of a command word and   *)
(* num is the number a word spells, NoNumber when it spells none.          *)
(*                                                                         *)
(* A scope is a sequence of statements:                                    *)
(*   [t |-> "invoke", target |-> item, args |-> << item, ... >>,           *)
(*    redirects |-> << [op |-> "<" | ">" | ">>", file |-> token], ... >>]  *)
(*   [t |-> "pipe" | "and" | "or", l |-> statement, r |-> statement]       *)
(*   [t |-> "if", cond |-> scope, direct |-> scope, reverse |-> option]    *)
(*   [t |-> "detach", of |-> statement]                                    *)
(* where an item is [t |-> "word", token |-> token] or                     *)
(* [t |-> "expansion", scope |-> scope], and an option is << >> or         *)
(* << scope >>.                                                            *)
(***************************************************************************)
EXTENDS Integers, Sequences, SequencesExt

NoNumber             == -1
Token(type, value)   == [type |-> type, value |-> value, cmd |-> value, num |-> NoNumber]
Literal(value)       == Token("literal", value)
Builtin(value, cmd)  == [Token("builtin", value) EXCEPT !.cmd = cmd]
Number(n)            == [Token("literal", "number") EXCEPT !.num = n]
Quoted               == Token("quoted", "words")
Comment              == Token("comment", "remark")
Separator            == Token("separator", ";")
If                   == Token("keyword", "if")
Then                 == Token("keyword", "then")
Else                 == Token("keyword", "else")
Fi                   == Token("keyword", "fi")
Operator(value)      == Token("operator", value)
Backquote            == Operator("expansion")
Ampersand            == Operator("&")
Redirections         == {Operator("<"), Operator(">"), Operator(">>")}
Symbol               == [pipe |-> Operator("|"), and |-> Operator("&&"), or |-> Operator("||")]

Word(token)          == [t |-> "word", token |-> token]
Expansion(scope)     == [t |-> "expansion", scope |-> scope]
Invoke(target, args) ==
  [t |-> "invoke", target |-> target, args |-> args, redirects |-> << >>]
Redirect(op, file)   == [op |-> op, file |-> file]
Redirected(ast, redirects) == [ast EXCEPT !.redirects = redirects]

(* Stands for an operand that is not there. *)
Missing              == [t |-> "missing"]

(* A command as the generator reads it: its occurrence, "regular" or the   *)
(* built-in, and the number its first argument spells: 0 when there is no  *)
(* argument, none when it is an expansion.                                 *)
Expanded == Literal("expanded")
Call(ast) ==
  LET token == IF ast.target.t = "word" THEN ast.target.token ELSE Expanded
  IN  [cmd |-> token.cmd,
       kind |-> IF token.type = "builtin" THEN token.value ELSE "regular",
       arg |-> IF ast.args = << >> THEN 0
               ELSE IF ast.args[1].t = "word" THEN ast.args[1].token.num ELSE NoNumber]

(* The expansions of an invocation in the order walk_invoke meets them. *)
Expansions(ast) ==
  LET items == SelectSeq(Append(ast.args, ast.target), LAMBDA item : item.t = "expansion")
  IN  [i \in DOMAIN items |-> items[i].scope]

-----------------------------------------------------------------------------
(* How an AST is written. *)
RECURSIVE Text(_), Written(_), WrittenItems(_)

WrittenItems(items) ==
  IF items = << >> THEN << >>
  ELSE (IF Head(items).t = "word" THEN << Head(items).token >>
        ELSE << Backquote >> \o Text(Head(items).scope) \o << Backquote >>)
       \o WrittenItems(Tail(items))

Written(ast) ==
  CASE ast.t = "invoke" ->
         FoldLeft(LAMBDA toks, r : toks \o << Operator(r.op), r.file >>,
                  WrittenItems(<< ast.target >> \o ast.args), ast.redirects)
    [] ast.t = "if" ->
         << If >> \o Text(ast.cond) \o << Then >> \o Text(ast.direct)
           \o (IF ast.reverse = << >> THEN << >> ELSE << Else >> \o Text(ast.reverse[1]))
           \o << Fi >>
    [] ast.t = "detach" -> Append(Written(ast.of), Ampersand)
    [] ast.t = "missing" -> << >>
    [] OTHER -> Written(ast.l) \o << Symbol[ast.t] >> \o Written(ast.r)

(* Statements are separated. *)
Text(scope) ==
  IF scope = << >> THEN << >>
  ELSE Written(Head(scope)) \o
       (IF Len(scope) = 1 THEN << >> ELSE << Separator >> \o Text(Tail(scope)))
=============================================================================
