------------------------------- MODULE MCText -------------------------------
(***************************************************************************)
(* The lexer over every short text, read in pieces of several sizes, over  *)
(* words with characters of two bytes; and the channel in the hands of any *)
(* caller.                                                                 *)
(***************************************************************************)
EXTENDS Lexer

CONSTANTS
  Letters,   \* what a text is made of
  Longest,   \* bound: the length of a text
  Held       \* the texts any caller is given, in turn

MCInit == Init /\ (user = "any" => bytes \in Held)
MCSpec == MCInit /\ [][Next]_vars

MCHeld == {<< >>, << "w" >>, << "w", "w", ";", "w" >>}
MCLetters == {" ", "\t", Newline, "#", "\"", "'", ">", ";", "w", "if"}

(* A text of letters and characters of two bytes.                          *)
Encoded(characters) ==
  FlattenSeq([i \in DOMAIN characters |->
                IF characters[i] = Wide THEN << Wide, "a9" >> ELSE << characters[i] >>])
WideTexts(letters) == {Encoded(characters) : characters \in [1 .. Longest -> letters \cup {Wide}]}
MCTexts ==
  UNION {[1 .. n -> Letters] : n \in 0 .. Longest} \cup WideTexts({"w", " ", "\"", ";"})
MCWideTexts == WideTexts({"w", " ", Newline})

-----------------------------------------------------------------------------
(* A reader of a text from left to right, that takes whatever begins where *)
(* it stands.                                                              *)
Ended == IF bytes = << >> \/ Last(bytes) = Newline THEN bytes ELSE Append(bytes, Newline)
Ahead(i, stops) == Min({j \in i + 1 .. Len(Ended) : Ended[j] \in stops})

IsQuote(i) ==
  /\ Ended[i] \in {"\"", "'"}
  /\ Ended[Ahead(i, {Ended[i], Newline})] = Ended[i]
IsKeyword(i) ==
  Ended[i] = "if" /\ \A j \in {i - 1, i + 1} \cap DOMAIN Ended : Ended[j] \notin {"w", "if"}
Begins(i) == Ended[i] \in {"#", ">", "<", ";"} \cup Blanks \/ IsQuote(i) \/ IsKeyword(i)

(* What begins at a place, and where it ends.                              *)
Kind(i) ==
  CASE Ended[i] = "#"              -> "comment"
    [] IsQuote(i)                  -> "quoted"
    [] Ended[i] \in {">", "<"}     -> "operator"
    [] Ended[i] \in {";", Newline} -> "separator"
    [] IsKeyword(i)                -> "keyword"
    [] Ended[i] = "\t"             -> "unknown"
    [] OTHER                       -> "literal"
End(i) ==
  CASE Kind(i) = "comment"  -> Ahead(i, {Newline}) - 1
    [] Kind(i) = "quoted"   -> Ahead(i, {Ended[i]})
    [] Kind(i) = "operator" -> IF Ended[i] = ">" /\ Ended[i + 1] = ">" THEN i + 1 ELSE i
    [] Kind(i) = "literal"  -> Min({j \in i .. Len(Ended) - 1 : Begins(j + 1)})
    [] OTHER -> i

Trimmed(value) ==
  LET kept == {i \in DOMAIN value : value[i] # " "}
  IN  IF kept = {} THEN << >> ELSE SubSeq(value, Min(kept), Max(kept))
Value(i) == Trimmed(IF Kind(i) = "quoted" THEN SubSeq(Ended, i + 1, End(i) - 1) ELSE SubSeq(Ended, i, End(i)))

LineOf(i) == 1 + Cardinality({j \in 1 .. i - 1 : Ended[j] = Newline})
ColumnOf(i) == i - Max({0} \cup {j \in 1 .. i - 1 : Ended[j] = Newline})

RECURSIVE StartsFrom(_)
StartsFrom(i) ==
  CASE i > Len(Ended)                    -> << >>
    [] i <= Len(Ended) /\ Ended[i] = " " -> StartsFrom(i + 1)
    [] OTHER                             -> << i >> \o StartsFrom(End(i) + 1)

Expected ==
  LET starts == StartsFrom(1)
      wrong == \E k \in DOMAIN starts : Kind(starts[k]) = "unknown"
  IN  [scan |-> IF wrong THEN "error" ELSE "done",
       tokens |-> IF wrong THEN << >>
                  ELSE [k \in DOMAIN starts |->
                          [type |-> Kind(starts[k]), line |-> LineOf(starts[k]),
                           column |-> ColumnOf(starts[k]), value |-> Value(starts[k])]]]

(* Where a text comes out otherwise: a # or a double quote inside of a     *)
(* string, whose class is tried before that of the string; and two-byte    *)
(* characters with a space or the end of the line close behind them, where *)
(* prepare reads on.                                                       *)
Within(i) == IF Kind(i) = "quoted" THEN i + 1 .. End(i) - 1 ELSE i .. End(i)
StringBroken(i) == Kind(i) = "quoted" /\ \E j \in Within(i) : Ended[j] \in {"#", "\""}
ValueBroken(i) ==
  LET last == Max({0} \cup Within(i))
      wide == Cardinality({j \in Within(i) : Ended[j] = Wide})
      read == last .. last + 2 * wide
  IN  wide > 0 /\ \E j \in read : j >= Len(Ended) \/ Ended[j] \in {" ", Newline}
ReadOtherwise == \E i \in Range(StartsFrom(1)) : StringBroken(i) \/ ValueBroken(i)

(* The classes of j_lexer_init are tried one after the other over the      *)
(* pieces earlier ones leave, and the channel is read in pieces of its own:*)
(* still a text comes out as its tokens from left to right, each with its  *)
(* place and its value, or as the error of a tab between words.            *)
LexedAsRead ==
  user = "lexer" /\ scan # "reading" =>
    \/ \E expected \in {Expected} : scan = expected.scan /\ tokens = expected.tokens
    \/ ReadOtherwise

-----------------------------------------------------------------------------
(* What the repository says of the program and the code does not do.       *)

(* prepare says of the end of the string that it is not reached            *)
(* (lexer.c:240).                                                          *)
NulNotReached == scan # "aborted"
=============================================================================
