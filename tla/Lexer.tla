------------------------------- MODULE Lexer --------------------------------
(***************************************************************************)
(* lexer/lexer.c: from the bytes of a channel to tokens, a line at a time. *)
(* A text is a sequence of bytes; one stands for every letter ("w"), one   *)
(* for a keyword or the name of a built-in ("if"), and a character of two  *)
(* bytes is << Wide, "a9" >>.                                              *)
(***************************************************************************)
EXTENDS DataChannel, FiniteSetsExt

VARIABLES
  user,     \* who holds the channel: "lexer", or "any" caller of its functions
  buffer,   \* what the GIOChannel has read and not given out
  n_line,
  tokens,
  scan      \* "reading", or how it ended: "done", "error" or "aborted"

vars == <<bytes, offset, closed, status, chunk, user, buffer, n_line, tokens, scan>>

Wide == "c3"
Newline == "\n"
Blanks == {" ", "\t", Newline}
IsWord(byte) == byte \in {"w", "if", Wide, "a9"}

-----------------------------------------------------------------------------
(* j_lexer_init: the classes in the order they are tried in, with the      *)
(* length of a class's token at a place of a fragment, 0 where it has none.*)
ClassesNamesFirst ==
  <<"comment", "keyword", "double", "single", "twice", "operator", "separator", "literal">>
Classes == <<"comment", "double", "single", "keyword", "twice", "operator", "separator", "literal">>

FirstOf(places, otherwise) == IF places = {} THEN otherwise ELSE Min(places)
After(s, i, stops) == {j \in i + 1 .. Len(s) : s[j] \in stops}
QuotedAt(s, i, quote) ==
  LET closing == FirstOf(After(s, i, {quote, Newline}), 0)
  IN  IF closing # 0 /\ s[closing] = quote THEN closing - i + 1 ELSE 0
KeywordAt(s, i) ==
  IF \E j \in {i - 1, i + 1} \cap DOMAIN s : IsWord(s[j]) THEN 0 ELSE 1

MatchAt(class, s, i) ==
  CASE class = "comment" /\ s[i] = "#"     -> FirstOf(After(s, i, {Newline}), Len(s) + 1) - i
    [] class = "double" /\ s[i] = "\""     -> QuotedAt(s, i, "\"")
    [] class = "single" /\ s[i] = "'"      -> QuotedAt(s, i, "'")
    [] class = "keyword" /\ s[i] = "if"    -> KeywordAt(s, i)
    [] class = "twice" /\ s[i] = ">"       -> IF i < Len(s) /\ s[i + 1] = ">" THEN 2 ELSE 0
    [] class = "operator" /\ s[i] \in {">", "<"}      -> 1
    [] class = "separator" /\ s[i] \in {Newline, ";"} -> 1
    [] class = "literal" /\ s[i] \notin Blanks -> FirstOf(After(s, i, Blanks), Len(s) + 1) - i
    [] OTHER -> 0

(* The places of a class's tokens in a fragment, from a place on, as       *)
(* g_match_info_next finds them: the leftmost, and on from its end.        *)
RECURSIVE Matches(_, _, _)
Matches(class, s, i) ==
  IF i > Len(s) THEN << >>
  ELSE LET n == MatchAt(class, s, i)
       IN  IF n = 0 THEN Matches(class, s, i + 1)
           ELSE << [start |-> i, stop |-> i + n - 1] >> \o Matches(class, s, i + n)

Type(class) ==
  CASE class \in {"double", "single"}  -> "quoted"
    [] class \in {"twice", "operator"} -> "operator"
    [] OTHER -> class

(* prepare: the spaces around a value do not belong to it.  It counts bytes*)
(* and moves on by characters, so that it reads past a value with a wide   *)
(* one, and past the end of the line too.                                  *)
CharacterAt(line, i) == IF i > Len(line) THEN "NUL" ELSE line[i]
Prepared(line, begin, length) ==
  LET Look(at, left) ==
        LET char == CharacterAt(line, at.ptr)
            next == [at EXCEPT !.ptr = at.ptr + (IF char = Wide THEN 2 ELSE 1)]
        IN  CASE at.aborted \/ char = "NUL" -> [at EXCEPT !.aborted = TRUE]
              [] char = " " /\ at.tail      -> [next EXCEPT !.tailing = @ + 1]
              [] char = " " /\ ~at.tail     -> [next EXCEPT !.input = @ + 1, !.length = @ - 1]
              [] OTHER -> [next EXCEPT !.tailing = 0, !.tail = TRUE]
      end == FoldLeft(Look, [ptr |-> begin, input |-> begin, length |-> length,
                             tailing |-> 0, tail |-> FALSE, aborted |-> FALSE],
                      [left \in 1 .. length |-> left])
  IN  [aborted |-> end.aborted,
       value |-> SubSeq(line, end.input, end.input + end.length - end.tailing - 1)]

(* breakdown: the token of a match.                                        *)
TokenOf(line, class, start, stop, n) ==
  LET inside == IF Type(class) = "quoted" THEN 1 ELSE 0
      prepared == Prepared(line, start + inside, stop - start + 1 - 2 * inside)
  IN  [aborted |-> prepared.aborted,
       token |-> [type |-> Type(class), line |-> n, column |-> start, value |-> prepared.value]]

(* search and breakdown over the bytes first .. last of a line: the first  *)
(* class with a match takes all of its matches, and what lies between them *)
(* is searched in its turn.                                                *)
Found(sequence) == [found |-> sequence, outcome |-> "ok"]
Stopped(outcome) == [found |-> << >>, outcome |-> outcome]

RECURSIVE Search(_, _, _, _), Breakdown(_, _, _, _, _, _)
Breakdown(line, first, last, class, matches, n) ==
  IF matches = << >> THEN Search(line, first, last, n)
  ELSE LET start == Head(matches).start
           stop == Head(matches).stop
           gap == Search(line, first, start - 1, n)
           made == TokenOf(line, class, start, stop, n)
           rest == Breakdown(line, stop + 1, last, class, Tail(matches), n)
       IN  CASE gap.outcome # "ok"  -> gap
             [] made.aborted        -> Stopped("aborted")
             [] rest.outcome # "ok" -> rest
             [] OTHER -> Found(gap.found \o << made.token >> \o rest.found)

Search(line, first, last, n) ==
  LET fragment == SubSeq(line, first, last)
      places == [c \in DOMAIN Classes |-> Matches(Classes[c], fragment, 1)]
      class == FirstOf({c \in DOMAIN Classes : places[c] # << >>}, 0)
  IN  CASE class # 0 ->
             Breakdown(line, first, last, Classes[class],
                       [i \in DOMAIN places[class] |->
                          [start |-> first + places[class][i].start - 1,
                           stop |-> first + places[class][i].stop - 1]], n)
        [] class = 0 /\ Range(fragment) \subseteq {" "} -> Found(<< >>)
        [] OTHER -> Stopped(IF Prepared(line, first, Len(fragment)).aborted THEN "aborted" ELSE "error")

-----------------------------------------------------------------------------
(* j_lexer_scan_from_channel                                               *)
Init ==
  /\ Opened
  /\ user \in {"lexer", "any"}
  /\ buffer = << >>
  /\ n_line = 1
  /\ tokens = << >>
  /\ scan = "reading"

Reading == user = "lexer" /\ scan = "reading"
LineEnd == FirstOf(After(buffer, 0, {Newline}), IF status = "eof" THEN Len(buffer) ELSE 0)

(* g_io_channel_read_line_string: it reads on until it has a line, and what*)
(* the text ends in is one as well.                                        *)
FillBuffer ==
  /\ Reading /\ LineEnd = 0 /\ status = "normal"
  /\ \E bufsz \in Buffers \ {0} : Read(bufsz)
  /\ buffer' = buffer \o chunk'
  /\ UNCHANGED <<user, n_line, tokens, scan>>

(* The terminator goes and a newline comes in its place.                   *)
LineRead ==
  LET line == SubSeq(buffer, 1, LineEnd)
  IN  IF Last(line) = Newline THEN line ELSE Append(line, Newline)

LexLine ==
  /\ Reading /\ LineEnd > 0
  /\ \E searched \in {Search(LineRead, 1, Len(LineRead), n_line)} :
       \/ /\ searched.outcome = "ok"
          /\ tokens' = tokens \o searched.found
          /\ n_line' = n_line + 1
          /\ UNCHANGED <<bytes, offset, closed, status, chunk, scan>>
       \/ /\ searched.outcome # "ok"
          /\ tokens' = << >>
          /\ scan' = searched.outcome
          /\ IF searched.outcome = "error" THEN Close ELSE UNCHANGED channel
          /\ UNCHANGED n_line
  /\ buffer' = SubSeq(buffer, LineEnd + 1, Len(buffer))
  /\ UNCHANGED user

(* j_lexer_scan_from_data: the channel is closed behind the lexer.         *)
EndOfText ==
  /\ Reading /\ buffer = << >> /\ status = "eof"
  /\ Close
  /\ scan' = "done"
  /\ UNCHANGED <<user, buffer, n_line, tokens>>

Anyone == user = "any" /\ ChannelNext /\ UNCHANGED <<user, buffer, n_line, tokens, scan>>

Next == FillBuffer \/ LexLine \/ EndOfText \/ Anyone
Spec == Init /\ [][Next]_vars
=============================================================================
