---------------------------- MODULE DataChannel -----------------------------
(***************************************************************************)
(* lexer/datachannel.c: a GIOChannel over bytes in memory, which the lexer *)
(* reads lines from.  A cursor moves over the bytes; its arithmetic is that*)
(* of gsize and gint64.                                                    *)
(***************************************************************************)
EXTENDS Integers, Sequences, SequencesExt

CONSTANTS
  Half,     \* gint64 goes from -Half to Half - 1, gsize to 2 * Half - 1
  Texts,    \* the contents a channel is opened on
  Buffers   \* the sizes a caller's buffer may have

ASSUME WidthAssumption == Half \in Nat \ {0}
ASSUME BuffersAssumption == Buffers \subseteq 0 .. 2 * Half - 1
ASSUME TextsAssumption == \A text \in Texts : text \in Seq(STRING) /\ Len(text) < 2 * Half

VARIABLES
  bytes,    \* the content
  offset,   \* the cursor
  closed,
  status,   \* what the last call returned: "normal", "eof" or "error"
  chunk     \* what it read

channel == <<bytes, offset, closed, status, chunk>>

Size == Len(bytes)
gint64 == -Half .. Half - 1

(* What is left of a sum of two gsize. *)
Wrapped(n) == IF n < 2 * Half THEN n ELSE n - 2 * Half

(* j_data_channel_new_bytes *)
Opened ==
  /\ bytes \in Texts
  /\ offset = 0
  /\ closed = FALSE
  /\ status = "normal"
  /\ chunk = << >>

Refused == status' = "error" /\ chunk' = << >> /\ UNCHANGED <<bytes, offset, closed>>

(* channel_read *)
Chunk(bufsz) == IF bufsz > Size - offset THEN Size - offset ELSE bufsz
Read(bufsz) ==
  \/ closed /\ Refused
  \/ /\ ~closed
     /\ status' = IF Chunk(bufsz) = 0 THEN "eof" ELSE "normal"
     /\ chunk' = SubSeq(bytes, offset + 1, offset + Chunk(bufsz))
     /\ offset' = offset + Chunk(bufsz)
     /\ UNCHANGED <<bytes, closed>>

(* Mistaken: the sum is only asked whether it has wrapped.                 *)
ForwardAnywhere(from, by) == IF Wrapped(from + by) > from THEN Wrapped(from + by) ELSE -1

(* channel_seek with G_SEEK_CUR from a place: where it leads, -1 when it is*)
(* an error.  Not to move at all counts as an overflow.                    *)
Forward(from, by) ==
  IF Wrapped(from + by) > from /\ Size >= Wrapped(from + by) THEN Wrapped(from + by) ELSE -1
(* The step is negated.  Of the smallest gint64 C does not say what that   *)
(* is; the builds wrap, and compare the gsize 2^63, an error like here.    *)
Backward(from, by) == IF from >= by THEN from - by ELSE -1
SeekFrom(from, by) == IF by < 0 THEN Backward(from, -by) ELSE Forward(from, by)

(* A seek from the end goes there first, and stays there when the rest     *)
(* fails.                                                                  *)
Moves(to, otherwise) ==
  /\ offset' = IF to = -1 THEN otherwise ELSE to
  /\ status' = IF to = -1 THEN "error" ELSE "normal"
  /\ chunk' = << >>
  /\ UNCHANGED <<bytes, closed>>

Seek(type, by) ==
  \/ closed /\ Refused
  \/ ~closed /\ type = "current" /\ Moves(SeekFrom(offset, by), offset)
  \/ ~closed /\ type = "set" /\ Moves(IF by \in 0 .. Size THEN by ELSE -1, offset)
  \/ ~closed /\ type = "end" /\ Moves(SeekFrom(Size, by), Size)

(* channel_close *)
Close == closed' = TRUE /\ status' = "normal" /\ chunk' = << >> /\ UNCHANGED <<bytes, offset>>

ChannelNext ==
  \/ \E bufsz \in Buffers : Read(bufsz)
  \/ \E type \in {"current", "set", "end"}, by \in gint64 : Seek(type, by)
  \/ Close

ChannelSpec == Opened /\ [][ChannelNext]_channel

-----------------------------------------------------------------------------
(* The cursor stays on the content whatever a caller asks for, so that a   *)
(* read never takes what does not belong to the channel: no sum or         *)
(* difference of offsets wraps past the check it is put to.                *)
CursorInside == offset \in 0 .. Size
=============================================================================
