------------------------- MODULE DataChannelProofs --------------------------
(***************************************************************************)
(* The cursor of a data channel stays on its content, for contents of every*)
(* size gsize can hold and every offset gint64 can.                        *)
(***************************************************************************)
EXTENDS DataChannel, TLAPS

ChannelInv == bytes \in Texts /\ CursorInside

(* A text has a size, and gsize holds it. *)
LEMMA TextHasSize ==
  ASSUME NEW text \in Texts
  PROVE  Len(text) \in Nat /\ Len(text) < 2 * Half
BY TextsAssumption

(* Where a relative seek leads is on the content, or nowhere. *)
LEMMA SeekFromLeadsInside ==
  ASSUME Size \in Nat, Size < 2 * Half,
         NEW from \in 0 .. Size, NEW by \in gint64
  PROVE  SeekFrom(from, by) \in {-1} \cup (0 .. Size)
<1>1. CASE by < 0
  BY <1>1, WidthAssumption DEF SeekFrom, Backward, gint64
<1>2. CASE by >= 0
  <2>1. Wrapped(from + by) \in Int
    BY WidthAssumption DEF Wrapped, gint64
  <2>2. Forward(from, by) \in {-1} \cup (0 .. Size)
    BY <2>1 DEF Forward
  <2> QED
    BY <1>2, <2>2 DEF SeekFrom, gint64
<1> QED
  BY <1>1, <1>2, WidthAssumption DEF gint64

(* A move leads to where it says, or to where it otherwise stays. *)
LEMMA MovesInside ==
  ASSUME Size \in Nat, NEW to \in {-1} \cup (0 .. Size), NEW otherwise \in 0 .. Size,
         bytes \in Texts, Moves(to, otherwise)
  PROVE  ChannelInv'
BY DEF Moves, ChannelInv, CursorInside, Size

LEMMA ChannelInvStep ==
  ASSUME ChannelInv, [ChannelNext]_channel
  PROVE  ChannelInv'
<1> USE DEF ChannelInv
<1>0. Size \in Nat /\ Size < 2 * Half
  BY TextHasSize DEF Size
<1>1. CASE UNCHANGED channel
  BY <1>1 DEF channel, CursorInside, Size
<1>2. ASSUME Refused PROVE ChannelInv'
  BY <1>2 DEF Refused, CursorInside, Size
<1>3. ASSUME NEW bufsz \in Buffers, Read(bufsz) PROVE ChannelInv'
  <2>1. CASE closed
    BY <1>2, <1>3, <2>1 DEF Read
  <2>2. CASE ~closed
    <3>1. bufsz \in Nat
      BY BuffersAssumption, WidthAssumption
    <3>2. Chunk(bufsz) \in 0 .. Size - offset
      BY <1>0, <3>1 DEF Chunk, CursorInside
    <3> QED
      BY <1>0, <1>3, <2>2, <3>2 DEF Read, CursorInside, Size
  <2> QED
    BY <2>1, <2>2
<1>4. ASSUME NEW type \in {"current", "set", "end"}, NEW by \in gint64, Seek(type, by)
      PROVE  ChannelInv'
  <2>1. CASE closed /\ Refused
    BY <1>2, <2>1
  <2>2. CASE Moves(SeekFrom(offset, by), offset)
    <3>1. SeekFrom(offset, by) \in {-1} \cup (0 .. Size)
      BY <1>0, SeekFromLeadsInside DEF CursorInside
    <3> QED
      BY <1>0, <2>2, <3>1, MovesInside DEF CursorInside
  <2>3. CASE Moves(IF by \in 0 .. Size THEN by ELSE -1, offset)
    <3>1. (IF by \in 0 .. Size THEN by ELSE -1) \in {-1} \cup (0 .. Size)
      OBVIOUS
    <3> QED
      BY <1>0, <2>3, <3>1, MovesInside DEF CursorInside
  <2>4. CASE Moves(SeekFrom(Size, by), Size)
    <3>1. Size \in 0 .. Size
      BY <1>0
    <3>2. SeekFrom(Size, by) \in {-1} \cup (0 .. Size)
      BY <1>0, <3>1, SeekFromLeadsInside
    <3> QED
      BY <1>0, <2>4, <3>1, <3>2, MovesInside
  <2> QED
    BY <1>4, <2>1, <2>2, <2>3, <2>4 DEF Seek
<1>5. ASSUME Close PROVE ChannelInv'
  BY <1>5 DEF Close, CursorInside, Size
<1> QED
  BY <1>1, <1>3, <1>4, <1>5 DEF ChannelNext

(* Whatever is asked of a channel, its cursor stays on the content         *)
(* (channel_read and channel_seek of datachannel.c).                       *)
THEOREM CursorStaysInside == ChannelSpec => []CursorInside
<1>1. Opened => ChannelInv
  BY TextHasSize DEF Opened, ChannelInv, CursorInside, Size
<1>2. ChannelInv /\ [ChannelNext]_channel => ChannelInv'
  BY ChannelInvStep
<1>3. ChannelInv => CursorInside
  BY DEF ChannelInv
<1> QED
  BY <1>1, <1>2, <1>3, PTL DEF ChannelSpec
=============================================================================
