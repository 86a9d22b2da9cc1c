----------------------------- MODULE GapBuffer ------------------------------
(***************************************************************************)
(* The gap buffer of text_buffer.c, on its array of bytes: the text is     *)
(* what lies before gap_start and after gap_end, and every operation moves *)
(* or changes bytes at the gap.  The module also takes the part of         *)
(* split_point that works on the bytes of two buffers.                     *)
(*                                                                         *)
(* C type, field          here                                             *)
(* gapbuf_t               a record of GapBufs                              *)
(* gapbuf_t.buffer        a function from 0..limit-1 to the bytes          *)
(* next, prev             not here: TextBuffer models the list             *)
(*                                                                         *)
(* Sizes are natural numbers: they never pass the limit of a buffer, which *)
(* is far below the range of a size_t.                                     *)
(***************************************************************************)
EXTENDS Cursors

CONSTANTS
    Byte,      \* the bytes a text is made of
    NUL,       \* the byte malloc'ed memory is filled with
    Limit,     \* the size of a buffer, text_buffer_t.chunk_size
    Strings    \* the strings a caller inserts or compares with

\* text_buffer_init asks for a power of two; what is used is that it halves.
ASSUME LimitAssumption == Limit \in Nat \ {0} /\ Limit = 2 * (Limit \div 2)

ASSUME StringsAssumption == Strings \subseteq Seq(Byte)

Half == Limit \div 2

Contents == [0 .. Limit - 1 -> Byte \cup {NUL}]

GapBufs == [buffer    : Contents,
            gap_start : 0 .. Limit,
            gap_end   : 0 .. Limit]

\* A gapbuf_t; its limit is Limit for as long as it lives.
Buf(buffer, gap_start, gap_end) ==
    [buffer |-> buffer, gap_start |-> gap_start, gap_end |-> gap_end]

is_gapbuf(gb) == gb.gap_start <= gb.gap_end /\ gb.gap_end <= Limit

-----------------------------------------------------------------------------
(***************************************************************************)
(* Memory: the len bytes from index from of an array, and what memmove and *)
(* memcpy of the C library do.  memmove allows dst = src and overlapping   *)
(* ranges, so all of src is read before dst is written; the ranges of a    *)
(* memcpy never overlap here (in split_point they lie in different halves  *)
(* of the buffer).                                                         *)
(***************************************************************************)
Slice(bytes, from, len) == [i \in 1 .. len |-> bytes[from + i - 1]]

\* len bytes of src, from index sfrom, copied into dst at index dfrom.
Copied(dst, dfrom, src, sfrom, len) ==
    [i \in DOMAIN dst |->
        IF dfrom <= i /\ i < dfrom + len THEN src[sfrom + (i - dfrom)]
                                         ELSE dst[i]]

\* memcmp returns 0.
SameBytes(b, bfrom, s, sfrom, len) == Slice(b, bfrom, len) = Slice(s, sfrom, len)

-----------------------------------------------------------------------------
(***************************************************************************)
(* What a gap buffer stands for: a cursor.                                 *)
(***************************************************************************)
Left(gb) == Slice(gb.buffer, 0, gb.gap_start)

Right(gb) == Slice(gb.buffer, gb.gap_end, Limit - gb.gap_end)

View(gb) == [left |-> Left(gb), right |-> Right(gb)]

-----------------------------------------------------------------------------
(***************************************************************************)
(* The operations.  A failing one returns 0 and leaves the buffer as it    *)
(* is.                                                                     *)
(***************************************************************************)
gapbuf_empty(gb) == gb.gap_start = 0 /\ gb.gap_end = Limit
gapbuf_full(gb) == gb.gap_start = gb.gap_end
gapbuf_gap_size(gb) == gb.gap_end - gb.gap_start
gapbuf_length(gb) == Limit - gapbuf_gap_size(gb)
gapbuf_at_left(gb) == gb.gap_start = 0
gapbuf_at_right(gb) == gb.gap_end = Limit

gapbuf_init == Buf([i \in 0 .. Limit - 1 |-> NUL], 0, Limit)

gapbuf_clear(gb) == Buf(gb.buffer, 0, Limit)

gapbuf_forward(gb, num) ==
    IF gapbuf_at_right(gb) \/ gb.gap_end + num > Limit
    THEN gb
    ELSE Buf(Copied(gb.buffer, gb.gap_start, gb.buffer, gb.gap_end, num),
             gb.gap_start + num, gb.gap_end + num)

gapbuf_backward(gb, num) ==
    IF gapbuf_at_left(gb) \/ gb.gap_start < num
    THEN gb
    ELSE Buf(Copied(gb.buffer, gb.gap_end - num,
                    gb.buffer, gb.gap_start - num, num),
             gb.gap_start - num, gb.gap_end - num)

\* The string of the caller: length bytes of src from index sfrom.
InsertedFrom(gb, src, sfrom, length) ==
    IF gapbuf_gap_size(gb) < length
    THEN gb
    ELSE Buf(Copied(gb.buffer, gb.gap_start, src, sfrom, length),
             gb.gap_start + length, gb.gap_end)

gapbuf_insert(gb, str) == InsertedFrom(gb, str, 1, Len(str))

\* Mutant: deletes more bytes than there are.
gapbuf_delete_unchecked(gb, length) ==
    Buf(gb.buffer, gb.gap_start, gb.gap_end + length)

gapbuf_delete(gb, length) ==
    IF gb.gap_end + length > Limit
    THEN gb
    ELSE Buf(gb.buffer, gb.gap_start, gb.gap_end + length)

\* The byte after the gap, as a sequence of no or one byte.
gapbuf_getc(gb) ==
    IF gb.gap_end < Limit THEN <<gb.buffer[gb.gap_end]>> ELSE <<>>

\* Mutant: compares what is before the gap only.
gapbuf_equals_before_gap(gb, str) ==
    /\ gapbuf_length(gb) = Len(str)
    /\ SameBytes(gb.buffer, 0, str, 1,
                 IF Len(str) > gb.gap_start THEN gb.gap_start ELSE Len(str))

\* gapbuf_strncmp returns 0.
gapbuf_equals(gb, str) ==
    /\ gapbuf_length(gb) = Len(str)
    /\ IF Len(str) > gb.gap_start
       THEN /\ SameBytes(gb.buffer, 0, str, 1, gb.gap_start)
            /\ gb.gap_end < Limit
            /\ SameBytes(gb.buffer, gb.gap_end, str, 1 + gb.gap_start,
                         Len(str) - gb.gap_start)
       ELSE SameBytes(gb.buffer, 0, str, 1, Len(str))

-----------------------------------------------------------------------------
(***************************************************************************)
(* split_point on the bytes: half of a full buffer moves to a new one.     *)
(* The point in the lower half: the new buffer takes the upper half and    *)
(* comes after the point.  Otherwise it takes the lower half and comes     *)
(* before the point.                                                       *)
(***************************************************************************)
\* Mutant: leaves the gap of the new buffer on the side of its end.
UpperHalf_unaligned(gb) == InsertedFrom(gapbuf_init, gb.buffer, Half, Half)

UpperHalf(gb) ==
    gapbuf_backward(InsertedFrom(gapbuf_init, gb.buffer, Half, Half), Half)

LowerHalf(gb) == InsertedFrom(gapbuf_init, gb.buffer, 0, Half)

\* Mutant: does not move the bytes between the point and the middle.
KeepLower_without_memcpy(gb) ==
    Buf(gb.buffer, gb.gap_start, gb.gap_end + Half)

KeepLower(gb) ==
    Buf(Copied(gb.buffer, Half + gb.gap_start, gb.buffer, gb.gap_start,
               Half - gb.gap_start),
        gb.gap_start, gb.gap_end + Half)

\* Mutant: does not make room.
KeepUpper_same_gap(gb) ==
    Buf(Copied(gb.buffer, 0, gb.buffer, Half, gb.gap_start - Half),
        gb.gap_start, gb.gap_end)

KeepUpper(gb) ==
    Buf(Copied(gb.buffer, 0, gb.buffer, Half, gb.gap_start - Half),
        gb.gap_start - Half, gb.gap_end)

-----------------------------------------------------------------------------
(***************************************************************************)
(* One gap buffer under every operation in any order, and, once it has     *)
(* been split, the buffer the split made.                                  *)
(***************************************************************************)
VARIABLES
    point,     \* the buffer the operations work on
    peer,      \* the buffer the last split made
    side       \* where peer is: "none", "before" or "after" the point

vars == <<point, peer, side>>

Init == /\ point = gapbuf_init
        /\ peer = gapbuf_init
        /\ side = "none"

Forward == /\ \E num \in 0 .. Limit : point' = gapbuf_forward(point, num)
           /\ UNCHANGED <<peer, side>>

Backward == /\ \E num \in 0 .. Limit : point' = gapbuf_backward(point, num)
            /\ UNCHANGED <<peer, side>>

Insert == /\ \E str \in Strings : point' = gapbuf_insert(point, str)
          /\ UNCHANGED <<peer, side>>

Delete == /\ \E length \in 0 .. Limit : point' = gapbuf_delete(point, length)
          /\ UNCHANGED <<peer, side>>

\* text_buffer_clear clears the point and frees the other buffers.
Clear == /\ point' = gapbuf_clear(point)
         /\ peer' = gapbuf_init
         /\ side' = "none"

\* split_point asserts that the point is full.  One split is enough to see
\* the bytes of both buffers.
SplitLow == /\ side = "none"
            /\ gapbuf_full(point)
            /\ point.gap_start <= Half
            /\ peer' = UpperHalf(point)
            /\ point' = KeepLower(point)
            /\ side' = "after"

SplitHigh == /\ side = "none"
             /\ gapbuf_full(point)
             /\ point.gap_start > Half
             /\ peer' = LowerHalf(point)
             /\ point' = KeepUpper(point)
             /\ side' = "before"

Next == \/ Forward \/ Backward \/ Insert \/ Delete \/ Clear
        \/ SplitLow \/ SplitHigh

Spec == Init /\ [][Next]_vars

-----------------------------------------------------------------------------
(***************************************************************************)
(* Properties.                                                             *)
(***************************************************************************)

\* Type invariant: both buffers are well-formed, as the is_gapbuf assertion
\* at the start and the end of every operation demands.
TypeOK == /\ point \in GapBufs
          /\ peer \in GapBufs
          /\ side \in {"none", "before", "after"}
          /\ is_gapbuf(point)
          /\ is_gapbuf(peer)

\* gapbuf_strncmp returns 0 exactly for the text of the buffer, wherever the
\* gap is, with its assertion at the comparison of the second part, and
\* gapbuf_getc reads the byte after the cursor and fails exactly at the end.
ReadsText ==
    /\ \A str \in Strings :
          gapbuf_equals(point, str) <=> Left(point) \o Right(point) = str
    /\ IF Right(point) = <<>> THEN gapbuf_getc(point) = <<>>
       ELSE gapbuf_getc(point) = <<Head(Right(point))>>

\* The buffer a split made has its gap on the side away from the point, as
\* is_tbuf_aligned demands of it, and holds half of a full buffer.
PeerAligned ==
    /\ side = "after" => gapbuf_at_left(peer) /\ gapbuf_length(peer) = Half
    /\ side = "before" => gapbuf_at_right(peer) /\ gapbuf_length(peer) = Half

\* A split leaves room in the point and takes no more than half of it: the
\* assertion at the end of split_point, and is_tbuf_empty_or_nonempty.
SplitMakesRoom ==
    [][side = "none" /\ side' # "none" =>
         gapbuf_length(point') = Half /\ gapbuf_length(peer') = Half]_vars

\* The memory operations move the cursor over an unchanged text, or change
\* it at the cursor only, and a split changes nothing at all: the buffers
\* implement TextCursor.
PeerText == Left(peer) \o Right(peer)

Cursor == Framed(IF side = "before" THEN PeerText ELSE <<>>,
                 View(point),
                 IF side = "after" THEN PeerText ELSE <<>>)

TC == INSTANCE TextCursor WITH cursor <- Cursor

ImplementsCursor == TC!Spec
=============================================================================
