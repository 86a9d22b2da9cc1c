------------------------------ MODULE Utf8Text ------------------------------
(***************************************************************************)
(* Texts as sequences of bytes, codepoints in them, and line/character     *)
(* positions.  Here is what the words of text_buffer.h mean on a flat      *)
(* text; TextBuffer compares the walk of text_buffer.c over its list of    *)
(* chunks with these definitions, and FileSystem edits with them.          *)
(***************************************************************************)
EXTENDS Naturals, FiniteSets, Cursors

NewLine == 10

\* (ch & 0xC0) == 0x80
IsContinuation(ch) == ch \div 64 = 2

\* The bytes of the codepoint that starts with this byte; 0 where the code
\* asserts that no codepoint starts so.
codepoint_size(byte) ==
    CASE byte = 0      -> 0
      [] byte \in 1 .. 127   -> 1
      [] byte \in 192 .. 223 -> 2
      [] byte \in 224 .. 239 -> 3
      [] byte \in 240 .. 247 -> 4
      [] byte \in 248 .. 251 -> 5
      [] byte \in 252 .. 253 -> 6
      [] OTHER -> 0

\* What the walks over a text take it for: a byte below 128 stands alone.
CharSize(ch) == IF ch < 128 THEN 1 ELSE codepoint_size(ch)

\* text_position_cmp(a, b) < 0
Before(a, b) == \/ a.line_num < b.line_num
                \/ a.line_num = b.line_num /\ a.char_num < b.char_num

Origin == [line_num |-> 0, char_num |-> 0]

\* The position after the codepoint that starts with ch.
Stepped(pos, ch) ==
    IF ch = NewLine
    THEN [line_num |-> pos.line_num + 1, char_num |-> 0]
    ELSE [line_num |-> pos.line_num, char_num |-> pos.char_num + 1]

-----------------------------------------------------------------------------
(***************************************************************************)
(* Codepoints and positions of a text, without a walk over it.             *)
(***************************************************************************)
Starts(t) == {i \in 1 .. Len(t) : ~IsContinuation(t[i])}

\* How many bytes may come before a cursor that stands between codepoints.
Boundaries(t) == {i \in 0 .. Len(t) : i = Len(t) \/ ~IsContinuation(t[i + 1])}

\* A sequence of whole codepoints.
IsUtf8(t) ==
    /\ t # <<>> => 1 \in Starts(t)
    /\ \A i \in Starts(t) :
          LET end == i + CharSize(t[i]) - 1
          IN  /\ CharSize(t[i]) > 0
              /\ end <= Len(t)
              /\ (i .. end) \cap Starts(t) = {i}
              /\ end < Len(t) => end + 1 \in Starts(t)

\* The position of a cursor with the text t before it: the newlines in t,
\* and the codepoints after the last of them.
PositionAfter(t) ==
    [line_num |-> Cardinality({i \in 1 .. Len(t) : t[i] = NewLine}),
     char_num |-> Cardinality({i \in Starts(t) :
                                 \A j \in i .. Len(t) : t[j] # NewLine})]

\* The cursor after the first n bytes of a text.
CursorAt(t, n) == [left  |-> SubSeq(t, 1, n),
                   right |-> SubSeq(t, n + 1, Len(t))]

-----------------------------------------------------------------------------
(***************************************************************************)
(* What the calls of text_buffer.h do to a text with a cursor.             *)
(***************************************************************************)

\* The first place of a text at the given position or beyond it, if any.
PlacesFrom(t, pos) ==
    {n \in Boundaries(t) : ~Before(PositionAfter(SubSeq(t, 1, n)), pos)}

FirstPlace(t, pos) ==
    IF PlacesFrom(t, pos) = {} THEN Len(t)
    ELSE CHOOSE n \in PlacesFrom(t, pos) :
            \A m \in PlacesFrom(t, pos) : n <= m

\* The text has this very position.
HasPosition(t, pos) ==
    \E n \in Boundaries(t) : PositionAfter(SubSeq(t, 1, n)) = pos

\* The line is there and is not the last one, but has no such character.
PastEndOfLine(t, pos) == PlacesFrom(t, pos) # {} /\ ~HasPosition(t, pos)

\* Mutant: takes the character for a byte.
SetTo_byte(c, pos) ==
    CursorAt(Text(c), IF pos.char_num <= Len(Text(c)) THEN pos.char_num
                                                      ELSE Len(Text(c)))

\* text_buffer_set_point: at the position, or at the end of the text.
SetTo(c, pos) == CursorAt(Text(c), FirstPlace(Text(c), pos))

\* text_buffer_delete: the codepoints from the cursor up to the position; a
\* position past the end of a line takes the newline with it.
ErasedTo(c, pos) == Erased(c, FirstPlace(Text(c), pos) - Len(c.left))

\* How many of n codepoints there are in t.
Available(t, n) == IF n < Cardinality(Starts(t)) THEN n
                                                 ELSE Cardinality(Starts(t))

\* forward_chars and backward_chars over n codepoints, or as many as there
\* are.
SkippedForward(c, n) ==
    Advanced(c, CHOOSE k \in Boundaries(c.right) :
                    Cardinality({i \in Starts(c.right) : i <= k})
                      = Available(c.right, n))

SkippedBackward(c, n) ==
    LET skipped(k) == {i \in Starts(c.left) : i > k}
    IN  Retreated(c, Len(c.left) -
                       CHOOSE k \in Boundaries(c.left) :
                           Cardinality(skipped(k)) = Available(c.left, n))
=============================================================================
