------------------------------ MODULE Cursors -------------------------------
(***************************************************************************)
(* A text with a cursor somewhere between two of its bytes: a record       *)
(* [left, right] of the bytes before and after the cursor.                 *)
(*                                                                         *)
(* A gap buffer stands for a cursor (GapBuffer), a text buffer is a list   *)
(* of gap buffers that again stands for one (TextBuffer).                  *)
(***************************************************************************)
EXTENDS Naturals, Sequences

Blank == [left |-> <<>>, right |-> <<>>]

Text(c) == c.left \o c.right

Size(c) == Len(c.left) + Len(c.right)

\* The operations on n bytes.  Advanced and Erased need n <= Len(c.right),
\* Retreated needs n <= Len(c.left).
Advanced(c, n) ==
    [left  |-> c.left \o SubSeq(c.right, 1, n),
     right |-> SubSeq(c.right, n + 1, Len(c.right))]

Retreated(c, n) ==
    [left  |-> SubSeq(c.left, 1, Len(c.left) - n),
     right |-> SubSeq(c.left, Len(c.left) - n + 1, Len(c.left)) \o c.right]

Typed(c, s) == [left |-> c.left \o s, right |-> c.right]

Erased(c, n) ==
    [left |-> c.left, right |-> SubSeq(c.right, n + 1, Len(c.right))]

\* The same cursor in a longer text.
Framed(pre, c, post) == [left |-> pre \o c.left, right |-> c.right \o post]
=============================================================================
