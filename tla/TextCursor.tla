----------------------------- MODULE TextCursor -----------------------------
(***************************************************************************)
(* What a buffer of editable text promises to its user, whatever its       *)
(* representation: the cursor moves over an unchanged text, text is typed  *)
(* before the cursor and erased after it, and all of it can be wiped.      *)
(***************************************************************************)
EXTENDS Cursors

VARIABLE cursor

Init == cursor = Blank

\* The cursor moves; the text stays.
Move == \/ \E n \in 0 .. Len(cursor.right) : cursor' = Advanced(cursor, n)
        \/ \E n \in 0 .. Len(cursor.left) : cursor' = Retreated(cursor, n)

\* Text is typed before the cursor.
Type == LET typed == SubSeq(cursor'.left, Len(cursor.left) + 1,
                            Len(cursor'.left))
        IN  cursor' = Typed(cursor, typed)

\* Text after the cursor is erased.
Erase == \E n \in 0 .. Len(cursor.right) : cursor' = Erased(cursor, n)

\* Everything is erased.
Wipe == cursor' = Blank

Next == Move \/ Type \/ Erase \/ Wipe

Spec == Init /\ [][Next]_cursor
=============================================================================
