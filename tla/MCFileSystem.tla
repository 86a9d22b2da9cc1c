---------------------------- MODULE MCFileSystem ----------------------------
(***************************************************************************)
(* FileSystem for TLC: a table of few buckets, two paths of which share    *)
(* one, and two URIs of which name the same path.                          *)
(***************************************************************************)
EXTENDS FileSystem, TLC

CONSTANTS p1, p2, p3, p4, u1, u1b, u2, u3, u4, ubad

MCPath == {p1, p2, p3, p4}

MCUri == {u1, u1b, u2, u3, u4, ubad}

MCPathOf == (u1 :> p1) @@ (u1b :> p1) @@ (u2 :> p2) @@ (u3 :> p3)
              @@ (u4 :> p4) @@ (ubad :> NoPath)

MCHash == (p1 :> 0) @@ (p2 :> 1) @@ (p3 :> 2) @@ (p4 :> 0)

\* The same with two buckets.
MCSmallPath == {p1, p2, p4}

MCSmallUri == {u1, u2, u4, ubad}

MCSmallPathOf == (u1 :> p1) @@ (u2 :> p2) @@ (u4 :> p4) @@ (ubad :> NoPath)

MCSmallHash == (p1 :> 0) @@ (p2 :> 1) @@ (p4 :> 0)

At(line, char) == [line_num |-> line, char_num |-> char]

Edit(start, end, text) == [start |-> start, end |-> end, text |-> text]

Whole == Edit(NoPosition, NoPosition, <<97>>)             \* the whole text
Typing == Edit(At(0, 0), At(0, 0), <<97>>)                \* an insertion
Cut == Edit(At(0, 0), At(0, 1), <<>>)                     \* a deletion
Retype == Edit(At(0, 0), At(0, 1), <<97>>)              \* a replacement
Break == Edit(At(0, 1), At(0, 1), <<NewLine>>)            \* a line break
Join == Edit(At(0, 1), At(1, 0), <<>>)                    \* of two lines
Beyond == Edit(At(0, 2), At(0, 2), <<97>>)                \* past the end
Below == Edit(At(-2, -3), At(-2, -2), <<97, 195, 169>>)   \* below zero
Half == Edit(At(-1, 0), At(0, 1), <<>>)                   \* the line below
Crossing == Edit(At(0, -1), At(0, 1), <<>>)               \* the character below
Joins == Edit(At(0, 1), At(1, -1), <<>>)                  \* of three lines
Accent == Edit(At(0, 1), At(0, 2), <<>>)                  \* the last of Below

\* malloc may return any free address; addresses are only compared.
Symmetry == Permutations(Node)

MCContents == {<<97>>}

MCBatches == {<<Below>>, <<Accent>>, <<Cut, Typing>>}

MCCallsBatches == {<<Whole>>, <<Break>>, <<Beyond, Cut>>, <<Below, Half>>,
                   <<Accent, Retype>>, <<Crossing>>, <<Join>>, <<Joins>>}

MCSmallBatches == {<<Break>>, <<Beyond, Cut>>, <<Below>>, <<Accent>>}
=============================================================================
