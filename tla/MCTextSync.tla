----------------------------- MODULE MCTextSync -----------------------------
(***************************************************************************)
(* TextSync for TLC: one letter, a line end, and a character outside of    *)
(* the basic plane, which is two units for the client and one character    *)
(* for the server.                                                         *)
(***************************************************************************)
EXTENDS TextSync, TLC

CONSTANTS p1, p2, u1

MCPathOf == u1 :> p1

MCHash == (p1 :> 0) @@ (p2 :> 1)

Wide == <<240, 159, 152, 128>>

MCTexts == {<<97, NewLine>>, Wide \o Wide}

MCChars == {<<CarriageReturn>>}
=============================================================================
