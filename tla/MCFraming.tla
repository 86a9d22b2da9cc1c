----------------------------- MODULE MCFraming ------------------------------
(***************************************************************************)
(* Framing for TLC: no body, one that looks like a frame, and one whose    *)
(* length has two digits.                                                  *)
(***************************************************************************)
EXTENDS Framing

X == 88

MCBodies == {<<>>, <<Field, 49, LF, LF, X>>, [i \in 1 .. 10 |-> X]}

MCExtra == {<<X, 49>>}
=============================================================================
