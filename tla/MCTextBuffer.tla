---------------------------- MODULE MCTextBuffer ----------------------------
(***************************************************************************)
(* TextBuffer for TLC: chunks of a few bytes, and a handful of texts of    *)
(* plain letters, newlines and codepoints of two bytes.                    *)
(***************************************************************************)
EXTENDS TextBuffer

Letter == 97                 \* a
Accented == <<195, 169>>     \* a codepoint of two bytes

MCInserts == {<<Letter>>, <<NewLine>>, Accented, <<Letter, Letter, NewLine>>}
=============================================================================
