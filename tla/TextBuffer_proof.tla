-------------------------- MODULE TextBuffer_proof --------------------------
(***************************************************************************)
(* Theorems about TextBuffer, for every chunk size, every set of texts to  *)
(* insert and every bound: its type invariant; that what its loops do on   *)
(* the way is moving a cursor over a text, typing before it and erasing    *)
(* after it; that after each call the chunks hold the text which the calls *)
(* so far make, with the right result and position; and which assertions   *)
(* fail.                                                                   *)
(*                                                                         *)
(* First come lemmas about the list of chunks: the cursor that a list      *)
(* stands for (View), and what the static functions of text_buffer.c,      *)
(* which work on one chunk or on two, do to it.  Two chunks in a row are   *)
(* tied when no codepoint begins before the first and goes on after it;    *)
(* the static functions keep a list tied, if a codepoint has no more bytes *)
(* after its first than half a chunk.                                      *)
(*                                                                         *)
(* The inductive invariant has three parts.  TextInv: a list that is_tbuf  *)
(* describes, or in a deletion one with the sentinel as the point          *)
(* (ListInv), and a call with the local variables it can have (CallInv).   *)
(* DocInv: what a call has done and what it has left to do make up what it *)
(* promised.  TiedInv: no chunk lies strictly inside a codepoint.  Shown   *)
(* says of a step that it is one of TextCursor on the text that the chunks *)
(* hold.                                                                   *)
(***************************************************************************)
EXTENDS TextBuffer, Utf8Text_proof

-----------------------------------------------------------------------------
(***************************************************************************)
(* Flattening a sequence of texts.                                         *)
(***************************************************************************)

\* f has the texts that the first n of a sequence of texts make.
PrefixTexts(f, ss, S) ==
    /\ f \in [Nat -> Seq(S)]
    /\ f[0] = <<>>
    /\ \A i \in 1 .. Len(ss) : f[i] = f[i - 1] \o ss[i]

\* There is one.
LEMMA PrefixesExist ==
    ASSUME NEW S, NEW ss \in Seq(Seq(S))
    PROVE  \E f : PrefixTexts(f, ss, S)
<1> DEFINE step == [p \in Nat \X Seq(S) |->
                      IF p[1] + 1 \in 1 .. Len(ss) THEN p[2] \o ss[p[1] + 1]
                                                   ELSE p[2]]
<1>1. step \in [Nat \X Seq(S) -> Seq(S)]
  <2>1. ASSUME NEW p \in Nat \X Seq(S)
        PROVE  (IF p[1] + 1 \in 1 .. Len(ss) THEN p[2] \o ss[p[1] + 1]
                                             ELSE p[2]) \in Seq(S)
    <3>1. p[1] \in Nat /\ p[2] \in Seq(S)
      OBVIOUS
    <3>2. CASE p[1] + 1 \in 1 .. Len(ss)
      <4>1. ss[p[1] + 1] \in Seq(S)
        BY <3>2
      <4>2. p[2] \o ss[p[1] + 1] \in Seq(S)
        BY <3>1, <4>1
      <4>3. QED
        BY <3>2, <4>2
    <3>3. CASE ~(p[1] + 1 \in 1 .. Len(ss))
      BY <3>1, <3>3
    <3>4. QED
      BY <3>2, <3>3
  <2>2. QED
    BY <2>1
<1>2. PICK f : Iterates(f, Seq(S), <<>>, step)
  <2> HIDE DEF step
  <2>1. <<>> \in Seq(S)
    OBVIOUS
  <2>2. QED
    BY <1>1, <2>1, Recursion
<1>3. f \in [Nat -> Seq(S)] /\ f[0] = <<>>
  BY <1>2 DEF Iterates
<1>4. ASSUME NEW i \in 1 .. Len(ss)
      PROVE  f[i] = f[i - 1] \o ss[i]
  <2>1. i - 1 \in Nat /\ (i - 1) + 1 = i /\ f[i - 1] \in Seq(S)
    BY <1>3
  <2>2. f[i] = step[<<i - 1, f[i - 1]>>]
    BY <1>2, <2>1 DEF Iterates
  <2>3. <<i - 1, f[i - 1]>> \in Nat \X Seq(S)
    BY <2>1
  <2>4. step[<<i - 1, f[i - 1]>>] = f[i - 1] \o ss[i]
    BY <2>1, <2>3
  <2>5. QED
    BY <2>2, <2>4
<1>5. PrefixTexts(f, ss, S)
  BY <1>3, <1>4 DEF PrefixTexts
<1>6. QED
  BY <1>5

\* What FlattenSeq makes of a sequence of texts.
LEMMA FlattenPrefixes ==
    ASSUME NEW S, NEW ss \in Seq(Seq(S)), NEW f, PrefixTexts(f, ss, S)
    PROVE  FlattenSeq(ss) = f[Len(ss)]
<1> DEFINE n == Len(ss)
           Turn(a, i) == IF i = 1 THEN ss[i] ELSE a[i - 1] \o ss[i]
           flatten == CHOOSE a : a = [i \in 1 .. n |-> Turn(a, i)]
           made == [i \in 1 .. n |-> f[i]]
<1>1. n \in Nat /\ \A i \in 1 .. n : ss[i] \in Seq(S)
  OBVIOUS
<1>2. CASE n = 0
  <2>1. ss = <<>> /\ FlattenSeq(ss) = ss
    BY <1>2 DEF FlattenSeq
  <2>2. f[0] = <<>>
    BY DEF PrefixTexts
  <2>3. QED
    BY <1>2, <2>1, <2>2
<1>3. CASE n # 0
  <2>1. ASSUME NEW i \in 1 .. n
        PROVE  f[i] = Turn(made, i)
    <3>1. f[i] = f[i - 1] \o ss[i] /\ f[0] = <<>>
      BY DEF PrefixTexts
    <3>2. CASE i = 1
      <4>1. i - 1 = 0
        BY <3>2
      <4>2. ss[i] \in Seq(S)
        BY <1>1
      <4>3. <<>> \o ss[i] = ss[i]
        BY <4>2, ConcatNothing
      <4>4. f[i] = ss[i]
        BY <3>1, <4>1, <4>3
      <4>5. QED
        BY <3>2, <4>4
    <3>3. CASE i # 1
      <4>1. i - 1 \in 1 .. n
        BY <1>1, <3>3
      <4>2. made[i - 1] = f[i - 1]
        BY <4>1
      <4>3. QED
        BY <3>1, <3>3, <4>2
    <3>4. QED
      BY <3>2, <3>3
  <2>2. made = [i \in 1 .. n |-> Turn(made, i)]
    <3> HIDE DEF Turn
    <3>1. QED
      BY <2>1
  <2>3. flatten = [i \in 1 .. n |-> Turn(flatten, i)]
    <3> HIDE DEF Turn, made
    <3>1. QED
      BY <2>2
  <2>4. FlattenSeq(ss) = flatten[n]
    BY <1>3 DEF FlattenSeq
  <2> HIDE DEF flatten
  <2> DEFINE T == {i \in Nat : i + 1 <= n => flatten[i + 1] = f[i + 1]}
  <2>5. ASSUME NEW i \in 1 .. n
        PROVE  flatten[i] = Turn(flatten, i)
    <3> HIDE DEF Turn
    <3>1. QED
      BY <2>3
  <2>6. 0 \in T
    <3>1. 1 \in 1 .. n
      BY <1>1, <1>3
    <3>2. flatten[1] = ss[1] /\ f[1] = Turn(made, 1)
      BY <2>1, <2>5, <3>1
    <3>3. flatten[1] = f[1]
      BY <3>2
    <3> HIDE DEF made, Turn
    <3>4. QED
      BY <3>3
  <2>7. ASSUME NEW i \in Nat, i \in T
        PROVE  i + 1 \in T
    <3> SUFFICES ASSUME (i + 1) + 1 <= n
                 PROVE  flatten[(i + 1) + 1] = f[(i + 1) + 1]
      OBVIOUS
    <3> DEFINE k == (i + 1) + 1
    <3>1. k \in 1 .. n /\ k # 1 /\ k - 1 = i + 1 /\ i + 1 <= n
      BY <1>1
    <3>2. flatten[i + 1] = f[i + 1]
      BY <2>7, <3>1
    <3>3. f[k] = f[k - 1] \o ss[k]
      BY <3>1 DEF PrefixTexts
    <3>4. flatten[k] = flatten[k - 1] \o ss[k]
      BY <2>5, <3>1
    <3>5. QED
      BY <3>1, <3>2, <3>3, <3>4
  <2>8. n - 1 \in T
    <3> HIDE DEF T, n
    <3>1. \A i \in Nat : i \in T
      BY <2>6, <2>7, Inductive
    <3>2. n - 1 \in Nat
      BY <1>1, <1>3
    <3>3. QED
      BY <3>1, <3>2
  <2>9. n - 1 + 1 = n /\ n <= n
    BY <1>1
  <2>10. flatten[n] = f[n]
    BY <2>8, <2>9
  <2>11. QED
    BY <2>4, <2>10
<1>4. QED
  BY <1>2, <1>3

\* Texts in a row, and more texts in a row after them.
LEMMA FlattenConcat ==
    ASSUME NEW S, NEW ss \in Seq(Seq(S)), NEW tt \in Seq(Seq(S))
    PROVE  /\ FlattenSeq(ss) \in Seq(S)
           /\ FlattenSeq(ss \o tt) = FlattenSeq(ss) \o FlattenSeq(tt)
<1> DEFINE n == Len(ss)
           m == Len(tt)
<1>1. n \in Nat /\ m \in Nat /\ Len(ss \o tt) = n + m /\ ss \o tt \in Seq(Seq(S))
  OBVIOUS
<1>2. PICK f : PrefixTexts(f, ss, S)
  BY PrefixesExist
<1>3. PICK g : PrefixTexts(g, tt, S)
  BY PrefixesExist
<1>4. PICK h : PrefixTexts(h, ss \o tt, S)
  BY <1>1, PrefixesExist
<1>5. /\ f \in [Nat -> Seq(S)] /\ f[0] = <<>>
      /\ \A i \in 1 .. n : f[i] = f[i - 1] \o ss[i]
  BY <1>2 DEF PrefixTexts
<1>6. /\ g \in [Nat -> Seq(S)] /\ g[0] = <<>>
      /\ \A i \in 1 .. m : g[i] = g[i - 1] \o tt[i]
  BY <1>3 DEF PrefixTexts
<1>7. /\ h \in [Nat -> Seq(S)] /\ h[0] = <<>>
      /\ \A i \in 1 .. n + m : h[i] = h[i - 1] \o (ss \o tt)[i]
  BY <1>1, <1>4 DEF PrefixTexts
<1>8. /\ \A i \in 1 .. n : (ss \o tt)[i] = ss[i]
      /\ \A i \in 1 .. m : (ss \o tt)[n + i] = tt[i]
  BY <1>1
<1> HIDE DEF n, m
<1> DEFINE Joined(i) == h[n + i] = f[n] \o g[i]
           T == {i \in Nat : i <= n => h[i] = f[i]}
           U == {i \in Nat : i <= m => Joined(i)}
<1>9. \A i \in Nat : i \in T
  <2>1. 0 \in T
    BY <1>5, <1>7
  <2>2. ASSUME NEW i \in Nat, i \in T
        PROVE  i + 1 \in T
    <3> SUFFICES ASSUME i + 1 <= n
                 PROVE  h[i + 1] = f[i + 1]
      OBVIOUS
    <3>1. i + 1 \in 1 .. n /\ i + 1 \in 1 .. n + m /\ (i + 1) - 1 = i
      BY <1>1
    <3>2. (ss \o tt)[i + 1] = ss[i + 1]
      BY <1>8, <3>1
    <3>3. h[i] = f[i]
      BY <2>2, <1>1
    <3>4. QED
      BY <1>5, <1>7, <3>1, <3>2, <3>3
  <2> HIDE DEF T
  <2>3. QED
    BY <2>1, <2>2, Inductive
<1>10. h[n] = f[n] /\ f[n] \in Seq(S)
  <2>1. n \in T
    BY <1>1, <1>9
  <2>2. QED
    BY <1>1, <1>5, <2>1
<1> HIDE DEF Joined
<1>11. \A i \in Nat : i \in U
  <2>1. 0 \in U
    <3>1. f[n] \o <<>> = f[n]
      BY <1>10, ConcatNothing
    <3>2. n + 0 = n
      BY <1>1
    <3>3. Joined(0)
      BY <1>6, <1>10, <3>1, <3>2 DEF Joined
    <3>4. QED
      BY <3>3
  <2>2. ASSUME NEW i \in Nat, i \in U
        PROVE  i + 1 \in U
    <3> SUFFICES ASSUME i + 1 <= m
                 PROVE  Joined(i + 1)
      OBVIOUS
    <3>1. /\ i + 1 \in 1 .. m /\ n + (i + 1) \in 1 .. n + m
          /\ (n + (i + 1)) - 1 = n + i /\ (i + 1) - 1 = i
      BY <1>1
    <3>2. (ss \o tt)[n + (i + 1)] = tt[i + 1]
      BY <1>8, <3>1
    <3>3. Joined(i)
      BY <2>2, <1>1
    <3>4. h[n + i] = f[n] \o g[i]
      BY <3>3 DEF Joined
    <3>5. h[n + (i + 1)] = (f[n] \o g[i]) \o tt[i + 1]
      BY <1>7, <3>1, <3>2, <3>4
    <3>6. g[i] \in Seq(S) /\ g[i + 1] = g[i] \o tt[i + 1]
      BY <1>6, <3>1
    <3>7. tt[i + 1] \in Seq(S)
      BY <3>1 DEF m
    <3>8. (f[n] \o g[i]) \o tt[i + 1] = f[n] \o (g[i] \o tt[i + 1])
      <4> DEFINE u == f[n]
                 v == g[i]
                 w == tt[i + 1]
      <4>1. u \in Seq(S) /\ v \in Seq(S) /\ w \in Seq(S)
        BY <1>10, <3>6, <3>7
      <4> HIDE DEF u, v, w
      <4>2. (u \o v) \o w = u \o (v \o w)
        BY <4>1, ConcatThree
      <4>3. QED
        BY <4>2 DEF u, v, w
    <3>9. QED
      BY <3>5, <3>6, <3>8 DEF Joined
  <2> HIDE DEF U
  <2>3. QED
    BY <2>1, <2>2, Inductive
<1>12. m \in U
  BY <1>1, <1>11
<1>13. h[n + m] = f[n] \o g[m]
  <2>1. Joined(m)
    BY <1>1, <1>12
  <2>2. QED
    BY <2>1 DEF Joined
<1>14. FlattenSeq(ss) = f[n] /\ FlattenSeq(tt) = g[m]
  BY <1>2, <1>3, FlattenPrefixes DEF n, m
<1>15. FlattenSeq(ss \o tt) = h[n + m]
  BY <1>1, <1>4, FlattenPrefixes
<1>16. QED
  BY <1>10, <1>13, <1>14, <1>15

\* Flattening one text.
LEMMA FlattenOne ==
    ASSUME NEW S, NEW s \in Seq(S)
    PROVE  FlattenSeq(<<s>>) = s
<1>1. PICK f : PrefixTexts(f, <<s>>, S)
  <2>1. <<s>> \in Seq(Seq(S))
    OBVIOUS
  <2>2. QED
    BY <2>1, PrefixesExist
<1>2. Len(<<s>>) = 1 /\ <<s>>[1] = s /\ 1 \in 1 .. Len(<<s>>)
  OBVIOUS
<1>3. f[1] = f[1 - 1] \o s
  BY <1>1, <1>2 DEF PrefixTexts
<1>4. f[1 - 1] = <<>>
  BY <1>1 DEF PrefixTexts
<1>5. f[1] = s
  BY <1>3, <1>4, ConcatNothing
<1>6. FlattenSeq(<<s>>) = f[Len(<<s>>)]
  <2>1. <<s>> \in Seq(Seq(S))
    OBVIOUS
  <2>2. QED
    BY <1>1, <2>1, FlattenPrefixes
<1>7. QED
  BY <1>2, <1>5, <1>6

\* Flattening none.
LEMMA FlattenNothing == FlattenSeq(<<>>) = <<>>
BY DEF FlattenSeq

-----------------------------------------------------------------------------
(***************************************************************************)
(* The text that a sequence of chunks holds.                               *)
(***************************************************************************)

\* What a gap buffer of the chunk size stands for.
Cell == {c \in CursorsOver(Byte) : Size(c) <= Chunk}

\* The text of a cell, and that no cell is the sentinel.
LEMMA CellText ==
    ASSUME NEW c \in Cell
    PROVE  /\ c \in CursorsOver(Byte) /\ c.left \in Seq(Byte) /\ c.right \in Seq(Byte)
           /\ Text(c) \in Seq(Byte) /\ Len(Text(c)) = Size(c)
           /\ Size(c) \in Nat /\ Size(c) <= Chunk
           /\ Size(c) = Len(c.left) + Len(c.right)
           /\ c # EndNode
<1>1. c \in CursorsOver(Byte) /\ c.left \in Seq(Byte) /\ c.right \in Seq(Byte)
  BY DEF Cell, CursorsOver
<1>2. c # EndNode
  BY <1>1 DEF CursorsOver, EndNode
<1>3. Text(c) \in Seq(Byte) /\ Len(Text(c)) = Len(c.left) + Len(c.right)
  BY <1>1 DEF Text
<1>4. Size(c) = Len(c.left) + Len(c.right)
  BY DEF Size
<1>5. Size(c) <= Chunk
  BY DEF Cell
<1>6. Size(c) \in Nat
  <2> DEFINE l == c.left
             r == c.right
  <2>1. l \in Seq(Byte) /\ r \in Seq(Byte)
    BY <1>1
  <2> HIDE DEF l, r
  <2>2. Len(l) + Len(r) \in Nat
    BY <2>1
  <2>3. QED
    BY <1>4, <2>2 DEF l, r
<1>7. QED
  BY <1>1, <1>2, <1>3, <1>4, <1>6, <1>5

TextsOf(cs) == [i \in DOMAIN cs |-> Text(cs[i])]

\* The texts of a sequence of cells.
LEMMA TextsOfCells ==
    ASSUME NEW cs \in Seq(Cell)
    PROVE  /\ TextsOf(cs) \in Seq(Seq(Byte))
           /\ Len(TextsOf(cs)) = Len(cs)
           /\ \A i \in 1 .. Len(cs) : TextsOf(cs)[i] = Text(cs[i])
<1>1. Len(cs) \in Nat /\ DOMAIN cs = 1 .. Len(cs)
  OBVIOUS
<1>2. \A i \in 1 .. Len(cs) : Text(cs[i]) \in Seq(Byte)
  <2> SUFFICES ASSUME NEW i \in 1 .. Len(cs) PROVE Text(cs[i]) \in Seq(Byte)
    OBVIOUS
  <2>1. cs[i] \in Cell
    OBVIOUS
  <2>2. QED
    BY <2>1, CellText
<1>3. TextsOf(cs) = [i \in 1 .. Len(cs) |-> Text(cs[i])]
  BY <1>1 DEF TextsOf
<1>4. QED
  BY <1>1, <1>2, <1>3

\* Join is what flattening the texts gives.
LEMMA JoinSame ==
    ASSUME NEW cs \in Seq(Cell), NEW ds \in Seq(Cell), Len(cs) = Len(ds),
           \A i \in 1 .. Len(cs) : Text(cs[i]) = Text(ds[i])
    PROVE  Join(cs) = Join(ds)
<1>1. TextsOf(cs) = TextsOf(ds)
  BY DEF TextsOf
<1>2. QED
  BY <1>1 DEF Join, TextsOf

\* Two lists of cells one after the other hold their texts one after the other.
LEMMA JoinConcat ==
    ASSUME NEW cs \in Seq(Cell), NEW ds \in Seq(Cell)
    PROVE  /\ Join(cs) \in Seq(Byte)
           /\ cs \o ds \in Seq(Cell)
           /\ Join(cs \o ds) = Join(cs) \o Join(ds)
<1>1. /\ TextsOf(cs) \in Seq(Seq(Byte)) /\ TextsOf(ds) \in Seq(Seq(Byte))
      /\ cs \o ds \in Seq(Cell)
  BY TextsOfCells
<1>2. TextsOf(cs \o ds) = TextsOf(cs) \o TextsOf(ds)
  <2> DEFINE a == TextsOf(cs \o ds)
             b == TextsOf(cs)
             d == TextsOf(ds)
  <2>1. /\ a \in Seq(Seq(Byte)) /\ Len(a) = Len(cs) + Len(ds)
        /\ \A i \in 1 .. Len(cs) + Len(ds) : a[i] = Text((cs \o ds)[i])
    <3>1. Len(cs \o ds) = Len(cs) + Len(ds)
      OBVIOUS
    <3>2. QED
      BY <1>1, <3>1, TextsOfCells
  <2>2. /\ b \in Seq(Seq(Byte)) /\ Len(b) = Len(cs)
        /\ \A i \in 1 .. Len(cs) : b[i] = Text(cs[i])
    BY TextsOfCells
  <2>3. /\ d \in Seq(Seq(Byte)) /\ Len(d) = Len(ds)
        /\ \A i \in 1 .. Len(ds) : d[i] = Text(ds[i])
    BY TextsOfCells
  <2> HIDE DEF a, b, d
  <2>4. /\ b \o d \in Seq(Seq(Byte)) /\ Len(b \o d) = Len(cs) + Len(ds)
        /\ \A i \in 1 .. Len(cs) + Len(ds) :
              (b \o d)[i] = IF i <= Len(cs) THEN b[i] ELSE d[i - Len(cs)]
    <3>1. b \in Seq(Seq(Byte)) /\ d \in Seq(Seq(Byte))
      BY <2>2, <2>3
    <3>2. /\ b \o d \in Seq(Seq(Byte)) /\ Len(b \o d) = Len(b) + Len(d)
          /\ \A i \in 1 .. Len(b) + Len(d) :
                (b \o d)[i] = IF i <= Len(b) THEN b[i] ELSE d[i - Len(b)]
      BY <3>1, ConcatProperties
    <3>3. QED
      BY <2>2, <2>3, <3>2
  <2>5. ASSUME NEW i \in 1 .. Len(cs) + Len(ds)
        PROVE  a[i] = (b \o d)[i]
    <3>1. Len(cs) \in Nat /\ Len(ds) \in Nat
      OBVIOUS
    <3>2. CASE i <= Len(cs)
      <4>1. (cs \o ds)[i] = cs[i] /\ i \in 1 .. Len(cs)
        BY <3>2
      <4>2. QED
        BY <2>1, <2>2, <2>4, <3>2, <4>1
    <3>3. CASE ~(i <= Len(cs))
      <4>1. (cs \o ds)[i] = ds[i - Len(cs)] /\ i - Len(cs) \in 1 .. Len(ds)
        BY <3>3
      <4>2. QED
        BY <2>1, <2>3, <2>4, <3>3, <4>1
    <3>4. QED
      BY <3>2, <3>3
  <2>6. a = b \o d
    BY <2>1, <2>4, <2>5, SeqEqual
  <2>7. QED
    BY <2>6 DEF a, b, d
<1>3. /\ Join(cs) = FlattenSeq(TextsOf(cs)) /\ Join(ds) = FlattenSeq(TextsOf(ds))
      /\ Join(cs \o ds) = FlattenSeq(TextsOf(cs \o ds))
  BY DEF Join, TextsOf
<1>4. /\ FlattenSeq(TextsOf(cs)) \in Seq(Byte)
      /\ FlattenSeq(TextsOf(cs) \o TextsOf(ds))
           = FlattenSeq(TextsOf(cs)) \o FlattenSeq(TextsOf(ds))
  BY <1>1, FlattenConcat
<1>5. QED
  BY <1>1, <1>2, <1>3, <1>4

\* No cells hold no text.
LEMMA JoinNothing == Join(<<>>) = <<>>
<1>1. TextsOf(<<>>) = <<>>
  BY DEF TextsOf
<1>2. QED
  BY <1>1, FlattenNothing DEF Join, TextsOf

\* One cell holds its own text.
LEMMA JoinOne ==
    ASSUME NEW c \in Cell
    PROVE  Join(<<c>>) = Text(c)
<1>1. TextsOf(<<c>>) = <<Text(c)>>
  <2>1. <<c>> \in Seq(Cell) /\ Len(<<c>>) = 1 /\ <<c>>[1] = c
    OBVIOUS
  <2>2. /\ TextsOf(<<c>>) \in Seq(Seq(Byte)) /\ Len(TextsOf(<<c>>)) = Len(<<c>>)
        /\ \A i \in 1 .. Len(<<c>>) : TextsOf(<<c>>)[i] = Text(<<c>>[i])
    BY <2>1, TextsOfCells
  <2>3. Len(TextsOf(<<c>>)) = 1 /\ TextsOf(<<c>>)[1] = Text(c)
    BY <2>1, <2>2
  <2>4. QED
    BY <2>2, <2>3
<1>2. Text(c) \in Seq(Byte)
  BY CellText
<1>3. Join(<<c>>) = FlattenSeq(TextsOf(<<c>>))
  BY DEF Join, TextsOf
<1>4. QED
  BY <1>1, <1>2, <1>3, FlattenOne

\* A cell more at the end.
LEMMA JoinAppend ==
    ASSUME NEW cs \in Seq(Cell), NEW c \in Cell
    PROVE  /\ Append(cs, c) \in Seq(Cell)
           /\ Join(Append(cs, c)) = Join(cs) \o Text(c)
<1>1. Append(cs, c) = cs \o <<c>> /\ <<c>> \in Seq(Cell)
  OBVIOUS
<1>2. QED
  BY <1>1, JoinConcat, JoinOne

\* A cell more at the start.
LEMMA JoinCons ==
    ASSUME NEW cs \in Seq(Cell), NEW c \in Cell
    PROVE  /\ <<c>> \o cs \in Seq(Cell)
           /\ Join(<<c>> \o cs) = Text(c) \o Join(cs)
<1>1. <<c>> \in Seq(Cell)
  OBVIOUS
<1>2. QED
  BY <1>1, JoinConcat, JoinOne

\* Without its first or without its last cell.
LEMMA JoinSplit ==
    ASSUME NEW cs \in Seq(Cell), cs # <<>>
    PROVE  /\ Head(cs) \in Cell /\ Tail(cs) \in Seq(Cell)
           /\ Join(cs) = Text(Head(cs)) \o Join(Tail(cs))
           /\ Front(cs) \in Seq(Cell) /\ Last(cs) \in Cell
           /\ Join(cs) = Join(Front(cs)) \o Text(Last(cs))
<1>1. Len(cs) \in Nat \ {0}
  OBVIOUS
<1>2. Head(cs) \in Cell /\ Tail(cs) \in Seq(Cell) /\ cs = <<Head(cs)>> \o Tail(cs)
  OBVIOUS
<1>3. Front(cs) \in Seq(Cell) /\ Last(cs) \in Cell
  BY <1>1 DEF Front, Last
<1>4. cs = Append(Front(cs), Last(cs))
  BY <1>1 DEF Front, Last
<1>5. Join(cs) = Text(Head(cs)) \o Join(Tail(cs))
  BY <1>2, JoinCons
<1>6. Join(cs) = Join(Front(cs)) \o Text(Last(cs))
  BY <1>3, <1>4, JoinAppend
<1>7. QED
  BY <1>2, <1>3, <1>5, <1>6

-----------------------------------------------------------------------------
(***************************************************************************)
(* The lists that is_tbuf describes, and the cursor they stand for.        *)
(***************************************************************************)

\* The chunks before the point have their gap at the right, those after it at
\* the left, and none of them is empty.
LeftCell == {c \in Cell : gapbuf_at_right(c) /\ ~gapbuf_empty(c)}
RightCell == {c \in Cell : gapbuf_at_left(c) /\ ~gapbuf_empty(c)}

\* The lists that is_tbuf describes.
Buffers == {b \in [lefts : Seq(LeftCell), point : Cell, rights : Seq(RightCell),
                   point_position : Place] :
               gapbuf_empty(b.point) => b.lefts = <<>> /\ b.rights = <<>>}

\* A sequence over a set is one over a larger set.
LEMMA SeqOfLarger ==
    ASSUME NEW S, NEW T, S \subseteq T, NEW s \in Seq(S)
    PROVE  s \in Seq(T)
OBVIOUS

\* The parts of a list that is_tbuf describes.
LEMMA BufferParts ==
    ASSUME NEW b \in Buffers
    PROVE  /\ b.lefts \in Seq(LeftCell) /\ b.point \in Cell
           /\ b.rights \in Seq(RightCell) /\ b.point_position \in Place
           /\ b.lefts \in Seq(Cell) /\ b.rights \in Seq(Cell)
           /\ gapbuf_empty(b.point) => b.lefts = <<>> /\ b.rights = <<>>
           /\ b = [lefts |-> b.lefts, point |-> b.point, rights |-> b.rights,
                   point_position |-> b.point_position]
<1>1. /\ b.lefts \in Seq(LeftCell) /\ b.point \in Cell
      /\ b.rights \in Seq(RightCell) /\ b.point_position \in Place
      /\ gapbuf_empty(b.point) => b.lefts = <<>> /\ b.rights = <<>>
      /\ b = [lefts |-> b.lefts, point |-> b.point, rights |-> b.rights,
              point_position |-> b.point_position]
  BY DEF Buffers
<1>2. LeftCell \subseteq Cell /\ RightCell \subseteq Cell
  BY DEF LeftCell, RightCell
<1>3. b.lefts \in Seq(Cell) /\ b.rights \in Seq(Cell)
  <2> DEFINE l == b.lefts
             r == b.rights
  <2>1. l \in Seq(LeftCell) /\ r \in Seq(RightCell)
    BY <1>1
  <2> HIDE DEF l, r
  <2>2. l \in Seq(Cell) /\ r \in Seq(Cell)
    BY <1>2, <2>1, SeqOfLarger
  <2>3. QED
    BY <2>2 DEF l, r
<1>4. QED
  BY <1>1, <1>3

\* A list with such parts is one that is_tbuf describes.
LEMMA BufferMade ==
    ASSUME NEW ls \in Seq(LeftCell), NEW c \in Cell, NEW rs \in Seq(RightCell),
           NEW p \in Place,
           gapbuf_empty(c) => ls = <<>> /\ rs = <<>>
    PROVE  [lefts |-> ls, point |-> c, rights |-> rs, point_position |-> p]
                \in Buffers
BY DEF Buffers

\* What a list stands for is a text with a cursor.
LEMMA ViewParts ==
    ASSUME NEW b, b.point \in Cell, b.lefts \in Seq(Cell), b.rights \in Seq(Cell)
    PROVE  /\ View(b) = Framed(Join(b.lefts), b.point, Join(b.rights))
           /\ Join(b.lefts) \in Seq(Byte) /\ Join(b.rights) \in Seq(Byte)
           /\ b.point \in CursorsOver(Byte)
           /\ View(b).left = Join(b.lefts) \o b.point.left
           /\ View(b).right = b.point.right \o Join(b.rights)
           /\ View(b) \in CursorsOver(Byte)
<1>1. b.point \in CursorsOver(Byte) /\ b.point # EndNode
      /\ b.point.left \in Seq(Byte) /\ b.point.right \in Seq(Byte)
  BY CellText
<1>2. View(b) = Framed(Join(b.lefts), b.point, Join(b.rights))
  BY <1>1 DEF View
<1>3. Join(b.lefts) \in Seq(Byte) /\ Join(b.rights) \in Seq(Byte)
  BY JoinConcat
<1>4. /\ View(b).left = Join(b.lefts) \o b.point.left
      /\ View(b).right = b.point.right \o Join(b.rights)
      /\ View(b) = [left |-> Join(b.lefts) \o b.point.left,
                    right |-> b.point.right \o Join(b.rights)]
  <2> DEFINE l == Join(b.lefts) \o b.point.left
             r == b.point.right \o Join(b.rights)
  <2>1. View(b) = [left |-> l, right |-> r]
    BY <1>2 DEF Framed
  <2> HIDE DEF l, r
  <2>2. View(b).left = l /\ View(b).right = r
    BY <2>1
  <2>3. QED
    BY <2>1, <2>2 DEF l, r
<1>5. /\ Join(b.lefts) \o b.point.left \in Seq(Byte)
      /\ b.point.right \o Join(b.rights) \in Seq(Byte)
  <2> DEFINE l == Join(b.lefts)
             r == Join(b.rights)
             u == b.point.left
             v == b.point.right
  <2>1. l \in Seq(Byte) /\ r \in Seq(Byte) /\ u \in Seq(Byte) /\ v \in Seq(Byte)
    BY <1>1, <1>3
  <2> HIDE DEF l, r, u, v
  <2>2. l \o u \in Seq(Byte) /\ v \o r \in Seq(Byte)
    BY <2>1
  <2>3. QED
    BY <2>2 DEF l, r, u, v
<1>6. View(b) \in CursorsOver(Byte)
  BY <1>4, <1>5 DEF CursorsOver
<1>7. QED
  BY <1>1, <1>2, <1>3, <1>4, <1>6

\* The cursor that a list stands for.
LEMMA BufferView ==
    ASSUME NEW b \in Buffers
    PROVE  /\ View(b) = Framed(Join(b.lefts), b.point, Join(b.rights))
           /\ Join(b.lefts) \in Seq(Byte) /\ Join(b.rights) \in Seq(Byte)
           /\ b.point \in CursorsOver(Byte)
           /\ View(b).left = Join(b.lefts) \o b.point.left
           /\ View(b).right = b.point.right \o Join(b.rights)
           /\ View(b) \in CursorsOver(Byte)
BY BufferParts, ViewParts

\* These lists have the invariants that the code asserts.
LEMMA BufferIsTbuf ==
    ASSUME NEW b \in Buffers
    PROVE  is_tbuf(b)
<1>1. /\ b.lefts \in Seq(LeftCell) /\ b.point \in Cell /\ b.rights \in Seq(RightCell)
      /\ gapbuf_empty(b.point) => b.lefts = <<>> /\ b.rights = <<>>
  BY BufferParts
<1>2. is_linked(b)
  BY <1>1, CellText DEF is_linked
<1>3. is_tbuf_aligned(b)
  <2>1. ASSUME NEW i \in DOMAIN b.lefts PROVE gapbuf_at_right(b.lefts[i])
    <3>1. b.lefts[i] \in LeftCell
      BY <1>1
    <3>2. QED
      BY <3>1 DEF LeftCell
  <2>2. ASSUME NEW i \in DOMAIN b.rights PROVE gapbuf_at_left(b.rights[i])
    <3>1. b.rights[i] \in RightCell
      BY <1>1
    <3>2. QED
      BY <3>1 DEF RightCell
  <2>3. QED
    BY <2>1, <2>2 DEF is_tbuf_aligned
<1>4. is_tbuf_on_codepoint(b)
  <2>1. ~IsContinuation(0)
    BY DEF IsContinuation
  <2>2. QED
    BY <2>1 DEF is_tbuf_on_codepoint
<1>5. is_tbuf_empty_or_nonempty(b)
  <2>1. CASE gapbuf_empty(b.point)
    BY <1>1, <2>1 DEF is_tbuf_empty_or_nonempty
  <2>2. CASE ~gapbuf_empty(b.point)
    <3> DEFINE Full == {c \in Cell : ~gapbuf_empty(c)}
               l == b.lefts
               r == b.rights
               p == <<b.point>>
    <3>1. l \in Seq(Full) /\ r \in Seq(Full)
      <4>1. LeftCell \subseteq Full /\ RightCell \subseteq Full
        BY DEF LeftCell, RightCell
      <4>2. l \in Seq(LeftCell) /\ r \in Seq(RightCell)
        BY <1>1
      <4> HIDE DEF l, r, Full
      <4>3. QED
        BY <4>1, <4>2, SeqOfLarger
    <3>2. p \in Seq(Full)
      BY <1>1, <2>2
    <3>3. Chunks(b) = (l \o p) \o r
      BY DEF Chunks
    <3> HIDE DEF l, r, p
    <3>4. (l \o p) \o r \in Seq(Full)
      <4> HIDE DEF Full
      <4>1. l \o p \in Seq(Full)
        BY <3>1, <3>2
      <4>2. QED
        BY <3>1, <4>1
    <3>5. ASSUME NEW i \in DOMAIN Chunks(b)
          PROVE  ~gapbuf_empty(Chunks(b)[i])
      <4>1. Chunks(b)[i] \in Full
        <5> HIDE DEF Full
        <5>1. QED
          BY <3>3, <3>4
      <4>2. QED
        BY <4>1
    <3>6. QED
      BY <3>5 DEF is_tbuf_empty_or_nonempty
  <2>3. QED
    BY <2>1, <2>2
<1>6. QED
  BY <1>2, <1>3, <1>4, <1>5 DEF is_tbuf

-----------------------------------------------------------------------------
(***************************************************************************)
(* A step on the point of a list is that step on the whole text.           *)
(***************************************************************************)

\* How long the two sides of a cursor are after a step.
LEMMA Sizes ==
    ASSUME NEW c \in CursorsOver(Byte)
    PROVE  /\ \A n \in 0 .. Len(c.right) :
                 /\ Size(Advanced(c, n)) = Size(c)
                 /\ Len(Advanced(c, n).right) = Len(c.right) - n
                 /\ Size(Erased(c, n)) = Size(c) - n
           /\ \A n \in 0 .. Len(c.left) :
                 /\ Size(Retreated(c, n)) = Size(c)
                 /\ Len(Retreated(c, n).left) = Len(c.left) - n
           /\ \A s \in Seq(Byte) : Size(Typed(c, s)) = Size(c) + Len(s)
           /\ Size(c) \in Nat
<1> DEFINE l == c.left
           r == c.right
<1>1. l \in Seq(Byte) /\ r \in Seq(Byte)
  BY DEF CursorsOver
<1> HIDE DEF l, r
<1>2. Size(c) = Len(l) + Len(r) /\ Size(c) \in Nat
  <2>1. Len(l) + Len(r) \in Nat
    BY <1>1
  <2>2. Size(c) = Len(l) + Len(r)
    BY DEF Size, l, r
  <2>3. QED
    BY <2>1, <2>2
<1>3. ASSUME NEW n \in 0 .. Len(r)
      PROVE  /\ Size(Advanced(c, n)) = Size(c)
             /\ Len(Advanced(c, n).right) = Len(r) - n
             /\ Size(Erased(c, n)) = Size(c) - n
  <2> DEFINE u == l \o SubSeq(r, 1, n)
             v == SubSeq(r, n + 1, Len(r))
  <2>1. Len(u) = Len(l) + n /\ Len(v) = Len(r) - n
    BY <1>1
  <2>2. Advanced(c, n) = [left |-> u, right |-> v] /\ Erased(c, n) = [left |-> l, right |-> v]
    BY DEF Advanced, Erased, l, r
  <2> HIDE DEF u, v
  <2>3. Size(Advanced(c, n)) = Len(u) + Len(v) /\ Size(Erased(c, n)) = Len(l) + Len(v)
        /\ Advanced(c, n).right = v
    BY <2>2 DEF Size
  <2>4. QED
    BY <1>1, <1>2, <2>1, <2>3
<1>4. ASSUME NEW n \in 0 .. Len(l)
      PROVE  /\ Size(Retreated(c, n)) = Size(c)
             /\ Len(Retreated(c, n).left) = Len(l) - n
  <2> DEFINE u == SubSeq(l, 1, Len(l) - n)
             v == SubSeq(l, Len(l) - n + 1, Len(l)) \o r
  <2>1. Len(u) = Len(l) - n /\ Len(v) = n + Len(r)
    BY <1>1
  <2>2. Retreated(c, n) = [left |-> u, right |-> v]
    BY DEF Retreated, l, r
  <2> HIDE DEF u, v
  <2>3. Size(Retreated(c, n)) = Len(u) + Len(v) /\ Retreated(c, n).left = u
    BY <2>2 DEF Size
  <2>4. QED
    BY <1>1, <1>2, <2>1, <2>3
<1>5. ASSUME NEW s \in Seq(Byte)
      PROVE  Size(Typed(c, s)) = Size(c) + Len(s)
  <2> DEFINE u == l \o s
  <2>1. Len(u) = Len(l) + Len(s)
    BY <1>1
  <2>2. Typed(c, s) = [left |-> u, right |-> r]
    BY DEF Typed, l, r
  <2> HIDE DEF u
  <2>3. Size(Typed(c, s)) = Len(u) + Len(r)
    BY <2>2 DEF Size
  <2>4. QED
    BY <1>1, <1>2, <2>1, <2>3
<1>6. QED
  BY <1>2, <1>3, <1>4, <1>5 DEF l, r

\* Another chunk in the place of the point.
LEMMA NewPoint ==
    ASSUME NEW b \in Buffers, NEW c \in Cell,
           gapbuf_empty(c) => b.lefts = <<>> /\ b.rights = <<>>
    PROVE  LET d == [b EXCEPT !.point = c]
           IN  /\ d \in Buffers
               /\ d.lefts = b.lefts /\ d.point = c /\ d.rights = b.rights
               /\ d.point_position = b.point_position
               /\ View(d) = Framed(Join(b.lefts), c, Join(b.rights))
<1> DEFINE d == [b EXCEPT !.point = c]
<1>1. d = [lefts |-> b.lefts, point |-> c, rights |-> b.rights,
           point_position |-> b.point_position]
  BY BufferParts
<1> HIDE DEF d
<1>2. d.lefts = b.lefts /\ d.point = c /\ d.rights = b.rights
      /\ d.point_position = b.point_position
  BY <1>1
<1>3. d \in Buffers
  BY <1>1, BufferParts, BufferMade
<1>4. View(d) = Framed(Join(b.lefts), c, Join(b.rights))
  BY <1>2, <1>3, BufferView
<1>5. QED
  BY <1>2, <1>3, <1>4 DEF d

\* Only the position changes.
LEMMA NewPosition ==
    ASSUME NEW b \in Buffers, NEW p \in Place
    PROVE  LET d == [b EXCEPT !.point_position = p]
           IN  /\ d \in Buffers
               /\ d.lefts = b.lefts /\ d.point = b.point /\ d.rights = b.rights
               /\ d.point_position = p
               /\ View(d) = View(b)
<1> DEFINE d == [b EXCEPT !.point_position = p]
<1>1. d = [lefts |-> b.lefts, point |-> b.point, rights |-> b.rights,
           point_position |-> p]
  BY BufferParts
<1> HIDE DEF d
<1>2. d.lefts = b.lefts /\ d.point = b.point /\ d.rights = b.rights
      /\ d.point_position = p
  BY <1>1
<1>3. d \in Buffers
  BY <1>1, BufferParts, BufferMade
<1>4. View(d) = View(b)
  BY <1>2, <1>3, BufferView
<1>5. QED
  BY <1>2, <1>3, <1>4 DEF d

\* The gap of the point moves forward: so does the cursor.
LEMMA PointAdvances ==
    ASSUME NEW b \in Buffers, NEW n \in 0 .. Len(b.point.right)
    PROVE  LET d == [b EXCEPT !.point = Advanced(@, n)]
           IN  /\ d \in Buffers
               /\ d.lefts = b.lefts /\ d.point = Advanced(b.point, n)
               /\ d.rights = b.rights
               /\ d.point_position = b.point_position
               /\ n \in 0 .. Len(View(b).right)
               /\ View(d) = Advanced(View(b), n)
<1>1. b.point \in Cell /\ b.point \in CursorsOver(Byte) /\ Size(b.point) <= Chunk
  BY BufferParts, CellText
<1>2. Advanced(b.point, n) \in CursorsOver(Byte) /\ Size(Advanced(b.point, n)) = Size(b.point)
  BY <1>1, OperationsClosed, Sizes
<1>3. /\ Advanced(b.point, n) \in Cell
      /\ gapbuf_empty(Advanced(b.point, n)) => b.lefts = <<>> /\ b.rights = <<>>
  BY <1>1, <1>2, BufferParts DEF Cell, gapbuf_empty
<1>4. /\ n \in 0 .. Len(View(b).right)
      /\ Framed(Join(b.lefts), Advanced(b.point, n), Join(b.rights)) = Advanced(View(b), n)
  <2> DEFINE j == Join(b.lefts)
             k == Join(b.rights)
             p == b.point
             v == View(b)
  <2>1. /\ j \in Seq(Byte) /\ k \in Seq(Byte) /\ p \in CursorsOver(Byte)
        /\ v = Framed(j, p, k)
    BY <1>1, BufferView
  <2> HIDE DEF j, k, v
  <2>2. /\ n \in 0 .. Len(Framed(j, p, k).right)
        /\ Framed(j, Advanced(p, n), k) = Advanced(Framed(j, p, k), n)
    BY <2>1, FramedAdvanced
  <2>3. QED
    BY <2>1, <2>2 DEF j, k, v
<1>5. QED
  BY <1>3, <1>4, NewPoint

\* The gap of the point moves back: so does the cursor.
LEMMA PointRetreats ==
    ASSUME NEW b \in Buffers, NEW n \in 0 .. Len(b.point.left)
    PROVE  LET d == [b EXCEPT !.point = Retreated(@, n)]
           IN  /\ d \in Buffers
               /\ d.lefts = b.lefts /\ d.point = Retreated(b.point, n)
               /\ d.rights = b.rights
               /\ d.point_position = b.point_position
               /\ n \in 0 .. Len(View(b).left)
               /\ View(d) = Retreated(View(b), n)
<1>1. b.point \in Cell /\ b.point \in CursorsOver(Byte) /\ Size(b.point) <= Chunk
  BY BufferParts, CellText
<1>2. Retreated(b.point, n) \in CursorsOver(Byte) /\ Size(Retreated(b.point, n)) = Size(b.point)
  BY <1>1, OperationsClosed, Sizes
<1>3. /\ Retreated(b.point, n) \in Cell
      /\ gapbuf_empty(Retreated(b.point, n)) => b.lefts = <<>> /\ b.rights = <<>>
  BY <1>1, <1>2, BufferParts DEF Cell, gapbuf_empty
<1>4. /\ n \in 0 .. Len(View(b).left)
      /\ Framed(Join(b.lefts), Retreated(b.point, n), Join(b.rights)) = Retreated(View(b), n)
  <2> DEFINE j == Join(b.lefts)
             k == Join(b.rights)
             p == b.point
             v == View(b)
  <2>1. /\ j \in Seq(Byte) /\ k \in Seq(Byte) /\ p \in CursorsOver(Byte)
        /\ v = Framed(j, p, k)
    BY <1>1, BufferView
  <2> HIDE DEF j, k, v
  <2>2. /\ n \in 0 .. Len(Framed(j, p, k).left)
        /\ Framed(j, Retreated(p, n), k) = Retreated(Framed(j, p, k), n)
    BY <2>1, FramedRetreated
  <2>3. QED
    BY <2>1, <2>2 DEF j, k, v
<1>5. QED
  BY <1>3, <1>4, NewPoint

\* Bytes go into the gap of the point: they are typed at the cursor.
LEMMA PointGrows ==
    ASSUME NEW b \in Buffers, NEW s \in Seq(Byte), s # <<>>,
           Len(s) <= gapbuf_gap_size(b.point)
    PROVE  LET d == [b EXCEPT !.point = Typed(@, s)]
           IN  /\ d \in Buffers
               /\ d.point_position = b.point_position
               /\ View(d) = Typed(View(b), s)
<1>1. b.point \in Cell /\ b.point \in CursorsOver(Byte) /\ Size(b.point) <= Chunk
  BY BufferParts, CellText
<1>2. Typed(b.point, s) \in CursorsOver(Byte) /\ Size(Typed(b.point, s)) = Size(b.point) + Len(s)
      /\ Size(b.point) \in Nat
  BY <1>1, OperationsClosed, Sizes
<1>3. Len(s) \in Nat \ {0}
  OBVIOUS
<1>4. Chunk \in Nat
  BY ChunkAssumption
<1>5. Size(Typed(b.point, s)) <= Chunk /\ Size(Typed(b.point, s)) # 0
  BY <1>1, <1>2, <1>3, <1>4 DEF gapbuf_gap_size
<1>6. Typed(b.point, s) \in Cell /\ ~gapbuf_empty(Typed(b.point, s))
  BY <1>2, <1>5 DEF Cell, gapbuf_empty
<1>7. Framed(Join(b.lefts), Typed(b.point, s), Join(b.rights)) = Typed(View(b), s)
  <2> DEFINE j == Join(b.lefts)
             k == Join(b.rights)
             p == b.point
             v == View(b)
  <2>1. /\ j \in Seq(Byte) /\ k \in Seq(Byte) /\ p \in CursorsOver(Byte)
        /\ v = Framed(j, p, k)
    BY <1>1, BufferView
  <2> HIDE DEF j, k, v
  <2>2. Framed(j, Typed(p, s), k) = Typed(Framed(j, p, k), s)
    BY <2>1, FramedTyped
  <2>3. QED
    BY <2>1, <2>2 DEF j, k, v
<1>8. QED
  BY <1>6, <1>7, NewPoint

-----------------------------------------------------------------------------
(***************************************************************************)
(* To the next chunk and back: the cursor stays.                           *)
(***************************************************************************)

\* A cell with its text on one side.
LEMMA OneSided ==
    ASSUME NEW c \in Cell
    PROVE  /\ gapbuf_at_left(c) => Text(c) = c.right /\ Size(c) = Len(c.right)
           /\ gapbuf_at_right(c) => Text(c) = c.left /\ Size(c) = Len(c.left)
           /\ gapbuf_empty(c) => c.left = <<>> /\ c.right = <<>>
<1> DEFINE l == c.left
           r == c.right
<1>1. l \in Seq(Byte) /\ r \in Seq(Byte)
  BY CellText
<1>2. Text(c) = l \o r /\ Size(c) = Len(l) + Len(r)
  BY DEF Text, Size
<1>3. (gapbuf_at_left(c) <=> l = <<>>) /\ (gapbuf_at_right(c) <=> r = <<>>)
      /\ (gapbuf_empty(c) <=> Size(c) = 0)
  BY DEF gapbuf_at_left, gapbuf_at_right, gapbuf_empty
<1> HIDE DEF l, r
<1>4. /\ Len(l) \in Nat /\ Len(r) \in Nat
      /\ l \o <<>> = l /\ <<>> \o r = r /\ Len(<<>>) = 0
      /\ Len(l) + 0 = Len(l) /\ 0 + Len(r) = Len(r)
      /\ (Len(l) + Len(r) = 0 => l = <<>> /\ r = <<>>)
  BY <1>1
<1>5. (l = <<>> => Text(c) = r /\ Size(c) = Len(r))
      /\ (r = <<>> => Text(c) = l /\ Size(c) = Len(l))
      /\ (Size(c) = 0 => l = <<>> /\ r = <<>>)
  BY <1>2, <1>4
<1>6. QED
  BY <1>3, <1>5 DEF l, r

\* Cursors with the same sides are the same.
LEMMA SameCursor ==
    ASSUME NEW S, NEW c \in CursorsOver(S), NEW d \in CursorsOver(S),
           c.left = d.left, c.right = d.right
    PROVE  c = d
BY DEF CursorsOver

\* Changing the parts of a list one after the other.
LEMMA NewChunks ==
    ASSUME NEW b \in Buffers, NEW ls, NEW p, NEW rs
    PROVE  [b EXCEPT !.lefts = ls, !.point = p, !.rights = rs]
             = [lefts |-> ls, point |-> p, rights |-> rs,
                point_position |-> b.point_position]
<1> DEFINE q == b.point_position
<1>1. b = [lefts |-> b.lefts, point |-> b.point, rights |-> b.rights,
           point_position |-> q]
  BY BufferParts
<1> HIDE DEF q
<1>2. PICK c : c = [b EXCEPT !.lefts = ls]
  OBVIOUS
<1>3. c = [lefts |-> ls, point |-> b.point, rights |-> b.rights, point_position |-> q]
  BY <1>1, <1>2
<1>4. PICK d : d = [c EXCEPT !.point = p]
  OBVIOUS
<1>5. d = [lefts |-> ls, point |-> p, rights |-> b.rights, point_position |-> q]
  BY <1>3, <1>4
<1>6. [d EXCEPT !.rights = rs]
        = [lefts |-> ls, point |-> p, rights |-> rs, point_position |-> q]
  BY <1>5
<1>7. [b EXCEPT !.lefts = ls, !.point = p, !.rights = rs] = [d EXCEPT !.rights = rs]
  BY <1>2, <1>4
<1>8. QED
  BY <1>6, <1>7 DEF q

\* Going to the next chunk, from the end of one, stays in the text.
LEMMA ToNextChunk ==
    ASSUME NEW b \in Buffers, gapbuf_at_right(b.point), b.rights # <<>>
    PROVE  /\ NextChunk(b) \in Buffers
           /\ NextChunk(b).point = Head(b.rights)
           /\ NextChunk(b).point.left = <<>> /\ NextChunk(b).point.right # <<>>
           /\ NextChunk(b).point_position = b.point_position
           /\ View(NextChunk(b)) = View(b)
<1> DEFINE ls == b.lefts
           p == b.point
           rs == b.rights
           d == NextChunk(b)
<1>1. /\ ls \in Seq(LeftCell) /\ p \in Cell /\ rs \in Seq(RightCell)
      /\ b.point_position \in Place /\ ls \in Seq(Cell) /\ rs \in Seq(Cell)
      /\ ~gapbuf_empty(p) /\ rs # <<>> /\ gapbuf_at_right(p)
  BY BufferParts
<1>2. d = [lefts |-> Append(ls, p), point |-> Head(rs), rights |-> Tail(rs),
           point_position |-> b.point_position]
  <2> DEFINE x == Append(ls, p)
             y == Head(rs)
             z == Tail(rs)
  <2>1. d = [b EXCEPT !.lefts = x, !.point = y, !.rights = z]
    BY DEF NextChunk
  <2> HIDE DEF x, y, z, d
  <2>2. d = [lefts |-> x, point |-> y, rights |-> z,
             point_position |-> b.point_position]
    BY <2>1, NewChunks
  <2>3. QED
    BY <2>2 DEF x, y, z
<1>3. View(b).left = Join(ls) \o p.left /\ View(b).right = p.right \o Join(rs)
      /\ View(b) \in CursorsOver(Byte)
  BY BufferView
<1> HIDE DEF ls, p, rs, d
<1>4. p \in LeftCell
  BY <1>1 DEF LeftCell
<1>5. Head(rs) \in RightCell /\ Tail(rs) \in Seq(RightCell)
  BY <1>1
<1>6. Head(rs) \in Cell /\ gapbuf_at_left(Head(rs)) /\ ~gapbuf_empty(Head(rs))
  BY <1>5 DEF RightCell
<1>7. Append(ls, p) \in Seq(LeftCell)
  BY <1>1, <1>4
<1>8. d \in Buffers
  BY <1>1, <1>2, <1>5, <1>6, <1>7, BufferMade
<1>9. /\ d.lefts = Append(ls, p) /\ d.point = Head(rs) /\ d.rights = Tail(rs)
      /\ d.point_position = b.point_position
  BY <1>2
<1>10. Head(rs).left = <<>> /\ Head(rs).right # <<>>
  <2>1. Head(rs).left = <<>>
    BY <1>6 DEF gapbuf_at_left
  <2>2. Size(Head(rs)) = Len(Head(rs).right) /\ Size(Head(rs)) # 0
    BY <1>6, OneSided DEF gapbuf_empty
  <2>3. QED
    BY <2>1, <2>2
<1>11. View(d) = View(b)
  <2> DEFINE h == Head(rs)
             k == Join(Tail(rs))
             j == Join(ls)
  <2>1. /\ Join(Append(ls, p)) = j \o Text(p)
        /\ Join(rs) = Text(h) \o k
        /\ j \in Seq(Byte) /\ k \in Seq(Byte)
    <3>1. Tail(rs) \in Seq(Cell)
      BY <1>1
    <3>2. QED
      BY <1>1, <3>1, JoinAppend, JoinSplit, JoinConcat
  <2>2. Text(p) = p.left /\ p.right = <<>> /\ Text(h) = h.right
    BY <1>1, <1>6, OneSided DEF gapbuf_at_right
  <2>3. p.left \in Seq(Byte) /\ h.right \in Seq(Byte)
    BY <1>1, <1>6, CellText
  <2>4. View(d).left = Join(Append(ls, p)) \o h.left /\ View(d).right = h.right \o k
        /\ View(d) \in CursorsOver(Byte)
    BY <1>8, <1>9, BufferView
  <2> DEFINE u == p.left
             v == h.right
  <2>5. /\ View(d).left = (j \o u) \o <<>> /\ View(d).right = v \o k
        /\ View(b).left = j \o u /\ View(b).right = <<>> \o (v \o k)
        /\ u \in Seq(Byte) /\ v \in Seq(Byte)
    BY <1>3, <1>10, <2>1, <2>2, <2>3, <2>4
  <2> HIDE DEF j, k, u, v
  <2>6. (j \o u) \o <<>> = j \o u /\ <<>> \o (v \o k) = v \o k
    BY <2>1, <2>5
  <2>7. View(d).left = View(b).left /\ View(d).right = View(b).right
    BY <2>5, <2>6
  <2>8. QED
    BY <1>3, <2>4, <2>7, SameCursor
<1>12. QED
  BY <1>8, <1>9, <1>10, <1>11 DEF d, rs

\* And so does going to the previous one, from the start.
LEMMA ToPrevChunk ==
    ASSUME NEW b \in Buffers, gapbuf_at_left(b.point), b.lefts # <<>>
    PROVE  /\ PrevChunk(b) \in Buffers
           /\ PrevChunk(b).point_position = b.point_position
           /\ View(PrevChunk(b)) = View(b)
<1> DEFINE ls == b.lefts
           p == b.point
           rs == b.rights
           d == PrevChunk(b)
<1>1. /\ ls \in Seq(LeftCell) /\ p \in Cell /\ rs \in Seq(RightCell)
      /\ b.point_position \in Place /\ ls \in Seq(Cell) /\ rs \in Seq(Cell)
      /\ ~gapbuf_empty(p) /\ ls # <<>> /\ gapbuf_at_left(p)
  BY BufferParts
<1>2. d = [lefts |-> Front(ls), point |-> Last(ls), rights |-> <<p>> \o rs,
           point_position |-> b.point_position]
  <2> DEFINE x == Front(ls)
             y == Last(ls)
             z == <<p>> \o rs
  <2>1. d = [b EXCEPT !.lefts = x, !.point = y, !.rights = z]
    BY DEF PrevChunk
  <2> HIDE DEF x, y, z, d
  <2>2. d = [lefts |-> x, point |-> y, rights |-> z,
             point_position |-> b.point_position]
    BY <2>1, NewChunks
  <2>3. QED
    BY <2>2 DEF x, y, z
<1>3. View(b).left = Join(ls) \o p.left /\ View(b).right = p.right \o Join(rs)
      /\ View(b) \in CursorsOver(Byte)
  BY BufferView
<1> HIDE DEF ls, p, rs, d
<1>4. p \in RightCell
  BY <1>1 DEF RightCell
<1>5. Last(ls) \in LeftCell /\ Front(ls) \in Seq(LeftCell)
  <2>1. Len(ls) \in Nat \ {0}
    BY <1>1
  <2>2. QED
    BY <1>1, <2>1 DEF Front, Last
<1>6. Last(ls) \in Cell /\ gapbuf_at_right(Last(ls)) /\ ~gapbuf_empty(Last(ls))
  BY <1>5 DEF LeftCell
<1>7. <<p>> \o rs \in Seq(RightCell)
  <2>1. <<p>> \in Seq(RightCell)
    BY <1>4
  <2>2. QED
    BY <1>1, <2>1
<1>8. d \in Buffers
  BY <1>1, <1>2, <1>5, <1>6, <1>7, BufferMade
<1>9. /\ d.lefts = Front(ls) /\ d.point = Last(ls) /\ d.rights = <<p>> \o rs
      /\ d.point_position = b.point_position
  BY <1>2
<1>10. View(d) = View(b)
  <2> DEFINE h == Last(ls)
             j == Join(Front(ls))
             k == Join(rs)
  <2>1. /\ Join(<<p>> \o rs) = Text(p) \o k
        /\ Join(ls) = j \o Text(h)
        /\ j \in Seq(Byte) /\ k \in Seq(Byte)
    <3>1. Front(ls) \in Seq(Cell)
      BY <1>1, JoinSplit
    <3>2. QED
      BY <1>1, <3>1, JoinCons, JoinSplit, JoinConcat
  <2>2. Text(p) = p.right /\ p.left = <<>> /\ Text(h) = h.left /\ h.right = <<>>
    BY <1>1, <1>6, OneSided DEF gapbuf_at_right, gapbuf_at_left
  <2>3. p.right \in Seq(Byte) /\ h.left \in Seq(Byte)
    BY <1>1, <1>6, CellText
  <2>4. View(d).left = j \o h.left /\ View(d).right = h.right \o Join(<<p>> \o rs)
        /\ View(d) \in CursorsOver(Byte)
    BY <1>8, <1>9, BufferView
  <2> DEFINE u == p.right
             v == h.left
  <2>5. /\ View(d).left = j \o v /\ View(d).right = <<>> \o (u \o k)
        /\ View(b).left = (j \o v) \o <<>> /\ View(b).right = u \o k
        /\ u \in Seq(Byte) /\ v \in Seq(Byte)
    BY <1>3, <2>1, <2>2, <2>3, <2>4
  <2> HIDE DEF j, k, u, v
  <2>6. (j \o v) \o <<>> = j \o v /\ <<>> \o (u \o k) = u \o k
    BY <2>1, <2>5
  <2>7. View(d).left = View(b).left /\ View(d).right = View(b).right
    BY <2>5, <2>6
  <2>8. QED
    BY <1>3, <2>4, <2>7, SameCursor
<1>11. QED
  BY <1>8, <1>9, <1>10 DEF d

-----------------------------------------------------------------------------
(***************************************************************************)
(* Erasing at the point, and taking an emptied chunk out of the list.      *)
(***************************************************************************)

\* What is left when the last chunk is taken out: the sentinel is the point.
Sentinels == {b \in [lefts : Seq(LeftCell), point : {EndNode}, rights : {<<>>},
                     point_position : Place] : b.lefts # <<>>}

\* The cursor of a list whose point is the sentinel is at the end.
LEMMA SentinelView ==
    ASSUME NEW b \in Sentinels
    PROVE  /\ View(b) = [left |-> Join(b.lefts), right |-> <<>>]
           /\ b.lefts \in Seq(Cell) /\ b.lefts # <<>>
           /\ View(b) \in CursorsOver(Byte)
           /\ View(b).right = <<>> /\ View(b).left # <<>>
<1> DEFINE ls == b.lefts
<1>1. ls \in Seq(LeftCell) /\ ls # <<>> /\ b.point = EndNode
  BY DEF Sentinels
<1> HIDE DEF ls
<1>2. ls \in Seq(Cell)
  <2>1. LeftCell \subseteq Cell
    BY DEF LeftCell
  <2>2. QED
    BY <1>1, <2>1, SeqOfLarger
<1>3. View(b) = [left |-> Join(ls), right |-> <<>>] /\ Join(ls) \in Seq(Byte)
  BY <1>1, <1>2, JoinConcat DEF View, ls
<1>4. Head(ls) \in Cell /\ Size(Head(ls)) # 0
  <2>1. Head(ls) \in LeftCell
    BY <1>1
  <2>2. QED
    BY <2>1 DEF LeftCell, gapbuf_empty
<1>5. Join(ls) # <<>>
  <2> DEFINE u == Text(Head(ls))
             v == Join(Tail(ls))
  <2>1. Join(ls) = u \o v /\ u \in Seq(Byte) /\ v \in Seq(Byte)
    <3>1. Tail(ls) \in Seq(Cell)
      BY <1>1, <1>2
    <3>2. QED
      BY <1>1, <1>2, <1>4, <3>1, JoinSplit, JoinConcat, CellText
  <2>2. Len(u) # 0
    BY <1>4, CellText
  <2> HIDE DEF u, v
  <2>3. u \o v # <<>>
    BY <2>1, <2>2
  <2>4. QED
    BY <2>1, <2>3
<1>6. View(b) \in CursorsOver(Byte) /\ View(b).right = <<>> /\ View(b).left = Join(ls)
  <2> DEFINE j == Join(ls)
  <2>1. View(b) = [left |-> j, right |-> <<>>] /\ j \in Seq(Byte)
    BY <1>3
  <2> HIDE DEF j
  <2>2. View(b).left = j /\ View(b).right = <<>>
    BY <2>1
  <2>3. View(b) \in CursorsOver(Byte)
    BY <2>1 DEF CursorsOver
  <2>4. QED
    BY <2>2, <2>3 DEF j
<1>7. QED
  BY <1>1, <1>2, <1>3, <1>5, <1>6 DEF ls

\* One iteration of delete_string erases what the point has of the bytes to
\* delete, and takes an emptied point out of the list.
LEMMA PointErased ==
    ASSUME NEW b \in Buffers, NEW n \in 0 .. Len(b.point.right)
    PROVE  LET c == [b EXCEPT !.point = Erased(@, n)]
               only == c.lefts = <<>> /\ c.rights = <<>>
               d == IF gapbuf_empty(c.point) /\ ~only THEN Unlinked(c) ELSE c
           IN  /\ d \in Buffers \cup Sentinels
               /\ d.point_position = b.point_position
               /\ n \in 0 .. Len(View(b).right)
               /\ View(d) = Erased(View(b), n)
<1> DEFINE p == Erased(b.point, n)
           c == [b EXCEPT !.point = p]
           only == c.lefts = <<>> /\ c.rights = <<>>
           d == IF gapbuf_empty(c.point) /\ ~only THEN Unlinked(c) ELSE c
<1>1. b.point \in Cell /\ b.point \in CursorsOver(Byte) /\ Size(b.point) <= Chunk
  BY BufferParts, CellText
<1>2. p \in Cell
  <2>1. p \in CursorsOver(Byte) /\ Size(p) = Size(b.point) - n /\ Size(b.point) \in Nat
    BY <1>1, OperationsClosed, Sizes
  <2>2. n \in Nat /\ Chunk \in Nat
    BY ChunkAssumption
  <2> HIDE DEF p
  <2>3. Size(p) <= Chunk
    BY <1>1, <2>1, <2>2
  <2>4. QED
    BY <2>1, <2>3 DEF Cell
<1>3. /\ n \in 0 .. Len(View(b).right)
      /\ Framed(Join(b.lefts), p, Join(b.rights)) = Erased(View(b), n)
  <2> DEFINE j == Join(b.lefts)
             k == Join(b.rights)
             q == b.point
             v == View(b)
  <2>1. /\ j \in Seq(Byte) /\ k \in Seq(Byte) /\ q \in CursorsOver(Byte)
        /\ v = Framed(j, q, k)
    BY <1>1, BufferView
  <2> HIDE DEF j, k, v
  <2>2. /\ n \in 0 .. Len(Framed(j, q, k).right)
        /\ Framed(j, Erased(q, n), k) = Erased(Framed(j, q, k), n)
    BY <2>1, FramedErased
  <2>3. QED
    BY <2>1, <2>2 DEF j, k, v
<1>4. c = [lefts |-> b.lefts, point |-> p, rights |-> b.rights,
           point_position |-> b.point_position]
  BY BufferParts
<1>5. c.lefts = b.lefts /\ c.point = p /\ c.rights = b.rights
      /\ c.point_position = b.point_position
  <2> HIDE DEF c, p
  <2>1. QED
    BY <1>4
<1> DEFINE Good(e) == /\ e \in Buffers \cup Sentinels
                      /\ e.point_position = b.point_position
                      /\ View(e) = Framed(Join(b.lefts), p, Join(b.rights))
<1> HIDE DEF p
<1>6. ASSUME ~(gapbuf_empty(p) /\ ~(b.lefts = <<>> /\ b.rights = <<>>))
      PROVE  Good(d)
  <2>1. d = c
    <3> HIDE DEF c
    <3>1. QED
      BY <1>5, <1>6
  <2>2. gapbuf_empty(p) => b.lefts = <<>> /\ b.rights = <<>>
    BY <1>6
  <2>3. c \in Buffers /\ View(c) = Framed(Join(b.lefts), p, Join(b.rights))
    BY <1>2, <2>2, NewPoint
  <2>4. QED
    BY <1>5, <2>1, <2>3
<1>7. ASSUME gapbuf_empty(p) /\ ~(b.lefts = <<>> /\ b.rights = <<>>)
      PROVE  Good(d)
  <2> HIDE DEF c
  <2>1. d = Unlinked(c)
    BY <1>5, <1>7
  <2> HIDE DEF d
  <2>2. p.left = <<>> /\ p.right = <<>>
    BY <1>2, <1>7, OneSided
  <2> DEFINE ls == b.lefts
             rs == b.rights
             j == Join(ls)
             k == Join(rs)
  <2>3. /\ ls \in Seq(LeftCell) /\ rs \in Seq(RightCell) /\ b.point_position \in Place
        /\ ls \in Seq(Cell) /\ rs \in Seq(Cell) /\ ~(ls = <<>> /\ rs = <<>>)
        /\ j \in Seq(Byte) /\ k \in Seq(Byte)
    BY <1>7, BufferParts, BufferView
  <2>4. Framed(j, p, k) = [left |-> j, right |-> k]
    <3>1. Framed(j, p, k) = [left |-> j \o <<>>, right |-> <<>> \o k]
      BY <2>2 DEF Framed
    <3> HIDE DEF j, k
    <3>2. j \o <<>> = j /\ <<>> \o k = k
      BY <2>3
    <3>3. QED
      BY <3>1, <3>2
  <2>5. CASE rs = <<>>
    <3>1. d = [c EXCEPT !.point = EndNode]
      BY <1>5, <2>1, <2>5 DEF Unlinked
    <3>2. d = [lefts |-> ls, point |-> EndNode, rights |-> rs,
               point_position |-> b.point_position]
      BY <1>4, <3>1
    <3> HIDE DEF ls, rs, j, k
    <3>3. d.lefts = ls /\ d.point_position = b.point_position
      BY <3>2
    <3>4. d \in Sentinels
      BY <2>3, <2>5, <3>2 DEF Sentinels
    <3>5. k = <<>>
      BY <2>5, JoinNothing DEF k
    <3>6. View(d) = [left |-> j, right |-> k]
      BY <3>3, <3>4, <3>5, SentinelView DEF j
    <3>7. QED
      BY <2>4, <3>3, <3>4, <3>6 DEF j, k, ls, rs
  <2>6. CASE rs # <<>>
    <3> DEFINE h == Head(rs)
               t == Tail(rs)
    <3>1. h \in RightCell /\ t \in Seq(RightCell)
      BY <2>3, <2>6
    <3>2. h \in Cell /\ gapbuf_at_left(h) /\ ~gapbuf_empty(h)
      BY <3>1 DEF RightCell
    <3>3. d = [lefts |-> ls, point |-> h, rights |-> t,
               point_position |-> b.point_position]
      <4>1. d = [c EXCEPT !.point = h, !.rights = t]
        BY <1>5, <2>1, <2>6 DEF Unlinked
      <4> HIDE DEF ls, h, t
      <4>2. PICK e : e = [c EXCEPT !.point = h]
        OBVIOUS
      <4>3. e = [lefts |-> ls, point |-> h, rights |-> b.rights,
                 point_position |-> b.point_position]
        BY <1>4, <4>2 DEF ls
      <4>4. [c EXCEPT !.point = h, !.rights = t] = [e EXCEPT !.rights = t]
        BY <4>2
      <4>5. QED
        BY <4>1, <4>3, <4>4
    <3>4. Join(rs) = Text(h) \o Join(t)
      BY <2>3, <2>6, JoinSplit
    <3>5. Text(h) = h.right /\ h.left = <<>>
      BY <3>2, OneSided DEF gapbuf_at_left
    <3> HIDE DEF ls, rs, h, t
    <3>6. d \in Buffers
      BY <2>3, <3>1, <3>2, <3>3, BufferMade
    <3>7. /\ d.lefts = ls /\ d.point = h /\ d.rights = t
          /\ d.point_position = b.point_position
      BY <3>3
    <3>8. View(d) = [left |-> j, right |-> k]
      <4>1. View(d).left = j \o <<>> /\ View(d).right = k /\ View(d) \in CursorsOver(Byte)
        BY <3>4, <3>5, <3>6, <3>7, BufferView
      <4> HIDE DEF j, k
      <4>2. j \o <<>> = j
        BY <2>3
      <4>3. QED
        BY <4>1, <4>2 DEF CursorsOver
    <3>9. QED
      BY <2>4, <3>6, <3>7, <3>8 DEF j, k, ls, rs
  <2>7. QED
    BY <2>5, <2>6
<1> HIDE DEF Good, d
<1>8. Good(d)
  BY <1>6, <1>7
<1>9. /\ d \in Buffers \cup Sentinels
      /\ d.point_position = b.point_position
      /\ n \in 0 .. Len(View(b).right)
      /\ View(d) = Erased(View(b), n)
  BY <1>3, <1>8 DEF Good
<1>10. QED
  BY <1>9 DEF d, c, only, p

-----------------------------------------------------------------------------
(***************************************************************************)
(* split_point: the same text in one chunk more.                           *)
(***************************************************************************)

\* A chunk has two halves, none of them empty.
LEMMA HalfOfChunk == /\ Chunk \in Nat /\ Half \in Nat \ {0} /\ Chunk = Half + Half
                     /\ Half < Chunk
BY ChunkAssumption DEF Half

\* The parts of a full text that split_point cuts it into.
LEMMA CutInHalf ==
    ASSUME NEW l \in Seq(Byte), NEW r \in Seq(Byte), Len(l) + Len(r) = Chunk
    PROVE  LET text == l \o r
               start == Len(l)
               upper == SubSeq(text, Half + 1, Chunk)
               lower == SubSeq(text, 1, Half)
           IN  /\ upper \in Seq(Byte) /\ lower \in Seq(Byte)
               /\ Len(upper) = Half /\ Len(lower) = Half
               /\ start <= Half =>
                    /\ SubSeq(text, start + 1, Half) \in Seq(Byte)
                    /\ Len(SubSeq(text, start + 1, Half)) = Half - start
                    /\ SubSeq(text, start + 1, Half) \o upper = r
               /\ start > Half =>
                    /\ SubSeq(text, Half + 1, start) \in Seq(Byte)
                    /\ Len(SubSeq(text, Half + 1, start)) = start - Half
                    /\ lower \o SubSeq(text, Half + 1, start) = l
<1> DEFINE text == l \o r
           start == Len(l)
           upper == SubSeq(text, Half + 1, Chunk)
           lower == SubSeq(text, 1, Half)
<1>1. /\ Chunk \in Nat /\ Half \in Nat /\ Chunk = Half + Half
      /\ start \in Nat /\ Len(r) \in Nat /\ start <= Chunk
  BY HalfOfChunk
<1>2. text \in Seq(Byte) /\ Len(text) = Chunk
  OBVIOUS
<1>3. SubSeq(text, start + 1, Len(text)) = r /\ SubSeq(text, 1, start) = l
  <2>1. SubSeq(text, start + 1, Len(text)) = r
    BY SubSeqSecond
  <2>2. SubSeq(text, 1, start) = l
    BY <1>1
  <2>3. QED
    BY <2>1, <2>2
<1> HIDE DEF text, start
<1>4. /\ upper \in Seq(Byte) /\ lower \in Seq(Byte)
      /\ Len(upper) = Half /\ Len(lower) = Half
  BY <1>1, <1>2
<1>5. ASSUME start <= Half
      PROVE  /\ SubSeq(text, start + 1, Half) \in Seq(Byte)
             /\ Len(SubSeq(text, start + 1, Half)) = Half - start
             /\ SubSeq(text, start + 1, Half) \o upper = r
  <2>1. /\ SubSeq(text, start + 1, Half) \in Seq(Byte)
        /\ Len(SubSeq(text, start + 1, Half)) = Half - start
    BY <1>1, <1>2, <1>5
  <2>2. SubSeq(text, start + 1, Half) \o upper = SubSeq(text, start + 1, Chunk)
    <3>1. /\ start + 1 \in 1 .. Len(text) + 1 /\ Half \in (start + 1) - 1 .. Len(text)
          /\ Chunk \in Half .. Len(text)
      BY <1>1, <1>2, <1>5
    <3>2. QED
      BY <1>2, <3>1, ConcatAdjacentSubSeq
  <2>3. QED
    BY <1>2, <1>3, <2>1, <2>2
<1>6. ASSUME start > Half
      PROVE  /\ SubSeq(text, Half + 1, start) \in Seq(Byte)
             /\ Len(SubSeq(text, Half + 1, start)) = start - Half
             /\ lower \o SubSeq(text, Half + 1, start) = l
  <2>1. /\ SubSeq(text, Half + 1, start) \in Seq(Byte)
        /\ Len(SubSeq(text, Half + 1, start)) = start - Half
    BY <1>1, <1>2, <1>6
  <2>2. lower \o SubSeq(text, Half + 1, start) = SubSeq(text, 1, start)
    <3>1. /\ 1 \in 1 .. Len(text) + 1 /\ Half \in 1 - 1 .. Len(text)
          /\ start \in Half .. Len(text)
      BY <1>1, <1>2, <1>6
    <3>2. QED
      BY <1>2, <3>1, ConcatAdjacentSubSeq
  <2>3. QED
    BY <1>3, <2>1, <2>2
<1>7. QED
  BY <1>4, <1>5, <1>6 DEF text, start

\* The upper half of a full point becomes the chunk after it, and m of what
\* was after the gap stays in the point.
UpperMoved(b, d, m, u) ==
    /\ m \in Seq(Byte) /\ u \in Seq(Byte)
    /\ m \o u = b.point.right /\ Len(u) = Half /\ Len(b.point.left) + Len(m) = Half
    /\ d = [lefts |-> b.lefts,
            point |-> [left |-> b.point.left, right |-> m],
            rights |-> <<[left |-> <<>>, right |-> u]>> \o b.rights,
            point_position |-> b.point_position]

\* The lower half becomes the chunk before it, and m of what was before the
\* gap stays.
LowerMoved(b, d, w, m) ==
    /\ w \in Seq(Byte) /\ m \in Seq(Byte)
    /\ w \o m = b.point.left /\ Len(w) = Half /\ Len(m) + Len(b.point.right) = Half
    /\ d = [lefts |-> Append(b.lefts, [left |-> w, right |-> <<>>]),
            point |-> [left |-> m, right |-> b.point.right],
            rights |-> b.rights,
            point_position |-> b.point_position]

\* split_point does the one or the other.
LEMMA SplitParts ==
    ASSUME NEW b \in Buffers, gapbuf_full(b.point)
    PROVE  \/ \E m, u : UpperMoved(b, split_point(b), m, u)
           \/ \E w, m : LowerMoved(b, split_point(b), w, m)
<1> DEFINE ls == b.lefts
           rs == b.rights
           l == b.point.left
           r == b.point.right
           q == b.point_position
           d == split_point(b)
           text == l \o r
           start == Len(l)
           upper == SubSeq(text, Half + 1, Chunk)
           lower == SubSeq(text, 1, Half)
<1>1. /\ ls \in Seq(LeftCell) /\ rs \in Seq(RightCell) /\ q \in Place
      /\ ls \in Seq(Cell) /\ rs \in Seq(Cell)
      /\ l \in Seq(Byte) /\ r \in Seq(Byte)
      /\ b = [lefts |-> ls, point |-> b.point, rights |-> rs, point_position |-> q]
      /\ b.point = [left |-> l, right |-> r]
  <2>1. b.point = [left |-> l, right |-> r]
    BY BufferParts, CellText DEF CursorsOver
  <2>2. QED
    BY <2>1, BufferParts, CellText
<1>2. Len(l) + Len(r) = Chunk
  <2>1. Size(b.point) = Chunk /\ Size(b.point) = Len(b.point.left) + Len(b.point.right)
    BY BufferParts, CellText DEF gapbuf_full
  <2>2. QED
    BY <2>1
<1>3. /\ Chunk \in Nat /\ Half \in Nat \ {0} /\ Chunk = Half + Half /\ Half < Chunk
  BY HalfOfChunk
<1>4. Text(b.point) = text
  BY DEF Text
<1>5. /\ upper \in Seq(Byte) /\ lower \in Seq(Byte)
      /\ Len(upper) = Half /\ Len(lower) = Half
  <2> HIDE DEF l, r
  <2>1. QED
    BY <1>1, <1>2, CutInHalf
<1>6. CASE start <= Half
  <2> DEFINE m == SubSeq(text, start + 1, Half)
             c == [left |-> l, right |-> m]
             e == [left |-> <<>>, right |-> upper]
  <2>1. m \in Seq(Byte) /\ Len(m) = Half - start /\ m \o upper = r
    <3> HIDE DEF l, r
    <3>1. QED
      BY <1>1, <1>2, <1>6, CutInHalf
  <2>2. d = [lefts |-> ls, point |-> c, rights |-> <<e>> \o rs, point_position |-> q]
    <3> DEFINE z == <<e>> \o rs
    <3>1. d = [b EXCEPT !.point.right = m, !.rights = z]
      BY <1>4, <1>6 DEF split_point
    <3> HIDE DEF m, z, d, ls, rs, q, l, r
    <3>2. PICK f : f = [b EXCEPT !.point.right = m]
      OBVIOUS
    <3>3. d = [f EXCEPT !.rights = z]
      BY <3>1, <3>2
    <3>4. PICK p : p = [b.point EXCEPT !.right = m]
      OBVIOUS
    <3>5. p = [left |-> l, right |-> m]
      BY <1>1, <3>4
    <3>6. f = [b EXCEPT !.point = p]
      BY <3>2, <3>4
    <3>7. PICK w : w = b.point
      OBVIOUS
    <3>8. b = [lefts |-> ls, point |-> w, rights |-> rs, point_position |-> q]
      BY <1>1, <3>7
    <3>9. f = [lefts |-> ls, point |-> p, rights |-> rs, point_position |-> q]
      BY <3>6, <3>8
    <3>10. QED
      BY <3>3, <3>5, <3>9 DEF z
  <2>3. Len(l) + Len(m) = Half
    <3>1. Len(l) \in Nat
      BY <1>1
    <3> HIDE DEF l, m
    <3>2. QED
      BY <1>3, <2>1, <3>1
  <2> HIDE DEF m, upper
  <2>4. UpperMoved(b, d, m, upper)
    BY <1>5, <2>1, <2>2, <2>3 DEF UpperMoved
  <2>5. QED
    BY <2>4
<1>7. CASE ~(start <= Half)
  <2> DEFINE m == SubSeq(text, Half + 1, start)
             c == [left |-> m, right |-> r]
             e == [left |-> lower, right |-> <<>>]
  <2>1. m \in Seq(Byte) /\ Len(m) = start - Half /\ lower \o m = l /\ start > Half
    <3>1. start \in Nat /\ start > Half
      BY <1>1, <1>3, <1>7
    <3> HIDE DEF l, r
    <3>2. QED
      BY <1>1, <1>2, <3>1, CutInHalf
  <2>2. d = [lefts |-> Append(ls, e), point |-> c, rights |-> rs, point_position |-> q]
    <3> DEFINE z == Append(ls, e)
    <3>1. d = [b EXCEPT !.point.left = m, !.lefts = z]
      BY <1>4, <1>7 DEF split_point
    <3> HIDE DEF m, z, d, ls, rs, q, l, r
    <3>2. PICK f : f = [b EXCEPT !.point.left = m]
      OBVIOUS
    <3>3. d = [f EXCEPT !.lefts = z]
      BY <3>1, <3>2
    <3>4. PICK p : p = [b.point EXCEPT !.left = m]
      OBVIOUS
    <3>5. p = [left |-> m, right |-> r]
      BY <1>1, <3>4
    <3>6. f = [b EXCEPT !.point = p]
      BY <3>2, <3>4
    <3>7. PICK w : w = b.point
      OBVIOUS
    <3>8. b = [lefts |-> ls, point |-> w, rights |-> rs, point_position |-> q]
      BY <1>1, <3>7
    <3>9. f = [lefts |-> ls, point |-> p, rights |-> rs, point_position |-> q]
      BY <3>6, <3>8
    <3>10. QED
      BY <3>3, <3>5, <3>9 DEF z
  <2>3. Len(m) + Len(r) = Half
    <3>1. Len(l) \in Nat /\ Len(r) \in Nat
      BY <1>1
    <3> HIDE DEF l, m, r
    <3>2. QED
      BY <1>2, <1>3, <2>1, <3>1
  <2> HIDE DEF m, lower
  <2>4. LowerMoved(b, d, lower, m)
    BY <1>5, <2>1, <2>2, <2>3 DEF LowerMoved
  <2>5. QED
    BY <2>4
<1>8. QED
  BY <1>6, <1>7

\* split_point makes room and does not change the text or the cursor.
LEMMA SplitKeepsView ==
    ASSUME NEW b \in Buffers, gapbuf_full(b.point)
    PROVE  /\ split_point(b) \in Buffers
           /\ gapbuf_gap_size(split_point(b).point) > 0
           /\ split_point(b).point_position = b.point_position
           /\ View(split_point(b)) = View(b)
<1> DEFINE ls == b.lefts
           rs == b.rights
           l == b.point.left
           r == b.point.right
           q == b.point_position
           d == split_point(b)
           j == Join(ls)
           k == Join(rs)
<1>1. /\ ls \in Seq(LeftCell) /\ rs \in Seq(RightCell) /\ q \in Place
      /\ ls \in Seq(Cell) /\ rs \in Seq(Cell)
      /\ l \in Seq(Byte) /\ r \in Seq(Byte)
      /\ b = [lefts |-> ls, point |-> b.point, rights |-> rs, point_position |-> q]
      /\ b.point = [left |-> l, right |-> r]
  <2>1. b.point = [left |-> l, right |-> r]
    BY BufferParts, CellText DEF CursorsOver
  <2>2. QED
    BY <2>1, BufferParts, CellText
<1>2. Chunk \in Nat /\ Half \in Nat \ {0} /\ Chunk = Half + Half
  BY HalfOfChunk
<1>3. View(b).left = j \o l /\ View(b).right = r \o k /\ View(b) \in CursorsOver(Byte)
      /\ j \in Seq(Byte) /\ k \in Seq(Byte)
  BY BufferView
<1>4. ASSUME NEW m, NEW upper, UpperMoved(b, d, m, upper)
      PROVE  /\ d \in Buffers
             /\ gapbuf_gap_size(d.point) > 0
             /\ d.point_position = q
             /\ View(d) = View(b)
  <2> DEFINE c == [left |-> l, right |-> m]
             e == [left |-> <<>>, right |-> upper]
  <2>1. /\ m \in Seq(Byte) /\ upper \in Seq(Byte) /\ m \o upper = r
        /\ Len(upper) = Half /\ Len(l) + Len(m) = Half
    BY <1>4 DEF UpperMoved
  <2>2. d = [lefts |-> ls, point |-> c, rights |-> <<e>> \o rs, point_position |-> q]
    BY <1>4 DEF UpperMoved
  <2>3. Len(l) \in Nat
    BY <1>1
  <2> HIDE DEF l, r, ls, rs, q, d, j, k
  <2>4. c.left = l /\ c.right = m
    OBVIOUS
  <2>5. c \in CursorsOver(Byte) /\ Size(c) = Half
    <3>1. c \in CursorsOver(Byte)
      BY <1>1, <2>1 DEF CursorsOver
    <3>2. Size(c) = Len(l) + Len(m)
      BY <2>4 DEF Size
    <3>3. QED
      BY <2>1, <3>1, <3>2
  <2>6. e \in CursorsOver(Byte) /\ Size(e) = Half /\ e.left = <<>> /\ e.right = upper
        /\ Text(e) = <<>> \o upper
    BY <1>2, <2>1 DEF CursorsOver, Size, Text
  <2>7. c \in Cell /\ ~gapbuf_empty(c) /\ gapbuf_gap_size(c) > 0
    BY <1>2, <2>5 DEF Cell, gapbuf_empty, gapbuf_gap_size
  <2>8. e \in Cell /\ e \in RightCell
    BY <1>2, <2>6 DEF Cell, RightCell, gapbuf_empty, gapbuf_at_left
  <2>9. Join(<<e>> \o rs) = upper \o k
    <3>1. <<>> \o upper = upper
      BY <2>1
    <3>2. QED
      BY <1>1, <2>6, <2>8, <3>1, JoinCons DEF k
  <2> HIDE DEF c, e
  <2>10. <<e>> \o rs \in Seq(RightCell)
    <3>1. <<e>> \in Seq(RightCell)
      BY <2>8
    <3>2. QED
      BY <1>1, <3>1
  <2>11. d \in Buffers
    BY <1>1, <2>2, <2>7, <2>10, BufferMade
  <2>12. d.lefts = ls /\ d.point = c /\ d.rights = <<e>> \o rs /\ d.point_position = q
    BY <2>2
  <2>13. View(d).left = j \o l /\ View(d).right = m \o (upper \o k)
         /\ View(d) \in CursorsOver(Byte)
    BY <2>4, <2>9, <2>11, <2>12, BufferView DEF j
  <2>14. m \o (upper \o k) = r \o k
    <3>1. (m \o upper) \o k = m \o (upper \o k)
      <4>1. m \in Seq(Byte) /\ upper \in Seq(Byte) /\ k \in Seq(Byte)
        BY <1>3, <2>1
      <4>2. QED
        BY <4>1, ConcatThree
    <3>2. QED
      BY <2>1, <3>1
  <2>15. View(d) = View(b)
    BY <1>3, <2>13, <2>14, SameCursor
  <2>16. QED
    BY <2>7, <2>11, <2>12, <2>15 DEF d, q
<1>5. ASSUME NEW lower, NEW m, LowerMoved(b, d, lower, m)
      PROVE  /\ d \in Buffers
             /\ gapbuf_gap_size(d.point) > 0
             /\ d.point_position = q
             /\ View(d) = View(b)
  <2> DEFINE c == [left |-> m, right |-> r]
             e == [left |-> lower, right |-> <<>>]
  <2>1. /\ m \in Seq(Byte) /\ lower \in Seq(Byte) /\ lower \o m = l
        /\ Len(lower) = Half /\ Len(m) + Len(r) = Half
    BY <1>5 DEF LowerMoved
  <2>2. d = [lefts |-> Append(ls, e), point |-> c, rights |-> rs, point_position |-> q]
    BY <1>5 DEF LowerMoved
  <2>3. Len(l) \in Nat /\ Len(r) \in Nat
    BY <1>1
  <2> HIDE DEF l, r, ls, rs, q, d, j, k
  <2>4. c.left = m /\ c.right = r
    OBVIOUS
  <2>5. c \in CursorsOver(Byte) /\ Size(c) = Half
    <3>1. c \in CursorsOver(Byte)
      BY <1>1, <2>1 DEF CursorsOver
    <3>2. Size(c) = Len(m) + Len(r)
      BY <2>4 DEF Size
    <3>3. QED
      BY <2>1, <3>1, <3>2
  <2>6. e \in CursorsOver(Byte) /\ Size(e) = Half /\ e.right = <<>>
        /\ Text(e) = lower \o <<>>
    BY <1>2, <2>1 DEF CursorsOver, Size, Text
  <2>7. c \in Cell /\ ~gapbuf_empty(c) /\ gapbuf_gap_size(c) > 0
    BY <1>2, <2>5 DEF Cell, gapbuf_empty, gapbuf_gap_size
  <2>8. e \in Cell /\ e \in LeftCell
    BY <1>2, <2>6 DEF Cell, LeftCell, gapbuf_empty, gapbuf_at_right
  <2>9. Join(Append(ls, e)) = j \o lower
    <3>1. lower \o <<>> = lower
      BY <2>1
    <3>2. QED
      BY <1>1, <2>6, <2>8, <3>1, JoinAppend DEF j
  <2> HIDE DEF c, e
  <2>10. Append(ls, e) \in Seq(LeftCell)
    BY <1>1, <2>8
  <2>11. d \in Buffers
    BY <1>1, <2>2, <2>7, <2>10, BufferMade
  <2>12. d.lefts = Append(ls, e) /\ d.point = c /\ d.rights = rs /\ d.point_position = q
    BY <2>2
  <2>13. View(d).left = (j \o lower) \o m /\ View(d).right = r \o k
         /\ View(d) \in CursorsOver(Byte)
    BY <2>4, <2>9, <2>11, <2>12, BufferView DEF k
  <2>14. (j \o lower) \o m = j \o l
    <3>1. (j \o lower) \o m = j \o (lower \o m)
      <4>1. m \in Seq(Byte) /\ lower \in Seq(Byte) /\ j \in Seq(Byte)
        BY <1>3, <2>1
      <4>2. QED
        BY <4>1, ConcatThree
    <3>2. QED
      BY <2>1, <3>1
  <2>15. View(d) = View(b)
    BY <1>3, <2>13, <2>14, SameCursor
  <2>16. QED
    BY <2>7, <2>11, <2>12, <2>15 DEF d, q
<1>6. QED
  BY <1>4, <1>5, SplitParts DEF d, q

-----------------------------------------------------------------------------
(***************************************************************************)
(* forward_char: one codepoint forward, in one chunk or in two.            *)
(***************************************************************************)

\* Where the byte after the point is.
LEMMA EnteredBuffer ==
    ASSUME NEW b \in Buffers, ~AtEnd(b)
    PROVE  /\ Entered(b) \in Buffers
           /\ Entered(b).point_position = b.point_position
           /\ View(Entered(b)) = View(b)
           /\ Entered(b).point.right # <<>>
           /\ NextByte(b) \in Byte
           /\ View(b).right # <<>>
           /\ NextByte(b) = View(b).right[1]
<1> DEFINE d == Entered(b)
<1>1. /\ d \in Buffers /\ d.point_position = b.point_position /\ View(d) = View(b)
      /\ d.point.right # <<>>
  <2>1. CASE gapbuf_at_right(b.point)
    <3>1. b.rights # <<>>
      BY <2>1 DEF AtEnd
    <3>2. d = NextChunk(b)
      BY <2>1 DEF Entered
    <3> HIDE DEF d
    <3>3. QED
      BY <2>1, <3>1, <3>2, ToNextChunk
  <2>2. CASE ~gapbuf_at_right(b.point)
    BY <2>2 DEF Entered, gapbuf_at_right
  <2>3. QED
    BY <2>1, <2>2
<1>2. NextByte(b) = Head(d.point.right)
  BY DEF NextByte
<1> DEFINE r == d.point.right
           k == Join(d.rights)
<1> HIDE DEF d
<1>3. r \in Seq(Byte) /\ r # <<>> /\ k \in Seq(Byte) /\ View(d).right = r \o k
  BY <1>1, BufferView, BufferParts, CellText
<1> HIDE DEF r, k
<1>4. Head(r) \in Byte /\ r \o k # <<>> /\ Head(r) = (r \o k)[1]
  BY <1>3
<1>5. QED
  BY <1>1, <1>2, <1>3, <1>4 DEF d, r

\* forward_char, where its assertions hold, moves the cursor over as many
\* bytes as the next one says, and counts it.
LEMMA ForwardChar ==
    ASSUME NEW b \in Buffers, ~AtEnd(b), forward_char_asserts(b)
    PROVE  /\ forward_char(b) \in Buffers
           /\ CharSize(NextByte(b)) \in 0 .. Len(View(b).right)
           /\ CharSize(NextByte(b)) > 0
           /\ View(forward_char(b)) = Advanced(View(b), CharSize(NextByte(b)))
           /\ forward_char(b).point_position
                = Stepped(b.point_position, NextByte(b))
<1> DEFINE from == Entered(b)
           ch == NextByte(b)
           size == CharSize(ch)
           have == Len(from.point.right)
           over == [from EXCEPT !.point = Advanced(@, have)]
           next == NextChunk(over)
           moved == IF size <= have
                    THEN [from EXCEPT !.point = Advanced(@, size)]
                    ELSE [next EXCEPT !.point = Advanced(@, size - have)]
<1>1. /\ from \in Buffers /\ from.point_position = b.point_position
      /\ View(from) = View(b) /\ from.point.right # <<>>
  BY EnteredBuffer
<1>2. /\ size > 0 /\ size \in Nat
      /\ size - have > 0 => /\ from.rights # <<>>
                            /\ size - have <= Len(Head(from.rights).right)
  BY CharSizes DEF forward_char_asserts
<1>3. forward_char(b) = [moved EXCEPT !.point_position = Stepped(@, ch)]
  BY DEF forward_char
<1> HIDE DEF from, ch, size
<1>4. have \in Nat
  <2> DEFINE r == from.point.right
  <2>1. r \in Seq(Byte)
    BY <1>1, BufferParts, CellText
  <2> HIDE DEF r
  <2>2. Len(r) \in Nat
    BY <2>1
  <2>3. QED
    BY <2>2 DEF r
<1> DEFINE Moved(m) == /\ m \in Buffers /\ size \in 0 .. Len(View(b).right)
                       /\ View(m) = Advanced(View(b), size)
                       /\ m.point_position = b.point_position
<1>5. ASSUME size <= have
      PROVE  Moved(moved)
  <2>1. size \in 0 .. Len(from.point.right)
    BY <1>2, <1>4, <1>5
  <2>2. moved = [from EXCEPT !.point = Advanced(@, size)]
    BY <1>5
  <2> HIDE DEF moved
  <2>3. /\ moved \in Buffers /\ moved.point_position = from.point_position
        /\ size \in 0 .. Len(View(from).right)
        /\ View(moved) = Advanced(View(from), size)
    BY <1>1, <2>1, <2>2, PointAdvances
  <2>4. QED
    BY <1>1, <2>3
<1>6. ASSUME ~(size <= have)
      PROVE  Moved(moved)
  <2> DEFINE rest == size - have
  <2>1. /\ rest \in Nat /\ rest > 0 /\ from.rights # <<>> /\ have + rest = size
        /\ rest <= Len(Head(from.rights).right)
    BY <1>2, <1>4, <1>6
  <2>2. have \in 0 .. Len(from.point.right)
    BY <1>4
  <2>3. moved = [next EXCEPT !.point = Advanced(@, rest)]
    BY <1>6
  <2> HIDE DEF moved, rest, next
  <2>4. /\ over \in Buffers /\ over.point_position = from.point_position
        /\ over.point = Advanced(from.point, have)
        /\ over.rights = from.rights
        /\ have \in 0 .. Len(View(from).right)
        /\ View(over) = Advanced(View(from), have)
    <3> HIDE DEF have
    <3>1. QED
      BY <1>1, <2>2, PointAdvances DEF have
  <2> HIDE DEF over
  <2>5. gapbuf_at_right(over.point)
    <3>1. from.point \in CursorsOver(Byte)
      BY <1>1, BufferView
    <3>2. over.point.right = SubSeq(from.point.right, have + 1, Len(from.point.right))
      BY <2>4 DEF Advanced
    <3> DEFINE r == from.point.right
    <3>3. r \in Seq(Byte)
      BY <3>1 DEF CursorsOver
    <3> HIDE DEF r
    <3>4. SubSeq(r, Len(r) + 1, Len(r)) = <<>>
      BY <3>3
    <3>5. QED
      BY <3>2, <3>4 DEF r, gapbuf_at_right
  <2>6. /\ next \in Buffers /\ next.point = Head(over.rights)
        /\ next.point_position = over.point_position
        /\ View(next) = View(over)
    BY <2>1, <2>4, <2>5, ToNextChunk DEF next
  <2>7. rest \in 0 .. Len(next.point.right)
    <3> DEFINE r == next.point.right
    <3>1. r \in Seq(Byte) /\ rest <= Len(r)
      BY <2>1, <2>4, <2>6, BufferParts, CellText
    <3> HIDE DEF r
    <3>2. rest \in 0 .. Len(r)
      BY <2>1, <3>1
    <3>3. QED
      BY <3>2 DEF r
  <2>8. /\ moved \in Buffers /\ moved.point_position = next.point_position
        /\ rest \in 0 .. Len(View(next).right)
        /\ View(moved) = Advanced(View(next), rest)
    BY <2>3, <2>6, <2>7, PointAdvances
  <2> DEFINE v == View(b)
             w == Advanced(v, have)
  <2>9. View(next) = w /\ have \in 0 .. Len(v.right) /\ v \in CursorsOver(Byte)
    BY <1>1, <2>4, <2>6, BufferView
  <2>10. have + rest <= Len(v.right)
    <3>1. Len(w.right) = Len(v.right) - have
      BY <2>9, Sizes
    <3>2. rest \in 0 .. Len(w.right)
      BY <2>8, <2>9
    <3> HIDE DEF w, have
    <3> DEFINE n == Len(v.right)
    <3>3. n \in Nat
      <4> DEFINE r == v.right
      <4>1. r \in Seq(Byte)
        BY <2>9 DEF CursorsOver
      <4> HIDE DEF r
      <4>2. Len(r) \in Nat
        BY <4>1
      <4>3. QED
        BY <4>2 DEF r
    <3> HIDE DEF n, v
    <3>4. rest \in 0 .. n - have
      BY <3>1, <3>2 DEF n
    <3>5. have + rest <= n
      BY <1>4, <2>1, <3>3, <3>4
    <3>6. QED
      BY <3>5 DEF n
  <2>11. size \in 0 .. Len(v.right) /\ Advanced(w, rest) = Advanced(v, size)
    <3> HIDE DEF v, have
    <3>1. have + rest \in 0 .. Len(v.right) /\ Advanced(Advanced(v, have), rest) = Advanced(v, have + rest)
      BY <1>4, <2>1, <2>9, <2>10, AdvancedTwice
    <3>2. QED
      BY <2>1, <3>1
  <2>12. QED
    BY <1>1, <2>4, <2>6, <2>8, <2>9, <2>11
<1> HIDE DEF moved
<1>7. Moved(moved)
  <2> HIDE DEF Moved
  <2>1. QED
    BY <1>5, <1>6
<1>8. Stepped(moved.point_position, ch) \in Place
  <2>1. moved.point_position \in Place
    BY <1>7, BufferParts
  <2>2. QED
    BY <2>1 DEF Place, Stepped
<1>9. QED
  BY <1>2, <1>3, <1>7, <1>8, NewPosition DEF ch, size

-----------------------------------------------------------------------------
(***************************************************************************)
(* textbuf_rewind: back to the start of the text.                          *)
(***************************************************************************)

\* Moving back over all of the text before the cursor.
LEMMA RetreatedToStart ==
    ASSUME NEW c \in CursorsOver(Byte)
    PROVE  /\ Retreated(c, Len(c.left)) = [left |-> <<>>, right |-> Text(c)]
           /\ Len(c.left) \in 0 .. Len(c.left)
<1> DEFINE l == c.left
           r == c.right
<1>1. l \in Seq(Byte) /\ r \in Seq(Byte)
  BY DEF CursorsOver
<1>2. Retreated(c, Len(l)) = [left |-> SubSeq(l, 1, Len(l) - Len(l)),
                              right |-> SubSeq(l, Len(l) - Len(l) + 1, Len(l)) \o r]
  BY DEF Retreated
<1>3. Text(c) = l \o r
  BY DEF Text
<1> HIDE DEF l, r
<1>4. Len(l) \in Nat /\ Len(l) - Len(l) = 0 /\ 0 + 1 = 1
  BY <1>1
<1>5. SubSeq(l, 1, 0) = <<>> /\ SubSeq(l, 1, Len(l)) = l
  BY <1>1
<1>6. Retreated(c, Len(l)) = [left |-> <<>>, right |-> l \o r]
  BY <1>2, <1>4, <1>5
<1>7. QED
  BY <1>3, <1>4, <1>6 DEF l

\* The gap of a chunk at its left: the same text, and what may come after
\* the point unless it is empty.
LEMMA MovedBack ==
    ASSUME NEW c \in Cell
    PROVE  LET back == Retreated(c, Len(c.left))
           IN  /\ back \in Cell /\ back.left = <<>> /\ back.right = Text(c)
               /\ Text(back) = Text(c) /\ Size(back) = Size(c)
               /\ ~gapbuf_empty(c) => back \in RightCell
<1> DEFINE back == Retreated(c, Len(c.left))
           t == Text(c)
<1>1. c \in CursorsOver(Byte) /\ t \in Seq(Byte) /\ Len(t) = Size(c) /\ Size(c) <= Chunk
      /\ Size(c) \in Nat
  BY CellText
<1>2. back = [left |-> <<>>, right |-> t]
  BY <1>1, RetreatedToStart
<1> HIDE DEF back, t
<1>3. back.left = <<>> /\ back.right = t
  BY <1>2
<1>4. back \in CursorsOver(Byte)
  BY <1>1, <1>2 DEF CursorsOver
<1>5. Text(back) = t /\ Size(back) = Size(c)
  <2>1. <<>> \o t = t /\ Len(<<>>) + Len(t) = Size(c)
    BY <1>1
  <2>2. QED
    BY <1>3, <2>1 DEF Text, Size
<1>6. back \in Cell
  BY <1>1, <1>4, <1>5 DEF Cell
<1>7. ~gapbuf_empty(c) => back \in RightCell
  BY <1>3, <1>5, <1>6 DEF RightCell, gapbuf_empty, gapbuf_at_left
<1>8. QED
  BY <1>3, <1>5, <1>6, <1>7 DEF back, t

\* textbuf_rewind puts the cursor at the start of an unchanged text.
LEMMA RewoundToStart ==
    ASSUME NEW b \in Buffers
    PROVE  /\ textbuf_rewind(b) \in Buffers
           /\ textbuf_rewind(b).point_position = Origin
           /\ View(textbuf_rewind(b)) = [left |-> <<>>, right |-> Text(View(b))]
<1> DEFINE back(gb) == Retreated(gb, Len(gb.left))
           ls == b.lefts
           rs == b.rights
           p == b.point
           ms == [i \in DOMAIN ls |-> back(ls[i])]
           cs == ms \o <<back(p)>>
           chunks == cs \o rs
           d == textbuf_rewind(b)
           j == Join(ls)
           k == Join(rs)
<1>1. /\ ls \in Seq(LeftCell) /\ p \in Cell /\ rs \in Seq(RightCell)
      /\ ls \in Seq(Cell) /\ rs \in Seq(Cell)
      /\ gapbuf_empty(p) => ls = <<>> /\ rs = <<>>
      /\ j \in Seq(Byte) /\ k \in Seq(Byte)
  BY BufferParts, JoinConcat
<1>2. d = [lefts |-> <<>>, point |-> Head(chunks), rights |-> Tail(chunks),
           point_position |-> Origin]
  BY DEF textbuf_rewind
<1>3. View(b).left = j \o p.left /\ View(b).right = p.right \o k
      /\ p.left \in Seq(Byte) /\ p.right \in Seq(Byte)
  BY BufferView, BufferParts, CellText
<1> HIDE DEF ls, rs, p, d, j, k
<1>4. \A c \in Cell : /\ back(c) \in Cell /\ back(c).left = <<>>
                      /\ back(c).right = Text(c) /\ Text(back(c)) = Text(c)
                      /\ ~gapbuf_empty(c) => back(c) \in RightCell
  BY MovedBack
<1>5. ms \in Seq(RightCell) /\ Len(ms) = Len(ls)
      /\ \A i \in 1 .. Len(ls) : ms[i] = back(ls[i])
  <2>1. ASSUME NEW i \in 1 .. Len(ls)
        PROVE  back(ls[i]) \in RightCell
    <3>1. ls[i] \in LeftCell
      BY <1>1
    <3>2. ls[i] \in Cell /\ ~gapbuf_empty(ls[i])
      BY <3>1 DEF LeftCell
    <3> HIDE DEF back
    <3>3. QED
      BY <1>4, <3>2
  <2> HIDE DEF back
  <2>2. Len(ls) \in Nat /\ DOMAIN ls = 1 .. Len(ls)
    BY <1>1
  <2>3. ms = [i \in 1 .. Len(ls) |-> back(ls[i])]
    BY <2>2
  <2>4. QED
    BY <2>1, <2>2, <2>3
<1> HIDE DEF back, ms
<1>6. ms \in Seq(Cell)
  <2>1. RightCell \subseteq Cell
    BY DEF RightCell
  <2>2. QED
    BY <1>5, <2>1, SeqOfLarger
<1>7. Join(ms) = j
  <2>1. ASSUME NEW i \in 1 .. Len(ms)
        PROVE  Text(ms[i]) = Text(ls[i])
    <3>1. ls[i] \in Cell /\ ms[i] = back(ls[i])
      BY <1>1, <1>5
    <3>2. QED
      BY <1>4, <3>1
  <2>2. QED
    BY <1>1, <1>5, <1>6, <2>1, JoinSame DEF j
<1>8. cs \in Seq(Cell) /\ chunks \in Seq(Cell) /\ Join(chunks) = (j \o Text(p)) \o k
  <2>1. back(p) \in Cell /\ Text(back(p)) = Text(p) /\ <<back(p)>> \in Seq(Cell)
    BY <1>1, <1>4
  <2>2. cs \in Seq(Cell) /\ Join(cs) = j \o Text(p)
    <3> DEFINE one == <<back(p)>>
    <3>1. Join(one) = Text(p)
      BY <2>1, JoinOne
    <3>2. one \in Seq(Cell)
      BY <2>1
    <3> HIDE DEF one
    <3>3. ms \o one \in Seq(Cell) /\ Join(ms \o one) = Join(ms) \o Join(one)
      BY <1>6, <3>2, JoinConcat
    <3>4. QED
      BY <1>7, <3>1, <3>3 DEF one
  <2> HIDE DEF cs
  <2>3. QED
    BY <1>1, <2>2, JoinConcat DEF k
<1> DEFINE h == Head(chunks)
           t == Tail(chunks)
<1>9. /\ h \in Cell /\ t \in Seq(RightCell) /\ h.left = <<>> /\ chunks # <<>>
      /\ gapbuf_empty(h) => t = <<>>
  <2>1. CASE gapbuf_empty(p)
    <3>1. ms = <<>> /\ rs = <<>>
      <4>1. ls = <<>> /\ rs = <<>>
        BY <1>1, <2>1
      <4>2. Len(ms) = 0
        BY <1>5, <4>1
      <4>3. QED
        BY <1>5, <4>1, <4>2
    <3>2. chunks = <<back(p)>>
      BY <3>1
    <3>3. h = back(p) /\ t = <<>>
      BY <3>2
    <3>4. chunks # <<>> /\ <<>> \in Seq(RightCell)
      BY <3>2
    <3>5. back(p) \in Cell /\ back(p).left = <<>>
      BY <1>1, <1>4
    <3> HIDE DEF h, t, chunks
    <3>6. QED
      BY <3>3, <3>4, <3>5
  <2>2. CASE ~gapbuf_empty(p)
    <3>1. back(p) \in RightCell
      BY <1>1, <1>4, <2>2
    <3>2. cs \in Seq(RightCell) /\ cs # <<>>
      <4>1. <<back(p)>> \in Seq(RightCell)
        BY <3>1
      <4>2. QED
        BY <1>5, <4>1
    <3> HIDE DEF cs
    <3>3. chunks \in Seq(RightCell) /\ chunks # <<>>
      BY <1>1, <3>2
    <3> HIDE DEF chunks
    <3>4. h \in RightCell /\ t \in Seq(RightCell)
      BY <3>3
    <3>5. h \in Cell /\ gapbuf_at_left(h) /\ ~gapbuf_empty(h)
      BY <3>4 DEF RightCell
    <3>6. QED
      BY <3>3, <3>4, <3>5 DEF gapbuf_at_left
  <2>3. QED
    BY <2>1, <2>2
<1> HIDE DEF chunks, cs
<1>10. Join(chunks) = Text(h) \o Join(t)
  BY <1>8, <1>9, JoinSplit
<1>11. d \in Buffers /\ d.lefts = <<>> /\ d.point = h /\ d.rights = t
       /\ d.point_position = Origin
  <2>1. Origin \in Place /\ <<>> \in Seq(LeftCell)
    BY DEF Origin, Place
  <2> HIDE DEF h, t
  <2>2. d \in Buffers
    BY <1>2, <1>9, <2>1, BufferMade DEF h, t
  <2>3. QED
    BY <1>2, <2>2 DEF h, t
<1>12. View(d).left = <<>> /\ View(d).right = Join(chunks) /\ View(d) \in CursorsOver(Byte)
  <2>1. View(d).left = Join(<<>>) \o h.left /\ View(d).right = h.right \o Join(t)
        /\ View(d) \in CursorsOver(Byte)
    BY <1>11, BufferView
  <2>2. Text(h) = h.right
    BY <1>9, OneSided DEF gapbuf_at_left
  <2>3. <<>> \o <<>> = <<>>
    OBVIOUS
  <2>4. QED
    BY <1>9, <1>10, <2>1, <2>2, <2>3, JoinNothing
<1>13. (j \o Text(p)) \o k = Text(View(b))
  <2> DEFINE u == p.left
             v == p.right
  <2>1. Text(p) = u \o v /\ Text(View(b)) = (j \o u) \o (v \o k)
    BY <1>3 DEF Text
  <2>2. u \in Seq(Byte) /\ v \in Seq(Byte)
    BY <1>3
  <2> HIDE DEF u, v
  <2>3. (j \o u) \o (v \o k) = ((j \o u) \o v) \o k
    <3>1. j \o u \in Seq(Byte)
      BY <1>1, <2>2
    <3> DEFINE ju == j \o u
    <3> HIDE DEF ju
    <3>2. (ju \o v) \o k = ju \o (v \o k)
      BY <1>1, <2>2, <3>1, ConcatThree DEF ju
    <3>3. QED
      BY <3>2 DEF ju
  <2>4. (j \o u) \o v = j \o (u \o v)
    BY <1>1, <2>2, ConcatThree
  <2>5. QED
    BY <2>1, <2>3, <2>4
<1>14. View(d) = [left |-> <<>>, right |-> Text(View(b))]
  <2> DEFINE r == Text(View(b))
  <2>1. View(d).left = <<>> /\ View(d).right = r
    BY <1>8, <1>12, <1>13
  <2> HIDE DEF r
  <2>2. View(d) = [left |-> <<>>, right |-> r]
    BY <1>12, <2>1 DEF CursorsOver
  <2>3. QED
    BY <2>2 DEF r
<1>15. QED
  BY <1>11, <1>14 DEF d

\* There is no byte after the gap of the last chunk.
LEMMA EndOfView ==
    ASSUME NEW b \in Buffers
    PROVE  AtEnd(b) <=> View(b).right = <<>>
<1>1. CASE AtEnd(b)
  <2>1. b.point.right = <<>> /\ b.rights = <<>>
    BY <1>1 DEF AtEnd, gapbuf_at_right
  <2>2. View(b).right = b.point.right \o Join(b.rights)
    BY BufferView
  <2> QED  BY <1>1, <2>1, <2>2, JoinNothing
<1>2. CASE ~AtEnd(b)
  BY <1>2, EnteredBuffer
<1> QED  BY <1>1, <1>2

\* A text cut into pieces, and the pieces again: the same text.
LEMMA FlattenNested ==
    ASSUME NEW ps \in Seq(Seq(Seq(Byte))), NEW ts \in Seq(Seq(Byte)),
           Len(ts) = Len(ps), \A i \in 1 .. Len(ps) : FlattenSeq(ps[i]) = ts[i]
    PROVE  FlattenSeq(FlattenSeq(ps)) = FlattenSeq(ts)
<1> DEFINE Same(n) ==
        \A qs \in Seq(Seq(Seq(Byte))), us \in Seq(Seq(Byte)) :
           (/\ Len(qs) = n /\ Len(us) = n
            /\ \A i \in 1 .. n : FlattenSeq(qs[i]) = us[i])
             => FlattenSeq(FlattenSeq(qs)) = FlattenSeq(us)
           T == {n \in Nat : Same(n)}
<1>1. 0 \in T
  <2> SUFFICES ASSUME NEW qs \in Seq(Seq(Seq(Byte))), NEW us \in Seq(Seq(Byte)),
                      Len(qs) = 0, Len(us) = 0
               PROVE  FlattenSeq(FlattenSeq(qs)) = FlattenSeq(us)
    OBVIOUS
  <2>1. qs = <<>> /\ us = <<>>
    OBVIOUS
  <2> QED  BY <2>1, FlattenNothing
<1>2. ASSUME NEW n \in Nat, Same(n) PROVE Same(n + 1)
  <2>0. \A qs \in Seq(Seq(Seq(Byte))), us \in Seq(Seq(Byte)) :
          (/\ Len(qs) = n /\ Len(us) = n
           /\ \A i \in 1 .. n : FlattenSeq(qs[i]) = us[i])
             => FlattenSeq(FlattenSeq(qs)) = FlattenSeq(us)
    BY <1>2
  <2> SUFFICES ASSUME NEW qs \in Seq(Seq(Seq(Byte))), NEW us \in Seq(Seq(Byte)),
                      Len(qs) = n + 1, Len(us) = n + 1,
                      \A i \in 1 .. n + 1 : FlattenSeq(qs[i]) = us[i]
               PROVE  FlattenSeq(FlattenSeq(qs)) = FlattenSeq(us)
    OBVIOUS
  <2> DEFINE q == SubSeq(qs, 1, n)
             u == SubSeq(us, 1, n)
             p == qs[n + 1]
             t == us[n + 1]
  <2>1. /\ q \in Seq(Seq(Seq(Byte))) /\ Len(q) = n
        /\ u \in Seq(Seq(Byte)) /\ Len(u) = n
        /\ \A i \in 1 .. n : q[i] = qs[i] /\ u[i] = us[i]
        /\ p \in Seq(Seq(Byte)) /\ t \in Seq(Byte) /\ FlattenSeq(p) = t
    OBVIOUS
  <2>2. qs = q \o <<p>> /\ us = u \o <<t>>
    OBVIOUS
  <2> HIDE DEF q, u, p, t
  <2>3. FlattenSeq(FlattenSeq(q)) = FlattenSeq(u)
    <3>1. \A i \in 1 .. n : FlattenSeq(q[i]) = u[i]
      <4> TAKE i \in 1 .. n
      <4>1. i \in 1 .. n + 1 /\ q[i] = qs[i] /\ u[i] = us[i]
        BY <2>1
      <4> QED  BY <4>1
    <3> QED  BY <2>0, <2>1, <3>1
  <2>4. <<p>> \in Seq(Seq(Seq(Byte))) /\ <<t>> \in Seq(Seq(Byte))
    BY <2>1
  <2>5. FlattenSeq(qs) = FlattenSeq(q) \o p /\ FlattenSeq(q) \in Seq(Seq(Byte))
    <3>1. FlattenSeq(<<p>>) = p
      BY <2>1, FlattenOne
    <3>2. FlattenSeq(q \o <<p>>) = FlattenSeq(q) \o FlattenSeq(<<p>>)
          /\ FlattenSeq(q) \in Seq(Seq(Byte))
      BY <2>1, <2>4, FlattenConcat
    <3> QED  BY <2>2, <3>1, <3>2
  <2>6. FlattenSeq(us) = FlattenSeq(u) \o t
    <3>1. FlattenSeq(<<t>>) = t
      BY <2>1, FlattenOne
    <3>2. FlattenSeq(u \o <<t>>) = FlattenSeq(u) \o FlattenSeq(<<t>>)
      BY <2>1, <2>4, FlattenConcat
    <3> QED  BY <2>2, <3>1, <3>2
  <2>7. FlattenSeq(FlattenSeq(q) \o p) = FlattenSeq(FlattenSeq(q)) \o FlattenSeq(p)
    BY <2>1, <2>5, FlattenConcat
  <2> QED  BY <2>1, <2>3, <2>5, <2>6, <2>7
<1>3. \A n \in Nat : n \in T
  <2> HIDE DEF Same
  <2>1. \A n \in Nat : n \in T => n + 1 \in T
    BY <1>2
  <2> HIDE DEF T
  <2> QED  BY <1>1, <2>1, Inductive
<1> HIDE DEF T
<1>4. Len(ps) \in Nat
  OBVIOUS
<1>5. Same(Len(ps))
  BY <1>3, <1>4 DEF T
<1> QED  BY <1>5

\* What text_buffer_read hands out of a chunk.
PiecesOf(c) ==
    LET some(part) == IF part = <<>> THEN <<>> ELSE <<part>>
    IN  IF gapbuf_full(c) THEN <<Text(c)>> ELSE some(c.left) \o some(c.right)

\* The pieces of a chunk are its text.
LEMMA PiecesAreText ==
    ASSUME NEW c \in Cell
    PROVE  PiecesOf(c) \in Seq(Seq(Byte)) /\ FlattenSeq(PiecesOf(c)) = Text(c)
<1> DEFINE some(part) == IF part = <<>> THEN <<>> ELSE <<part>>
           l == c.left
           r == c.right
<1>1. l \in Seq(Byte) /\ r \in Seq(Byte) /\ Text(c) \in Seq(Byte) /\ Text(c) = l \o r
  BY CellText DEF Text
<1> HIDE DEF l, r
<1>2. ASSUME NEW s \in Seq(Byte)
      PROVE  some(s) \in Seq(Seq(Byte)) /\ FlattenSeq(some(s)) = s
  <2>1. CASE s = <<>>
    BY <2>1, FlattenNothing
  <2>2. CASE s # <<>>
    BY <2>2, FlattenOne
  <2> QED  BY <2>1, <2>2
<1>3. CASE gapbuf_full(c)
  <2>1. PiecesOf(c) = <<Text(c)>>
    BY <1>3 DEF PiecesOf
  <2>2. FlattenSeq(<<Text(c)>>) = Text(c)
    BY <1>1, FlattenOne
  <2>3. <<Text(c)>> \in Seq(Seq(Byte))
    BY <1>1
  <2> QED  BY <2>1, <2>2, <2>3
<1>4. CASE ~gapbuf_full(c)
  <2>1. PiecesOf(c) = some(l) \o some(r)
    BY <1>4 DEF PiecesOf, l, r
  <2>2. /\ some(l) \in Seq(Seq(Byte)) /\ FlattenSeq(some(l)) = l
        /\ some(r) \in Seq(Seq(Byte)) /\ FlattenSeq(some(r)) = r
    BY <1>1, <1>2
  <2> HIDE DEF some
  <2>3. FlattenSeq(some(l) \o some(r)) = FlattenSeq(some(l)) \o FlattenSeq(some(r))
    BY <2>2, FlattenConcat
  <2>4. some(l) \o some(r) \in Seq(Seq(Byte))
    BY <2>2
  <2> QED  BY <1>1, <2>1, <2>2, <2>3, <2>4
<1> QED  BY <1>3, <1>4

\* The chunks of a list, and their texts together.
LEMMA AllChunks ==
    ASSUME NEW b \in Buffers
    PROVE  /\ Chunks(b) \in Seq(Cell)
           /\ Join(Chunks(b)) = Text(View(b))
           /\ tbuf_empty(b) <=> Text(View(b)) = <<>>
<1> DEFINE ls == b.lefts
           rs == b.rights
           c == b.point
           jl == Join(ls)
           jr == Join(rs)
<1>1. /\ ls \in Seq(Cell) /\ rs \in Seq(Cell) /\ c \in Cell
      /\ gapbuf_empty(c) => ls = <<>> /\ rs = <<>>
  BY BufferParts
<1>2. /\ View(b).left = jl \o c.left /\ View(b).right = c.right \o jr
      /\ jl \in Seq(Byte) /\ jr \in Seq(Byte)
  BY BufferView
<1>3. Chunks(b) = ls \o <<c>> \o rs
  BY DEF Chunks
<1> HIDE DEF ls, rs, c, jl, jr
<1>4. /\ ls \o <<c>> \in Seq(Cell)
      /\ Join(ls \o <<c>>) = jl \o Text(c)
  <2>1. <<c>> \in Seq(Cell) /\ Join(<<c>>) = Text(c)
    BY <1>1, JoinOne
  <2> QED  BY <1>1, <2>1, JoinConcat, ZenonT(30) DEF jl
<1>5. /\ Chunks(b) \in Seq(Cell)
      /\ Join(Chunks(b)) = (jl \o Text(c)) \o jr
  BY <1>1, <1>3, <1>4, JoinConcat DEF jr
<1> DEFINE l == c.left
           r == c.right
<1>6. /\ l \in Seq(Byte) /\ r \in Seq(Byte) /\ Text(c) = l \o r
      /\ Size(c) = Len(l) + Len(r)
  BY <1>1, CellText DEF Text
<1>7. Text(View(b)) = (jl \o l) \o (r \o jr)
  BY <1>2 DEF Text
<1> HIDE DEF l, r
<1>8. (jl \o (l \o r)) \o jr = (jl \o l) \o (r \o jr)
  <2> DEFINE x == (jl \o (l \o r)) \o jr
             y == (jl \o l) \o (r \o jr)
  <2>1. \A s, t, u \in Seq(Byte) : (s \o t) \o u = s \o (t \o u) /\ s \o t \in Seq(Byte)
    BY ConcatThree
  <2>2. (jl \o l) \o (r \o jr) = ((jl \o l) \o r) \o jr
    <3>1. jl \o l \in Seq(Byte)
      BY <1>2, <1>6
    <3> QED  BY <1>2, <1>6, <2>1, <3>1, Zenon
  <2>3. (jl \o l) \o r = jl \o (l \o r)
    BY <1>2, <1>6, <2>1
  <2> QED  BY <2>2, <2>3
<1>9. ASSUME tbuf_empty(b) PROVE Text(View(b)) = <<>>
  <2>1. ls = <<>> /\ rs = <<>> /\ Len(l) + Len(r) = 0
    BY <1>1, <1>6, <1>9 DEF tbuf_empty, gapbuf_empty, c
  <2>2. jl = <<>> /\ jr = <<>> /\ l = <<>> /\ r = <<>>
    BY <1>6, <2>1, JoinNothing DEF jl, jr
  <2> QED  BY <1>7, <2>2
<1>10. ASSUME Text(View(b)) = <<>> PROVE tbuf_empty(b)
  <2>1. Len((jl \o l) \o (r \o jr)) = Len(jl) + Len(l) + Len(r) + Len(jr)
    BY <1>2, <1>6
  <2>2. Len((jl \o l) \o (r \o jr)) = 0
    BY <1>7, <1>10
  <2>3. Len(l) + Len(r) = 0
    BY <1>2, <1>6, <2>1, <2>2
  <2> QED  BY <1>6, <2>3 DEF tbuf_empty, gapbuf_empty, c
<1> QED  BY <1>5, <1>6, <1>7, <1>8, <1>9, <1>10

\* text_buffer_read hands out the text.
LEMMA ReadsAll ==
    ASSUME NEW b \in Buffers
    PROVE  FlattenSeq(text_buffer_read(b)) = Text(View(b))
<1> DEFINE cs == Chunks(b)
           ps == [i \in DOMAIN cs |-> PiecesOf(cs[i])]
           ts == TextsOf(cs)
<1>1. cs \in Seq(Cell) /\ Join(cs) = Text(View(b))
  BY AllChunks
<1>2. text_buffer_read(b) = FlattenSeq(ps)
  BY DEF text_buffer_read, PiecesOf
<1>3. Join(cs) = FlattenSeq(ts)
  BY DEF Join, TextsOf
<1> HIDE DEF cs
<1>4. /\ ts \in Seq(Seq(Byte)) /\ Len(ts) = Len(cs)
      /\ \A i \in 1 .. Len(cs) : ts[i] = Text(cs[i])
  BY <1>1, TextsOfCells
<1>5. DOMAIN cs = 1 .. Len(cs) /\ \A i \in 1 .. Len(cs) : cs[i] \in Cell
  BY <1>1
<1>6. /\ ps \in Seq(Seq(Seq(Byte))) /\ Len(ps) = Len(cs)
      /\ \A i \in 1 .. Len(cs) : FlattenSeq(ps[i]) = Text(cs[i])
  <2>1. \A i \in 1 .. Len(cs) : /\ PiecesOf(cs[i]) \in Seq(Seq(Byte))
                                /\ FlattenSeq(PiecesOf(cs[i])) = Text(cs[i])
    BY <1>5, PiecesAreText
  <2>2. ps = [i \in 1 .. Len(cs) |-> PiecesOf(cs[i])]
    BY <1>5
  <2>3. Len(cs) \in Nat
    BY <1>1
  <2>4. ps \in Seq(Seq(Seq(Byte))) /\ Len(ps) = Len(cs)
    BY <2>1, <2>2, <2>3
  <2> QED  BY <2>1, <2>2, <2>4
<1> HIDE DEF ps, ts
<1>7. FlattenSeq(FlattenSeq(ps)) = FlattenSeq(ts)
  BY <1>4, <1>6, FlattenNested
<1> QED  BY <1>1, <1>2, <1>3, <1>7

-----------------------------------------------------------------------------
(***************************************************************************)
(* Texts with a start in every Half + 1 bytes.                             *)
(***************************************************************************)

\* Of Half + 1 bytes in a row one starts a codepoint.
Loose(t) == \A i \in 0 .. Len(t) - (Half + 1) :
               \E j \in 1 .. Half + 1 : ~IsContinuation(t[i + j])

\* An inserted text has a start in every Half + 1 bytes.
LEMMA InsertsLoose == ASSUME NEW s \in Inserts PROVE Loose(s)
<1>1. s \in Seq(Byte) /\ s # <<>> /\ IsUtf8(s)
  BY InsertsAssumption DEF Byte
<1>2. Half \in Nat \ {0}
  BY HalfOfChunk
<1>3. /\ ~IsContinuation(s[1])
      /\ \A p \in 1 .. Len(s) : ~IsContinuation(s[p]) =>
            /\ CharSize(s[p]) \in Nat /\ CharSize(s[p]) > 0 /\ CharSize(s[p]) <= Half + 1
            /\ p + CharSize(s[p]) - 1 < Len(s) => ~IsContinuation(s[p + CharSize(s[p])])
  <2>1. \A p \in 1 .. Len(s) : ~IsContinuation(s[p]) => CharSize(s[p]) <= Half + 1
    BY CodepointsAssumption DEF Starts
  <2> QED  BY <1>1, <2>1, Utf8Bytes, CharSizes
<1> SUFFICES ASSUME NEW i \in 0 .. Len(s) - (Half + 1),
                    \A j \in 1 .. Half + 1 : IsContinuation(s[i + j])
             PROVE  FALSE
  BY DEF Loose
<1>4. i \in Nat /\ i + 1 \in 1 .. Len(s) /\ i + Half + 1 <= Len(s) /\ Len(s) \in Nat
  BY <1>1, <1>2
<1> DEFINE T == {d \in 0 .. i : ~IsContinuation(s[i + 1 - d])}
<1>5. PICK d \in T : \A e \in T : d <= e
  <2>1. i \in T
    BY <1>3, <1>4
  <2>2. T \in SUBSET Nat
    OBVIOUS
  <2> HIDE DEF T
  <2> QED  BY <2>1, <2>2, LeastMember
<1> DEFINE p == i + 1 - d
           k == CharSize(s[p])
<1>6. d \in 0 .. i /\ ~IsContinuation(s[p])
  BY <1>5
<1>7. p \in 1 .. Len(s) /\ p <= i + 1
  BY <1>4, <1>6
<1>8. k \in Nat /\ k > 0 /\ k <= Half + 1
      /\ (p + k - 1 < Len(s) => ~IsContinuation(s[p + k]))
  BY <1>3, <1>6, <1>7
<1> HIDE DEF k
<1>9. p # i + 1
  <2>1. IsContinuation(s[i + 1])
    BY <1>2
  <2> QED  BY <1>6, <2>1
<1>10. p + k <= i + Half + 1 /\ ~IsContinuation(s[p + k])
  BY <1>2, <1>4, <1>7, <1>8, <1>9
<1>11. CASE p + k > i + 1
  <2>1. p + k - i \in 1 .. Half + 1 /\ i + (p + k - i) = p + k
    BY <1>2, <1>4, <1>7, <1>8, <1>10, <1>11
  <2>2. IsContinuation(s[i + (p + k - i)])
    BY <2>1
  <2> QED  BY <1>10, <2>1, <2>2
<1>12. CASE p + k <= i + 1
  <2> DEFINE e == i + 1 - (p + k)
  <2>1. e \in 0 .. i /\ i + 1 - e = p + k /\ e < d
    BY <1>4, <1>6, <1>7, <1>8, <1>12
  <2>2. e \in T
    BY <1>10, <2>1
  <2> QED  BY <1>5, <1>6, <2>1, <2>2
<1> QED  BY <1>4, <1>7, <1>8, <1>11, <1>12

\* Two such texts, the second of whole codepoints, make one.
LEMMA LooseJoined ==
    ASSUME NEW s \in Seq(Byte), NEW t \in Seq(Byte), Loose(s), Loose(t),
           t = <<>> \/ ~IsContinuation(t[1])
    PROVE  Loose(s \o t)
<1>1. Half \in Nat \ {0}
  BY HalfOfChunk
<1>2. /\ Len(s \o t) = Len(s) + Len(t) /\ Len(s) \in Nat /\ Len(t) \in Nat
      /\ \A i \in 1 .. Len(s) : (s \o t)[i] = s[i]
      /\ \A i \in 1 .. Len(t) : (s \o t)[Len(s) + i] = t[i]
  OBVIOUS
<1> DEFINE st == s \o t
<1> HIDE DEF st
<1> SUFFICES ASSUME NEW i \in 0 .. Len(st) - (Half + 1)
             PROVE  \E j \in 1 .. Half + 1 : ~IsContinuation(st[i + j])
  BY DEF Loose, st
<1>3. i \in Nat /\ i + Half + 1 <= Len(s) + Len(t)
  BY <1>1, <1>2 DEF st
<1>4. CASE i + Half + 1 <= Len(s)
  <2>1. i \in 0 .. Len(s) - (Half + 1)
    BY <1>1, <1>2, <1>3, <1>4
  <2>2. PICK j \in 1 .. Half + 1 : ~IsContinuation(s[i + j])
    BY <2>1 DEF Loose
  <2>3. i + j \in 1 .. Len(s)
    BY <1>1, <1>2, <1>3, <1>4
  <2>4. st[i + j] = s[i + j]
    BY <1>2, <2>3 DEF st
  <2> QED  BY <2>2, <2>4
<1>5. CASE i >= Len(s)
  <2>1. i - Len(s) \in 0 .. Len(t) - (Half + 1)
    BY <1>1, <1>2, <1>3, <1>5
  <2>2. PICK j \in 1 .. Half + 1 : ~IsContinuation(t[i - Len(s) + j])
    BY <2>1 DEF Loose
  <2>3. i - Len(s) + j \in 1 .. Len(t) /\ Len(s) + (i - Len(s) + j) = i + j
    BY <1>1, <1>2, <1>3, <1>5
  <2>4. st[i + j] = t[i - Len(s) + j]
    BY <1>2, <2>3 DEF st
  <2> QED  BY <2>2, <2>4
<1>6. CASE i + Half + 1 > Len(s) /\ i < Len(s)
  <2>1. /\ 1 \in 1 .. Len(t)
        /\ Len(s) + 1 - i \in 1 .. Half + 1 /\ i + (Len(s) + 1 - i) = Len(s) + 1
    BY <1>1, <1>2, <1>3, <1>6
  <2>2. t # <<>>
    BY <1>2, <2>1
  <2>3. st[Len(s) + 1] = t[1]
    BY <1>2, <2>1 DEF st
  <2>4. ~IsContinuation(st[i + (Len(s) + 1 - i)])
    BY <2>1, <2>2, <2>3
  <2> QED  BY <2>1, <2>4
<1> QED  BY <1>1, <1>2, <1>3, <1>4, <1>5, <1>6

\* A part of such a text is one.
LEMMA LooseParts ==
    ASSUME NEW s \in Seq(Byte), NEW t \in Seq(Byte), Loose(s \o t)
    PROVE  Loose(s) /\ Loose(t)
<1>1. Half \in Nat \ {0}
  BY HalfOfChunk
<1>2. /\ Len(s \o t) = Len(s) + Len(t) /\ Len(s) \in Nat /\ Len(t) \in Nat
      /\ \A i \in 1 .. Len(s) : (s \o t)[i] = s[i]
      /\ \A i \in 1 .. Len(t) : (s \o t)[Len(s) + i] = t[i]
  OBVIOUS
<1> DEFINE st == s \o t
<1> HIDE DEF st
<1>3. \A i \in 0 .. Len(st) - (Half + 1) :
         \E j \in 1 .. Half + 1 : ~IsContinuation(st[i + j])
  BY DEF Loose, st
<1>4. ASSUME NEW i \in 0 .. Len(s) - (Half + 1)
      PROVE  \E j \in 1 .. Half + 1 : ~IsContinuation(s[i + j])
  <2>1. i \in 0 .. Len(st) - (Half + 1)
    BY <1>1, <1>2, <1>4 DEF st
  <2>2. PICK j \in 1 .. Half + 1 : ~IsContinuation(st[i + j])
    BY <1>3, <2>1
  <2>3. i + j \in 1 .. Len(s)
    BY <1>1, <1>2, <1>4
  <2>4. st[i + j] = s[i + j]
    BY <1>2, <2>3 DEF st
  <2> QED  BY <2>2, <2>4
<1>5. ASSUME NEW i \in 0 .. Len(t) - (Half + 1)
      PROVE  \E j \in 1 .. Half + 1 : ~IsContinuation(t[i + j])
  <2>1. Len(s) + i \in 0 .. Len(st) - (Half + 1)
    BY <1>1, <1>2, <1>5 DEF st
  <2>2. PICK j \in 1 .. Half + 1 : ~IsContinuation(st[Len(s) + i + j])
    BY <1>3, <2>1
  <2>3. i + j \in 1 .. Len(t) /\ Len(s) + (i + j) = Len(s) + i + j
    BY <1>1, <1>2, <1>5
  <2>4. st[Len(s) + i + j] = t[i + j]
    BY <1>2, <2>3 DEF st
  <2> QED  BY <2>2, <2>4
<1> QED  BY <1>4, <1>5 DEF Loose

\* The empty text is loose.
LEMMA LooseNothing == Loose(<<>>)
BY HalfOfChunk DEF Loose

\* Erasing whole codepoints leaves a text with a start often enough.
LEMMA ErasedLoose ==
    ASSUME NEW c, Between(c), Loose(Text(c)), NEW n \in 0 .. Len(c.right),
           Between(Erased(c, n))
    PROVE  Loose(Text(Erased(c, n)))
<1> DEFINE l == c.left
           r == c.right
           x == SubSeq(r, 1, n)
           y == SubSeq(r, n + 1, Len(r))
<1>1. l \in Seq(Byte) /\ r \in Seq(Byte)
  BY CodepointAfter
<1>2. x \in Seq(Byte) /\ y \in Seq(Byte)
  BY <1>1
<1>3. x \o y = r
  BY <1>1, PartsJoin
<1>4. Erased(c, n) = [left |-> l, right |-> y]
  BY DEF Erased
<1>5. y = <<>> \/ ~IsContinuation(y[1])
  <2>1. Erased(c, n).right = y
    BY <1>4
  <2>2. Erased(c, n).right # <<>> => ~IsContinuation(Erased(c, n).right[1])
    BY CodepointAfter
  <2> HIDE DEF y
  <2> QED  BY <2>1, <2>2
<1>6. Loose(l \o r)
  BY DEF Text
<1> HIDE DEF l, r, x, y
<1>7. Loose(l) /\ Loose(r)
  BY <1>1, <1>6, LooseParts
<1>8. Loose(y)
  BY <1>2, <1>3, <1>7, LooseParts
<1>9. Loose(l \o y)
  BY <1>1, <1>2, <1>5, <1>7, <1>8, LooseJoined
<1> QED  BY <1>4, <1>9 DEF Text

\* So does typing whole codepoints.
LEMMA TypedLoose ==
    ASSUME NEW c, Between(c), Loose(Text(c)), NEW s \in Inserts
    PROVE  Loose(Text(Typed(c, s)))
<1> DEFINE l == c.left
           r == c.right
<1>1. /\ l \in Seq(Byte) /\ r \in Seq(Byte)
      /\ r # <<>> => ~IsContinuation(r[1])
  BY CodepointAfter
<1>2. s \in Seq(Byte) /\ Loose(s) /\ ~IsContinuation(s[1])
  BY InsertsLoose, InsertsAssumption, Utf8Bytes DEF Byte
<1>3. Loose(l \o r)
  BY DEF Text
<1> HIDE DEF l, r
<1>4. Loose(l) /\ Loose(r)
  BY <1>1, <1>3, LooseParts
<1>5. Loose(l \o s) /\ l \o s \in Seq(Byte)
  BY <1>1, <1>2, <1>4, LooseJoined
<1>6. Loose((l \o s) \o r)
  BY <1>1, <1>4, <1>5, LooseJoined
<1> QED  BY <1>6 DEF Text, Typed, l, r

-----------------------------------------------------------------------------
(***************************************************************************)
(* The texts of the chunks, one after the other: what the static functions *)
(* do keeps them tied, so that a codepoint lies in two chunks at most and  *)
(* the assertion of forward_char holds.                                    *)
(***************************************************************************)

\* The texts of the chunks, with a text still to type at the point.
TextsWith(b, str) == TextsOf(b.lefts)
                       \o <<(b.point.left \o str) \o b.point.right>>
                       \o TextsOf(b.rights)

\* The texts of the chunks of a list.
LEMMA TextsParts ==
    ASSUME NEW cs \in Seq(Cell)
    PROVE  /\ TextsOf(cs) \in Seq(Seq(Byte)) /\ Len(TextsOf(cs)) = Len(cs)
           /\ TextsOf(cs) = <<>> <=> cs = <<>>
           /\ \A c \in Cell : /\ TextsOf(Append(cs, c)) = TextsOf(cs) \o <<Text(c)>>
                              /\ TextsOf(<<c>> \o cs) = <<Text(c)>> \o TextsOf(cs)
           /\ cs # <<>> => /\ TextsOf(cs) = <<Text(Head(cs))>> \o TextsOf(Tail(cs))
                           /\ TextsOf(cs) = TextsOf(Front(cs)) \o <<Text(Last(cs))>>
                           /\ TextsOf(cs)[1] = Text(Head(cs))
                           /\ TextsOf(cs)[Len(cs)] = Text(Last(cs))
<1>1. \A ds \in Seq(Cell) : /\ TextsOf(ds) \in Seq(Seq(Byte))
                            /\ Len(TextsOf(ds)) = Len(ds)
                            /\ \A i \in 1 .. Len(ds) : TextsOf(ds)[i] = Text(ds[i])
  BY TextsOfCells
<1>2. \A c \in Cell : Text(c) \in Seq(Byte)
  BY CellText
<1>3. \A ss, tt \in Seq(Seq(Byte)) :
         Len(ss) = Len(tt) /\ (\A i \in 1 .. Len(ss) : ss[i] = tt[i]) => ss = tt
  BY SeqEqual
<1>4. ASSUME NEW ds \in Seq(Cell), NEW c \in Cell
      PROVE  /\ TextsOf(Append(ds, c)) = TextsOf(ds) \o <<Text(c)>>
             /\ TextsOf(<<c>> \o ds) = <<Text(c)>> \o TextsOf(ds)
  <2> DEFINE ts == TextsOf(ds)
             x == Text(c)
             ac == Append(ds, c)
             cc == <<c>> \o ds
             as == ts \o <<x>>
             bs == <<x>> \o ts
  <2>1. /\ ts \in Seq(Seq(Byte)) /\ Len(ts) = Len(ds) /\ x \in Seq(Byte)
        /\ \A i \in 1 .. Len(ds) : ts[i] = Text(ds[i])
    BY <1>1, <1>2
  <2>2. /\ ac \in Seq(Cell) /\ Len(ac) = Len(ds) + 1
        /\ \A i \in 1 .. Len(ds) : ac[i] = ds[i]
        /\ ac[Len(ds) + 1] = c
        /\ cc \in Seq(Cell) /\ Len(cc) = Len(ds) + 1
        /\ \A i \in 1 .. Len(ds) : cc[i + 1] = ds[i]
        /\ cc[1] = c /\ Len(ds) \in Nat
    OBVIOUS
  <2> HIDE DEF ts, x
  <2>3. /\ as \in Seq(Seq(Byte)) /\ Len(as) = Len(ds) + 1
        /\ \A i \in 1 .. Len(ds) : as[i] = ts[i]
        /\ as[Len(ds) + 1] = x
        /\ bs \in Seq(Seq(Byte)) /\ Len(bs) = Len(ds) + 1
        /\ \A i \in 1 .. Len(ds) : bs[i + 1] = ts[i]
        /\ bs[1] = x
    <3>0. \A u, v \in Seq(Seq(Byte)) :
             /\ u \o v \in Seq(Seq(Byte)) /\ Len(u \o v) = Len(u) + Len(v)
             /\ \A i \in 1 .. Len(u) : (u \o v)[i] = u[i]
             /\ \A i \in 1 .. Len(v) : (u \o v)[Len(u) + i] = v[i]
      <4> TAKE u, v \in Seq(Seq(Byte))
      <4> QED  BY ConcatMembers
    <3> DEFINE one == <<x>>
    <3>1. one \in Seq(Seq(Byte)) /\ Len(one) = 1 /\ one[1] = x
      BY <2>1
    <3> HIDE DEF one
    <3>2. /\ ts \o one \in Seq(Seq(Byte)) /\ Len(ts \o one) = Len(ds) + 1
          /\ \A i \in 1 .. Len(ds) : (ts \o one)[i] = ts[i]
          /\ (ts \o one)[Len(ds) + 1] = x
      <4>1. ts \o one \in Seq(Seq(Byte))
        BY <2>1, <3>1
      <4>2. /\ Len(ts \o one) = Len(ts) + Len(one)
            /\ \A i \in 1 .. Len(ts) : (ts \o one)[i] = ts[i]
            /\ \A i \in 1 .. Len(one) : (ts \o one)[Len(ts) + i] = one[i]
        BY <2>1, <3>0, <3>1, Zenon
      <4>3. 1 \in 1 .. Len(one)
        BY <3>1
      <4> QED  BY <2>1, <3>1, <4>1, <4>2, <4>3
    <3>3. /\ one \o ts \in Seq(Seq(Byte)) /\ Len(one \o ts) = Len(ds) + 1
          /\ \A i \in 1 .. Len(ds) : (one \o ts)[i + 1] = ts[i]
          /\ (one \o ts)[1] = x
      <4>1. one \o ts \in Seq(Seq(Byte))
        BY <2>1, <3>1
      <4>2. /\ Len(one \o ts) = Len(one) + Len(ts)
            /\ \A i \in 1 .. Len(one) : (one \o ts)[i] = one[i]
            /\ \A i \in 1 .. Len(ts) : (one \o ts)[Len(one) + i] = ts[i]
        BY <2>1, <3>0, <3>1, Zenon
      <4>3. 1 \in 1 .. Len(one)
        BY <3>1
      <4>4. \A i \in 1 .. Len(ds) : i + 1 = 1 + i
        BY <2>2
      <4> QED  BY <2>1, <2>2, <3>1, <4>1, <4>2, <4>3, <4>4
    <3> QED  BY <3>2, <3>3 DEF one
  <2> HIDE DEF ac, cc, as, bs
  <2>4. /\ TextsOf(ac) \in Seq(Seq(Byte)) /\ Len(TextsOf(ac)) = Len(ds) + 1
        /\ \A i \in 1 .. Len(ds) + 1 : TextsOf(ac)[i] = Text(ac[i])
        /\ TextsOf(cc) \in Seq(Seq(Byte)) /\ Len(TextsOf(cc)) = Len(ds) + 1
        /\ \A i \in 1 .. Len(ds) + 1 : TextsOf(cc)[i] = Text(cc[i])
    BY <1>1, <2>2
  <2>5. \A i \in 1 .. Len(ds) + 1 : TextsOf(ac)[i] = as[i]
    <3> TAKE i \in 1 .. Len(ds) + 1
    <3>1. i \in 1 .. Len(ds) \/ i = Len(ds) + 1
      BY <2>2
    <3> QED  BY <2>1, <2>2, <2>3, <2>4, <3>1 DEF x
  <2>6. \A i \in 1 .. Len(ds) + 1 : TextsOf(cc)[i] = bs[i]
    <3> TAKE i \in 1 .. Len(ds) + 1
    <3>1. CASE i = 1
      BY <2>2, <2>3, <2>4, <3>1 DEF x
    <3>2. CASE i # 1
      <4>1. i - 1 \in 1 .. Len(ds) /\ i = (i - 1) + 1
        BY <2>2, <3>2
      <4>2. TextsOf(cc)[i] = Text(ds[i - 1]) /\ bs[i] = ts[i - 1]
        BY <2>2, <2>3, <2>4, <4>1
      <4> QED  BY <2>1, <4>1, <4>2
    <3> QED  BY <3>1, <3>2
  <2>7. TextsOf(ac) = as /\ TextsOf(cc) = bs
    BY <1>3, <2>3, <2>4, <2>5, <2>6
  <2> QED  BY <2>7 DEF ac, cc, as, bs, ts, x
<1>5. ASSUME cs # <<>>
      PROVE  /\ TextsOf(cs) = <<Text(Head(cs))>> \o TextsOf(Tail(cs))
             /\ TextsOf(cs) = TextsOf(Front(cs)) \o <<Text(Last(cs))>>
             /\ TextsOf(cs)[1] = Text(Head(cs))
             /\ TextsOf(cs)[Len(cs)] = Text(Last(cs))
  <2>1. /\ Head(cs) \in Cell /\ Tail(cs) \in Seq(Cell)
        /\ Front(cs) \in Seq(Cell) /\ Last(cs) \in Cell
    BY <1>5, JoinSplit
  <2>2. cs = <<Head(cs)>> \o Tail(cs)
    BY <1>5
  <2>3. cs = Append(Front(cs), Last(cs))
    BY <1>5 DEF Front, Last
  <2>4. 1 \in 1 .. Len(cs) /\ Len(cs) \in 1 .. Len(cs)
    BY <1>5
  <2>5. cs[1] = Head(cs) /\ cs[Len(cs)] = Last(cs)
    BY <1>5 DEF Last
  <2> QED  BY <1>1, <1>4, <2>1, <2>2, <2>3, <2>4, <2>5
<1>6. TextsOf(cs) = <<>> <=> cs = <<>>
  BY <1>1
<1> QED  BY <1>1, <1>4, <1>5, <1>6

\* The texts of the chunks in list order.
Together(b) == (TextsOf(b.lefts) \o <<Text(b.point)>>) \o TextsOf(b.rights)

\* Going to the next chunk leaves the texts of the chunks as they are.
LEMMA NextTogether ==
    ASSUME NEW b \in Buffers, gapbuf_at_right(b.point), b.rights # <<>>
    PROVE  Together(NextChunk(b)) = Together(b)
<1> DEFINE ls == b.lefts
           p == b.point
           rs == b.rights
           d == NextChunk(b)
<1>1. ls \in Seq(Cell) /\ p \in Cell /\ rs \in Seq(Cell)
  BY BufferParts
<1>2. d.lefts = Append(ls, p) /\ d.point = Head(rs) /\ d.rights = Tail(rs)
  <2> DEFINE x == Append(ls, p)
             y == Head(rs)
             z == Tail(rs)
  <2>1. d = [b EXCEPT !.lefts = x, !.point = y, !.rights = z]
    BY DEF NextChunk
  <2> HIDE DEF x, y, z, d
  <2>2. d = [lefts |-> x, point |-> y, rights |-> z,
             point_position |-> b.point_position]
    BY <2>1, NewChunks
  <2>3. d.lefts = x /\ d.point = y /\ d.rights = z
    BY <2>2
  <2> QED  BY <2>3 DEF x, y, z
<1> DEFINE tl == TextsOf(ls)
           tp == <<Text(p)>>
           th == <<Text(Head(rs))>>
           tt == TextsOf(Tail(rs))
<1>3. /\ TextsOf(Append(ls, p)) = tl \o tp
      /\ TextsOf(rs) = th \o tt
  BY <1>1, TextsParts
<1>4. tl \in Seq(Seq(Byte)) /\ tp \in Seq(Seq(Byte)) /\ th \in Seq(Seq(Byte))
      /\ tt \in Seq(Seq(Byte))
  <2>1. Head(rs) \in Cell /\ Tail(rs) \in Seq(Cell)
    BY <1>1
  <2> QED  BY <1>1, <2>1, TextsParts, TextsInRow, CellText
<1> HIDE DEF ls, p, rs, d
<1>5. Together(d) = ((tl \o tp) \o th) \o tt
  BY <1>2, <1>3 DEF Together
<1>6. Together(b) = (tl \o tp) \o (th \o tt)
  BY <1>3 DEF Together, ls, p, rs
<1> HIDE DEF tl, tp, th, tt
<1>7. ((tl \o tp) \o th) \o tt = (tl \o tp) \o (th \o tt)
  <2>1. tl \o tp \in Seq(Seq(Byte))
    BY <1>4, TextsInRow
  <2> DEFINE lp == tl \o tp
  <2> HIDE DEF lp
  <2>2. \A ss, tx, us \in Seq(Seq(Byte)) : (ss \o tx) \o us = ss \o (tx \o us)
    BY TextsInRow
  <2>3. lp \in Seq(Seq(Byte)) /\ th \in Seq(Seq(Byte)) /\ tt \in Seq(Seq(Byte))
    BY <1>4, <2>1 DEF lp
  <2>4. (lp \o th) \o tt = lp \o (th \o tt)
    BY <2>2, <2>3, Zenon
  <2> QED  BY <2>4 DEF lp
<1> QED  BY <1>5, <1>6, <1>7 DEF d

\* So does going to the previous one.
LEMMA PrevTogether ==
    ASSUME NEW b \in Buffers, b.lefts # <<>>
    PROVE  Together(PrevChunk(b)) = Together(b)
<1> DEFINE ls == b.lefts
           p == b.point
           rs == b.rights
           d == PrevChunk(b)
<1>1. ls \in Seq(Cell) /\ p \in Cell /\ rs \in Seq(Cell) /\ ls # <<>>
  BY BufferParts
<1>2. d.lefts = Front(ls) /\ d.point = Last(ls) /\ d.rights = <<p>> \o rs
  <2> DEFINE x == Front(ls)
             y == Last(ls)
             z == <<p>> \o rs
  <2>1. d = [b EXCEPT !.lefts = x, !.point = y, !.rights = z]
    BY DEF PrevChunk
  <2> HIDE DEF x, y, z, d
  <2>2. d = [lefts |-> x, point |-> y, rights |-> z,
             point_position |-> b.point_position]
    BY <2>1, NewChunks
  <2>3. d.lefts = x /\ d.point = y /\ d.rights = z
    BY <2>2
  <2> QED  BY <2>3 DEF x, y, z
<1> DEFINE tf == TextsOf(Front(ls))
           tl == <<Text(Last(ls))>>
           tp == <<Text(p)>>
           tr == TextsOf(rs)
<1>3. /\ TextsOf(<<p>> \o rs) = tp \o tr
      /\ TextsOf(ls) = tf \o tl
  BY <1>1, TextsParts
<1>4. tf \in Seq(Seq(Byte)) /\ tl \in Seq(Seq(Byte)) /\ tp \in Seq(Seq(Byte))
      /\ tr \in Seq(Seq(Byte))
  <2>1. Last(ls) \in Cell /\ Front(ls) \in Seq(Cell)
    BY <1>1, JoinSplit
  <2> QED  BY <1>1, <2>1, TextsParts, TextsInRow, CellText
<1> HIDE DEF ls, p, rs, d
<1>5. Together(d) = (tf \o tl) \o (tp \o tr)
  BY <1>2, <1>3 DEF Together
<1>6. Together(b) = ((tf \o tl) \o tp) \o tr
  BY <1>3 DEF Together, ls, p, rs
<1> HIDE DEF tf, tl, tp, tr
<1>7. ((tf \o tl) \o tp) \o tr = (tf \o tl) \o (tp \o tr)
  <2>1. tf \o tl \in Seq(Seq(Byte))
    BY <1>4, TextsInRow
  <2> DEFINE fl == tf \o tl
  <2> HIDE DEF fl
  <2>2. \A ss, tx, us \in Seq(Seq(Byte)) : (ss \o tx) \o us = ss \o (tx \o us)
    BY TextsInRow
  <2>3. fl \in Seq(Seq(Byte)) /\ tp \in Seq(Seq(Byte)) /\ tr \in Seq(Seq(Byte))
    BY <1>4, <2>1 DEF fl
  <2>4. (fl \o tp) \o tr = fl \o (tp \o tr)
    BY <2>2, <2>3, Zenon
  <2> QED  BY <2>4 DEF fl
<1> QED  BY <1>5, <1>6, <1>7 DEF d

\* So does moving the gap of the point.
LEMMA PointTogether ==
    ASSUME NEW b \in Buffers
    PROVE  /\ \A n \in 0 .. Len(b.point.right) :
                 Together([b EXCEPT !.point = Advanced(@, n)]) = Together(b)
           /\ \A n \in 0 .. Len(b.point.left) :
                 Together([b EXCEPT !.point = Retreated(@, n)]) = Together(b)
           /\ \A q : Together([b EXCEPT !.point_position = q]) = Together(b)
<1>1. b.point \in CursorsOver(Byte)
  BY BufferView
<1>2. \A c : Text(c) = Text(b.point) => Together([b EXCEPT !.point = c]) = Together(b)
  <2> TAKE c
  <2> HAVE Text(c) = Text(b.point)
  <2> DEFINE d == [b EXCEPT !.point = c]
  <2>1. d.lefts = b.lefts /\ d.point = c /\ d.rights = b.rights
    BY BufferParts
  <2> HIDE DEF d
  <2>2. Together(d) = Together(b)
    BY <2>1 DEF Together
  <2> QED  BY <2>2 DEF d
<1>3. ASSUME NEW q PROVE Together([b EXCEPT !.point_position = q]) = Together(b)
  <2> DEFINE d == [b EXCEPT !.point_position = q]
  <2>1. d.lefts = b.lefts /\ d.point = b.point /\ d.rights = b.rights
    BY BufferParts
  <2> HIDE DEF d
  <2>2. Together(d) = Together(b)
    BY <2>1 DEF Together
  <2> QED  BY <2>2 DEF d
<1> QED  BY <1>1, <1>2, <1>3, MovedText

\* So does forward_char.
LEMMA ForwardTogether ==
    ASSUME NEW b \in Buffers, ~AtEnd(b), forward_char_asserts(b)
    PROVE  Together(forward_char(b)) = Together(b)
<1> DEFINE from == Entered(b)
           ch == NextByte(b)
           size == CharSize(ch)
           have == Len(from.point.right)
           over == [from EXCEPT !.point = Advanced(@, have)]
           next == NextChunk(over)
           moved == IF size <= have
                    THEN [from EXCEPT !.point = Advanced(@, size)]
                    ELSE [next EXCEPT !.point = Advanced(@, size - have)]
<1>1. from \in Buffers /\ from.point.right # <<>>
  BY EnteredBuffer
<1>2. Together(from) = Together(b)
  BY NextTogether DEF Entered, AtEnd
<1>3. /\ size > 0 /\ size \in Nat
      /\ size - have > 0 => /\ from.rights # <<>>
                            /\ size - have <= Len(Head(from.rights).right)
  BY CharSizes DEF forward_char_asserts
<1>4. forward_char(b) = [moved EXCEPT !.point_position = Stepped(@, ch)]
  BY DEF forward_char
<1> HIDE DEF from, ch, size
<1>5. have \in Nat
  <2> DEFINE r == from.point.right
  <2>1. r \in Seq(Byte)
    BY <1>1, BufferParts, CellText
  <2> HIDE DEF r
  <2>2. Len(r) \in Nat
    BY <2>1
  <2> QED  BY <2>2 DEF r
<1>6. ASSUME size <= have
      PROVE  moved \in Buffers /\ Together(moved) = Together(b)
  <2>1. size \in 0 .. Len(from.point.right)
    BY <1>3, <1>5, <1>6
  <2>2. moved = [from EXCEPT !.point = Advanced(@, size)]
    BY <1>6
  <2> HIDE DEF moved
  <2> QED  BY <1>1, <1>2, <2>1, <2>2, PointAdvances, PointTogether
<1>7. ASSUME ~(size <= have)
      PROVE  moved \in Buffers /\ Together(moved) = Together(b)
  <2> DEFINE rest == size - have
  <2>1. /\ rest \in Nat /\ from.rights # <<>> /\ rest <= Len(Head(from.rights).right)
    <3> HIDE DEF have
    <3>1. rest \in Nat /\ rest > 0
      BY <1>3, <1>5, <1>7
    <3>2. QED
      BY <1>3, <3>1
  <2>2. have \in 0 .. Len(from.point.right)
    BY <1>5
  <2>3. moved = [next EXCEPT !.point = Advanced(@, rest)]
    BY <1>7
  <2> HIDE DEF moved, rest, next
  <2>4. /\ over \in Buffers /\ over.point = Advanced(from.point, have)
        /\ over.rights = from.rights /\ Together(over) = Together(b)
    <3> HIDE DEF have
    <3>1. QED
      BY <1>1, <1>2, <2>2, PointAdvances, PointTogether DEF have
  <2> HIDE DEF over
  <2>5. gapbuf_at_right(over.point)
    <3>1. from.point \in CursorsOver(Byte)
      BY <1>1, BufferView
    <3>2. over.point.right = SubSeq(from.point.right, have + 1, Len(from.point.right))
      BY <2>4 DEF Advanced
    <3> DEFINE r == from.point.right
    <3>3. r \in Seq(Byte)
      BY <3>1 DEF CursorsOver
    <3> HIDE DEF r
    <3>4. SubSeq(r, Len(r) + 1, Len(r)) = <<>>
      BY <3>3
    <3>5. QED
      BY <3>2, <3>4 DEF r, gapbuf_at_right
  <2>6. /\ next \in Buffers /\ next.point = Head(over.rights)
        /\ Together(next) = Together(b)
    BY <2>1, <2>4, <2>5, ToNextChunk, NextTogether DEF next
  <2>7. rest \in 0 .. Len(next.point.right)
    <3> DEFINE r == next.point.right
    <3>1. r \in Seq(Byte) /\ rest <= Len(r)
      BY <2>1, <2>4, <2>6, BufferParts, CellText
    <3> HIDE DEF r
    <3>2. rest \in 0 .. Len(r)
      BY <2>1, <3>1
    <3>3. QED
      BY <3>2 DEF r
  <2> QED  BY <2>3, <2>6, <2>7, PointAdvances, PointTogether
<1> HIDE DEF moved
<1>8. moved \in Buffers /\ Together(moved) = Together(b)
  BY <1>6, <1>7
<1> QED  BY <1>4, <1>8, PointTogether

\* And so does textbuf_rewind.
LEMMA RewindTogether ==
    ASSUME NEW b \in Buffers
    PROVE  Together(textbuf_rewind(b)) = Together(b)
<1> DEFINE back(gb) == Retreated(gb, Len(gb.left))
           ls == b.lefts
           rs == b.rights
           p == b.point
           ms == [i \in DOMAIN ls |-> back(ls[i])]
           cs == Append(ms, back(p))
           chunks == cs \o rs
           d == textbuf_rewind(b)
<1>1. ls \in Seq(Cell) /\ p \in Cell /\ rs \in Seq(Cell)
  BY BufferParts
<1>2. d = [lefts |-> <<>>, point |-> Head(chunks), rights |-> Tail(chunks),
           point_position |-> Origin]
  <2>1. ms \o <<back(p)>> = cs
    <3>1. ms \in Seq(Cell)
      <4>1. \A i \in 1 .. Len(ls) : back(ls[i]) \in Cell
        BY <1>1, MovedBack
      <4> HIDE DEF back
      <4> QED  BY <1>1, <4>1
    <3> HIDE DEF ms, back
    <3> QED  BY <3>1
  <2> QED  BY <2>1 DEF textbuf_rewind
<1> HIDE DEF ls, rs, p, d
<1>3. \A c \in Cell : back(c) \in Cell /\ Text(back(c)) = Text(c)
  BY MovedBack
<1> HIDE DEF back
<1>4. ms \in Seq(Cell) /\ Len(ms) = Len(ls)
      /\ \A i \in 1 .. Len(ls) : ms[i] = back(ls[i])
  <2>1. \A i \in 1 .. Len(ls) : back(ls[i]) \in Cell
    BY <1>1, <1>3
  <2> QED  BY <1>1, <2>1
<1> HIDE DEF ms
<1>5. TextsOf(ms) = TextsOf(ls)
  <2>1. /\ TextsOf(ms) \in Seq(Seq(Byte)) /\ TextsOf(ls) \in Seq(Seq(Byte))
        /\ Len(TextsOf(ms)) = Len(ls) /\ Len(TextsOf(ls)) = Len(ls)
        /\ \A i \in 1 .. Len(ls) : TextsOf(ms)[i] = Text(ms[i])
        /\ \A i \in 1 .. Len(ls) : TextsOf(ls)[i] = Text(ls[i])
    BY <1>1, <1>4, TextsOfCells
  <2>2. \A i \in 1 .. Len(ls) : Text(ms[i]) = Text(ls[i])
    BY <1>1, <1>3, <1>4
  <2>3. \A i \in 1 .. Len(TextsOf(ms)) : TextsOf(ms)[i] = TextsOf(ls)[i]
    BY <2>1, <2>2
  <2> QED  BY <2>1, <2>3, SeqEqual
<1>6. back(p) \in Cell /\ Text(back(p)) = Text(p)
  BY <1>1, <1>3
<1>7. cs \in Seq(Cell) /\ TextsOf(cs) = TextsOf(ls) \o <<Text(p)>>
  <2> DEFINE bp == back(p)
  <2> HIDE DEF bp
  <2>1. cs = Append(ms, bp) /\ bp \in Cell /\ ms \in Seq(Cell)
    BY <1>4, <1>6 DEF bp
  <2>2. TextsOf(cs) = TextsOf(ms) \o <<Text(bp)>>
    BY <2>1, TextsParts
  <2>3. cs \in Seq(Cell)
    BY <2>1
  <2> QED  BY <1>5, <1>6, <2>2, <2>3 DEF bp
<1>8. chunks \in Seq(Cell) /\ chunks # <<>>
  <2>1. cs # <<>>
    BY <1>4, <1>6
  <2> HIDE DEF cs
  <2> QED  BY <1>1, <1>7, <2>1
<1>9. TextsOf(chunks) = TextsOf(cs) \o TextsOf(rs)
  <2> DEFINE x == TextsOf(chunks)
             y == TextsOf(cs)
             z == TextsOf(rs)
             m == Len(cs)
             n == Len(rs)
  <2>1. /\ x \in Seq(Seq(Byte)) /\ Len(x) = Len(chunks)
        /\ \A i \in 1 .. Len(chunks) : x[i] = Text(chunks[i])
        /\ y \in Seq(Seq(Byte)) /\ Len(y) = m
        /\ \A i \in 1 .. m : y[i] = Text(cs[i])
        /\ z \in Seq(Seq(Byte)) /\ Len(z) = n
        /\ \A i \in 1 .. n : z[i] = Text(rs[i])
    BY <1>1, <1>7, <1>8, TextsOfCells
  <2>2. /\ Len(chunks) = m + n /\ m \in Nat /\ n \in Nat
        /\ \A i \in 1 .. m : chunks[i] = cs[i]
        /\ \A i \in 1 .. n : chunks[m + i] = rs[i]
    BY <1>1, <1>7, ConcatMembers
  <2>3. /\ y \o z \in Seq(Seq(Byte)) /\ Len(y \o z) = m + n
        /\ \A i \in 1 .. m : (y \o z)[i] = y[i]
        /\ \A i \in 1 .. n : (y \o z)[m + i] = z[i]
    <3> HIDE DEF x, y, z, m, n
    <3> QED  BY <2>1, RowMembers
  <2> DEFINE yz == y \o z
  <2> HIDE DEF x, y, z, m, n, yz, chunks, cs
  <2>4. \A i \in 1 .. m + n : x[i] = yz[i]
    <3> TAKE i \in 1 .. m + n
    <3>1. CASE i <= m
      <4>1. i \in 1 .. m
        BY <2>2, <3>1
      <4> QED  BY <2>1, <2>2, <2>3, <4>1 DEF yz
    <3>2. CASE i > m
      <4>1. i - m \in 1 .. n /\ m + (i - m) = i
        BY <2>2, <3>2
      <4>2. x[i] = Text(rs[i - m]) /\ yz[i] = z[i - m]
        BY <2>1, <2>2, <2>3, <4>1 DEF yz
      <4> QED  BY <2>1, <4>1, <4>2
    <3> QED  BY <2>2, <3>1, <3>2
  <2>5. x = yz
    BY <2>1, <2>2, <2>3, <2>4, SeqEqual DEF yz
  <2> QED  BY <2>5 DEF x, y, z, yz
<1> HIDE DEF chunks, cs
<1>10. /\ d.lefts = <<>> /\ d.point = Head(chunks) /\ d.rights = Tail(chunks)
  BY <1>2
<1>11. TextsOf(chunks) = <<Text(Head(chunks))>> \o TextsOf(Tail(chunks))
  BY <1>8, TextsParts
<1>12. Together(d) = TextsOf(chunks)
  <2>1. TextsOf(<<>>) = <<>>
    BY DEF TextsOf
  <2>2. <<>> \o <<Text(Head(chunks))>> = <<Text(Head(chunks))>>
    OBVIOUS
  <2> QED  BY <1>10, <1>11, <2>1, <2>2 DEF Together
<1> QED  BY <1>7, <1>9, <1>12 DEF Together, d, ls, p, rs

\* Half a chunk of a text is tied to what comes after it.
LEMMA HalfMeets ==
    ASSUME NEW s \in Seq(Byte), NEW t \in Seq(Byte), Len(s) >= Half, Loose(s \o t)
    PROVE  Meets(s, t)
<1>1. SUFFICES ASSUME t # <<>>, ~HasStart(s)
               PROVE  ~IsContinuation(t[1])
  BY DEF Meets
<1> DEFINE st == s \o t
           i == Len(s) - Half
<1>2. /\ Len(st) = Len(s) + Len(t) /\ Len(t) > 0 /\ Len(s) \in Nat /\ Len(t) \in Nat
      /\ \A n \in 1 .. Len(s) : st[n] = s[n]
      /\ st[Len(s) + 1] = t[1]
  <2>1. Len(t) \in Nat /\ Len(t) > 0 /\ Len(s) \in Nat
    BY <1>1
  <2>2. 1 \in 1 .. Len(t)
    BY <2>1
  <2> QED  BY <2>1, <2>2, ConcatMembers
<1>3. Half \in Nat \ {0}
  BY HalfOfChunk
<1> HIDE DEF st
<1>4. i \in 0 .. Len(st) - (Half + 1)
  BY <1>2, <1>3
<1>5. PICK j \in 1 .. Half + 1 : ~IsContinuation(st[i + j])
  BY <1>4 DEF Loose, st
<1>6. CASE j <= Half
  <2>1. i + j \in 1 .. Len(s)
    BY <1>2, <1>3, <1>6
  <2> QED  BY <1>1, <1>2, <1>5, <2>1 DEF HasStart
<1>7. CASE j = Half + 1
  <2>1. i + j = Len(s) + 1
    BY <1>2, <1>3, <1>7
  <2> QED  BY <1>2, <1>5, <2>1
<1> QED  BY <1>3, <1>6, <1>7

\* Texts stay tied when whole codepoints are to be typed inside one of them.
LEMMA TiedTyping ==
    ASSUME NEW ss \in Seq(Seq(Byte)), NEW tt \in Seq(Seq(Byte)),
           NEW l \in Seq(Byte), NEW r \in Seq(Byte),
           NEW s \in Seq(Byte), s # <<>>, ~IsContinuation(s[1]),
           Tied((ss \o <<l \o r>>) \o tt)
    PROVE  Tied((ss \o <<(l \o s) \o r>>) \o tt)
<1> DEFINE p == l \o r
           q == (l \o s) \o r
<1>1. p \in Seq(Byte) /\ q \in Seq(Byte) /\ l \o s \in Seq(Byte)
  OBVIOUS
<1>2. q # <<>> /\ (l # <<>> => q[1] = p[1] /\ p # <<>>) /\ (l = <<>> => q[1] = s[1])
  <2>1. l \o s # <<>> /\ (l # <<>> => (l \o s)[1] = l[1]) /\ (l = <<>> => l \o s = s)
    BY FirstByte
  <2>2. l # <<>> => p # <<>> /\ p[1] = l[1]
    BY FirstByte
  <2>3. q # <<>> /\ q[1] = (l \o s)[1]
    BY <1>1, <2>1, FirstByte
  <2> QED  BY <2>1, <2>2, <2>3
<1>3. HasStart(q)
  <2>1. HasStart(s)
    <3>1. 1 \in 1 .. Len(s)
      OBVIOUS
    <3> QED  BY <3>1 DEF HasStart
  <2> QED  BY <1>1, <2>1, StartOfEither
<1> HIDE DEF p, q
<1>4. /\ Tied(ss) /\ Tied(tt) /\ (ss # <<>> => Meets(ss[Len(ss)], p))
  BY <1>1, TiedAround DEF p
<1>5. ss # <<>> => Meets(ss[Len(ss)], q)
  BY <1>2, <1>4 DEF Meets
<1>6. tt # <<>> => Meets(q, tt[1])
  BY <1>3 DEF Meets
<1>7. Tied((ss \o <<q>>) \o tt)
  BY <1>1, <1>4, <1>5, <1>6, TiedAround
<1> QED  BY <1>7 DEF q

\* They stay tied when the upper half of one of them becomes a text.
LEMMA TiedUpper ==
    ASSUME NEW ss \in Seq(Seq(Byte)), NEW tt \in Seq(Seq(Byte)),
           NEW a \in Seq(Byte), a # <<>>, NEW u \in Seq(Byte),
           Tied((ss \o <<a \o u>>) \o tt),
           Len(u) = Half, Len(a) >= Half, Loose(a \o u),
           tt # <<>> => Loose(u \o tt[1])
    PROVE  Tied((ss \o <<a>>) \o (<<u>> \o tt))
<1> DEFINE au == a \o u
           ut == <<u>> \o tt
<1>1. au \in Seq(Byte) /\ au # <<>> /\ au[1] = a[1]
  BY FirstByte
<1> HIDE DEF au
<1>2. /\ Tied(ss) /\ Tied(tt) /\ (ss # <<>> => Meets(ss[Len(ss)], au))
  BY <1>1, TiedAround DEF au
<1>3. ss # <<>> => Meets(ss[Len(ss)], a)
  BY <1>1, <1>2 DEF Meets
<1>4. Meets(a, u)
  BY HalfMeets
<1>5. Half \in Nat
  BY HalfOfChunk
<1>6. tt # <<>> => tt[1] \in Seq(Byte)
  OBVIOUS
<1>7. tt # <<>> => Meets(u, tt[1])
  <2> HAVE tt # <<>>
  <2> DEFINE t == tt[1]
  <2>1. t \in Seq(Byte) /\ Loose(u \o t) /\ Len(u) >= Half
    BY <1>5, <1>6
  <2> HIDE DEF t
  <2>2. Meets(u, t)
    BY <2>1, HalfMeets
  <2> QED  BY <2>2 DEF t
<1>8. ut \in Seq(Seq(Byte)) /\ ut # <<>> /\ ut[1] = u /\ Tied(ut)
  <2> DEFINE o == <<u>>
  <2>1. o \in Seq(Seq(Byte)) /\ o # <<>> /\ Len(o) = 1 /\ o[1] = u /\ Tied(o)
    BY TiedOne
  <2> HIDE DEF o
  <2>2. o \o tt \in Seq(Seq(Byte)) /\ (o \o tt)[1] = o[1] /\ o \o tt # <<>>
    <3> DEFINE x == o \o tt
    <3>1. 1 \in 1 .. Len(o) /\ Len(tt) \in Nat
      BY <2>1
    <3>2. x \in Seq(Seq(Byte)) /\ Len(x) = Len(o) + Len(tt) /\ x[1] = o[1]
      BY <2>1, <3>1, RowMembers
    <3> HIDE DEF x
    <3>3. x # <<>>
      BY <2>1, <3>1, <3>2
    <3> QED  BY <3>2, <3>3 DEF x
  <2>3. Tied(o \o tt)
    BY <1>2, <1>7, <2>1, TiedJoined
  <2> QED  BY <2>1, <2>2, <2>3 DEF o
<1> HIDE DEF ut
<1>9. Tied((ss \o <<a>>) \o ut)
  BY <1>2, <1>3, <1>4, <1>8, TiedAround
<1> QED  BY <1>9 DEF ut

\* And when the lower half does.
LEMMA TiedLower ==
    ASSUME NEW ss \in Seq(Seq(Byte)), NEW tt \in Seq(Seq(Byte)),
           NEW w \in Seq(Byte), w # <<>>, NEW a \in Seq(Byte),
           Tied((ss \o <<w \o a>>) \o tt),
           Len(w) = Half, Len(a) >= Half, Loose(w \o a),
           tt # <<>> => Loose(a \o tt[1])
    PROVE  Tied((Append(ss, w) \o <<a>>) \o tt)
<1> DEFINE wa == w \o a
           sw == Append(ss, w)
<1>1. wa \in Seq(Byte) /\ wa # <<>> /\ wa[1] = w[1]
  BY FirstByte
<1> HIDE DEF wa
<1>2. /\ Tied(ss) /\ Tied(tt) /\ (ss # <<>> => Meets(ss[Len(ss)], wa))
  BY <1>1, TiedAround DEF wa
<1>3. ss # <<>> => Meets(ss[Len(ss)], w)
  BY <1>1, <1>2 DEF Meets
<1>4. Half \in Nat
  BY HalfOfChunk
<1>5. Meets(w, a)
  BY <1>4, HalfMeets
<1>6. tt # <<>> => tt[1] \in Seq(Byte)
  OBVIOUS
<1>7. tt # <<>> => Meets(a, tt[1])
  <2> HAVE tt # <<>>
  <2> DEFINE t == tt[1]
  <2>1. t \in Seq(Byte) /\ Loose(a \o t)
    BY <1>6
  <2> HIDE DEF t
  <2>2. Meets(a, t)
    BY <2>1, HalfMeets
  <2> QED  BY <2>2 DEF t
<1>8. sw \in Seq(Seq(Byte)) /\ sw # <<>> /\ sw[Len(sw)] = w /\ Tied(sw)
  <2> DEFINE o == <<w>>
  <2>1. o \in Seq(Seq(Byte)) /\ o # <<>> /\ o[1] = w /\ Tied(o)
    BY TiedOne
  <2>2. sw = ss \o o /\ sw \in Seq(Seq(Byte)) /\ sw # <<>> /\ sw[Len(sw)] = w
    <3>1. sw = ss \o o
      OBVIOUS
    <3>2. sw \in Seq(Seq(Byte))
      OBVIOUS
    <3>3. Len(sw) = Len(ss) + 1 /\ Len(ss) \in Nat /\ sw[Len(ss) + 1] = w
      OBVIOUS
    <3> HIDE DEF sw
    <3>4. sw # <<>>
      BY <3>2, <3>3
    <3> QED  BY <3>1, <3>2, <3>3, <3>4
  <2> HIDE DEF o, sw
  <2>3. Tied(ss \o o)
    BY <1>2, <1>3, <2>1, TiedJoined
  <2> QED  BY <2>2, <2>3
<1> HIDE DEF sw
<1>9. Tied((sw \o <<a>>) \o tt)
  BY <1>2, <1>5, <1>7, <1>8, TiedAround
<1> QED  BY <1>9 DEF sw

\* What is left of the texts when one is cut off after l.
LEMMA TiedCut ==
    ASSUME NEW ss \in Seq(Seq(Byte)), NEW tt \in Seq(Seq(Byte)),
           NEW l \in Seq(Byte), NEW r \in Seq(Byte),
           Tied((ss \o <<l \o r>>) \o tt)
    PROVE  Tied(Append(ss, l)) /\ Tied(tt)
<1> DEFINE p == l \o r
           o == <<l>>
<1>1. p \in Seq(Byte) /\ (l # <<>> => p # <<>> /\ p[1] = l[1])
  BY FirstByte
<1> HIDE DEF p
<1>2. /\ Tied(ss) /\ Tied(tt) /\ (ss # <<>> => Meets(ss[Len(ss)], p))
  BY <1>1, TiedAround DEF p
<1>3. ss # <<>> => Meets(ss[Len(ss)], l)
  BY <1>1, <1>2 DEF Meets
<1>4. Append(ss, l) = ss \o o /\ o \in Seq(Seq(Byte)) /\ o[1] = l /\ Tied(o)
  <2>1. Append(ss, l) = ss \o o /\ o \in Seq(Seq(Byte)) /\ o[1] = l
    OBVIOUS
  <2> QED  BY <2>1, TiedOne
<1> HIDE DEF o
<1>5. Tied(ss \o o)
  BY <1>2, <1>3, <1>4, TiedJoined
<1> QED  BY <1>2, <1>4, <1>5

\* Texts that end or begin between codepoints are tied again.
LEMMA TiedUncut ==
    ASSUME NEW ss \in Seq(Seq(Byte)), NEW tt \in Seq(Seq(Byte)),
           NEW l \in Seq(Byte), NEW r \in Seq(Byte),
           Tied(Append(ss, l)), Tied(tt),
           r # <<>> => ~IsContinuation(r[1]),
           r = <<>> /\ tt # <<>> => Meets(<<>>, tt[1])
    PROVE  Tied((ss \o <<l \o r>>) \o tt)
<1> DEFINE p == l \o r
           o == <<l>>
<1>1. /\ p \in Seq(Byte) /\ (l # <<>> => p # <<>> /\ p[1] = l[1])
      /\ l = <<>> => p = r
  BY FirstByte
<1>2. r # <<>> => HasStart(p)
  <2>1. r # <<>> => HasStart(r)
    <3>1. r # <<>> => 1 \in 1 .. Len(r)
      OBVIOUS
    <3> QED  BY <3>1 DEF HasStart
  <2> QED  BY <2>1, StartOfEither
<1> HIDE DEF p
<1>3. Append(ss, l) = ss \o o /\ o \in Seq(Seq(Byte)) /\ o[1] = l /\ o # <<>>
  OBVIOUS
<1> HIDE DEF o
<1>4. Tied(ss) /\ (ss # <<>> => Meets(ss[Len(ss)], l))
  BY <1>3, TiedJoined
<1>5. ss # <<>> => Meets(ss[Len(ss)], p)
  BY <1>1, <1>4 DEF Meets
<1>6. tt # <<>> => Meets(p, tt[1])
  <2>1. CASE r = <<>>
    <3>1. ~HasStart(<<>>)
      BY DEF HasStart
    <3> QED  BY <2>1, <3>1 DEF Meets
  <2>2. CASE r # <<>>
    BY <1>2, <2>2 DEF Meets
  <2> QED  BY <2>1, <2>2
<1>7. Tied((ss \o <<p>>) \o tt)
  BY <1>1, <1>4, <1>5, <1>6, TiedAround
<1> QED  BY <1>7 DEF p

\* The texts around the point and those of the point.
LEMMA TextsOfPoint ==
    ASSUME NEW b \in Buffers
    PROVE  LET ss == TextsOf(b.lefts)
               tt == TextsOf(b.rights)
               l == b.point.left
               r == b.point.right
           IN  /\ ss \in Seq(Seq(Byte)) /\ tt \in Seq(Seq(Byte))
               /\ l \in Seq(Byte) /\ r \in Seq(Byte)
               /\ Together(b) = (ss \o <<l \o r>>) \o tt
               /\ \A s : TextsWith(b, s) = (ss \o <<(l \o s) \o r>>) \o tt
               /\ TextsWith(b, <<>>) = Together(b)
<1> DEFINE ss == TextsOf(b.lefts)
           tt == TextsOf(b.rights)
           l == b.point.left
           r == b.point.right
<1>1. ss \in Seq(Seq(Byte)) /\ tt \in Seq(Seq(Byte))
  BY BufferParts, TextsParts
<1>2. l \in Seq(Byte) /\ r \in Seq(Byte)
  BY BufferParts, CellText
<1>3. Together(b) = (ss \o <<l \o r>>) \o tt
  BY DEF Together, Text
<1>4. \A s : TextsWith(b, s) = (ss \o <<(l \o s) \o r>>) \o tt
  BY DEF TextsWith
<1>5. l \o <<>> = l
  <2> HIDE DEF l
  <2> QED  BY <1>2
<1> QED  BY <1>1, <1>2, <1>3, <1>4, <1>5

\* What comes between two bytes of a codepoint is in the same codepoint, or
\* the codepoint ends in the chunk after the one it begins in.
LEMMA AssertsHold ==
    ASSUME NEW b \in Buffers, ~AtEnd(b), Between(View(b)), Tied(Together(b))
    PROVE  forward_char_asserts(b)
<1> DEFINE from == Entered(b)
           p == from.point.right
           rs == from.rights
           t == View(b).right
           k == CharSize(NextByte(b))
<1>1. /\ from \in Buffers /\ View(from) = View(b) /\ p # <<>>
      /\ NextByte(b) = t[1] /\ t # <<>>
  BY EnteredBuffer
<1>2. Together(from) = Together(b)
  BY NextTogether DEF Entered, AtEnd
<1>3. /\ p \in Seq(Byte) /\ rs \in Seq(Cell) /\ rs \in Seq(RightCell)
      /\ t = p \o Join(rs) /\ Join(rs) \in Seq(Byte) /\ Tied(TextsOf(rs))
  <2>1. p \in Seq(Byte) /\ rs \in Seq(Cell) /\ rs \in Seq(RightCell)
    BY <1>1, BufferParts, CellText
  <2>2. t = p \o Join(rs) /\ Join(rs) \in Seq(Byte)
    BY <1>1, BufferView
  <2>3. Tied(TextsOf(rs))
    <3> DEFINE ss == TextsOf(from.lefts)
               tt == TextsOf(rs)
               l == from.point.left
    <3>1. /\ ss \in Seq(Seq(Byte)) /\ tt \in Seq(Seq(Byte))
          /\ l \in Seq(Byte) /\ Tied((ss \o <<l \o p>>) \o tt)
      BY <1>1, <1>2, TextsOfPoint
    <3> HIDE DEF ss, tt, l, p
    <3>2. Tied(tt)
      BY <2>1, <3>1, TiedCut
    <3> QED  BY <3>2 DEF tt
  <2> QED  BY <2>1, <2>2, <2>3
<1>4. /\ k \in 1 .. Len(t) /\ \A j \in 2 .. k : IsContinuation(t[j])
  <2>1. t \in Seq(Byte) /\ IsUtf8(t)
    BY CodepointAfter
  <2>2. k = CharSize(t[1])
    BY <1>1
  <2> HIDE DEF t, k
  <2>3. k \in 1 .. Len(t) /\ IsCodepoint(SubSeq(t, 1, k)) /\ Len(SubSeq(t, 1, k)) = k
    BY <1>1, <2>1, <2>2, FirstCodepoint
  <2>4. \A j \in 2 .. k : SubSeq(t, 1, k)[j] = t[j]
    BY <2>1, <2>3
  <2> QED  BY <2>3, <2>4 DEF IsCodepoint
<1> DEFINE missing == k - Len(p)
<1>5. ASSUME missing > 0
      PROVE  rs # <<>> /\ missing <= Len(Head(rs).right)
  <2> HIDE DEF p, rs, t, k
  <2>1. Len(p) \in Nat /\ Len(p) > 0
    BY <1>1, <1>3
  <2>2. Len(t) = Len(p) + Len(Join(rs))
    BY <1>3
  <2>3. rs # <<>>
    <3> SUFFICES ASSUME rs = <<>> PROVE FALSE
      OBVIOUS
    <3>1. Len(Join(rs)) = 0
      BY JoinNothing
    <3> QED  BY <1>4, <1>5, <2>1, <2>2, <3>1
  <2> DEFINE c == Head(rs)
             u == Text(c)
             rest == Join(Tail(rs))
  <2>4. /\ c \in Cell /\ c \in RightCell /\ Tail(rs) \in Seq(Cell)
        /\ Tail(rs) \in Seq(RightCell) /\ Join(rs) = u \o rest
    BY <1>3, <2>3, JoinSplit
  <2>5. u = c.right /\ u \in Seq(Byte)
    BY <2>4, OneSided, CellText DEF RightCell
  <2>6. rest \in Seq(Byte)
    BY <2>4, JoinConcat
  <2>7. TextsOf(rs) \in Seq(Seq(Byte)) /\ Len(TextsOf(rs)) = Len(rs)
        /\ \A i \in 1 .. Len(rs) : TextsOf(rs)[i] = Text(rs[i])
    BY <1>3, TextsOfCells
  <2>8. SUFFICES ASSUME Len(u) < missing PROVE FALSE
    <3>1. Len(u) \in Nat
      BY <2>5
    <3> HIDE DEF u
    <3>2. missing <= Len(u) => missing <= Len(c.right)
      BY <2>5
    <3> QED  BY <1>4, <2>1, <2>3, <3>1, <3>2
  <2> HIDE DEF u, rest
  <2>9. /\ t = p \o (u \o rest) /\ Len(Join(rs)) = Len(u) + Len(rest)
        /\ Len(u) \in Nat /\ Len(rest) \in Nat
    BY <1>3, <2>4, <2>5, <2>6
  <2>10. /\ \A i \in 1 .. Len(u) : t[Len(p) + i] = u[i]
         /\ rest # <<>> => t[Len(p) + Len(u) + 1] = rest[1]
    <3> DEFINE w == u \o rest
    <3>1. /\ w \in Seq(Byte) /\ Len(w) = Len(u) + Len(rest)
          /\ \A i \in 1 .. Len(u) : w[i] = u[i]
          /\ \A i \in 1 .. Len(rest) : w[Len(u) + i] = rest[i]
      BY <2>5, <2>6, ConcatMembers
    <3> HIDE DEF w
    <3>2. \A i \in 1 .. Len(w) : t[Len(p) + i] = w[i]
      BY <1>3, <2>9, <3>1, ConcatMembers DEF w
    <3>3. \A i \in 1 .. Len(u) : i \in 1 .. Len(w)
      BY <2>9, <3>1
    <3>4. rest # <<>> => 1 \in 1 .. Len(rest) /\ Len(u) + 1 \in 1 .. Len(w)
      BY <2>6, <2>9, <3>1
    <3>5. Len(p) + (Len(u) + 1) = Len(p) + Len(u) + 1
      BY <2>1, <2>9
    <3> QED  BY <3>1, <3>2, <3>3, <3>4, <3>5
  <2>11. ~HasStart(u)
    <3>1. \A i \in 1 .. Len(u) : Len(p) + i \in 2 .. k
      BY <1>4, <2>1, <2>8, <2>9
    <3> QED  BY <1>4, <2>10, <3>1 DEF HasStart
  <2>12. rest # <<>> /\ IsContinuation(rest[1])
    <3>1. rest # <<>>
      <4> SUFFICES ASSUME Len(rest) = 0 PROVE FALSE
        OBVIOUS
      <4> QED  BY <1>4, <2>1, <2>2, <2>8, <2>9
    <3>2. Len(p) + Len(u) + 1 \in 2 .. k
      BY <1>4, <2>1, <2>8, <2>9
    <3> QED  BY <1>4, <2>10, <3>1, <3>2
  <2>13. Tail(rs) # <<>>
    BY <2>12, JoinNothing DEF rest
  <2> DEFINE v == Text(Head(Tail(rs)))
  <2>14. v \in Seq(Byte) /\ v # <<>> /\ v[1] = rest[1]
    <3> DEFINE e == Head(Tail(rs))
               more == Join(Tail(Tail(rs)))
    <3>1. /\ e \in Cell /\ Tail(Tail(rs)) \in Seq(Cell) /\ rest = v \o more
      BY <2>4, <2>13, JoinSplit DEF rest
    <3>2. e \in RightCell
      BY <2>4, <2>13
    <3>3. Len(v) = Size(e) /\ Size(e) # 0 /\ v \in Seq(Byte)
      BY <3>1, <3>2, CellText DEF RightCell, gapbuf_empty
    <3>4. more \in Seq(Byte)
      BY <3>1, JoinConcat
    <3> HIDE DEF v, more
    <3>5. v # <<>>
      BY <3>3
    <3> QED  BY <3>1, <3>3, <3>4, <3>5, FirstByte
  <2>15. Meets(u, v)
    <3>1. Len(rs) \in Nat /\ Len(rs) >= 2
      BY <1>3, <2>3, <2>13
    <3>2. rs[1] = Head(rs) /\ rs[2] = Head(Tail(rs))
      BY <1>3, <2>3, <2>13, <3>1
    <3>3. TextsOf(rs)[1] = u /\ TextsOf(rs)[2] = v
      BY <2>7, <3>1, <3>2 DEF u
    <3>4. 1 \in 1 .. Len(TextsOf(rs)) - 1 /\ 1 + 1 = 2
      BY <2>7, <3>1
    <3> QED  BY <1>3, <3>3, <3>4 DEF Tied
  <2> QED  BY <2>11, <2>12, <2>14, <2>15 DEF Meets
<1>6. k > 0
  BY <1>4
<1> QED  BY <1>5, <1>6 DEF forward_char_asserts

\* A text in which codepoints begin all over does so around two of its
\* chunks, and around one and the chunk after it.
LEMMA LooseRow ==
    ASSUME NEW x \in Seq(Byte), NEW y \in Seq(Byte), NEW rs \in Seq(Cell),
           Loose((x \o y) \o Join(rs))
    PROVE  /\ Loose(x \o y)
           /\ TextsOf(rs) # <<>> => Loose(y \o TextsOf(rs)[1])
<1>1. Join(rs) \in Seq(Byte) /\ x \o y \in Seq(Byte)
  BY JoinConcat
<1>2. Loose(x \o y)
  BY <1>1, LooseParts
<1>3. ASSUME rs # <<>>
      PROVE  Loose(y \o Text(Head(rs)))
  <2> DEFINE u == Text(Head(rs))
             rest == Join(Tail(rs))
             all == Join(rs)
  <2>1. u \in Seq(Byte) /\ rest \in Seq(Byte) /\ all = u \o rest
    BY <1>3, JoinSplit, JoinConcat, CellText
  <2> HIDE DEF u, rest, all
  <2>2. (x \o y) \o all = x \o (y \o all)
    BY <1>1, ConcatThree DEF all
  <2>3. y \o all = (y \o u) \o rest
    BY <2>1, ConcatThree
  <2>4. y \o all \in Seq(Byte) /\ y \o u \in Seq(Byte)
    BY <1>1, <2>1 DEF all
  <2>5. Loose(x \o (y \o all))
    BY <2>2 DEF all
  <2>6. Loose(y \o all)
    BY <2>4, <2>5, LooseParts
  <2>7. Loose(y \o u)
    BY <2>1, <2>3, <2>4, <2>6, LooseParts
  <2> QED  BY <2>7 DEF u
<1>4. TextsOf(rs) # <<>> => rs # <<>> /\ TextsOf(rs)[1] = Text(Head(rs))
  BY TextsParts
<1> QED  BY <1>2, <1>3, <1>4

\* split_point keeps the texts tied, whatever is still to type between them.
LEMMA SplitTied ==
    ASSUME NEW b \in Buffers, gapbuf_full(b.point), NEW s \in Seq(Byte),
           Tied(TextsWith(b, s)), Loose(Text(Typed(View(b), s)))
    PROVE  Tied(TextsWith(split_point(b), s))
<1> DEFINE ss == TextsOf(b.lefts)
           tt == TextsOf(b.rights)
           l == b.point.left
           r == b.point.right
           j == Join(b.lefts)
           k == Join(b.rights)
           d == split_point(b)
           t == (l \o s) \o r
<1>1. /\ ss \in Seq(Seq(Byte)) /\ tt \in Seq(Seq(Byte))
      /\ l \in Seq(Byte) /\ r \in Seq(Byte)
      /\ Tied((ss \o <<t>>) \o tt)
  BY TextsOfPoint
<1>2. j \in Seq(Byte) /\ k \in Seq(Byte) /\ b.lefts \in Seq(Cell) /\ b.rights \in Seq(Cell)
  BY BufferView, BufferParts
<1>3. Loose(t \o k)
  <2>1. Text(Typed(View(b), s)) = ((j \o l) \o s) \o (r \o k)
    BY BufferView DEF Typed, Text
  <2> HIDE DEF l, r, j, k
  <2>2. Text(Typed(View(b), s)) = j \o (t \o k)
    <3>1. ((j \o l) \o s) \o (r \o k) = j \o (t \o k)
      <4>1. AreTexts(j, l, s, r, k)
        BY <1>1, <1>2 DEF AreTexts
      <4> QED  BY <4>1, WholeText
    <3> QED  BY <2>1, <3>1
  <2>3. t \o k \in Seq(Byte)
    <3>1. l \o s \in Seq(Byte)
      BY <1>1, ConcatBytes
    <3>2. t \in Seq(Byte)
      BY <1>1, <3>1, ConcatBytes, Zenon
    <3> HIDE DEF t
    <3> QED  BY <1>2, <3>2, ConcatBytes, Zenon
  <2> HIDE DEF t
  <2> QED  BY <1>2, <2>2, <2>3, LooseParts
<1>4. Half \in Nat \ {0} /\ Chunk \in Nat /\ Half < Chunk
  BY HalfOfChunk
<1>5. \A x, y, z \in Seq(Byte) : (x \o y) \o z = x \o (y \o z)
  BY ConcatBytes
<1>6. ASSUME NEW m, NEW u, UpperMoved(b, d, m, u)
      PROVE  Tied(TextsWith(d, s))
  <2> DEFINE e == [left |-> <<>>, right |-> u]
             a == (l \o s) \o m
  <2>1. /\ m \in Seq(Byte) /\ u \in Seq(Byte) /\ m \o u = r
        /\ Len(u) = Half /\ Len(l) + Len(m) = Half
    BY <1>6 DEF UpperMoved
  <2>2. /\ d.lefts = b.lefts /\ d.point.left = l /\ d.point.right = m
        /\ d.rights = <<e>> \o b.rights
    BY <1>6 DEF UpperMoved
  <2>3. e \in Cell /\ Text(e) = u
    <3>1. e.left = <<>> /\ e.right = u
      OBVIOUS
    <3>2. <<>> \o u = u
      BY <2>1
    <3>3. e \in CursorsOver(Byte) /\ Size(e) = Len(u)
      BY <2>1 DEF CursorsOver, Size
    <3> QED  BY <1>4, <2>1, <3>1, <3>2, <3>3 DEF Cell, Text
  <2>4. TextsOf(d.rights) = <<u>> \o tt
    <3> HIDE DEF e
    <3> QED  BY <1>2, <2>2, <2>3, TextsParts
  <2>5. TextsWith(d, s) = (ss \o <<a>>) \o (<<u>> \o tt)
    BY <2>2, <2>4 DEF TextsWith
  <2> HIDE DEF l, r, ss, tt, k, d
  <2>6. a \in Seq(Byte) /\ Len(a) >= Half
    <3> DEFINE ls == l \o s
    <3>1. ls \in Seq(Byte) /\ Len(ls) = Len(l) + Len(s)
      BY <1>1
    <3> HIDE DEF ls
    <3>2. ls \o m \in Seq(Byte) /\ Len(ls \o m) = Len(ls) + Len(m)
      BY <2>1, <3>1, ConcatBytes, Zenon
    <3>3. Len(l) \in Nat /\ Len(s) \in Nat /\ Len(m) \in Nat
      BY <1>1, <2>1
    <3>4. Len(ls \o m) >= Half
      BY <1>4, <2>1, <3>1, <3>2, <3>3
    <3> QED  BY <3>2, <3>4 DEF ls
  <2>7. t = a \o u
    <3> DEFINE ls == l \o s
    <3>1. ls \in Seq(Byte)
      BY <1>1
    <3> HIDE DEF ls
    <3>2. (ls \o m) \o u = ls \o (m \o u)
      BY <1>5, <2>1, <3>1
    <3> QED  BY <2>1, <3>2 DEF ls
  <2> HIDE DEF a, t
  <2>8. Loose(a \o u) /\ (tt # <<>> => Loose(u \o tt[1]))
    BY <1>2, <1>3, <2>1, <2>6, <2>7, LooseRow DEF tt, k
  <2>9. a # <<>>
    BY <1>4, <2>6
  <2>10. Tied((ss \o <<a \o u>>) \o tt)
    BY <1>1, <2>7
  <2>11. Tied((ss \o <<a>>) \o (<<u>> \o tt))
    BY <1>1, <2>1, <2>6, <2>8, <2>9, <2>10, TiedUpper
  <2> QED  BY <2>5, <2>11
<1>7. ASSUME NEW w, NEW m, LowerMoved(b, d, w, m)
      PROVE  Tied(TextsWith(d, s))
  <2> DEFINE e == [left |-> w, right |-> <<>>]
             a == (m \o s) \o r
  <2>1. /\ m \in Seq(Byte) /\ w \in Seq(Byte) /\ w \o m = l
        /\ Len(w) = Half /\ Len(m) + Len(r) = Half
    BY <1>7 DEF LowerMoved
  <2>2. /\ d.lefts = Append(b.lefts, e) /\ d.point.left = m /\ d.point.right = r
        /\ d.rights = b.rights
    BY <1>7 DEF LowerMoved
  <2>3. e \in Cell /\ Text(e) = w
    <3>1. e.left = w /\ e.right = <<>>
      OBVIOUS
    <3>2. w \o <<>> = w
      BY <2>1
    <3>3. e \in CursorsOver(Byte) /\ Size(e) = Len(w)
      <4>1. Size(e) = Len(w) + 0 /\ Len(w) \in Nat
        BY <2>1, <3>1 DEF Size
      <4>2. e \in CursorsOver(Byte)
        BY <2>1 DEF CursorsOver
      <4> QED  BY <4>1, <4>2
    <3> QED  BY <1>4, <2>1, <3>1, <3>2, <3>3 DEF Cell, Text
  <2>4. TextsOf(d.lefts) = Append(ss, w)
    <3> HIDE DEF e
    <3>1. TextsOf(d.lefts) = ss \o <<w>>
      BY <1>2, <2>2, <2>3, TextsParts
    <3> HIDE DEF ss
    <3> QED  BY <1>1, <2>1, <3>1
  <2>5. TextsWith(d, s) = (Append(ss, w) \o <<a>>) \o tt
    BY <2>2, <2>4 DEF TextsWith
  <2> HIDE DEF l, r, ss, tt, k, d
  <2>6. a \in Seq(Byte) /\ Len(a) >= Half
    <3> DEFINE ms == m \o s
    <3>1. ms \in Seq(Byte) /\ Len(ms) = Len(m) + Len(s)
      BY <2>1
    <3> HIDE DEF ms
    <3>2. ms \o r \in Seq(Byte) /\ Len(ms \o r) = Len(ms) + Len(r)
      BY <1>1, <3>1, ConcatBytes, Zenon
    <3>3. Len(r) \in Nat /\ Len(s) \in Nat /\ Len(m) \in Nat
      BY <1>1, <2>1
    <3>4. Len(ms \o r) >= Half
      BY <1>4, <2>1, <3>1, <3>2, <3>3
    <3> QED  BY <3>2, <3>4 DEF ms
  <2>7. t = w \o a
    <3> DEFINE ms == m \o s
    <3>1. ms \in Seq(Byte)
      BY <2>1
    <3>2. (w \o m) \o s = w \o ms
      BY <1>5, <2>1
    <3> HIDE DEF ms
    <3>3. w \in Seq(Byte) /\ ms \in Seq(Byte) /\ r \in Seq(Byte)
      BY <1>1, <1>5, <2>1, <3>1
    <3>4. (w \o ms) \o r = w \o (ms \o r)
      BY <3>3, ConcatBytes, ZenonT(30)
    <3> QED  BY <2>1, <3>2, <3>4 DEF ms
  <2> HIDE DEF a, t
  <2>8. Loose(w \o a) /\ (tt # <<>> => Loose(a \o tt[1]))
    BY <1>2, <1>3, <2>1, <2>6, <2>7, LooseRow DEF tt, k
  <2>9. w # <<>>
    BY <1>4, <2>1
  <2>10. Tied((ss \o <<w \o a>>) \o tt)
    BY <1>1, <2>7
  <2>11. Tied((Append(ss, w) \o <<a>>) \o tt)
    BY <1>1, <2>1, <2>6, <2>8, <2>9, <2>10, TiedLower
  <2> QED  BY <2>5, <2>11
<1> QED  BY <1>6, <1>7, SplitParts DEF d

\* Without the first of them the texts are still tied.
LEMMA TailTied ==
    ASSUME NEW rs \in Seq(Cell), rs # <<>>, Tied(TextsOf(rs))
    PROVE  Tied(TextsOf(Tail(rs)))
<1> DEFINE u == <<Text(Head(rs))>>
           tt == TextsOf(Tail(rs))
<1>1. Head(rs) \in Cell /\ Tail(rs) \in Seq(Cell)
  OBVIOUS
<1>2. u \in Seq(Seq(Byte)) /\ tt \in Seq(Seq(Byte)) /\ Tied(u \o tt)
  BY <1>1, TextsParts, TextsInRow, CellText
<1> HIDE DEF u, tt
<1>3. Tied(tt)
  BY <1>2, TiedJoined
<1> QED  BY <1>3 DEF tt

\* text_buffer_delete goes to the next chunk.
LEMMA EnteredTied ==
    ASSUME NEW b \in Buffers, ~AtEnd(b),
           Tied(Append(TextsOf(b.lefts), b.point.left)), Tied(TextsOf(b.rights))
    PROVE  LET d == Entered(b)
           IN  /\ Tied(Append(TextsOf(d.lefts), d.point.left))
               /\ Tied(TextsOf(d.rights))
<1> DEFINE ls == b.lefts
           rs == b.rights
           p == b.point
           ss == TextsOf(ls)
           l == p.left
           d == NextChunk(b)
<1>1. CASE ~gapbuf_at_right(p)
  BY <1>1 DEF Entered
<1>2. CASE gapbuf_at_right(p)
  <2>1. rs # <<>> /\ Entered(b) = d
    BY <1>2 DEF AtEnd, Entered
  <2>2. /\ d.lefts = Append(ls, p) /\ d.rights = Tail(rs) /\ d.point.left = <<>>
    <3> DEFINE x == Append(ls, p)
               y == Head(rs)
               z == Tail(rs)
    <3>1. d = [b EXCEPT !.lefts = x, !.point = y, !.rights = z]
      BY DEF NextChunk
    <3>2. d.point.left = <<>>
      BY <1>2, <2>1, ToNextChunk
    <3> HIDE DEF x, y, z, d
    <3>3. d = [lefts |-> x, point |-> y, rights |-> z,
               point_position |-> b.point_position]
      BY <3>1, NewChunks
    <3>4. d.lefts = x /\ d.rights = z
      BY <3>3
    <3> QED  BY <3>2, <3>4 DEF x, z
  <2>3. ls \in Seq(Cell) /\ p \in Cell /\ rs \in Seq(Cell)
    BY BufferParts
  <2>4. Text(p) = l
    BY <1>2, <2>3, OneSided
  <2>5. /\ TextsOf(Append(ls, p)) = ss \o <<l>> /\ ss \in Seq(Seq(Byte))
    BY <2>3, <2>4, TextsParts
  <2>6. l \in Seq(Byte)
    BY TextsOfPoint
  <2>7. Tied(TextsOf(Tail(rs)))
    BY <2>1, <2>3, TailTied
  <2>8. Tied(Append(ss \o <<l>>, <<>>))
    <3> DEFINE s1 == Append(ss, l)
               e == <<<<>>>>
    <3>1. ss \o <<l>> = s1 /\ s1 \in Seq(Seq(Byte))
      <4> HIDE DEF ss, l
      <4> QED  BY <2>5, <2>6
    <3>2. Tied(s1)
      OBVIOUS
    <3>3. e \in Seq(Seq(Byte)) /\ e[1] = <<>> /\ Tied(e)
      <4>1. e \in Seq(Seq(Byte)) /\ e[1] = <<>>
        OBVIOUS
      <4> QED  BY <4>1, TiedOne
    <3> HIDE DEF s1
    <3>4. Append(s1, <<>>) = s1 \o e
      BY <3>1
    <3> HIDE DEF e
    <3>5. Tied(s1 \o e)
      BY <3>1, <3>2, <3>3, TiedJoined DEF Meets
    <3> QED  BY <3>1, <3>4, <3>5
  <2> HIDE DEF ls, rs, p, ss, l, d
  <2>9. TextsOf(d.lefts) = ss \o <<l>> /\ TextsOf(d.rights) = TextsOf(Tail(rs))
        /\ d.point.left = <<>>
    BY <2>2, <2>5
  <2>10. Tied(Append(TextsOf(d.lefts), d.point.left)) /\ Tied(TextsOf(d.rights))
    BY <2>7, <2>8, <2>9
  <2> QED  BY <2>1, <2>10
<1> QED  BY <1>1, <1>2

\* After a deletion that ends between codepoints the chunks are tied.
LEMMA TiedAgain ==
    ASSUME NEW b \in Buffers,
           Tied(Append(TextsOf(b.lefts), b.point.left)), Tied(TextsOf(b.rights)),
           View(b).right # <<>> => ~IsContinuation(View(b).right[1])
    PROVE  Tied(Together(b))
<1> DEFINE ss == TextsOf(b.lefts)
           tt == TextsOf(b.rights)
           l == b.point.left
           r == b.point.right
           rs == b.rights
           k == Join(rs)
<1>1. /\ ss \in Seq(Seq(Byte)) /\ tt \in Seq(Seq(Byte))
      /\ l \in Seq(Byte) /\ r \in Seq(Byte)
      /\ Together(b) = (ss \o <<l \o r>>) \o tt
  BY TextsOfPoint
<1>2. View(b).right = r \o k /\ k \in Seq(Byte) /\ rs \in Seq(Cell)
  BY BufferView, BufferParts
<1>3. r # <<>> => ~IsContinuation(r[1])
  <2> HIDE DEF r, k
  <2> QED  BY <1>1, <1>2, FirstByte
<1>4. r = <<>> /\ tt # <<>> => Meets(<<>>, tt[1])
  <2> SUFFICES ASSUME r = <<>>, tt # <<>>, tt[1] # <<>>
               PROVE  ~IsContinuation(tt[1][1])
    BY DEF Meets
  <2> DEFINE u == Text(Head(rs))
             rest == Join(Tail(rs))
  <2>1. rs # <<>> /\ tt[1] = u
    BY <1>2, TextsParts
  <2>2. u \in Seq(Byte) /\ rest \in Seq(Byte) /\ k = u \o rest
    BY <1>2, <2>1, JoinSplit, JoinConcat, CellText
  <2> HIDE DEF u, rest, k, r, tt
  <2>3. View(b).right = k
    BY <1>1, <1>2, FirstByte
  <2>4. k # <<>> /\ k[1] = u[1]
    BY <2>1, <2>2, FirstByte
  <2> QED  BY <2>1, <2>3, <2>4
<1> HIDE DEF ss, tt, l, r
<1>5. Tied(Append(ss, l)) /\ Tied(tt)
  BY DEF ss, tt, l
<1> QED  BY <1>1, <1>3, <1>4, <1>5, TiedUncut

\* What is typed at the point is no longer to type.
LEMMA TypingTied ==
    ASSUME NEW b \in Buffers, NEW s \in Seq(Byte), NEW n \in 0 .. Len(s)
    PROVE  TextsWith([b EXCEPT !.point = Typed(@, SubSeq(s, 1, n))],
                     SubSeq(s, n + 1, Len(s))) = TextsWith(b, s)
<1> DEFINE s1 == SubSeq(s, 1, n)
           s2 == SubSeq(s, n + 1, Len(s))
           d == [b EXCEPT !.point = Typed(@, s1)]
           l == b.point.left
           r == b.point.right
<1>1. d.lefts = b.lefts /\ d.point = Typed(b.point, s1) /\ d.rights = b.rights
  BY BufferParts
<1>2. d.point.left = l \o s1 /\ d.point.right = r
  <2> HIDE DEF d, s1
  <2> QED  BY <1>1 DEF Typed
<1>3. l \in Seq(Byte)
  BY TextsOfPoint
<1>4. s1 \in Seq(Byte) /\ s2 \in Seq(Byte) /\ s1 \o s2 = s
  <2>1. s1 \o s2 = s
    BY PartsJoin
  <2>2. s1 \in Seq(Byte)
    BY SubSeqText
  <2>3. s2 \in Seq(Byte)
    <3>1. n + 1 \in 1 .. Len(s) + 1 /\ Len(s) \in 0 .. Len(s)
      OBVIOUS
    <3> QED  BY <3>1, SubSeqText
  <2> QED  BY <2>1, <2>2, <2>3
<1> HIDE DEF d, s1, s2, l, r
<1>5. (l \o s1) \o s2 = l \o s
  <2>1. (l \o s1) \o s2 = l \o (s1 \o s2)
    <3>1. l \in Seq(Byte) /\ s1 \in Seq(Byte) /\ s2 \in Seq(Byte)
      BY <1>3, <1>4
    <3> QED  BY <3>1, ConcatBytes, ZenonT(30)
  <2> QED  BY <1>4, <2>1
<1>6. TextsWith(d, s2) = TextsWith(b, s)
  BY <1>1, <1>2, <1>5 DEF TextsWith, l, r
<1> QED  BY <1>6 DEF d, s1, s2

-----------------------------------------------------------------------------
(***************************************************************************)
(* The inductive invariant, and what a step shows.                         *)
(***************************************************************************)

\* A call in progress, with its local variables.
Calls ==
    [op : {"insert"}, str : Seq(Byte)]
    \cup [op : {"set_point"}, pos : Positions, want : {0, 1}]
    \cup [op : {"delete"}, pos : Positions, current_pos : Place,
          inside : BOOLEAN, bytes : Nat]
    \cup [op : {"delete_string"}, inside : {TRUE}, bytes : Nat]

\* The moves promise a result, which does not change while they run.
MoveCalls(want) ==
    [op : {"forward", "backward"}, length : Nat, steps : Nat, want : {want}]

CallInv == \/ call.op \in {"idle", "returned", "abort"}
           \/ call \in Calls
           \/ call \in MoveCalls(call.want)

\* Only in the middle of a deletion, or where it fails, the sentinel is the
\* point.
ListInv == \/ tb \in Buffers
           \/ /\ tb \in Sentinels
              /\ \/ call.op = "abort"
                 \/ call.op \in {"delete", "delete_string"} /\ call.inside

TextInv == ListInv /\ CallInv

\* What a user of the text sees of a step.
Shown == TC!Next \/ View(tb') = View(tb)

\* What the operation of a call can be.
LEMMA CallOps ==
    ASSUME CallInv
    PROVE  /\ call.op \in {"idle", "returned", "abort", "insert", "set_point",
                           "delete", "delete_string", "forward", "backward"}
           /\ Doing("insert") => call \in [op : {"insert"}, str : Seq(Byte)]
           /\ Doing("set_point")
                => call \in [op : {"set_point"}, pos : Positions, want : {0, 1}]
           /\ Doing("delete")
                => call \in [op : {"delete"}, pos : Positions,
                             current_pos : Place, inside : BOOLEAN, bytes : Nat]
           /\ Doing("delete_string")
                => call \in [op : {"delete_string"}, inside : {TRUE}, bytes : Nat]
           /\ call.op \in {"forward", "backward"} => call \in MoveCalls(call.want)
BY DEF CallInv, Calls, MoveCalls, Doing

\* Where no deletion is at work there is a chunk at the point.
LEMMA ChunkAtPoint ==
    ASSUME ListInv, ~Doing("abort"), call.op \in {"delete", "delete_string"} => ~call.inside
    PROVE  tb \in Buffers
BY DEF ListInv, Doing

\* The list stands for a cursor over bytes, in a deletion too.
LEMMA ViewTyped ==
    ASSUME ListInv
    PROVE  View(tb) \in CursorsOver(Byte)
BY BufferView, SentinelView DEF ListInv

\* Each of these is a step of TextCursor.
LEMMA ShownSteps ==
    /\ \A n \in 0 .. Len(View(tb).right) : View(tb') = Advanced(View(tb), n) => Shown
    /\ \A n \in 0 .. Len(View(tb).left) : View(tb') = Retreated(View(tb), n) => Shown
    /\ \A n \in 0 .. Len(View(tb).right) : View(tb') = Erased(View(tb), n) => Shown
    /\ View(tb') = Blank => Shown
<1>1. \A n \in 0 .. Len(View(tb).right) : View(tb)' = Advanced(View(tb), n) => TC!Next
  BY DEF TC!Next, TC!Move, TC!Advanced, Advanced
<1>2. \A n \in 0 .. Len(View(tb).left) : View(tb)' = Retreated(View(tb), n) => TC!Next
  BY DEF TC!Next, TC!Move, TC!Retreated, Retreated
<1>3. \A n \in 0 .. Len(View(tb).right) : View(tb)' = Erased(View(tb), n) => TC!Next
  BY DEF TC!Next, TC!Erase, TC!Erased, Erased
<1>4. View(tb)' = Blank => TC!Next
  BY DEF TC!Next, TC!Wipe, TC!Blank, Blank
<1>5. View(tb)' = View(tb')
  OBVIOUS
<1>6. QED
  BY <1>1, <1>2, <1>3, <1>4, <1>5 DEF Shown

\* Typing is a step of TextCursor.
LEMMA ShownTyping ==
    ASSUME NEW s \in Seq(Byte), View(tb) \in CursorsOver(Byte),
           View(tb') = Typed(View(tb), s)
    PROVE  Shown
<1> DEFINE v == View(tb)
           w == View(tb')
<1>1. SubSeq(w.left, Len(v.left) + 1, Len(w.left)) = s
  BY TypedGrowth
<1>2. w = Typed(v, SubSeq(w.left, Len(v.left) + 1, Len(w.left)))
  BY <1>1
<1>3. View(tb)' = TC!Typed(View(tb), SubSeq(View(tb)'.left, Len(View(tb).left) + 1,
                                            Len(View(tb)'.left)))
  BY <1>2 DEF TC!Typed, Typed
<1>4. TC!Type
  BY <1>3 DEF TC!Type
<1>5. QED
  BY <1>4 DEF TC!Next, Shown

-----------------------------------------------------------------------------
(***************************************************************************)
(* Calls that come and go, and insert_string.                              *)
(***************************************************************************)

\* A step that leaves the list alone.
LEMMA Unmoved ==
    ASSUME tb \in Buffers, tb' = tb, CallInv'
    PROVE  TextInv' /\ Shown
BY DEF TextInv, ListInv, Shown

\* A call that ends and leaves the list alone.
LEMMA Ended ==
    ASSUME tb \in Buffers, tb' = tb, call'.op \in {"idle", "returned", "abort"}
    PROVE  TextInv' /\ Shown
<1>1. CallInv'
  BY DEF CallInv
<1>2. QED
  BY <1>1, Unmoved

\* A failing assertion ends the call.
LEMMA AbortEnds ==
    ASSUME NEW line, Abort(line)
    PROVE  call'.op = "abort"
BY DEF Abort

\* An assertion of is_tbuf, on a list that it describes.
LEMMA AssertionHolds ==
    ASSUME NEW line, NEW ret, NEW want, tb \in Buffers,
           AssertAndReturn(line, ret, want)
    PROVE  /\ call' = Returned(ret, want) /\ UNCHANGED <<tb, doc, stale>>
           /\ TextInv' /\ Shown
<1>1. is_tbuf(tb)
  BY BufferIsTbuf
<1>2. call' = Returned(ret, want) /\ UNCHANGED <<tb, doc, stale>>
  BY <1>1 DEF AssertAndReturn
<1>3. call'.op = "returned"
  BY <1>2 DEF Returned
<1>4. QED
  BY <1>2, <1>3, Ended

\* text_buffer_init makes an empty list.
LEMMA InitText == Init => TextInv /\ View(tb) = Blank
<1> SUFFICES ASSUME Init PROVE TextInv /\ View(tb) = Blank
  OBVIOUS
<1>1. Blank \in Cell
  <2>1. Blank \in CursorsOver(Byte) /\ Size(Blank) = 0
    BY DEF Blank, CursorsOver, Size
  <2>2. QED
    BY <2>1, ChunkAssumption DEF Cell
<1>2. tb \in Buffers
  <2>1. tb = [lefts |-> <<>>, point |-> Blank, rights |-> <<>>, point_position |-> Origin]
    BY DEF Init, text_buffer_init
  <2>2. Origin \in Place /\ <<>> \in Seq(LeftCell) /\ <<>> \in Seq(RightCell)
    BY DEF Origin, Place
  <2>3. QED
    BY <1>1, <2>1, <2>2, BufferMade
<1>3. View(tb) = Blank
  <2>1. View(tb) = Framed(<<>>, Blank, <<>>)
    <3>1. tb.lefts = <<>> /\ tb.point = Blank /\ tb.rights = <<>>
      BY DEF Init, text_buffer_init
    <3>2. QED
      BY <1>2, <3>1, BufferView, JoinNothing
  <2>2. <<>> \o <<>> = <<>>
    OBVIOUS
  <2>3. Framed(<<>>, Blank, <<>>) = [left |-> <<>> \o <<>>, right |-> <<>> \o <<>>]
    BY DEF Framed, Blank
  <2>4. QED
    BY <2>1, <2>2, <2>3 DEF Blank
<1>4. call.op = "idle"
  BY DEF Init, Idle
<1>5. QED
  BY <1>2, <1>3, <1>4 DEF TextInv, ListInv, CallInv

\* The caller goes on.
LEMMA ReceiveText == ASSUME TextInv, Receive PROVE TextInv' /\ Shown
<1>1. tb \in Buffers
  BY ChunkAtPoint DEF TextInv, Receive, Doing
<1>2. call'.op = "idle" /\ tb' = tb
  BY DEF Receive, Idle
<1>3. QED
  BY <1>1, <1>2, Ended

\* Between calls the list is one that is_tbuf describes.
LEMMA IdleBuffer == ASSUME TextInv, Doing("idle") PROVE tb \in Buffers
BY ChunkAtPoint DEF TextInv, Doing

\* insert_string begins.
LEMMA CallInsertText == ASSUME TextInv, CallInsert PROVE TextInv' /\ Shown
<1>1. tb \in Buffers /\ tb' = tb
  BY IdleBuffer DEF CallInsert
<1>2. PICK str \in Inserts : call' = [op |-> "insert", str |-> str]
  BY DEF CallInsert
<1>3. str \in Seq(Byte)
  BY InsertsAssumption DEF Byte
<1>4. call' \in Calls
  BY <1>2, <1>3 DEF Calls
<1>5. CallInv'
  BY <1>4 DEF CallInv
<1>6. QED
  BY <1>1, <1>5, Unmoved

\* The buffer with room at the point, where the next bytes go.
Roomy(b) == IF gapbuf_full(b.point) THEN split_point(b) ELSE b

\* One iteration of insert_string types some of the string, or nothing where
\* it only splits.
LEMMA InsertStepDone ==
    ASSUME TextInv, InsertStep
    PROVE  /\ tb \in Buffers /\ tb' \in Buffers
           /\ \E len \in 1 .. Len(call.str) :
                 /\ tb' = [Roomy(tb) EXCEPT !.point = Typed(@, SubSeq(call.str, 1, len))]
                 /\ View(tb') = Typed(View(tb), SubSeq(call.str, 1, len))
                 /\ call' = [op |-> "insert",
                             str |-> SubSeq(call.str, len + 1, Len(call.str))]
           /\ call \in [op : {"insert"}, str : Seq(Byte)]
<1> DEFINE b == IF gapbuf_full(tb.point) THEN split_point(tb) ELSE tb
           gap == gapbuf_gap_size(b.point)
           s == call.str
           len == IF gap > Len(s) THEN Len(s) ELSE gap
           t == SubSeq(s, 1, len)
<1>1. tb \in Buffers
  BY ChunkAtPoint DEF TextInv, InsertStep, Doing
<1>2. call \in [op : {"insert"}, str : Seq(Byte)]
  BY CallOps DEF TextInv, InsertStep
<1>3. s \in Seq(Byte) /\ s # <<>> /\ call = [op |-> "insert", str |-> s]
  BY <1>2 DEF InsertStep
<1>4. b \in Buffers /\ View(b) = View(tb) /\ gap > 0 /\ gap \in Nat
  <2>1. CASE gapbuf_full(tb.point)
    <3>1. b = split_point(tb)
      BY <2>1
    <3> HIDE DEF b
    <3>2. b \in Buffers /\ View(b) = View(tb) /\ gap > 0
      BY <1>1, <2>1, <3>1, SplitKeepsView
    <3>3. b.point \in Cell
      BY <3>2, BufferParts
    <3>4. Size(b.point) \in Nat /\ Chunk \in Nat
      BY <3>3, CellText, ChunkAssumption
    <3>5. QED
      BY <3>2, <3>4 DEF gapbuf_gap_size
  <2>2. CASE ~gapbuf_full(tb.point)
    <3>1. b = tb
      BY <2>2
    <3>2. Size(tb.point) \in Nat /\ Size(tb.point) <= Chunk /\ Size(tb.point) # Chunk
          /\ Chunk \in Nat
      BY <1>1, <2>2, BufferParts, CellText, ChunkAssumption DEF gapbuf_full
    <3>3. Chunk - Size(tb.point) > 0 /\ Chunk - Size(tb.point) \in Nat
      BY <3>2
    <3> HIDE DEF b
    <3>4. QED
      BY <1>1, <3>1, <3>3 DEF gapbuf_gap_size
  <2>3. QED
    BY <2>1, <2>2
<1>5. is_tbuf(b) /\ gap > 0
  <2> HIDE DEF b
  <2>1. QED
    BY <1>4, BufferIsTbuf
<1>6. /\ tb' = [b EXCEPT !.point = Typed(@, t)]
      /\ call' = [call EXCEPT !.str = SubSeq(@, len + 1, Len(@))]
  <2> HIDE DEF gap
  <2>1. InsertStep
    OBVIOUS
  <2>2. QED
    BY <1>5, <2>1 DEF InsertStep, gap
<1> HIDE DEF b, s, gap
<1>7. Len(s) \in Nat \ {0}
  BY <1>3
<1>8. len \in 1 .. Len(s) /\ len <= gap
  BY <1>4, <1>7
<1>9. t \in Seq(Byte) /\ t # <<>> /\ Len(t) <= gap
  BY <1>3, <1>4, <1>7, <1>8
<1> HIDE DEF len, t
<1>10. tb' \in Buffers /\ View(tb') = Typed(View(b), t)
  BY <1>4, <1>6, <1>9, PointGrows DEF gap
<1>11. call' = [op |-> "insert", str |-> SubSeq(s, len + 1, Len(s))]
  BY <1>3, <1>6
<1>12. b = Roomy(tb)
  BY DEF b, Roomy
<1>13. QED
  BY <1>1, <1>2, <1>4, <1>6, <1>8, <1>10, <1>11, <1>12 DEF s, t

\* An iteration of insert_string keeps the invariant.
LEMMA InsertStepText == ASSUME TextInv, InsertStep PROVE TextInv' /\ Shown
<1> DEFINE s == call.str
<1>1. tb \in Buffers /\ tb' \in Buffers /\ s \in Seq(Byte)
  BY InsertStepDone
<1>2. PICK len \in 1 .. Len(s) :
         /\ View(tb') = Typed(View(tb), SubSeq(s, 1, len))
         /\ call' = [op |-> "insert", str |-> SubSeq(s, len + 1, Len(s))]
  BY InsertStepDone
<1> HIDE DEF s
<1>3. SubSeq(s, 1, len) \in Seq(Byte) /\ SubSeq(s, len + 1, Len(s)) \in Seq(Byte)
  BY <1>1
<1>4. call' \in Calls
  BY <1>2, <1>3 DEF Calls
<1>5. CallInv'
  BY <1>4 DEF CallInv
<1>6. Shown
  <2>1. View(tb) \in CursorsOver(Byte)
    BY <1>1, BufferView
  <2>2. QED
    BY <1>2, <1>3, <2>1, ShownTyping
<1>7. QED
  BY <1>1, <1>5, <1>6 DEF TextInv, ListInv

\* insert_string returns.
LEMMA InsertReturnText == ASSUME TextInv, InsertReturn PROVE TextInv' /\ Shown
<1>1. tb \in Buffers
  BY ChunkAtPoint DEF TextInv, InsertReturn, Doing
<1>2. QED
  BY <1>1, AssertionHolds DEF InsertReturn

-----------------------------------------------------------------------------
(***************************************************************************)
(* The other calls.                                                        *)
(***************************************************************************)

\* text_buffer_set_point rewinds to the start.
LEMMA CallSetPointText ==
    ASSUME TextInv, CallSetPoint
    PROVE  TextInv' /\ Shown
<1>1. tb \in Buffers /\ tb' = textbuf_rewind(tb)
  BY IdleBuffer DEF CallSetPoint
<1>2. tb' \in Buffers /\ View(tb') = [left |-> <<>>, right |-> Text(View(tb))]
  BY <1>1, RewoundToStart
<1>3. Shown
  <2>1. View(tb) \in CursorsOver(Byte)
    BY <1>1, BufferView
  <2>2. /\ Retreated(View(tb), Len(View(tb).left)) = [left |-> <<>>, right |-> Text(View(tb))]
        /\ Len(View(tb).left) \in 0 .. Len(View(tb).left)
    BY <2>1, RetreatedToStart
  <2>3. QED
    BY <1>2, <2>2, ShownSteps
<1>4. CallInv'
  <2>1. PICK pos \in Positions :
           call' = [op |-> "set_point", pos |-> pos,
                    want |-> IF HasPosition(Text(doc), pos) THEN 1 ELSE 0]
    BY DEF CallSetPoint
  <2>2. call' \in Calls
    BY <2>1 DEF Calls
  <2>3. QED
    BY <2>2 DEF CallInv
<1>5. QED
  BY <1>2, <1>3, <1>4 DEF TextInv, ListInv

\* A step of set_point, or of the moves, that goes forward.
LEMMA ForwardShown ==
    ASSUME tb \in Buffers, ~AtEnd(tb), forward_char_asserts(tb),
           tb' = forward_char(tb)
    PROVE  tb' \in Buffers /\ Shown
BY ForwardChar, ShownSteps

\* text_buffer_set_point goes on by one codepoint.
LEMMA SetPointStepText ==
    ASSUME TextInv, SetPointStep
    PROVE  TextInv' /\ Shown
<1>1. tb \in Buffers
  BY ChunkAtPoint DEF TextInv, SetPointStep, Doing
<1>2. CASE forward_char_asserts(tb)
  <2>1. tb' = forward_char(tb) /\ call' = call /\ ~AtEnd(tb)
    BY <1>2 DEF SetPointStep
  <2>2. tb' \in Buffers /\ Shown
    BY <1>1, <1>2, <2>1, ForwardShown
  <2>3. CallInv'
    BY <2>1 DEF TextInv, CallInv
  <2>4. QED
    BY <2>2, <2>3 DEF TextInv, ListInv
<1>3. CASE ~forward_char_asserts(tb)
  <2>1. tb' = tb /\ call'.op = "abort"
    BY <1>3, AbortEnds DEF SetPointStep
  <2>2. QED
    BY <1>1, <2>1, Ended
<1>4. QED
  BY <1>2, <1>3

\* text_buffer_set_point comes to the end of the text.
LEMMA SetPointFailsText ==
    ASSUME TextInv, SetPointFails
    PROVE  TextInv' /\ Shown
<1>1. tb \in Buffers
  BY ChunkAtPoint DEF TextInv, SetPointFails, Doing
<1>2. QED
  BY <1>1, AssertionHolds DEF SetPointFails

\* text_buffer_set_point has come to the position or past it.
LEMMA SetPointReturnText ==
    ASSUME TextInv, SetPointReturn
    PROVE  TextInv' /\ Shown
<1>1. tb \in Buffers
  BY ChunkAtPoint DEF TextInv, SetPointReturn, Doing
<1>2. CASE tb.point_position = call.pos
  BY <1>1, <1>2, AssertionHolds DEF SetPointReturn
<1>3. CASE tb.point_position # call.pos
  <2>1. tb' = tb /\ call'.op = "abort"
    BY <1>3, AbortEnds DEF SetPointReturn
  <2>2. QED
    BY <1>1, <2>1, Ended
<1>4. QED
  BY <1>2, <1>3

\* text_buffer_delete begins.
LEMMA CallDeleteText ==
    ASSUME TextInv, CallDelete
    PROVE  TextInv' /\ Shown
<1>1. tb \in Buffers /\ tb' = tb
  BY IdleBuffer DEF CallDelete
<1>2. PICK pos \in Positions :
         call' = [op |-> "delete", pos |-> pos, current_pos |-> tb.point_position,
                  inside |-> FALSE, bytes |-> 0]
  BY DEF CallDelete
<1>3. tb.point_position \in Place
  BY <1>1, BufferParts
<1>4. call' \in Calls
  BY <1>2, <1>3 DEF Calls
<1>5. CallInv'
  BY <1>4 DEF CallInv
<1>6. QED
  BY <1>1, <1>5, Unmoved

\* text_buffer_delete comes to the next codepoint.
LEMMA DeleteStepText ==
    ASSUME TextInv, DeleteStep
    PROVE  TextInv' /\ Shown
<1>1. tb \in Buffers
  BY ChunkAtPoint DEF TextInv, DeleteStep, Doing
<1>2. tb' = Entered(tb) /\ ~AtEnd(tb)
  BY DEF DeleteStep
<1>3. tb' \in Buffers /\ View(tb') = View(tb)
  BY <1>1, <1>2, EnteredBuffer
<1>4. CallInv'
  <2>1. CASE CharSize(NextByte(tb)) > 0
    <3> DEFINE at == Stepped(call.current_pos, NextByte(tb))
               size == CharSize(NextByte(tb))
    <3>1. call \in [op : {"delete"}, pos : Positions, current_pos : Place,
                    inside : BOOLEAN, bytes : Nat]
      BY CallOps DEF TextInv, DeleteStep
    <3>2. at \in Place /\ size \in Nat
      <4>1. call.current_pos \in Place
        BY <3>1
      <4>2. QED
        BY <4>1, CharSizes DEF Place, Stepped
    <3>3. call' = [call EXCEPT !.current_pos = at, !.inside = TRUE, !.bytes = size]
      BY <2>1 DEF DeleteStep
    <3> HIDE DEF at, size
    <3>4. call' \in [op : {"delete"}, pos : Positions, current_pos : Place,
                     inside : BOOLEAN, bytes : Nat]
      BY <3>1, <3>2, <3>3
    <3>5. QED
      BY <3>4 DEF CallInv, Calls
  <2>2. CASE ~(CharSize(NextByte(tb)) > 0)
    BY <2>2, AbortEnds DEF DeleteStep, CallInv
  <2>3. QED
    BY <2>1, <2>2
<1>5. QED
  BY <1>3, <1>4 DEF TextInv, ListInv, Shown

\* text_buffer_delete returns.
LEMMA DeleteReturnText ==
    ASSUME TextInv, DeleteReturn
    PROVE  TextInv' /\ Shown
<1>1. tb \in Buffers
  BY ChunkAtPoint DEF TextInv, DeleteReturn, Doing
<1>2. tb' = tb /\ call'.op = "returned"
  BY DEF DeleteReturn, Returned
<1>3. QED
  BY <1>1, <1>2, Ended

\* delete_string begins.
LEMMA CallDeleteStringText ==
    ASSUME TextInv, CallDeleteString
    PROVE  TextInv' /\ Shown
<1>1. tb \in Buffers /\ tb' = tb
  BY IdleBuffer DEF CallDeleteString
<1>2. PICK length \in Boundaries(doc.right) \ {0} :
         call' = [op |-> "delete_string", inside |-> TRUE, bytes |-> length]
  BY DEF CallDeleteString
<1>3. length \in Nat
  BY DEF Boundaries
<1>4. call' \in Calls
  BY <1>2, <1>3 DEF Calls
<1>5. CallInv'
  BY <1>4 DEF CallInv
<1>6. QED
  BY <1>1, <1>5, Unmoved

\* The buffer with n bytes less at the point, and with no empty chunk.
Shortened(b, n) ==
    LET c == [b EXCEPT !.point = Erased(@, n)]
        only == c.lefts = <<>> /\ c.rights = <<>>
    IN  IF gapbuf_empty(c.point) /\ ~only THEN Unlinked(c) ELSE c

\* One iteration of delete_string at a chunk erases n bytes.
LEMMA DeleteBytesDone ==
    ASSUME TextInv, DeleteBytes, tb \in Buffers
    PROVE  /\ tb' \in Buffers \cup Sentinels
           /\ tb'.point_position = tb.point_position
           /\ \E n \in 0 .. Len(View(tb).right) :
                 /\ n \in 0 .. Len(tb.point.right)
                 /\ n <= call.bytes
                 /\ tb' = Shortened(tb, n)
                 /\ View(tb') = Erased(View(tb), n)
                 /\ call' = [call EXCEPT !.bytes = @ - n]
           /\ call.bytes \in Nat
<1> DEFINE after == Len(tb.point.right)
           have == IF call.bytes < after THEN call.bytes ELSE after
<1>1. call.bytes \in Nat
  BY CallOps DEF TextInv, DeleteBytes, Doing
<1>2. after \in Nat
  <2> DEFINE r == tb.point.right
  <2>1. r \in Seq(Byte)
    BY BufferParts, CellText
  <2> HIDE DEF r
  <2>2. Len(r) \in Nat
    BY <2>1
  <2>3. QED
    BY <2>2 DEF r
<1>3. tb.point # EndNode
  BY BufferParts, CellText
<1> DEFINE b == [tb EXCEPT !.point = Erased(@, have)]
           only == b.lefts = <<>> /\ b.rights = <<>>
<1>4. /\ tb' = IF gapbuf_empty(b.point) /\ ~only THEN Unlinked(b) ELSE b
      /\ call' = [call EXCEPT !.bytes = @ - have]
  <2> HIDE DEF have, b
  <2>1. DeleteBytes
    OBVIOUS
  <2>2. QED
    BY <1>3, <2>1 DEF DeleteBytes, have, b, only
<1>5. have \in 0 .. Len(tb.point.right) /\ have <= call.bytes
  <2> HIDE DEF after
  <2>1. have \in 0 .. after /\ have <= call.bytes
    BY <1>1, <1>2
  <2>2. QED
    BY <2>1 DEF after
<1> HIDE DEF have
<1>6. /\ tb' \in Buffers \cup Sentinels
      /\ tb'.point_position = tb.point_position
      /\ have \in 0 .. Len(View(tb).right)
      /\ View(tb') = Erased(View(tb), have)
  BY <1>4, <1>5, PointErased
<1>7. tb' = Shortened(tb, have)
  BY <1>4 DEF Shortened
<1>8. QED
  BY <1>1, <1>4, <1>5, <1>6, <1>7

\* An iteration of delete_string keeps the invariant.
LEMMA DeleteBytesText ==
    ASSUME TextInv, DeleteBytes
    PROVE  TextInv' /\ Shown
<1>1. ASSUME tb \in Buffers
      PROVE  TextInv' /\ Shown
  <2>1. tb' \in Buffers \cup Sentinels
    BY <1>1, DeleteBytesDone
  <2>2. PICK n \in 0 .. Len(View(tb).right) :
           /\ n <= call.bytes
           /\ View(tb') = Erased(View(tb), n)
           /\ call' = [call EXCEPT !.bytes = @ - n]
    BY <1>1, DeleteBytesDone
  <2>3. n \in Nat /\ call.bytes \in Nat /\ call.bytes - n \in Nat
    <3>1. n \in Nat /\ call.bytes \in Nat
      BY <1>1, DeleteBytesDone
    <3>2. QED
      BY <2>2, <3>1
  <2>4. call' \in Calls /\ call'.op = call.op /\ call'.inside
    <3>1. CASE Doing("delete")
      <4>1. call \in [op : {"delete"}, pos : Positions, current_pos : Place,
                      inside : BOOLEAN, bytes : Nat]
        BY <3>1, CallOps DEF TextInv
      <4>2. call.inside
        BY DEF DeleteBytes
      <4>3. QED
        BY <2>2, <2>3, <4>1, <4>2 DEF Calls
    <3>2. CASE Doing("delete_string")
      <4>1. call \in [op : {"delete_string"}, inside : {TRUE}, bytes : Nat]
        BY <3>2, CallOps DEF TextInv
      <4>2. QED
        BY <2>2, <2>3, <4>1 DEF Calls
    <3>3. QED
      BY <3>1, <3>2 DEF DeleteBytes, Doing
  <2>5. Shown
    BY <2>2, ShownSteps
  <2>6. call'.op \in {"delete", "delete_string"}
    BY <2>4 DEF DeleteBytes
  <2>7. QED
    BY <2>1, <2>4, <2>5, <2>6 DEF TextInv, ListInv, CallInv
<1>2. ASSUME tb \in Sentinels
      PROVE  TextInv' /\ Shown
  <2>1. tb.point = EndNode
    BY <1>2 DEF Sentinels
  <2>2. tb' = tb /\ call'.op = "abort"
    BY <2>1, AbortEnds DEF DeleteBytes
  <2>3. QED
    BY <1>2, <2>2 DEF TextInv, ListInv, CallInv, Shown
<1>3. QED
  BY <1>1, <1>2 DEF TextInv, ListInv

\* is_tbuf fails when the point is the sentinel.
LEMMA SentinelIsNoTbuf == ASSUME NEW b \in Sentinels PROVE ~is_tbuf(b)
BY DEF Sentinels, is_tbuf, is_linked

\* delete_string returns, or fails its assertion.
LEMMA DeleteStringReturnText ==
    ASSUME TextInv, DeleteStringReturn
    PROVE  TextInv' /\ Shown
<1>1. tb' = tb
  BY DEF DeleteStringReturn
<1>2. ASSUME tb \in Sentinels
      PROVE  TextInv' /\ Shown
  <2>1. call'.op = "abort"
    BY <1>2, SentinelIsNoTbuf, AbortEnds DEF DeleteStringReturn
  <2>2. QED
    BY <1>1, <1>2, <2>1 DEF TextInv, ListInv, CallInv, Shown
<1>3. ASSUME tb \in Buffers
      PROVE  TextInv' /\ Shown
  <2>1. call' = IF Doing("delete") THEN [call EXCEPT !.inside = FALSE]
                                   ELSE Returned(0, 0)
    BY <1>3, BufferIsTbuf DEF DeleteStringReturn
  <2>2. CASE Doing("delete")
    <3>1. call \in [op : {"delete"}, pos : Positions, current_pos : Place,
                    inside : BOOLEAN, bytes : Nat]
      BY <2>2, CallOps DEF TextInv
    <3>2. call' = [call EXCEPT !.inside = FALSE]
      BY <2>1, <2>2
    <3>3. call' \in Calls
      BY <3>1, <3>2 DEF Calls
    <3>4. CallInv'
      BY <3>3 DEF CallInv
    <3>5. QED
      BY <1>1, <1>3, <3>4, Unmoved
  <2>3. CASE ~Doing("delete")
    <3>1. call'.op = "returned"
      BY <2>1, <2>3 DEF Returned
    <3>2. QED
      BY <1>1, <1>3, <3>1, Ended
  <2>4. QED
    BY <2>2, <2>3
<1>4. QED
  BY <1>2, <1>3 DEF TextInv, ListInv

\* text_buffer_clear leaves one empty chunk.
LEMMA CallClearText ==
    ASSUME TextInv, CallClear
    PROVE  TextInv' /\ Shown /\ View(tb') = Blank
<1> DEFINE q == tb.point_position
<1>1. tb \in Buffers
  BY IdleBuffer DEF CallClear
<1>2. q \in Place /\ tb = [lefts |-> tb.lefts, point |-> tb.point, rights |-> tb.rights,
                             point_position |-> q]
  BY <1>1, BufferParts
<1> HIDE DEF q
<1>3. tb' = [lefts |-> <<>>, point |-> Blank, rights |-> <<>>, point_position |-> q]
  <2>1. tb' = [tb EXCEPT !.lefts = <<>>, !.point = Blank, !.rights = <<>>]
    BY DEF CallClear
  <2>2. QED
    BY <1>1, <2>1, NewChunks DEF q
<1>4. Blank \in Cell
  <2>1. Blank \in CursorsOver(Byte) /\ Size(Blank) = 0
    BY DEF Blank, CursorsOver, Size
  <2>2. QED
    BY <2>1, ChunkAssumption DEF Cell
<1>5. tb' \in Buffers
  <2>1. <<>> \in Seq(LeftCell) /\ <<>> \in Seq(RightCell)
    OBVIOUS
  <2>2. QED
    BY <1>2, <1>3, <1>4, <2>1, BufferMade
<1>6. View(tb') = Blank
  <2>1. tb'.lefts = <<>> /\ tb'.point = Blank /\ tb'.rights = <<>>
    BY <1>3
  <2>2. View(tb') = Framed(<<>>, Blank, <<>>)
    BY <1>5, <2>1, BufferView, JoinNothing
  <2>3. <<>> \o <<>> = <<>>
    OBVIOUS
  <2>4. Framed(<<>>, Blank, <<>>) = [left |-> <<>> \o <<>>, right |-> <<>> \o <<>>]
    BY DEF Framed, Blank
  <2>5. QED
    BY <2>2, <2>3, <2>4 DEF Blank
<1>7. call'.op = "returned"
  BY DEF CallClear, Returned
<1>8. QED
  BY <1>5, <1>6, <1>7, ShownSteps DEF TextInv, ListInv, CallInv

\* forward_chars and backward_chars begin.
LEMMA CallMoveText ==
    ASSUME TextInv, CallForward \/ CallBackward
    PROVE  TextInv' /\ Shown
<1>1. tb \in Buffers /\ tb' = tb
  BY IdleBuffer DEF CallForward, CallBackward
<1>2. CallInv'
  <2>1. PICK n \in 1 .. MaxMove : \E want :
           \/ call' = [op |-> "forward", length |-> n, steps |-> 0, want |-> want]
           \/ call' = [op |-> "backward", length |-> n, steps |-> 0, want |-> want]
    BY DEF CallForward, CallBackward
  <2>2. n \in Nat
    OBVIOUS
  <2>3. call' \in MoveCalls(call'.want)
    BY <2>1, <2>2 DEF MoveCalls
  <2>4. QED
    BY <2>3 DEF CallInv
<1>3. QED
  BY <1>1, <1>2, Unmoved

\* One codepoint less to skip.
LEMMA MoveCounts ==
    ASSUME CallInv, call.op \in {"forward", "backward"}, call.length > 0,
           call' = [call EXCEPT !.length = @ - 1, !.steps = @ + 1]
    PROVE  /\ CallInv'
           /\ call.length \in Nat /\ call.steps \in Nat
           /\ call' = [op |-> call.op, length |-> call.length - 1,
                       steps |-> call.steps + 1, want |-> call.want]
<1> DEFINE op == call.op
           n == call.length
           k == call.steps
           w == call.want
<1>1. call \in MoveCalls(w) /\ op \in {"forward", "backward"} /\ n > 0
  BY CallOps
<1>2. call = [op |-> op, length |-> n, steps |-> k, want |-> w] /\ n \in Nat /\ k \in Nat
  BY <1>1 DEF MoveCalls
<1> HIDE DEF op, n, k, w
<1>3. PICK c : c = [call EXCEPT !.length = n - 1]
  OBVIOUS
<1>4. c = [op |-> op, length |-> n - 1, steps |-> k, want |-> w]
  BY <1>2, <1>3
<1>5. call' = [c EXCEPT !.steps = k + 1]
  BY <1>3 DEF n, k
<1>6. call' = [op |-> op, length |-> n - 1, steps |-> k + 1, want |-> w]
  BY <1>4, <1>5
<1>7. n - 1 \in Nat /\ k + 1 \in Nat
  BY <1>1, <1>2
<1>8. call' \in MoveCalls(call'.want)
  BY <1>1, <1>6, <1>7 DEF MoveCalls
<1>9. CallInv'
  BY <1>8 DEF CallInv
<1>10. QED
  BY <1>2, <1>6, <1>9 DEF op, n, k, w

\* forward_chars goes on by one codepoint.
LEMMA ForwardStepText ==
    ASSUME TextInv, ForwardStep
    PROVE  TextInv' /\ Shown
<1>1. tb \in Buffers
  BY ChunkAtPoint DEF TextInv, ForwardStep, Doing
<1>2. CASE forward_char_asserts(tb)
  <2>1. tb' = forward_char(tb) /\ ~AtEnd(tb)
    BY <1>2 DEF ForwardStep
  <2>2. tb' \in Buffers /\ Shown
    BY <1>1, <1>2, <2>1, ForwardShown
  <2>3. CallInv'
    BY <1>2, MoveCounts DEF TextInv, ForwardStep, Doing
  <2>4. QED
    BY <2>2, <2>3 DEF TextInv, ListInv
<1>3. CASE ~forward_char_asserts(tb)
  <2>1. tb' = tb /\ call'.op = "abort"
    BY <1>3, AbortEnds DEF ForwardStep
  <2>2. QED
    BY <1>1, <2>1, Ended
<1>4. QED
  BY <1>2, <1>3

\* forward_chars returns.
LEMMA ForwardReturnText ==
    ASSUME TextInv, ForwardReturn
    PROVE  TextInv' /\ Shown
<1>1. tb \in Buffers
  BY ChunkAtPoint DEF TextInv, ForwardReturn, Doing
<1>2. CASE call' = Returned(call.steps, call.want) /\ UNCHANGED <<tb, doc, stale>>
  BY <1>1, <1>2, Ended DEF Returned
<1>3. CASE AssertAndReturn(558, call.steps, call.want)
  BY <1>1, <1>3, AssertionHolds
<1>4. QED
  BY <1>2, <1>3 DEF ForwardReturn

\* One iteration of backward_char: to the chunk before, or one byte back.
LEMMA BackwardStepDone ==
    ASSUME TextInv, BackwardStep
    PROVE  /\ tb \in Buffers /\ tb' \in Buffers
           /\ \/ View(tb') = View(tb) /\ call' = call
              \/ /\ 1 \in 0 .. Len(View(tb).left)
                 /\ View(tb') = Retreated(View(tb), 1)
                 /\ \/ /\ IsContinuation(View(tb).left[Len(View(tb).left)])
                       /\ call' = call
                    \/ /\ ~IsContinuation(View(tb).left[Len(View(tb).left)])
                       /\ call' = [call EXCEPT !.length = @ - 1, !.steps = @ + 1]
<1>1. tb \in Buffers
  BY ChunkAtPoint DEF TextInv, BackwardStep, Doing
<1>2. CASE gapbuf_at_left(tb.point)
  <2>1. tb.lefts # <<>> /\ tb' = PrevChunk(tb) /\ call' = call
    BY <1>2 DEF BackwardStep
  <2>2. QED
    BY <1>1, <1>2, <2>1, ToPrevChunk
<1>3. CASE ~gapbuf_at_left(tb.point)
  <2> DEFINE b == [tb EXCEPT !.point = Retreated(@, 1)]
             ch == Head(b.point.right)
             p == SteppedBack(b.point_position, ch)
  <2>1. IF IsContinuation(ch)
        THEN tb' = b /\ call' = call
        ELSE /\ tb' = [b EXCEPT !.point_position = SteppedBack(@, ch)]
             /\ call' = [call EXCEPT !.length = @ - 1, !.steps = @ + 1]
    BY <1>3 DEF BackwardStep
  <2> DEFINE l == tb.point.left
             r == tb.point.right
             j == Join(tb.lefts)
  <2>2. /\ l \in Seq(Byte) /\ l # <<>> /\ j \in Seq(Byte) /\ r \in Seq(Byte)
        /\ View(tb).left = j \o l
    BY <1>1, <1>3, BufferParts, CellText, BufferView DEF gapbuf_at_left
  <2>3. 1 \in 0 .. Len(tb.point.left)
    <3> HIDE DEF l
    <3>1. 1 \in 0 .. Len(l)
      BY <2>2
    <3>2. QED
      BY <3>1 DEF l
  <2>4. /\ b \in Buffers /\ b.point = Retreated(tb.point, 1)
        /\ b.point_position = tb.point_position
        /\ 1 \in 0 .. Len(View(tb).left) /\ View(b) = Retreated(View(tb), 1)
    BY <1>1, <2>3, PointRetreats
  <2>5. ch = View(tb).left[Len(View(tb).left)]
    <3>1. b.point.right = SubSeq(l, Len(l) - 1 + 1, Len(l)) \o r
      BY <2>4 DEF Retreated
    <3> HIDE DEF l, r, j, b
    <3>2. Len(l) \in Nat \ {0}
      BY <2>2
    <3>3. Head(SubSeq(l, Len(l) - 1 + 1, Len(l)) \o r) = l[Len(l)]
      BY <2>2, <3>2
    <3>4. (j \o l)[Len(j \o l)] = l[Len(l)]
      BY <2>2, <3>2
    <3>5. QED
      BY <2>2, <3>1, <3>3, <3>4
  <2>6. p \in Place
    <3>1. tb.point_position \in Place
      BY <1>1, BufferParts
    <3> HIDE DEF b, ch
    <3>2. QED
      BY <2>4, <3>1 DEF Place, SteppedBack, OneLess
  <2> HIDE DEF ch, b
  <2>7. CASE IsContinuation(ch)
    BY <1>1, <2>1, <2>4, <2>5, <2>7
  <2>8. CASE ~IsContinuation(ch)
    <3>1. tb' = [b EXCEPT !.point_position = p]
      BY <2>1, <2>8
    <3> HIDE DEF p
    <3>2. tb' \in Buffers /\ View(tb') = View(b)
      BY <2>4, <2>6, <3>1, NewPosition
    <3>3. QED
      BY <1>1, <2>1, <2>4, <2>5, <2>8, <3>2
  <2>9. QED
    BY <2>7, <2>8
<1>4. QED
  BY <1>2, <1>3

\* backward_char goes back by one chunk or by one byte.
LEMMA BackwardStepText ==
    ASSUME TextInv, BackwardStep
    PROVE  TextInv' /\ Shown
<1>1. tb \in Buffers /\ tb' \in Buffers
  BY BackwardStepDone
<1>2. Shown
  <2>1. CASE View(tb') = View(tb)
    BY <2>1 DEF Shown
  <2>2. CASE 1 \in 0 .. Len(View(tb).left) /\ View(tb') = Retreated(View(tb), 1)
    BY <2>2, ShownSteps
  <2>3. QED
    BY <2>1, <2>2, BackwardStepDone
<1>3. CallInv'
  <2>1. CASE call' = call
    BY <2>1 DEF TextInv, CallInv
  <2>2. CASE call' = [call EXCEPT !.length = @ - 1, !.steps = @ + 1]
    BY <2>2, MoveCounts DEF TextInv, BackwardStep, Doing
  <2>3. QED
    BY <2>1, <2>2, BackwardStepDone
<1>4. QED
  BY <1>1, <1>2, <1>3 DEF TextInv, ListInv

\* backward_chars returns.
LEMMA BackwardReturnText ==
    ASSUME TextInv, BackwardReturn
    PROVE  TextInv' /\ Shown
<1>1. tb \in Buffers
  BY ChunkAtPoint DEF TextInv, BackwardReturn, Doing
<1>2. CASE call' = Returned(call.steps, call.want) /\ UNCHANGED <<tb, doc, stale>>
  BY <1>1, <1>2, Ended DEF Returned
<1>3. CASE AssertAndReturn(578, call.steps, call.want)
  BY <1>1, <1>3, AssertionHolds
<1>4. QED
  BY <1>2, <1>3 DEF BackwardReturn

\* Every step keeps the invariant and is one of TextCursor or none.
LEMMA TextStep == TextInv /\ [Next]_vars => TextInv' /\ Shown
<1> SUFFICES ASSUME TextInv, [Next]_vars
             PROVE  TextInv' /\ Shown
  OBVIOUS
<1>1. CASE UNCHANGED vars
  BY <1>1 DEF vars, TextInv, ListInv, CallInv, Shown
<1>2. CASE Work
  BY <1>2, InsertStepText, InsertReturnText, SetPointStepText, SetPointFailsText,
     SetPointReturnText, DeleteStepText, DeleteReturnText, DeleteBytesText,
     DeleteStringReturnText, ForwardStepText, ForwardReturnText,
     BackwardStepText, BackwardReturnText DEF Work
<1>3. CASE Next /\ ~Work
  BY <1>3, ReceiveText, CallInsertText, CallSetPointText, CallDeleteText,
     CallDeleteStringText, CallClearText, CallMoveText DEF Next
<1>4. QED
  BY <1>1, <1>2, <1>3

-----------------------------------------------------------------------------
(***************************************************************************)
(* The theorems.                                                           *)
(***************************************************************************)

\* TextInv holds in every state: whatever a call of text_buffer.c is
\* doing, the list has the shape that is_tbuf asserts, but for the sentinel
\* that a deletion can leave as the point.
THEOREM TextInductive == Spec => []TextInv
<1>1. Init => TextInv
  BY InitText
<1>2. TextInv /\ [Next]_vars => TextInv'
  BY TextStep
<1>3. QED
  BY <1>1, <1>2, PTL DEF Spec

\* A cell is what the type invariant takes for a gap buffer.
LEMMA CellIsChunk == ASSUME NEW c \in Cell PROVE IsChunk(c)
<1>1. c \in CursorsOver(Byte) /\ Text(c) \in Seq(Byte) /\ Size(c) <= Chunk
  BY CellText
<1>2. DOMAIN c = {"left", "right"}
  BY <1>1 DEF CursorsOver
<1>3. QED
  BY <1>1, <1>2 DEF IsChunk, Byte

\* The type invariant holds: no chunk ever holds more bytes than
\* chunk_size, and tb->point is a gap buffer unless a deletion has taken
\* out the last chunk.
THEOREM TextTyped == Spec => []TypeOK
<1>1. TextInv => TypeOK
  <2> SUFFICES ASSUME TextInv PROVE TypeOK
    OBVIOUS
  <2>1. /\ call.op \in {"idle", "returned", "abort", "insert", "set_point",
                        "delete", "delete_string", "forward", "backward"}
    BY CallOps DEF TextInv
  <2>2. ASSUME tb \in Buffers PROVE TypeOK
    <3>1. /\ tb.lefts \in Seq(Cell) /\ tb.rights \in Seq(Cell) /\ tb.point \in Cell
          /\ tb.point_position \in [line_num : Nat, char_num : Nat]
      BY <2>2, BufferParts DEF Place
    <3>2. \A i \in DOMAIN tb.lefts : IsChunk(tb.lefts[i])
      <4> SUFFICES ASSUME NEW i \in DOMAIN tb.lefts PROVE IsChunk(tb.lefts[i])
        OBVIOUS
      <4>1. tb.lefts[i] \in Cell
        BY <3>1
      <4>2. QED
        BY <4>1, CellIsChunk
    <3>3. \A i \in DOMAIN tb.rights : IsChunk(tb.rights[i])
      <4> SUFFICES ASSUME NEW i \in DOMAIN tb.rights PROVE IsChunk(tb.rights[i])
        OBVIOUS
      <4>1. tb.rights[i] \in Cell
        BY <3>1
      <4>2. QED
        BY <4>1, CellIsChunk
    <3>4. tb.point # EndNode /\ IsChunk(tb.point)
      BY <3>1, CellText, CellIsChunk
    <3>5. QED
      BY <2>1, <3>1, <3>2, <3>3, <3>4 DEF TypeOK
  <2>3. ASSUME tb \in Sentinels PROVE TypeOK
    <3>1. tb.lefts \in Seq(Cell) /\ tb.rights = <<>> /\ tb.point = EndNode
          /\ tb.point_position \in [line_num : Nat, char_num : Nat]
      BY <2>3, SentinelView DEF Sentinels, Place
    <3>2. \A i \in DOMAIN tb.lefts : IsChunk(tb.lefts[i])
      <4> SUFFICES ASSUME NEW i \in DOMAIN tb.lefts PROVE IsChunk(tb.lefts[i])
        OBVIOUS
      <4>1. tb.lefts[i] \in Cell
        BY <3>1
      <4>2. QED
        BY <4>1, CellIsChunk
    <3>3. ~(tb \in Buffers)
      BY <3>1, BufferParts, CellText
    <3>4. call.op \in {"delete", "delete_string", "abort"}
      BY <3>3 DEF TextInv, ListInv
    <3>5. \A i \in DOMAIN tb.rights : IsChunk(tb.rights[i])
      BY <3>1
    <3>6. QED
      BY <2>1, <3>1, <3>2, <3>4, <3>5 DEF TypeOK
  <2>4. QED
    BY <2>2, <2>3 DEF TextInv, ListInv
<1>2. QED
  BY <1>1, TextInductive, PTL

\* Between calls the list passes the assertion assert(is_tbuf(tb)) that
\* the calls of text_buffer.c end with: the point is linked, no chunk but a
\* sole one is empty, and every gap is on the side of the point.
THEOREM ListKeepsShape == Spec => [](AtRest => is_tbuf(tb))
<1>1. TextInv => (AtRest => is_tbuf(tb))
  BY ChunkAtPoint, BufferIsTbuf DEF TextInv, AtRest, Doing
<1>2. QED
  BY <1>1, TextInductive, PTL

\* The list of chunks implements a text with a cursor: each iteration of
\* the loops of text_buffer.c moves the cursor, types at it, erases after
\* it, wipes the text or changes nothing, for every chunk size.
THEOREM TextImplementsCursor == Spec => ImplementsCursor
<1>1. Init => TC!Init
  BY InitText DEF TC!Init, TC!Blank, Blank
<1>2. TextInv /\ [Next]_vars => [TC!Next]_(View(tb))
  <2> SUFFICES ASSUME TextInv, [Next]_vars
               PROVE  TC!Next \/ View(tb)' = View(tb)
    OBVIOUS
  <2>1. View(tb)' = View(tb')
    OBVIOUS
  <2>2. QED
    BY <2>1, TextStep DEF Shown
<1>3. Init => TextInv
  BY InitText
<1>4. TextInv /\ [Next]_vars => TextInv'
  BY TextStep
<1>5. QED
  BY <1>1, <1>2, <1>3, <1>4, PTL DEF Spec, ImplementsCursor, TC!Spec

-----------------------------------------------------------------------------
(***************************************************************************)
(* What a call has done and what it has still to do make up what it        *)
(* promises: DocInv, case by case of the running call.                     *)
(***************************************************************************)

\* A call is not running: the chunks hold the text, and the result of the
\* last call and the stored position are right.
Resting ==
    /\ AtRest
    /\ View(tb) = doc
    /\ Doing("returned") => call.ret = call.want
    /\ stale = {} => tb.point_position = PositionAfter(doc.left)

\* What is left of the string is still to be typed.
Inserting ==
    /\ Doing("insert")
    /\ doc = Typed(View(tb), call.str)
    /\ stale # {}

\* The walk has not gone past the place to find.
SettingPoint ==
    /\ Doing("set_point")
    /\ Walk(View(tb), call.pos, tb.point_position)
    /\ doc = SetTo(View(tb), call.pos)
    /\ call.want = IF HasPosition(Text(View(tb)), call.pos) THEN 1 ELSE 0

\* The text as it was with the erased before it, and the cursor where the
\* next codepoint to delete begins.
Undeleted(v, erased, n) ==
    [left |-> v.left \o erased, right |-> SubSeq(v.right, n + 1, Len(v.right))]

\* text_buffer_delete walks over the text as it was when it began.
Deleting ==
    /\ Doing("delete")
    /\ stale = {}
    /\ tb.point_position = PositionAfter(View(tb).left)
    /\ call.bytes \in 0 .. Len(View(tb).right)
    /\ ~call.inside => call.bytes = 0
    /\ \E erased \in Seq(Byte) :
          LET c == Undeleted(View(tb), erased, call.bytes)
          IN  /\ Walk(c, call.pos, call.current_pos)
              /\ doc = [left |-> View(tb).left, right |-> SetTo(c, call.pos).right]

DeletingString ==
    /\ Doing("delete_string")
    /\ call.bytes \in 0 .. Len(View(tb).right)
    /\ doc = Erased(View(tb), call.bytes)
    /\ stale = {} => tb.point_position = PositionAfter(View(tb).left)

\* What is left to skip ends where the whole skip does.
MovingForward ==
    /\ Doing("forward")
    /\ Between(View(tb))
    /\ doc = SkippedForward(View(tb), call.length)
    /\ call.want = call.steps + Available(View(tb).right, call.length)
    /\ stale = {} => tb.point_position = PositionAfter(View(tb).left)

\* In the middle of a codepoint the cursor may stand here.
MovingBackward ==
    /\ Doing("backward")
    /\ View(tb).left # <<>> => ~IsContinuation(View(tb).left[1])
    /\ doc = SkippedBackward(View(tb), call.length)
    /\ call.want = call.steps + Available(View(tb).left, call.length)
    /\ stale # {}

Aborted ==
    /\ Doing("abort")
    /\ call.line = 477 \/ AbortsExplained

DocInv == /\ Between(doc)
          /\ \/ Resting \/ Inserting \/ SettingPoint \/ Deleting
             \/ DeletingString \/ MovingForward \/ MovingBackward \/ Aborted

\* What text_buffer_delete has still to delete, as it erases.
LEMMA UndeletedErased ==
    ASSUME NEW c \in CursorsOver(Byte), NEW e \in Seq(Byte),
           NEW m \in 0 .. Len(c.right), NEW n \in 0 .. m
    PROVE  Undeleted(Erased(c, n), e, m - n) = Undeleted(c, e, m)
<1> DEFINE s == c.right
           r == SubSeq(s, n + 1, Len(s))
<1>1. s \in Seq(Byte)
  BY DEF CursorsOver
<1> HIDE DEF s
<1>2. SubSeq(r, m - n + 1, Len(r)) = SubSeq(s, m + 1, Len(s))
  BY <1>1, RestOfRest DEF s
<1>3. Erased(c, n).left = c.left /\ Erased(c, n).right = r
  BY DEF Erased, s
<1> HIDE DEF r
<1> QED  BY <1>2, <1>3 DEF Undeleted, s

\* ... and as it comes to the next codepoint.
LEMMA UndeletedGoesOn ==
    ASSUME NEW c \in CursorsOver(Byte), NEW e \in Seq(Byte), NEW k \in 0 .. Len(c.right)
    PROVE  /\ Undeleted(c, <<>>, 0) = c
           /\ Undeleted(c, e, 0) = [left |-> c.left \o e, right |-> c.right]
           /\ SubSeq(c.right, 1, k) \in Seq(Byte)
           /\ e \o SubSeq(c.right, 1, k) \in Seq(Byte)
           /\ Advanced(Undeleted(c, e, 0), k) = Undeleted(c, e \o SubSeq(c.right, 1, k), k)
<1> DEFINE l == c.left
           s == c.right
           p == SubSeq(s, 1, k)
<1>1. l \in Seq(Byte) /\ s \in Seq(Byte) /\ c = [left |-> l, right |-> s]
  BY DEF CursorsOver
<1> HIDE DEF l, s
<1>2. p \in Seq(Byte)
  BY <1>1 DEF s
<1>3. SubSeq(s, 0 + 1, Len(s)) = s /\ l \o <<>> = l
  BY <1>1
<1>4. Undeleted(c, <<>>, 0) = c /\ Undeleted(c, e, 0) = [left |-> l \o e, right |-> s]
  BY <1>1, <1>3 DEF Undeleted, l, s
<1> HIDE DEF p
<1>5. (l \o e) \o p = l \o (e \o p)
  <2>1. \A x, y, z \in Seq(Byte) : (x \o y) \o z = x \o (y \o z)
    BY ConcatThree
  <2> QED  BY <1>1, <1>2, <2>1, Zenon
<1>8. e \o p \in Seq(Byte)
  BY <1>2
<1>6. Advanced(Undeleted(c, e, 0), k)
        = [left |-> (l \o e) \o p, right |-> SubSeq(s, k + 1, Len(s))]
  <2>1. Undeleted(c, e, 0).left = l \o e /\ Undeleted(c, e, 0).right = s
    BY <1>4
  <2> QED  BY <2>1 DEF Advanced, p
<1>7. Undeleted(c, e \o p, k)
        = [left |-> l \o (e \o p), right |-> SubSeq(s, k + 1, Len(s))]
  BY DEF Undeleted, l, s
<1> QED  BY <1>2, <1>4, <1>5, <1>6, <1>7, <1>8 DEF l, s, p

\* text_buffer_delete leaves of the text after the cursor what comes after
\* the position.
LEMMA DeletesToPlace ==
    ASSUME NEW c, NEW pos, NEW p, Walk(c, pos, p)
    PROVE  /\ ErasedTo(c, pos) = [left |-> c.left, right |-> SetTo(c, pos).right]
           /\ Between(ErasedTo(c, pos))
<1> DEFINE t == Text(c)
           f == FirstPlace(t, pos)
           s == c.right
           l == c.left
<1>1. c \in CursorsOver(Byte) /\ Between(c)
  BY DEF Walk, Between
<1>2. /\ t \in Seq(Byte) /\ Len(t) = Len(l) + Len(s) /\ l \in Seq(Byte) /\ s \in Seq(Byte)
      /\ IsUtf8(t)
  BY <1>1, CursorBetween, BetweenIsPlace
<1>3. f \in 0 .. Len(t) /\ Len(l) <= f /\ f \in Boundaries(t)
  <2>1. f \in Boundaries(t) /\ f \in 0 .. Len(t)
        /\ (PlacesFrom(t, pos) = {} => f = Len(t))
        /\ (PlacesFrom(t, pos) # {} => f \in PlacesFrom(t, pos))
    BY <1>2, FirstPlaceIs
  <2>2. \A m \in PlacesFrom(t, pos) : Len(l) <= m
    BY DEF Walk
  <2> HIDE DEF f, t, l, s
  <2> QED  BY <2>1, <2>2, <1>2
<1>4. SetTo(c, pos).right = SubSeq(t, f + 1, Len(t))
  BY DEF SetTo, CursorAt
<1>5. t = l \o s
  BY DEF Text
<1>6. SubSeq(t, f + 1, Len(t)) = SubSeq(s, f - Len(l) + 1, Len(s))
  <2> HIDE DEF t, f, s, l
  <2> DEFINE x == SubSeq(t, f + 1, Len(t))
             y == SubSeq(s, f - Len(l) + 1, Len(s))
  <2>1. /\ x \in Seq(Byte) /\ Len(x) = Len(t) - f
        /\ \A i \in 1 .. Len(x) : x[i] = t[f + i]
    BY <1>2, <1>3
  <2>2. /\ y \in Seq(Byte) /\ Len(y) = Len(s) - (f - Len(l))
        /\ \A i \in 1 .. Len(y) : y[i] = s[f - Len(l) + i]
    BY <1>2, <1>3
  <2>3. \A i \in 1 .. Len(s) : t[Len(l) + i] = s[i]
    BY <1>2, <1>5
  <2> HIDE DEF x, y
  <2>4. Len(x) = Len(y)
    BY <2>1, <2>2, <1>2, <1>3
  <2>5. \A i \in 1 .. Len(x) : x[i] = y[i]
    <3> SUFFICES ASSUME NEW i \in 1 .. Len(x) PROVE x[i] = y[i]
      OBVIOUS
    <3>1. f - Len(l) + i \in 1 .. Len(s) /\ Len(l) + (f - Len(l) + i) = f + i
      BY <2>1, <1>2, <1>3
    <3> QED  BY <3>1, <2>1, <2>2, <2>3, <2>4
  <2>6. x = y
    BY <2>1, <2>2, <2>4, <2>5, SeqEqual
  <2> QED  BY <2>6 DEF x, y
<1>7. ErasedTo(c, pos) = [left |-> l, right |-> SubSeq(t, f + 1, Len(t))]
  BY <1>6 DEF ErasedTo, Erased
<1>8. /\ SubSeq(t, f + 1, Len(t)) \in Seq(Byte) /\ IsUtf8(SubSeq(t, f + 1, Len(t)))
  BY <1>2, <1>3, Utf8Cut
<1>9. l \in Seq(Byte) /\ IsUtf8(l)
  BY <1>1 DEF Between, CursorsOver
<1>10. Between([left |-> l, right |-> SubSeq(t, f + 1, Len(t))])
  <2> DEFINE r == SubSeq(t, f + 1, Len(t))
  <2> HIDE DEF r, l, t, f
  <2>1. r \in Seq(Byte) /\ IsUtf8(r)
    BY <1>8 DEF r
  <2>2. Between([left |-> l, right |-> r])
    BY <2>1, <1>9 DEF Between, CursorsOver
  <2> QED  BY <2>2 DEF r
<1> QED  BY <1>4, <1>7, <1>10

\* Which part of the invariant a call in progress has.
LEMMA DocOps ==
    ASSUME DocInv
    PROVE  /\ AtRest => Resting
           /\ Doing("insert") => Inserting
           /\ Doing("set_point") => SettingPoint
           /\ Doing("delete") => Deleting
           /\ Doing("delete_string") => DeletingString
           /\ Doing("forward") => MovingForward
           /\ Doing("backward") => MovingBackward
           /\ Doing("abort") => Aborted
           /\ Between(doc)
BY DEF DocInv, Doing, AtRest, Resting, Inserting, SettingPoint, Deleting,
       DeletingString, MovingForward, MovingBackward, Aborted

\* A call returns, with the result it promised and the text as it should be.
LEMMA DocReturns ==
    ASSUME DocInv, NEW ret, NEW want, call' = Returned(ret, want),
           UNCHANGED <<tb, doc, stale>>, ret = want, View(tb) = doc,
           stale = {} => tb.point_position = PositionAfter(doc.left)
    PROVE  DocInv'
<1>1. Resting'
  BY DEF Resting, AtRest, Doing, Returned
<1>2. Between(doc)'
  BY DocOps
<1> QED  BY <1>1, <1>2 DEF DocInv

\* text_buffer_init leaves an empty text.
LEMMA InitDoc == Init => DocInv
<1> SUFFICES ASSUME Init PROVE DocInv
  OBVIOUS
<1>1. View(tb) = Blank /\ doc = Blank /\ call.op = "idle"
  BY InitText DEF Init, Idle
<1>2. tb.point_position = Origin
  BY DEF Init, text_buffer_init
<1>3. Between(Blank)
  BY Utf8Nothing DEF Between, Blank, CursorsOver
<1>4. Resting
  BY <1>1, <1>2, PositionOfNothing DEF Resting, AtRest, Doing, Blank
<1> QED  BY <1>1, <1>3, <1>4 DEF DocInv

\* The caller goes on.
LEMMA ReceiveDoc == ASSUME TextInv, DocInv, Receive PROVE DocInv'
<1>1. Resting
  BY DocOps DEF Receive, Doing, AtRest
<1>2. Resting'
  BY <1>1 DEF Receive, Resting, AtRest, Doing, Idle
<1> QED  BY <1>2, DocOps DEF DocInv, Receive

\* What a caller finds.
LEMMA IdleDoc ==
    ASSUME DocInv, Doing("idle")
    PROVE  View(tb) = doc /\ Between(doc)
           /\ (stale = {} => tb.point_position = PositionAfter(doc.left))
BY DocOps DEF AtRest, Doing, Resting

\* insert_string begins: all of the string is still to type.
LEMMA CallInsertDoc == ASSUME TextInv, DocInv, CallInsert PROVE DocInv'
<1>1. View(tb) = doc /\ Between(doc)
  BY IdleDoc DEF CallInsert
<1>2. PICK str \in Inserts : /\ call' = [op |-> "insert", str |-> str]
                             /\ doc' = Typed(doc, str)
  BY DEF CallInsert
<1>3. str \in Seq(Byte) /\ IsUtf8(str)
  BY InsertsAssumption DEF Byte
<1>4. Between(doc)'
  BY <1>1, <1>2, <1>3, StepsBetween
<1>5. Inserting'
  BY <1>1, <1>2 DEF Inserting, Doing, CallInsert
<1> QED  BY <1>4, <1>5 DEF DocInv

\* An iteration of it types what fits into the point.
LEMMA InsertStepDoc == ASSUME TextInv, DocInv, InsertStep PROVE DocInv'
<1>1. Inserting /\ Between(doc)
  BY DocOps DEF InsertStep
<1>2. call.str \in Seq(Byte)
  BY InsertStepDone
<1>3. PICK len \in 1 .. Len(call.str) :
         /\ View(tb') = Typed(View(tb), SubSeq(call.str, 1, len))
         /\ call' = [op |-> "insert",
                     str |-> SubSeq(call.str, len + 1, Len(call.str))]
  BY InsertStepDone
<1>4. View(tb) \in CursorsOver(Byte)
  BY ViewTyped DEF TextInv
<1>5. len \in 0 .. Len(call.str)
  OBVIOUS
<1>6. Typed(View(tb'), SubSeq(call.str, len + 1, Len(call.str)))
        = Typed(View(tb), call.str)
  BY <1>2, <1>3, <1>4, <1>5, TypedTwice
<1>7. doc' = doc /\ stale' = stale
  BY DEF InsertStep
<1>8. Inserting'
  BY <1>1, <1>3, <1>6, <1>7 DEF Inserting, Doing
<1> QED  BY <1>1, <1>7, <1>8 DEF DocInv

\* It returns when nothing is left.
LEMMA InsertReturnDoc == ASSUME TextInv, DocInv, InsertReturn PROVE DocInv'
<1>1. Inserting
  BY DocOps DEF InsertReturn
<1>2. tb \in Buffers
  BY ChunkAtPoint DEF TextInv, InsertReturn, Doing
<1>3. call' = Returned(0, 0) /\ UNCHANGED <<tb, doc, stale>>
  BY <1>2, AssertionHolds DEF InsertReturn
<1>4. View(tb) \in CursorsOver(Byte)
  BY ViewTyped DEF TextInv
<1>5. Typed(View(tb), <<>>) = View(tb)
  BY <1>4, ConcatNothing DEF Typed, CursorsOver
<1>6. View(tb) = doc /\ stale # {}
  BY <1>1, <1>5 DEF Inserting, InsertReturn
<1> QED  BY <1>3, <1>6, DocReturns

\* text_buffer_set_point rewinds, and begins its walk at the start.
LEMMA CallSetPointDoc == ASSUME TextInv, DocInv, CallSetPoint PROVE DocInv'
<1>1. View(tb) = doc /\ Between(doc) /\ tb \in Buffers
  BY IdleDoc, IdleBuffer DEF CallSetPoint
<1>2. PICK pos \in Positions :
        /\ call' = [op |-> "set_point", pos |-> pos,
                    want |-> IF HasPosition(Text(doc), pos) THEN 1 ELSE 0]
        /\ doc' = SetTo(doc, pos)
  BY DEF CallSetPoint
<1> DEFINE t == Text(doc)
           w == [left |-> <<>>, right |-> t]
<1>3. t \in Seq(Byte) /\ IsUtf8(t)
  BY <1>1, BetweenIsPlace
<1>4. View(tb') = w /\ tb'.point_position = Origin
  BY <1>1, RewoundToStart DEF CallSetPoint
<1>5. Walk(w, pos, Origin) /\ Text(w) = t
  BY <1>3, WalkStarts
<1>6. SetTo(doc, pos) = SetTo(w, pos)
  BY <1>5 DEF SetTo
<1>7. Between(doc)'
  <2>1. FirstPlace(t, pos) \in Boundaries(t)
    BY <1>3, FirstPlaceIs
  <2>2. Between(CursorAt(t, FirstPlace(t, pos)))
    BY <1>3, <2>1, PlaceIsBetween
  <2> QED  BY <1>2, <2>2 DEF SetTo
<1> HIDE DEF t, w
<1>8. call'.op = "set_point" /\ call'.pos = pos
      /\ call'.want = IF HasPosition(t, pos) THEN 1 ELSE 0
  BY <1>2 DEF t
<1>9. SettingPoint'
  BY <1>2, <1>4, <1>5, <1>6, <1>8 DEF SettingPoint, Doing
<1> QED  BY <1>7, <1>9 DEF DocInv

\* A failing assertion of forward_char.
LEMMA AbortDoc ==
    ASSUME DocInv, NEW line, Abort(line), UNCHANGED <<doc, stale>>,
           line = 477 \/ AbortsExplained'
    PROVE  DocInv'
<1>1. Aborted'
  BY DEF Aborted, Doing, Abort
<1> QED  BY <1>1, DocOps DEF DocInv

\* forward_char moves the cursor over the next codepoint.
LEMMA ForwardSeen ==
    ASSUME tb \in Buffers, ~AtEnd(tb), forward_char_asserts(tb),
           tb' = forward_char(tb)
    PROVE  LET k == CharSize(View(tb).right[1])
           IN  /\ View(tb).right # <<>>
               /\ View(tb') = Advanced(View(tb), k)
               /\ tb'.point_position = Stepped(tb.point_position, View(tb).right[1])
BY EnteredBuffer, ForwardChar

\* It goes over a codepoint, not past the place to find.
LEMMA SetPointStepDoc == ASSUME TextInv, DocInv, SetPointStep PROVE DocInv'
<1>1. SettingPoint /\ tb \in Buffers
  BY DocOps, ChunkAtPoint DEF SetPointStep, TextInv, Doing
<1>2. CASE ~forward_char_asserts(tb)
  BY <1>2, AbortDoc DEF SetPointStep
<1>3. CASE forward_char_asserts(tb)
  <2> DEFINE v == View(tb)
             w == View(tb')
             k == CharSize(v.right[1])
  <2>1. /\ tb' = forward_char(tb) /\ ~AtEnd(tb)
        /\ Before(tb.point_position, call.pos)
        /\ call' = call /\ doc' = doc
    BY <1>3 DEF SetPointStep
  <2>2. /\ v.right # <<>> /\ w = Advanced(v, k)
        /\ tb'.point_position = Stepped(tb.point_position, v.right[1])
    BY <1>1, <1>3, <2>1, ForwardSeen
  <2>3. Walk(v, call.pos, tb.point_position)
    BY <1>1 DEF SettingPoint
  <2>4. Walk(w, call.pos, tb'.point_position) /\ Text(w) = Text(v)
    BY <2>1, <2>2, <2>3, WalkGoesOn
  <2>5. SetTo(w, call.pos) = SetTo(v, call.pos)
    BY <2>4 DEF SetTo
  <2>6. SettingPoint'
    BY <1>1, <2>1, <2>4, <2>5 DEF SettingPoint, Doing
  <2> QED  BY <2>1, <2>6, DocOps DEF DocInv
<1> QED  BY <1>2, <1>3

\* The walk has come to its end.
LEMMA PointIsSet ==
    ASSUME TextInv, DocInv, Doing("set_point"),
           ~Before(tb.point_position, call.pos) \/ View(tb).right = <<>>
    PROVE  /\ View(tb) = doc
           /\ tb.point_position = PositionAfter(doc.left)
           /\ tb.point_position = call.pos => call.want = 1
           /\ ~Before(tb.point_position, call.pos) /\ tb.point_position # call.pos
                => PastEndOfLine(Text(doc), call.pos)
           /\ Before(tb.point_position, call.pos) => call.want = 0
<1>1. SettingPoint
  BY DocOps
<1>2. call.pos \in Place
  BY CallOps DEF TextInv, Positions, Place
<1>3. Walk(View(tb), call.pos, tb.point_position)
  BY <1>1 DEF SettingPoint
<1>4. SetTo(View(tb), call.pos) = View(tb)
  BY <1>3, WalkEnds
<1>5. View(tb) = doc
  BY <1>1, <1>4 DEF SettingPoint
<1>6. call.want = IF HasPosition(Text(View(tb)), call.pos) THEN 1 ELSE 0
  BY <1>1 DEF SettingPoint
<1>7. /\ tb.point_position = call.pos => HasPosition(Text(View(tb)), call.pos)
      /\ ~Before(tb.point_position, call.pos) /\ tb.point_position # call.pos
            => PastEndOfLine(Text(View(tb)), call.pos)
      /\ Before(tb.point_position, call.pos) /\ View(tb).right = <<>>
            => ~HasPosition(Text(View(tb)), call.pos)
  BY <1>2, <1>3, WalkFinds
<1>8. tb.point_position = PositionAfter(View(tb).left)
  BY <1>3 DEF Walk
<1> QED  BY <1>5, <1>6, <1>7, <1>8

\* It comes to the end of the text, which then lacks the position.
LEMMA SetPointFailsDoc == ASSUME TextInv, DocInv, SetPointFails PROVE DocInv'
<1>1. tb \in Buffers
  BY ChunkAtPoint DEF TextInv, SetPointFails, Doing
<1>2. View(tb).right = <<>> /\ Before(tb.point_position, call.pos)
  BY <1>1, EndOfView DEF SetPointFails
<1>3. /\ View(tb) = doc /\ tb.point_position = PositionAfter(doc.left)
      /\ call.want = 0
  BY <1>2, PointIsSet DEF SetPointFails
<1>4. call' = Returned(0, call.want) /\ UNCHANGED <<tb, doc, stale>>
  BY <1>1, AssertionHolds DEF SetPointFails
<1> QED  BY <1>3, <1>4, DocReturns

\* It comes to the position, or past the end of a line.
LEMMA SetPointReturnDoc == ASSUME TextInv, DocInv, SetPointReturn PROVE DocInv'
<1>1. tb \in Buffers /\ ~Before(tb.point_position, call.pos)
  BY ChunkAtPoint DEF TextInv, SetPointReturn, Doing
<1>2. /\ View(tb) = doc /\ tb.point_position = PositionAfter(doc.left)
      /\ tb.point_position = call.pos => call.want = 1
      /\ tb.point_position # call.pos => PastEndOfLine(Text(doc), call.pos)
  BY <1>1, PointIsSet DEF SetPointReturn
<1>3. CASE tb.point_position = call.pos
  <2>1. call' = Returned(1, call.want) /\ UNCHANGED <<tb, doc, stale>>
    BY <1>1, <1>3, AssertionHolds DEF SetPointReturn
  <2> QED  BY <1>2, <1>3, <2>1, DocReturns
<1>4. CASE tb.point_position # call.pos
  <2>1. Abort(649) /\ UNCHANGED <<tb, doc, stale>>
    BY <1>4 DEF SetPointReturn
  <2>2. call'.line = 649 /\ call'.during = call
    BY <2>1 DEF Abort
  <2>3. AbortsExplained'
    BY <1>2, <1>4, <2>1, <2>2 DEF AbortsExplained
  <2> QED  BY <2>1, <2>3, AbortDoc
<1> QED  BY <1>3, <1>4

\* text_buffer_delete begins its walk at the point.
LEMMA CallDeleteDoc == ASSUME TextInv, DocInv, CallDelete PROVE DocInv'
<1> DEFINE v == View(tb)
<1>1. /\ v = doc /\ Between(doc)
      /\ tb.point_position = PositionAfter(doc.left) /\ stale = {}
  BY IdleDoc DEF CallDelete
<1>2. PICK pos \in Positions :
         /\ Before(tb.point_position, pos)
         /\ call' = [op |-> "delete", pos |-> pos,
                     current_pos |-> tb.point_position,
                     inside |-> FALSE, bytes |-> 0]
         /\ doc' = ErasedTo(doc, pos)
  BY DEF CallDelete
<1>3. tb' = tb /\ stale' = stale
  BY DEF CallDelete
<1>4. pos \in Place
  BY DEF Positions, Place
<1>5. Walk(v, pos, tb.point_position)
  BY <1>1, <1>2, <1>4, WalkFrom
<1>6. /\ doc' = [left |-> v.left, right |-> SetTo(v, pos).right]
      /\ Between(doc)'
  BY <1>1, <1>2, <1>5, DeletesToPlace
<1>7. v \in CursorsOver(Byte)
  BY ViewTyped DEF TextInv
<1>8. Undeleted(v, <<>>, 0) = v /\ <<>> \in Seq(Byte) /\ 0 \in 0 .. Len(v.right)
  <2>1. 0 \in 0 .. Len(v.right) /\ <<>> \in Seq(Byte)
    BY <1>7 DEF CursorsOver
  <2> QED  BY <1>7, <2>1, UndeletedGoesOn
<1> HIDE DEF v
<1>9. \E erased \in Seq(Byte) :
          LET c == Undeleted(v, erased, 0)
          IN  /\ Walk(c, pos, tb.point_position)
              /\ doc' = [left |-> v.left, right |-> SetTo(c, pos).right]
  BY <1>5, <1>6, <1>8
<1>10. v = View(tb')
  BY <1>3 DEF v
<1>11. Deleting'
  BY <1>1, <1>2, <1>3, <1>8, <1>9, <1>10 DEF Deleting, Doing
<1> QED  BY <1>6, <1>11 DEF DocInv

\* It goes over the next codepoint to delete, and into its chunk.
LEMMA DeleteStepDoc == ASSUME TextInv, DocInv, DeleteStep PROVE DocInv'
<1> DEFINE v == View(tb)
           k == CharSize(v.right[1])
<1>1. Deleting /\ tb \in Buffers /\ ~AtEnd(tb)
  BY DocOps, ChunkAtPoint DEF DeleteStep, TextInv, Doing
<1>2. /\ tb' \in Buffers /\ View(tb') = v
      /\ tb'.point_position = tb.point_position
      /\ v.right # <<>> /\ NextByte(tb) = v.right[1]
  BY <1>1, EnteredBuffer DEF DeleteStep
<1>3. call.bytes = 0 /\ doc' = doc /\ stale' = stale
  BY <1>1 DEF DeleteStep, Deleting
<1>4. PICK erased \in Seq(Byte) :
         LET c == Undeleted(v, erased, 0)
         IN  /\ Walk(c, call.pos, call.current_pos)
             /\ doc = [left |-> v.left, right |-> SetTo(c, call.pos).right]
  BY <1>1, <1>3 DEF Deleting
<1> DEFINE c == Undeleted(v, erased, 0)
<1>5. v \in CursorsOver(Byte)
  BY ViewTyped DEF TextInv
<1> HIDE DEF v
<1>6. c = [left |-> v.left \o erased, right |-> v.right]
  BY <1>5, UndeletedGoesOn, 0 \in 0 .. Len(v.right) DEF CursorsOver
<1>7. Walk(c, call.pos, call.current_pos) /\ Before(call.current_pos, call.pos)
  BY <1>4 DEF DeleteStep
<1>8. /\ k \in 1 .. Len(v.right)
      /\ Walk(Advanced(c, k), call.pos, Stepped(call.current_pos, v.right[1]))
      /\ Text(Advanced(c, k)) = Text(c)
  <2>1. c.right = v.right
    BY <1>6
  <2> HIDE DEF c, k
  <2>2. k = CharSize(c.right[1]) /\ c.right # <<>>
    BY <1>2, <2>1 DEF k
  <2>3. /\ k \in 1 .. Len(c.right)
        /\ Walk(Advanced(c, k), call.pos, Stepped(call.current_pos, c.right[1]))
        /\ Text(Advanced(c, k)) = Text(c)
    BY <1>7, <2>2, WalkGoesOn
  <2> QED  BY <2>1, <2>3
<1>9. SetTo(Advanced(c, k), call.pos) = SetTo(c, call.pos)
  BY <1>8 DEF SetTo
<1> DEFINE more == erased \o SubSeq(v.right, 1, k)
<1>10. k \in 0 .. Len(v.right)
  BY <1>5, <1>8 DEF CursorsOver
<1>11. Advanced(c, k) = Undeleted(v, more, k) /\ more \in Seq(Byte)
  BY <1>5, <1>10, UndeletedGoesOn
<1> DEFINE at == Stepped(call.current_pos, v.right[1])
<1>12. /\ Walk(Undeleted(v, more, k), call.pos, at)
       /\ doc = [left |-> v.left, right |-> SetTo(Undeleted(v, more, k), call.pos).right]
  BY <1>4, <1>8, <1>9, <1>11
<1>13. k > 0
  BY <1>8
<1> HIDE DEF k, c, more, at
<1>14. call' = [call EXCEPT !.current_pos = at, !.inside = TRUE, !.bytes = k]
  BY <1>2, <1>13 DEF DeleteStep, at, k
<1>15. call \in [op : {"delete"}, pos : Positions, current_pos : Place,
                 inside : BOOLEAN, bytes : Nat]
  BY CallOps DEF TextInv, DeleteStep
<1>16. /\ call'.op = "delete" /\ call'.pos = call.pos /\ call'.current_pos = at
       /\ call'.inside = TRUE /\ call'.bytes = k
  BY <1>14, <1>15
<1>17. Deleting'
  <2>1. \E e \in Seq(Byte) :
          LET d == Undeleted(View(tb'), e, call'.bytes)
          IN  /\ Walk(d, call'.pos, call'.current_pos)
              /\ doc' = [left |-> View(tb').left, right |-> SetTo(d, call'.pos).right]
    BY <1>2, <1>3, <1>11, <1>12, <1>16 DEF v
  <2>2. /\ tb'.point_position = PositionAfter(View(tb').left)
        /\ call'.bytes \in 0 .. Len(View(tb').right) /\ stale' = {}
    BY <1>1, <1>2, <1>3, <1>10, <1>16 DEF Deleting, v
  <2> QED  BY <1>16, <2>1, <2>2 DEF Deleting, Doing
<1> QED  BY <1>3, <1>17, DocOps DEF DocInv

\* It returns at the position or at the end of the text.
LEMMA DeleteReturnDoc == ASSUME TextInv, DocInv, DeleteReturn PROVE DocInv'
<1> DEFINE v == View(tb)
<1>1. Deleting /\ tb \in Buffers
  BY DocOps, ChunkAtPoint DEF DeleteReturn, TextInv, Doing
<1>2. ~Before(call.current_pos, call.pos) \/ v.right = <<>>
  BY <1>1, EndOfView DEF DeleteReturn
<1>3. PICK erased \in Seq(Byte) :
         LET c == Undeleted(v, erased, 0)
         IN  /\ Walk(c, call.pos, call.current_pos)
             /\ doc = [left |-> v.left, right |-> SetTo(c, call.pos).right]
  BY <1>1 DEF Deleting, DeleteReturn
<1> DEFINE c == Undeleted(v, erased, 0)
<1>4. v \in CursorsOver(Byte)
  BY ViewTyped DEF TextInv
<1>5. c = [left |-> v.left \o erased, right |-> v.right]
  <2> HIDE DEF v
  <2> QED  BY <1>4, UndeletedGoesOn, 0 \in 0 .. Len(v.right) DEF CursorsOver
<1>6. SetTo(c, call.pos) = c
  <2>1. c.right = v.right
    BY <1>5
  <2> HIDE DEF c, v
  <2>2. Walk(c, call.pos, call.current_pos)
    BY <1>3 DEF c
  <2> QED  BY <1>2, <2>1, <2>2, WalkEnds
<1>7. v = doc
  BY <1>3, <1>4, <1>5, <1>6 DEF CursorsOver
<1>8. tb.point_position = PositionAfter(doc.left)
  BY <1>1, <1>7 DEF Deleting
<1>9. call' = Returned(0, 0) /\ UNCHANGED <<tb, doc, stale>>
  BY DEF DeleteReturn
<1> QED  BY <1>7, <1>8, <1>9, DocReturns

\* delete_string begins: the whole length is to be erased.
LEMMA CallDeleteStringDoc ==
    ASSUME TextInv, DocInv, CallDeleteString PROVE DocInv'
<1>1. /\ View(tb) = doc /\ Between(doc)
      /\ stale = {} => tb.point_position = PositionAfter(doc.left)
  BY IdleDoc DEF CallDeleteString
<1>2. PICK length \in Boundaries(doc.right) \ {0} :
         /\ call' = [op |-> "delete_string", inside |-> TRUE, bytes |-> length]
         /\ doc' = Erased(doc, length)
  BY DEF CallDeleteString
<1>3. length \in 0 .. Len(doc.right) /\ Between(Erased(doc, length))
  BY <1>1, <1>2, StepsBetween
<1>4. tb' = tb /\ stale' = stale
  BY DEF CallDeleteString
<1>5. call'.op = "delete_string" /\ call'.bytes = length
  BY <1>2
<1>6. View(tb') = doc /\ Erased(doc, length).left = doc.left
  BY <1>1, <1>4 DEF Erased
<1>7. DeletingString'
  BY <1>1, <1>2, <1>3, <1>4, <1>5, <1>6 DEF DeletingString, Doing
<1> QED  BY <1>2, <1>3, <1>7 DEF DocInv

\* An iteration at the sentinel would need bytes after the cursor.
LEMMA NoDeletionAtSentinel ==
    ASSUME TextInv, DocInv, DeleteBytes
    PROVE  tb \in Buffers
<1>1. call.bytes \in 0 .. Len(View(tb).right) /\ call.bytes > 0
  BY DocOps DEF DeleteBytes, Doing, Deleting, DeletingString
<1>2. CASE tb \in Sentinels
  <2>1. Len(View(tb).right) = 0
    BY <1>2, SentinelView
  <2> QED  BY <1>1, <2>1
<1> QED  BY <1>2 DEF TextInv, ListInv

\* An iteration of the inner loop of both erases what the point holds of it.
LEMMA DeleteBytesDoc == ASSUME TextInv, DocInv, DeleteBytes PROVE DocInv'
<1> DEFINE v == View(tb)
           w == View(tb')
           m == call.bytes
<1>1. tb \in Buffers
  BY NoDeletionAtSentinel
<1>2. PICK n \in 0 .. Len(v.right) :
         /\ n <= m
         /\ w = Erased(v, n)
         /\ call' = [call EXCEPT !.bytes = @ - n]
  BY <1>1, DeleteBytesDone
<1>3. tb'.point_position = tb.point_position /\ doc' = doc /\ stale' = stale
  BY <1>1, DeleteBytesDone DEF DeleteBytes
<1>4. v \in CursorsOver(Byte) /\ w.left = v.left
  <2>1. v \in CursorsOver(Byte)
    BY ViewTyped DEF TextInv
  <2> QED  BY <1>2, <2>1 DEF Erased
<1> HIDE DEF v, w, m
<1>5. ASSUME m \in 0 .. Len(v.right)
      PROVE  /\ Erased(w, m - n) = Erased(v, m)
             /\ m - n \in 0 .. Len(w.right)
             /\ \A e \in Seq(Byte) : Undeleted(w, e, m - n) = Undeleted(v, e, m)
  <2>1. n \in 0 .. m
    BY <1>2, <1>5, <1>4
  <2> QED  BY <1>2, <1>4, <1>5, <2>1, ErasedTwice, UndeletedErased
<1>6. CASE Doing("delete")
  <2>1. Deleting
    BY <1>6, DocOps
  <2>2. call \in [op : {"delete"}, pos : Positions, current_pos : Place,
                  inside : BOOLEAN, bytes : Nat]
    BY <1>6, CallOps DEF TextInv
  <2>3. /\ call'.op = "delete" /\ call'.pos = call.pos
        /\ call'.current_pos = call.current_pos
        /\ call'.inside = call.inside /\ call'.bytes = m - n
    BY <1>2, <2>2 DEF m
  <2>4. m \in 0 .. Len(v.right) /\ call.inside
    BY <2>1 DEF Deleting, m, v, DeleteBytes
  <2>5. PICK erased \in Seq(Byte) :
           LET c == Undeleted(v, erased, m)
           IN  /\ Walk(c, call.pos, call.current_pos)
               /\ doc = [left |-> v.left, right |-> SetTo(c, call.pos).right]
    BY <2>1 DEF Deleting, v, m
  <2>6. Undeleted(w, erased, m - n) = Undeleted(v, erased, m)
    BY <1>5, <2>4
  <2>7. \E e \in Seq(Byte) :
          LET d == Undeleted(w, e, call'.bytes)
          IN  /\ Walk(d, call'.pos, call'.current_pos)
              /\ doc' = [left |-> w.left, right |-> SetTo(d, call'.pos).right]
    <3>1. /\ Walk(Undeleted(w, erased, m - n), call.pos, call.current_pos)
          /\ doc' = [left |-> w.left,
                     right |-> SetTo(Undeleted(w, erased, m - n), call.pos).right]
      BY <1>3, <1>4, <2>5, <2>6
    <3> QED  BY <2>3, <3>1
  <2>8. /\ tb'.point_position = PositionAfter(w.left)
        /\ call'.bytes \in 0 .. Len(w.right) /\ stale' = {}
    BY <1>3, <1>4, <1>5, <2>1, <2>3, <2>4 DEF Deleting, v
  <2>9. Deleting'
    BY <2>3, <2>4, <2>7, <2>8 DEF Deleting, Doing, w
  <2> QED  BY <1>3, <2>9, DocOps DEF DocInv
<1>7. CASE Doing("delete_string")
  <2>1. DeletingString
    BY <1>7, DocOps
  <2>2. call \in [op : {"delete_string"}, inside : {TRUE}, bytes : Nat]
    BY <1>7, CallOps DEF TextInv
  <2>3. call'.op = "delete_string" /\ call'.bytes = m - n
    BY <1>2, <2>2 DEF m
  <2>4. m \in 0 .. Len(v.right) /\ doc = Erased(v, m)
        /\ (stale = {} => tb.point_position = PositionAfter(v.left))
    BY <2>1 DEF DeletingString, m, v
  <2>5. /\ call'.bytes \in 0 .. Len(w.right) /\ doc' = Erased(w, call'.bytes)
        /\ (stale' = {} => tb'.point_position = PositionAfter(w.left))
    BY <1>3, <1>4, <1>5, <2>3, <2>4
  <2>6. DeletingString'
    BY <2>3, <2>5 DEF DeletingString, Doing, w
  <2> QED  BY <1>3, <2>6, DocOps DEF DocInv
<1> QED  BY <1>6, <1>7 DEF DeleteBytes, Doing

\* delete_string returns, or fails the assertion of line 634.
LEMMA DeleteStringReturnDoc ==
    ASSUME TextInv, DocInv, DeleteStringReturn PROVE DocInv'
<1> DEFINE v == View(tb)
<1>1. tb' = tb /\ doc' = doc /\ stale' = stale /\ call.bytes = 0
  BY DEF DeleteStringReturn
<1>2. v \in CursorsOver(Byte)
  BY ViewTyped DEF TextInv
<1>3. CASE ~is_tbuf(tb)
  <2>1. tb \in Sentinels
    BY <1>3, BufferIsTbuf DEF TextInv, ListInv
  <2>2. v.right = <<>> /\ v.left # <<>>
    BY <2>1, SentinelView
  <2>3. Abort(634)
    BY <1>3 DEF DeleteStringReturn
  <2>4. AbortsExplained'
    BY <1>1, <2>2, <2>3 DEF AbortsExplained, Abort
  <2> QED  BY <1>1, <2>3, <2>4, AbortDoc
<1>4. CASE is_tbuf(tb) /\ Doing("delete")
  <2>1. call \in [op : {"delete"}, pos : Positions, current_pos : Place,
                  inside : BOOLEAN, bytes : Nat]
    BY <1>4, CallOps DEF TextInv
  <2>2. call' = [call EXCEPT !.inside = FALSE]
    BY <1>4 DEF DeleteStringReturn
  <2>3. /\ call'.op = "delete" /\ call'.pos = call.pos
        /\ call'.current_pos = call.current_pos /\ call'.bytes = call.bytes
    BY <2>1, <2>2
  <2>4. Deleting
    BY <1>4, DocOps
  <2>5. Deleting'
    BY <1>1, <2>3, <2>4 DEF Deleting, Doing
  <2> QED  BY <1>1, <2>5, DocOps DEF DocInv
<1>5. CASE is_tbuf(tb) /\ Doing("delete_string")
  <2>1. DeletingString
    BY <1>5, DocOps
  <2>2. doc = v
    BY <1>1, <1>2, <2>1, NoStep DEF DeletingString
  <2>3. call' = Returned(0, 0)
    BY <1>5 DEF DeleteStringReturn, Doing
  <2> QED  BY <1>1, <2>1, <2>2, <2>3, DocReturns DEF DeletingString
<1> QED  BY <1>3, <1>4, <1>5 DEF DeleteStringReturn, Doing

\* text_buffer_clear leaves an empty text.
LEMMA CallClearDoc == ASSUME TextInv, DocInv, CallClear PROVE DocInv'
<1>1. View(tb') = Blank /\ doc' = Blank /\ stale' # {} /\ call' = Returned(0, 0)
  BY CallClearText DEF CallClear
<1>2. Between(Blank)
  BY Utf8Nothing DEF Between, Blank, CursorsOver
<1>3. Resting'
  BY <1>1 DEF Resting, AtRest, Doing, Returned
<1> QED  BY <1>1, <1>2, <1>3 DEF DocInv

\* forward_chars begins.
LEMMA CallForwardDoc == ASSUME TextInv, DocInv, CallForward PROVE DocInv'
<1>1. /\ View(tb) = doc /\ Between(doc)
      /\ stale = {} => tb.point_position = PositionAfter(doc.left)
  BY IdleDoc DEF CallForward
<1>2. PICK n \in 1 .. MaxMove :
         /\ call' = [op |-> "forward", length |-> n, steps |-> 0,
                     want |-> Available(doc.right, n)]
         /\ doc' = SkippedForward(doc, n)
  BY DEF CallForward
<1>3. tb' = tb /\ stale' = stale
  BY DEF CallForward
<1>4. n \in Nat
  BY BoundsAssumption
<1>5. Between(doc)'
  BY <1>1, <1>2, <1>4, SkipsBetween
<1>6. 0 + Available(doc.right, n) = Available(doc.right, n)
  <2>1. doc.right \in Seq(Byte)
    BY <1>1, CodepointAfter
  <2>2. Available(doc.right, n) \in Nat
    BY <1>4, <2>1, StartsCounted
  <2> QED  BY <2>2
<1>7. /\ call'.op = "forward" /\ call'.length = n /\ call'.steps = 0
      /\ call'.want = Available(doc.right, n)
  BY <1>2
<1>8. MovingForward'
  BY <1>1, <1>2, <1>3, <1>6, <1>7 DEF MovingForward, Doing
<1> QED  BY <1>5, <1>8 DEF DocInv

\* It goes over a codepoint.
LEMMA ForwardStepDoc == ASSUME TextInv, DocInv, ForwardStep PROVE DocInv'
<1>1. MovingForward /\ tb \in Buffers
  BY DocOps, ChunkAtPoint DEF ForwardStep, TextInv, Doing
<1>2. CASE ~forward_char_asserts(tb)
  BY <1>2, AbortDoc DEF ForwardStep
<1>3. CASE forward_char_asserts(tb)
  <2> DEFINE v == View(tb)
             w == View(tb')
             k == CharSize(v.right[1])
             n == call.length
  <2>1. /\ tb' = forward_char(tb) /\ ~AtEnd(tb) /\ n > 0
        /\ call' = [call EXCEPT !.length = @ - 1, !.steps = @ + 1]
        /\ doc' = doc /\ stale' = stale
    BY <1>3 DEF ForwardStep
  <2>2. /\ v.right # <<>> /\ w = Advanced(v, k)
        /\ tb'.point_position = Stepped(tb.point_position, v.right[1])
    BY <1>1, <1>3, <2>1, ForwardSeen
  <2>3. /\ n \in Nat /\ call.steps \in Nat
        /\ call' = [op |-> call.op, length |-> n - 1,
                    steps |-> call.steps + 1, want |-> call.want]
    BY <2>1, MoveCounts DEF TextInv, ForwardStep, Doing
  <2>4. /\ Between(v) /\ doc = SkippedForward(v, n)
        /\ call.want = call.steps + Available(v.right, n)
        /\ stale = {} => tb.point_position = PositionAfter(v.left)
    BY <1>1 DEF MovingForward
  <2> HIDE DEF v, w, n, k
  <2>5. /\ Between(w) /\ SkippedForward(w, n - 1) = SkippedForward(v, n)
        /\ Available(v.right, n) = Available(w.right, n - 1) + 1
        /\ PositionAfter(w.left) = Stepped(PositionAfter(v.left), v.right[1])
    BY <2>1, <2>2, <2>3, <2>4, SkipForwardGoesOn DEF k
  <2>6. Available(w.right, n - 1) \in Nat
    <3>1. w.right \in Seq(Byte)
      BY <2>5, CodepointAfter
    <3>2. n - 1 \in Nat
      BY <2>1, <2>3
    <3> QED  BY <3>1, <3>2, StartsCounted
  <2>7. /\ call'.op = "forward" /\ call'.length = n - 1
        /\ call'.steps = call.steps + 1 /\ call'.want = call.want
    BY <1>1, <2>3 DEF MovingForward, Doing
  <2>8. call'.want = call'.steps + Available(w.right, call'.length)
    <3> DEFINE a == Available(w.right, n - 1)
               s == call.steps
    <3>1. a \in Nat /\ s \in Nat /\ call.want = s + (a + 1)
      BY <2>3, <2>4, <2>5, <2>6
    <3>2. call'.want = call.want /\ call'.steps = s + 1
          /\ Available(w.right, call'.length) = a
      BY <2>7
    <3> HIDE DEF a, s
    <3> QED  BY <3>1, <3>2
  <2>9. MovingForward'
    BY <2>1, <2>2, <2>4, <2>5, <2>7, <2>8 DEF MovingForward, Doing, w
  <2> QED  BY <2>1, <2>9, DocOps DEF DocInv
<1> QED  BY <1>2, <1>3

\* It returns at the end of the text or of the count.
LEMMA ForwardReturnDoc == ASSUME TextInv, DocInv, ForwardReturn PROVE DocInv'
<1> DEFINE v == View(tb)
           n == call.length
<1>1. MovingForward /\ tb \in Buffers
  BY DocOps, ChunkAtPoint DEF ForwardReturn, TextInv, Doing
<1>2. call' = Returned(call.steps, call.want) /\ UNCHANGED <<tb, doc, stale>>
  BY <1>1, AssertionHolds DEF ForwardReturn
<1>3. n = 0 \/ v.right = <<>>
  BY <1>1, EndOfView DEF ForwardReturn
<1>4. n \in Nat /\ call.steps \in Nat
  BY CallOps DEF TextInv, ForwardReturn, Doing, MoveCalls
<1>5. /\ Between(v) /\ doc = SkippedForward(v, n)
      /\ call.want = call.steps + Available(v.right, n)
      /\ stale = {} => tb.point_position = PositionAfter(v.left)
  BY <1>1 DEF MovingForward
<1> HIDE DEF v, n
<1>6. doc = v /\ Available(v.right, n) = 0
  BY <1>3, <1>4, <1>5, SkipForwardEnds
<1>7. call.want = call.steps
  BY <1>4, <1>5, <1>6
<1> QED  BY <1>2, <1>5, <1>6, <1>7, DocReturns DEF v

\* backward_chars begins.
LEMMA CallBackwardDoc == ASSUME TextInv, DocInv, CallBackward PROVE DocInv'
<1>1. View(tb) = doc /\ Between(doc)
  BY IdleDoc DEF CallBackward
<1>2. PICK n \in 1 .. MaxMove :
         /\ call' = [op |-> "backward", length |-> n, steps |-> 0,
                     want |-> Available(doc.left, n)]
         /\ doc' = SkippedBackward(doc, n)
  BY DEF CallBackward
<1>3. tb' = tb /\ stale' # {}
  BY DEF CallBackward
<1>4. n \in Nat
  BY BoundsAssumption
<1>5. Between(doc)'
  BY <1>1, <1>2, <1>4, SkipsBetween
<1>6. 0 + Available(doc.left, n) = Available(doc.left, n)
  <2>1. doc.left \in Seq(Byte)
    BY <1>1, CodepointAfter
  <2>2. Available(doc.left, n) \in Nat
    BY <1>4, <2>1, StartsCounted
  <2> QED  BY <2>2
<1>7. /\ call'.op = "backward" /\ call'.length = n /\ call'.steps = 0
      /\ call'.want = Available(doc.left, n)
  BY <1>2
<1>8. doc.left # <<>> => ~IsContinuation(doc.left[1])
  BY <1>1, CodepointAfter
<1>9. MovingBackward'
  BY <1>1, <1>2, <1>3, <1>6, <1>7, <1>8 DEF MovingBackward, Doing
<1> QED  BY <1>5, <1>9 DEF DocInv

\* It goes back by a byte, or over the rest of a chunk.
LEMMA BackwardStepDoc == ASSUME TextInv, DocInv, BackwardStep PROVE DocInv'
<1> DEFINE v == View(tb)
           w == View(tb')
           n == call.length
           x == v.left[Len(v.left)]
<1>1. /\ v.left # <<>> => ~IsContinuation(v.left[1])
      /\ doc = SkippedBackward(v, n)
      /\ call.want = call.steps + Available(v.left, n)
      /\ stale # {}
  BY DocOps DEF MovingBackward, BackwardStep
<1>2. doc' = doc /\ stale' = stale /\ n > 0 /\ Doing("backward")
  BY DEF BackwardStep
<1>3. v \in CursorsOver(Byte)
  BY ViewTyped DEF TextInv
<1>4. n \in Nat /\ call.steps \in Nat
  BY <1>2, CallOps DEF TextInv, Doing, MoveCalls
<1>5. CASE w = v /\ call' = call
  <2>1. MovingBackward'
    BY <1>1, <1>2, <1>5 DEF MovingBackward, Doing
  <2> QED  BY <1>2, <2>1, DocOps DEF DocInv
<1>6. CASE 1 \in 0 .. Len(v.left) /\ w = Retreated(v, 1)
  <2> HIDE DEF v, w, n
  <2>1. v.left # <<>>
    <3> DEFINE l == v.left
    <3>1. l \in Seq(Byte) /\ 1 \in 0 .. Len(l)
      BY <1>3, <1>6 DEF CursorsOver
    <3> HIDE DEF l
    <3>2. l # <<>>
      BY <3>1
    <3> QED  BY <3>2 DEF l
  <2>2. /\ ~IsContinuation(x) =>
             /\ SkippedBackward(w, n - 1) = SkippedBackward(v, n)
             /\ Available(v.left, n) = Available(w.left, n - 1) + 1
        /\ IsContinuation(x) =>
             /\ SkippedBackward(w, n) = SkippedBackward(v, n)
             /\ Available(v.left, n) = Available(w.left, n)
        /\ w.left # <<>> => w.left[1] = v.left[1]
    BY <1>1, <1>2, <1>3, <1>4, <1>6, <2>1, SkipBackGoesOn
  <2>3. w.left # <<>> => ~IsContinuation(w.left[1])
    BY <1>1, <2>1, <2>2
  <2>4. CASE IsContinuation(x) /\ call' = call
    <3>1. MovingBackward'
      BY <1>1, <1>2, <2>2, <2>3, <2>4 DEF MovingBackward, Doing, n, w
    <3> QED  BY <1>2, <3>1, DocOps DEF DocInv
  <2>5. CASE /\ ~IsContinuation(x)
             /\ call' = [call EXCEPT !.length = @ - 1, !.steps = @ + 1]
    <3>1. call' = [op |-> call.op, length |-> n - 1,
                   steps |-> call.steps + 1, want |-> call.want]
      BY <1>2, <2>5, MoveCounts DEF TextInv, Doing, n
    <3>2. /\ call'.op = "backward" /\ call'.length = n - 1
          /\ call'.steps = call.steps + 1 /\ call'.want = call.want
      BY <1>2, <3>1 DEF Doing
    <3>3. Available(w.left, n - 1) \in Nat
      <4>1. w \in CursorsOver(Byte)
        BY <1>3, <1>6, OperationsClosed
      <4>2. w.left \in Seq(Byte) /\ n - 1 \in Nat
        BY <1>2, <1>4, <4>1 DEF CursorsOver, n
      <4> QED  BY <4>2, StartsCounted
    <3>4. call'.want = call'.steps + Available(w.left, call'.length)
      <4> DEFINE a == Available(w.left, n - 1)
                 s == call.steps
      <4>1. a \in Nat /\ s \in Nat /\ call.want = s + (a + 1)
        BY <1>1, <1>4, <2>2, <2>5, <3>3
      <4>2. call'.want = call.want /\ call'.steps = s + 1
            /\ Available(w.left, call'.length) = a
        BY <3>2
      <4> HIDE DEF a, s
      <4> QED  BY <4>1, <4>2
    <3>5. MovingBackward'
      BY <1>1, <1>2, <2>2, <2>3, <2>5, <3>2, <3>4 DEF MovingBackward, Doing, w
    <3> QED  BY <1>2, <3>5, DocOps DEF DocInv
  <2>6. \/ IsContinuation(x) /\ call' = call
        \/ /\ ~IsContinuation(x)
           /\ call' = [call EXCEPT !.length = @ - 1, !.steps = @ + 1]
    <3>1. \/ w = v /\ call' = call
          \/ IsContinuation(x) /\ call' = call
          \/ /\ ~IsContinuation(x)
             /\ call' = [call EXCEPT !.length = @ - 1, !.steps = @ + 1]
      BY BackwardStepDone DEF v, w
    <3>2. w # v
      <4>1. Len(w.left) = Len(v.left) - 1 /\ Len(v.left) \in Nat
        BY <1>3, <1>6, <2>1, Sizes DEF CursorsOver
      <4> QED  BY <4>1
    <3> QED  BY <3>1, <3>2
  <2> QED  BY <2>4, <2>5, <2>6
<1> QED  BY <1>5, <1>6, BackwardStepDone

\* It returns at the start of the text or of the count.
LEMMA BackwardReturnDoc == ASSUME TextInv, DocInv, BackwardReturn PROVE DocInv'
<1> DEFINE v == View(tb)
           n == call.length
<1>1. MovingBackward /\ tb \in Buffers
  BY DocOps, ChunkAtPoint DEF BackwardReturn, TextInv, Doing
<1>2. call' = Returned(call.steps, call.want) /\ UNCHANGED <<tb, doc, stale>>
  BY <1>1, AssertionHolds DEF BackwardReturn
<1>3. n = 0 \/ v.left = <<>>
  <2>1. CASE gapbuf_at_left(tb.point) /\ tb.lefts = <<>>
    <3>1. v.left = Join(tb.lefts) \o tb.point.left
      BY <1>1, BufferView
    <3>2. tb.point.left = <<>> /\ Join(tb.lefts) = <<>>
      BY <2>1, JoinNothing DEF gapbuf_at_left
    <3> QED  BY <3>1, <3>2
  <2> QED  BY <2>1 DEF BackwardReturn
<1>4. n \in Nat /\ call.steps \in Nat
  BY CallOps DEF TextInv, BackwardReturn, Doing, MoveCalls
<1>5. /\ doc = SkippedBackward(v, n) /\ stale # {}
      /\ call.want = call.steps + Available(v.left, n)
  BY <1>1 DEF MovingBackward
<1>6. v \in CursorsOver(Byte)
  BY ViewTyped DEF TextInv
<1> HIDE DEF v, n
<1>7. doc = v /\ Available(v.left, n) = 0
  BY <1>3, <1>4, <1>5, <1>6, SkipBackEnds
<1>8. call.want = call.steps
  BY <1>4, <1>5, <1>7
<1> QED  BY <1>2, <1>5, <1>7, <1>8, DocReturns DEF v

\* Every step of a call keeps the promise.
LEMMA DocStep == TextInv /\ DocInv /\ [Next]_vars => DocInv'
<1> SUFFICES ASSUME TextInv, DocInv, [Next]_vars
             PROVE  DocInv'
  OBVIOUS
<1>1. CASE UNCHANGED vars
  <2>1. /\ tb' = tb /\ call' = call /\ doc' = doc /\ stale' = stale
    BY <1>1 DEF vars
  <2>2. /\ Resting => Resting'
        /\ Inserting => Inserting'
        /\ SettingPoint => SettingPoint'
        /\ Deleting => Deleting'
        /\ DeletingString => DeletingString'
        /\ MovingForward => MovingForward'
        /\ MovingBackward => MovingBackward'
        /\ Aborted => Aborted'
    BY <2>1 DEF Resting, AtRest, Doing, Inserting, SettingPoint, Deleting,
         DeletingString, MovingForward, MovingBackward, Aborted, AbortsExplained
  <2> QED  BY <2>1, <2>2 DEF DocInv
<1>2. CASE Work
  BY <1>2, InsertStepDoc, InsertReturnDoc, SetPointStepDoc, SetPointFailsDoc,
     SetPointReturnDoc, DeleteStepDoc, DeleteReturnDoc, DeleteBytesDoc,
     DeleteStringReturnDoc, ForwardStepDoc, ForwardReturnDoc,
     BackwardStepDoc, BackwardReturnDoc DEF Work
<1>3. CASE Next /\ ~Work
  BY <1>3, ReceiveDoc, CallInsertDoc, CallSetPointDoc, CallDeleteDoc,
     CallDeleteStringDoc, CallClearDoc, CallForwardDoc, CallBackwardDoc DEF Next
<1> QED  BY <1>1, <1>2, <1>3

-----------------------------------------------------------------------------
(***************************************************************************)
(* No chunk lies inside a codepoint: TiedInv.                              *)
(***************************************************************************)

\* What a running insertion has still to type.
ToType == IF Doing("insert") THEN call.str ELSE <<>>

\* What is left of the text is loose, and no chunk of the list lies inside a
\* codepoint; in a deletion what comes after the bytes to delete does not.
TiedInv ==
    /\ Loose(Text(doc))
    /\ tb \in Buffers /\ ~Doing("abort") =>
          IF call.op \in {"delete", "delete_string"}
          THEN /\ Tied(Append(TextsOf(tb.lefts), tb.point.left))
               /\ Tied(TextsOf(tb.rights))
          ELSE Tied(TextsWith(tb, ToType))
    /\ Doing("abort") => call.line # 477

\* The text the calls promise has a start often enough.
LEMMA DocLoose ==
    ASSUME TextInv, DocInv, Loose(Text(doc)), [Next]_vars
    PROVE  Loose(Text(doc))'
<1>1. CASE doc' = doc
  BY <1>1
<1>2. Between(doc) /\ doc \in CursorsOver(Byte)
  BY DocOps, CodepointAfter
<1>3. CASE CallInsert
  BY <1>2, <1>3, TypedLoose DEF CallInsert
<1>4. CASE CallSetPoint
  <2>1. PICK pos \in Positions : doc' = SetTo(doc, pos)
    BY <1>4 DEF CallSetPoint
  <2>2. Text(doc) \in Seq(Byte) /\ IsUtf8(Text(doc))
    BY <1>2, BetweenIsPlace
  <2>3. FirstPlace(Text(doc), pos) \in Boundaries(Text(doc))
    BY <2>2, FirstPlaceIs
  <2>4. Text(SetTo(doc, pos)) = Text(doc)
    BY <2>2, <2>3, PlaceIsBetween DEF SetTo
  <2> QED  BY <2>1, <2>4
<1>5. CASE CallDelete
  <2>1. PICK pos \in Positions : /\ doc' = ErasedTo(doc, pos)
                                 /\ Before(tb.point_position, pos)
    BY <1>5 DEF CallDelete
  <2> DEFINE n == FirstPlace(Text(doc), pos) - Len(doc.left)
  <2>2. View(tb) = doc /\ tb.point_position = PositionAfter(doc.left)
    BY <1>5, IdleDoc DEF CallDelete
  <2>3. pos \in Place
    BY DEF Positions, Place
  <2>4. Walk(doc, pos, tb.point_position)
    BY <1>2, <2>1, <2>2, <2>3, WalkFrom
  <2>5. Between(ErasedTo(doc, pos))
    BY <2>4, DeletesToPlace
  <2>6. n \in 0 .. Len(doc.right)
    <3> DEFINE t == Text(doc)
               f == FirstPlace(t, pos)
               a == Len(doc.left)
               b == Len(doc.right)
    <3>1. t \in Seq(Byte) /\ Len(t) = a + b /\ a \in Nat /\ b \in Nat
      <4>1. /\ t \in Seq(Byte) /\ Len(t) = a + b
            /\ doc.left \in Seq(Byte) /\ doc.right \in Seq(Byte)
        BY <1>2, CursorBetween
      <4>2. \A s \in Seq(Byte) : Len(s) \in Nat
        OBVIOUS
      <4> QED  BY <4>1, <4>2
    <3>2. f \in 0 .. Len(t)
          /\ (PlacesFrom(t, pos) = {} => f = Len(t))
          /\ (PlacesFrom(t, pos) # {} => f \in PlacesFrom(t, pos))
      BY <3>1, FirstPlaceIs
    <3>3. \A m \in PlacesFrom(t, pos) : a <= m
      BY <2>4 DEF Walk
    <3> HIDE DEF f, t, a, b
    <3>4. f - a \in 0 .. b
      BY <3>1, <3>2, <3>3
    <3> QED  BY <3>4 DEF f, t, a, b
  <2>7. ErasedTo(doc, pos) = Erased(doc, n)
    BY DEF ErasedTo
  <2> HIDE DEF n
  <2> QED  BY <1>2, <2>1, <2>5, <2>6, <2>7, ErasedLoose
<1>6. CASE CallDeleteString
  <2>1. PICK n \in Boundaries(doc.right) : doc' = Erased(doc, n)
    BY <1>6 DEF CallDeleteString
  <2>2. n \in 0 .. Len(doc.right) /\ Between(Erased(doc, n))
    BY <1>2, StepsBetween
  <2> QED  BY <1>2, <2>1, <2>2, ErasedLoose
<1>7. CASE CallClear
  <2>1. Text(doc') = <<>>
    BY <1>7 DEF CallClear, Blank, Text
  <2> QED  BY <2>1, LooseNothing
<1>8. CASE CallForward \/ CallBackward
  <2>1. PICK n \in 1 .. MaxMove : \/ doc' = SkippedForward(doc, n)
                                  \/ doc' = SkippedBackward(doc, n)
    BY <1>8 DEF CallForward, CallBackward
  <2>2. n \in Nat
    BY BoundsAssumption
  <2>3. Text(doc') = Text(doc)
    BY <1>2, <2>1, <2>2, SkippedText
  <2> QED  BY <2>3
<1>9. CASE Work \/ Receive \/ UNCHANGED vars
  <2>1. doc' = doc
    BY <1>9, Zenon DEF Work, Receive, vars, InsertStep, InsertReturn, SetPointStep,
       SetPointFails, SetPointReturn, DeleteStep, DeleteReturn, DeleteBytes,
       DeleteStringReturn, ForwardStep, ForwardReturn, BackwardStep,
       BackwardReturn, AssertAndReturn
  <2> QED  BY <2>1
<1> QED  BY <1>3, <1>4, <1>5, <1>6, <1>7, <1>8, <1>9 DEF Next

\* The calls that delete.
Deletes == {"delete", "delete_string"}

\* The invariant holds where the chunks are tied and no more is to be typed.
LEMMA TiedAfter ==
    ASSUME Loose(Text(doc))', tb' \in Buffers => Tied(Together(tb')),
           call'.op \notin Deletes \cup {"insert"},
           call'.op = "abort" => call'.line # 477
    PROVE  TiedInv'
<1>1. Doing("insert")' <=> FALSE
  BY DEF Doing
<1>2. ToType' = <<>>
  BY <1>1 DEF ToType
<1>3. tb' \in Buffers => Tied(TextsWith(tb', <<>>))
  BY TextsOfPoint
<1>4. tb' \in Buffers => Tied(TextsWith(tb, ToType))'
  BY <1>2, <1>3
<1> QED  BY <1>4 DEF TiedInv, Doing, Deletes

\* Where no call inserts or deletes the chunks are tied.
LEMMA TiedBefore ==
    ASSUME TiedInv, tb \in Buffers, call.op \notin Deletes \cup {"insert", "abort"}
    PROVE  Tied(Together(tb))
<1>1. ToType = <<>>
  BY DEF ToType, Doing
<1>2. Tied(TextsWith(tb, <<>>))
  BY <1>1 DEF TiedInv, Doing, Deletes
<1> QED  BY <1>2, TextsOfPoint

\* They stay so in the midst of a deletion up to the gap and after the point.
LEMMA TiedInDeletion ==
    ASSUME Loose(Text(doc))', call'.op \in Deletes,
           tb' \in Buffers => /\ Tied(Append(TextsOf(tb'.lefts), tb'.point.left))
                              /\ Tied(TextsOf(tb'.rights))
    PROVE  TiedInv'
BY DEF TiedInv, Doing, Deletes

\* A call that goes on or ends without moving anything.
LEMMA StillTied ==
    ASSUME TextInv, TiedInv, Loose(Text(doc))', tb' = tb,
           call.op \notin Deletes \cup {"insert", "abort"},
           call'.op \notin Deletes \cup {"insert"},
           call'.op = "abort" => call'.line # 477
    PROVE  TiedInv'
BY TiedBefore, TiedAfter

\* An assertion of the list's invariants.
LEMMA AssertedTied ==
    ASSUME TextInv, TiedInv, Loose(Text(doc))', NEW line, line # 477, NEW ret, NEW want,
           call.op \notin Deletes \cup {"insert", "abort"},
           AssertAndReturn(line, ret, want)
    PROVE  TiedInv'
<1>1. /\ tb' = tb /\ call'.op \in {"returned", "abort"}
      /\ call'.op = "abort" => call'.line # 477
  BY DEF AssertAndReturn, Returned, Abort
<1> QED  BY <1>1, StillTied DEF Deletes

\* The caller goes on.
LEMMA ReceiveTied ==
    ASSUME TextInv, TiedInv, Loose(Text(doc))', Receive PROVE TiedInv'
<1>1. call.op = "returned" /\ call'.op = "idle" /\ tb' = tb
  BY DEF Receive, Idle, Doing
<1> QED  BY <1>1, StillTied DEF Deletes

\* An insertion begins.
LEMMA CallInsertTied ==
    ASSUME TextInv, TiedInv, Loose(Text(doc))', CallInsert PROVE TiedInv'
<1> DEFINE ss == TextsOf(tb.lefts)
           tt == TextsOf(tb.rights)
           l == tb.point.left
           r == tb.point.right
<1>1. PICK str \in Inserts : call' = [op |-> "insert", str |-> str]
  BY DEF CallInsert
<1>2. tb' = tb /\ call.op = "idle"
  BY DEF CallInsert, Doing
<1>3. tb \in Buffers
  BY <1>2, IdleBuffer DEF Doing
<1>4. str \in Seq(Byte) /\ str # <<>> /\ ~IsContinuation(str[1])
  <2>1. str \in Seq(Byte) /\ str # <<>> /\ IsUtf8(str)
    BY InsertsAssumption DEF Byte
  <2> QED  BY <2>1, Utf8Bytes
<1>5. Tied(Together(tb))
  BY <1>2, <1>3, TiedBefore DEF Deletes
<1>6. /\ ss \in Seq(Seq(Byte)) /\ tt \in Seq(Seq(Byte))
      /\ l \in Seq(Byte) /\ r \in Seq(Byte) /\ Tied((ss \o <<l \o r>>) \o tt)
  BY <1>3, <1>5, TextsOfPoint
<1> HIDE DEF ss, tt, l, r
<1>7. Tied((ss \o <<(l \o str) \o r>>) \o tt)
  BY <1>4, <1>6, TiedTyping
<1>8. Tied(TextsWith(tb, str))
  BY <1>7 DEF TextsWith, ss, tt, l, r
<1>9. Doing("insert")' /\ ToType' = str /\ call'.op = "insert"
  BY <1>1 DEF ToType, Doing
<1>10. Tied(TextsWith(tb, ToType))'
  BY <1>2, <1>8, <1>9
<1> QED  BY <1>9, <1>10 DEF TiedInv, Doing

\* An iteration of insert_string.
LEMMA InsertStepTied ==
    ASSUME TextInv, DocInv, TiedInv, Loose(Text(doc))', InsertStep PROVE TiedInv'
<1> DEFINE s == call.str
           b == Roomy(tb)
<1>1. /\ tb \in Buffers /\ tb' \in Buffers
      /\ call \in [op : {"insert"}, str : Seq(Byte)]
  BY InsertStepDone
<1>2. PICK n \in 1 .. Len(s) :
         /\ tb' = [b EXCEPT !.point = Typed(@, SubSeq(s, 1, n))]
         /\ call' = [op |-> "insert", str |-> SubSeq(s, n + 1, Len(s))]
  BY InsertStepDone
<1>3. s \in Seq(Byte) /\ Doing("insert") /\ call.op = "insert" /\ ToType = s
  BY <1>1 DEF ToType, Doing
<1>4. Loose(Text(Typed(View(tb), s)))
  <2>1. doc = Typed(View(tb), s)
    BY <1>3, DocOps DEF Inserting
  <2> QED  BY <2>1 DEF TiedInv
<1>5. Tied(TextsWith(tb, s))
  BY <1>1, <1>3 DEF TiedInv, Doing
<1> HIDE DEF s
<1>6. b \in Buffers /\ Tied(TextsWith(b, s))
  <2>1. CASE gapbuf_full(tb.point)
    BY <1>1, <1>3, <1>4, <1>5, <2>1, SplitTied, SplitKeepsView DEF Roomy
  <2>2. CASE ~gapbuf_full(tb.point)
    BY <1>1, <1>5, <2>2 DEF Roomy
  <2> QED  BY <2>1, <2>2
<1> HIDE DEF b
<1> DEFINE rest == SubSeq(s, n + 1, Len(s))
<1>7. n \in 0 .. Len(s)
  OBVIOUS
<1>8. TextsWith(tb', rest) = TextsWith(b, s)
  BY <1>2, <1>3, <1>6, <1>7, TypingTied
<1>9. Doing("insert")' /\ ToType' = rest /\ call'.op = "insert"
  BY <1>2 DEF ToType, Doing
<1> HIDE DEF rest
<1>10. Tied(TextsWith(tb, ToType))'
  BY <1>6, <1>8, <1>9
<1> QED  BY <1>9, <1>10 DEF TiedInv, Doing

\* An insertion ends.
LEMMA InsertReturnTied ==
    ASSUME TextInv, TiedInv, Loose(Text(doc))', InsertReturn PROVE TiedInv'
<1>1. call.op = "insert" /\ call.str = <<>> /\ Doing("insert")
  BY DEF InsertReturn, Doing
<1>2. tb \in Buffers
  BY <1>1, ChunkAtPoint DEF TextInv, Doing
<1>3. /\ tb' = tb /\ call'.op \in {"returned", "abort"}
      /\ call'.op = "abort" => call'.line # 477
  BY DEF InsertReturn, AssertAndReturn, Returned, Abort
<1>4. Tied(TextsWith(tb, <<>>))
  BY <1>1, <1>2 DEF TiedInv, ToType, Doing
<1>5. Tied(Together(tb))
  BY <1>2, <1>4, TextsOfPoint
<1> QED  BY <1>3, <1>5, TiedAfter DEF Deletes

\* text_buffer_set_point begins.
LEMMA CallSetPointTied ==
    ASSUME TextInv, TiedInv, Loose(Text(doc))', CallSetPoint PROVE TiedInv'
<1>1. call.op = "idle" /\ call'.op = "set_point" /\ tb' = textbuf_rewind(tb)
  BY DEF CallSetPoint, Doing
<1>2. tb \in Buffers
  BY <1>1, IdleBuffer DEF Doing
<1>3. Tied(Together(tb'))
  BY <1>1, <1>2, TiedBefore, RewindTogether DEF Deletes
<1> QED  BY <1>1, <1>3, TiedAfter DEF Deletes

\* forward_char finds the codepoint it has come to in one chunk or in two.
LEMMA ForwardTied ==
    ASSUME TextInv, TiedInv, tb \in Buffers, ~AtEnd(tb), Between(View(tb)),
           call.op \in {"set_point", "forward"}
    PROVE  /\ forward_char_asserts(tb)
           /\ Tied(Together(forward_char(tb)))
<1>1. Tied(Together(tb))
  BY TiedBefore DEF Deletes
<1>2. forward_char_asserts(tb)
  BY <1>1, AssertsHold
<1> QED  BY <1>1, <1>2, ForwardTogether

\* text_buffer_set_point goes over a codepoint.
LEMMA SetPointStepTied ==
    ASSUME TextInv, DocInv, TiedInv, Loose(Text(doc))', SetPointStep PROVE TiedInv'
<1>1. call.op = "set_point" /\ Doing("set_point") /\ ~AtEnd(tb)
  BY DEF SetPointStep, Doing
<1>2. tb \in Buffers
  BY <1>1, ChunkAtPoint DEF TextInv, Doing
<1>3. Between(View(tb))
  BY <1>1, DocOps DEF SettingPoint, Walk
<1>4. forward_char_asserts(tb) /\ Tied(Together(forward_char(tb)))
  BY <1>1, <1>2, <1>3, ForwardTied
<1>5. tb' = forward_char(tb) /\ call' = call
  BY <1>4 DEF SetPointStep
<1> QED  BY <1>1, <1>4, <1>5, TiedAfter DEF Deletes

\* forward_chars does.
LEMMA ForwardStepTied ==
    ASSUME TextInv, DocInv, TiedInv, Loose(Text(doc))', ForwardStep PROVE TiedInv'
<1>1. call.op = "forward" /\ Doing("forward") /\ ~AtEnd(tb) /\ call.length > 0
  BY DEF ForwardStep, Doing
<1>2. tb \in Buffers
  BY <1>1, ChunkAtPoint DEF TextInv, Doing
<1>3. Between(View(tb))
  BY <1>1, DocOps DEF MovingForward
<1>4. forward_char_asserts(tb) /\ Tied(Together(forward_char(tb)))
  BY <1>1, <1>2, <1>3, ForwardTied
<1>5. /\ tb' = forward_char(tb)
      /\ call' = [call EXCEPT !.length = @ - 1, !.steps = @ + 1]
  BY <1>4 DEF ForwardStep
<1>6. call'.op = "forward"
  BY <1>1, <1>5, MoveCounts DEF TextInv
<1> QED  BY <1>4, <1>5, <1>6, TiedAfter DEF Deletes

\* text_buffer_set_point comes to the end of the text.
LEMMA SetPointFailsTied ==
    ASSUME TextInv, TiedInv, Loose(Text(doc))', SetPointFails PROVE TiedInv'
<1>1. call.op = "set_point" /\ AssertAndReturn(645, 0, call.want)
  BY DEF SetPointFails, Doing
<1> QED  BY <1>1, AssertedTied DEF Deletes

\* Or to the position, or past it.
LEMMA SetPointReturnTied ==
    ASSUME TextInv, TiedInv, Loose(Text(doc))', SetPointReturn PROVE TiedInv'
<1>1. call.op = "set_point"
  BY DEF SetPointReturn, Doing
<1>2. CASE tb.point_position = call.pos
  <2>1. AssertAndReturn(651, 1, call.want)
    BY <1>2 DEF SetPointReturn
  <2> QED  BY <1>1, <2>1, AssertedTied DEF Deletes
<1>3. CASE tb.point_position # call.pos
  <2>1. tb' = tb /\ call'.op = "abort" /\ call'.line = 649
    BY <1>3 DEF SetPointReturn, Abort
  <2> QED  BY <1>1, <2>1, StillTied DEF Deletes
<1> QED  BY <1>2, <1>3

\* A move begins.
LEMMA CallMoveTied ==
    ASSUME TextInv, TiedInv, Loose(Text(doc))', CallForward \/ CallBackward
    PROVE  TiedInv'
<1>1. call.op = "idle" /\ call'.op \in {"forward", "backward"} /\ tb' = tb
  BY DEF CallForward, CallBackward, Doing
<1> QED  BY <1>1, StillTied DEF Deletes

\* forward_chars ends.
LEMMA ForwardReturnTied ==
    ASSUME TextInv, TiedInv, Loose(Text(doc))', ForwardReturn PROVE TiedInv'
<1>1. call.op = "forward"
  BY DEF ForwardReturn, Doing
<1>2. CASE AssertAndReturn(558, call.steps, call.want)
  BY <1>1, <1>2, AssertedTied DEF Deletes
<1>3. CASE call' = Returned(call.steps, call.want) /\ tb' = tb
  <2>1. call'.op = "returned"
    BY <1>3 DEF Returned
  <2> QED  BY <1>1, <1>3, <2>1, StillTied DEF Deletes
<1> QED  BY <1>2, <1>3 DEF ForwardReturn

\* backward_chars ends.
LEMMA BackwardReturnTied ==
    ASSUME TextInv, TiedInv, Loose(Text(doc))', BackwardReturn PROVE TiedInv'
<1>1. call.op = "backward"
  BY DEF BackwardReturn, Doing
<1>2. CASE AssertAndReturn(578, call.steps, call.want)
  BY <1>1, <1>2, AssertedTied DEF Deletes
<1>3. CASE call' = Returned(call.steps, call.want) /\ tb' = tb
  <2>1. call'.op = "returned"
    BY <1>3 DEF Returned
  <2> QED  BY <1>1, <1>3, <2>1, StillTied DEF Deletes
<1> QED  BY <1>2, <1>3 DEF BackwardReturn

\* backward_char goes to the previous chunk or one byte back.
LEMMA BackwardStepTied ==
    ASSUME TextInv, TiedInv, Loose(Text(doc))', BackwardStep PROVE TiedInv'
<1>1. call.op = "backward" /\ Doing("backward") /\ call.length > 0
  BY DEF BackwardStep, Doing
<1>2. tb \in Buffers
  BY <1>1, ChunkAtPoint DEF TextInv, Doing
<1>3. Tied(Together(tb))
  BY <1>1, <1>2, TiedBefore DEF Deletes
<1> DEFINE b == [tb EXCEPT !.point = Retreated(@, 1)]
           ch == Head(b.point.right)
<1>4. CASE tb.lefts # <<>> /\ tb' = PrevChunk(tb) /\ call' = call
  <2>1. Tied(Together(tb'))
    BY <1>2, <1>3, <1>4, PrevTogether
  <2> QED  BY <1>1, <1>4, <2>1, TiedAfter DEF Deletes
<1>5. ASSUME ~gapbuf_at_left(tb.point)
      PROVE  b \in Buffers /\ Together(b) = Together(tb)
  <2>1. 1 \in 0 .. Len(tb.point.left)
    <3> DEFINE l == tb.point.left
    <3>1. l \in Seq(Byte) /\ l # <<>>
      BY <1>2, <1>5, TextsOfPoint DEF gapbuf_at_left
    <3> HIDE DEF l
    <3>2. 1 \in 0 .. Len(l)
      BY <3>1
    <3> QED  BY <3>2 DEF l
  <2> QED  BY <1>2, <2>1, PointRetreats, PointTogether
<1>6. CASE ~gapbuf_at_left(tb.point) /\ tb' = b /\ call' = call
  <2> HIDE DEF b
  <2>1. Tied(Together(tb'))
    BY <1>3, <1>5, <1>6
  <2> QED  BY <1>1, <1>6, <2>1, TiedAfter DEF Deletes
<1>7. CASE /\ ~gapbuf_at_left(tb.point)
           /\ tb' = [b EXCEPT !.point_position = SteppedBack(@, ch)]
           /\ call' = [call EXCEPT !.length = @ - 1, !.steps = @ + 1]
  <2>1. call'.op = "backward"
    BY <1>1, <1>7, MoveCounts DEF TextInv
  <2> HIDE DEF b, ch
  <2>2. Together(tb') = Together(b)
    BY <1>5, <1>7, PointTogether
  <2>3. Tied(Together(tb'))
    BY <1>3, <1>5, <1>7, <2>2
  <2> QED  BY <2>1, <2>3, TiedAfter DEF Deletes
<1>8. \/ tb.lefts # <<>> /\ tb' = PrevChunk(tb) /\ call' = call
      \/ ~gapbuf_at_left(tb.point) /\ tb' = b /\ call' = call
      \/ /\ ~gapbuf_at_left(tb.point)
         /\ tb' = [b EXCEPT !.point_position = SteppedBack(@, ch)]
         /\ call' = [call EXCEPT !.length = @ - 1, !.steps = @ + 1]
  BY DEF BackwardStep
<1> QED  BY <1>4, <1>6, <1>7, <1>8

\* text_buffer_clear leaves one chunk.
LEMMA CallClearTied ==
    ASSUME TextInv, TiedInv, Loose(Text(doc))', CallClear PROVE TiedInv'
<1>1. /\ tb' = [tb EXCEPT !.lefts = <<>>, !.point = Blank, !.rights = <<>>]
      /\ call'.op = "returned" /\ call.op = "idle"
  BY DEF CallClear, Returned, Doing
<1>2. tb \in Buffers
  BY <1>1, IdleBuffer DEF Doing
<1>3. tb' = [lefts |-> <<>>, point |-> Blank, rights |-> <<>>,
             point_position |-> tb.point_position]
  BY <1>1, <1>2, NewChunks
<1>4. tb'.lefts = <<>> /\ tb'.point = Blank /\ tb'.rights = <<>>
  BY <1>3
<1>5. Together(tb') = <<Text(Blank)>>
  <2>1. TextsOf(<<>>) = <<>>
    <3>1. <<>> \in Seq(Cell)
      OBVIOUS
    <3> QED  BY <3>1, TextsParts
  <2> DEFINE t == <<Text(Blank)>>
  <2>2. t \in Seq(Seq(Byte))
    BY DEF Text, Blank
  <2> HIDE DEF t
  <2>3. (<<>> \o t) \o <<>> = t
    BY <2>2
  <2> QED  BY <1>4, <2>1, <2>3 DEF Together, t
<1>6. Tied(Together(tb'))
  BY <1>5, TiedOne
<1> QED  BY <1>1, <1>6, TiedAfter DEF Deletes

\* A deletion begins.
LEMMA CallDeleteTied ==
    ASSUME TextInv, TiedInv, Loose(Text(doc))', CallDelete \/ CallDeleteString
    PROVE  TiedInv'
<1> DEFINE ss == TextsOf(tb.lefts)
           tt == TextsOf(tb.rights)
           l == tb.point.left
           r == tb.point.right
<1>1. call.op = "idle" /\ call'.op \in Deletes /\ tb' = tb
  BY DEF CallDelete, CallDeleteString, Doing, Deletes
<1>2. tb \in Buffers
  BY <1>1, IdleBuffer DEF Doing
<1>3. Tied(Together(tb))
  BY <1>1, <1>2, TiedBefore DEF Deletes
<1>4. /\ ss \in Seq(Seq(Byte)) /\ tt \in Seq(Seq(Byte))
      /\ l \in Seq(Byte) /\ r \in Seq(Byte) /\ Tied((ss \o <<l \o r>>) \o tt)
  BY <1>2, <1>3, TextsOfPoint
<1> HIDE DEF ss, tt, l, r
<1>5. Tied(Append(ss, l)) /\ Tied(tt)
  BY <1>4, TiedCut
<1> QED  BY <1>1, <1>5, TiedInDeletion DEF ss, tt, l

\* In the midst of a deletion.
LEMMA TiedDeleting ==
    ASSUME TiedInv, tb \in Buffers, call.op \in Deletes
    PROVE  /\ Tied(Append(TextsOf(tb.lefts), tb.point.left))
           /\ Tied(TextsOf(tb.rights))
BY DEF TiedInv, Deletes, Doing

\* text_buffer_delete comes to the next codepoint.
LEMMA DeleteStepTied ==
    ASSUME TextInv, DocInv, TiedInv, Loose(Text(doc))', DeleteStep PROVE TiedInv'
<1>1. /\ call.op = "delete" /\ Doing("delete") /\ ~call.inside /\ ~AtEnd(tb)
      /\ tb' = Entered(tb)
  BY DEF DeleteStep, Doing
<1>2. tb \in Buffers
  BY <1>1, ChunkAtPoint DEF TextInv, Doing
<1>3. call \in [op : {"delete"}, pos : Positions, current_pos : Place,
                inside : BOOLEAN, bytes : Nat]
  BY <1>1, CallOps DEF TextInv
<1>4. CASE CharSize(NextByte(tb)) > 0
  <2>1. call'.op = "delete"
    <3>1. call' = [call EXCEPT !.current_pos = Stepped(@, NextByte(tb)),
                               !.inside = TRUE, !.bytes = CharSize(NextByte(tb))]
      BY <1>4 DEF DeleteStep
    <3> QED  BY <1>3, <3>1
  <2>2. /\ Tied(Append(TextsOf(tb'.lefts), tb'.point.left))
        /\ Tied(TextsOf(tb'.rights))
    BY <1>1, <1>2, TiedDeleting, EnteredTied DEF Deletes
  <2> QED  BY <2>1, <2>2, TiedInDeletion DEF Deletes
<1>5. CASE ~(CharSize(NextByte(tb)) > 0)
  <2>1. call'.op = "abort" /\ call'.line = 727
    BY <1>5 DEF DeleteStep, Abort
  <2> QED  BY <2>1 DEF TiedInv, Doing
<1> QED  BY <1>4, <1>5

\* An emptied chunk is taken out from between two that are tied.
LEMMA ShortenedTied ==
    ASSUME NEW b \in Buffers, NEW n \in 0 .. Len(b.point.right),
           Tied(Append(TextsOf(b.lefts), b.point.left)), Tied(TextsOf(b.rights)),
           Shortened(b, n) \in Buffers
    PROVE  LET d == Shortened(b, n)
           IN  /\ Tied(Append(TextsOf(d.lefts), d.point.left))
               /\ Tied(TextsOf(d.rights))
<1> DEFINE p == Erased(b.point, n)
           c == [b EXCEPT !.point = p]
           rs == b.rights
           d == Shortened(b, n)
<1>1. /\ c.lefts = b.lefts /\ c.point = p /\ c.rights = rs
      /\ p.left = b.point.left
  <2>1. c.lefts = b.lefts /\ c.point = p /\ c.rights = rs
    BY BufferParts
  <2> QED  BY <2>1 DEF Erased
<1>2. rs \in Seq(Cell) /\ rs \in Seq(RightCell)
  BY BufferParts
<1>3. d = IF gapbuf_empty(p) /\ ~(b.lefts = <<>> /\ rs = <<>>) THEN Unlinked(c) ELSE c
  <2> HIDE DEF c
  <2> QED  BY <1>1 DEF Shortened, c, p
<1>4. c = [lefts |-> b.lefts, point |-> p, rights |-> rs,
           point_position |-> b.point_position]
  BY BufferParts
<1> HIDE DEF c, d
<1>5. CASE d = c
  BY <1>1, <1>5 DEF d
<1>6. CASE gapbuf_empty(p) /\ d = Unlinked(c)
  <2>1. p.left = <<>>
    <3>1. p \in CursorsOver(Byte)
      BY BufferView, OperationsClosed
    <3> HIDE DEF p
    <3> DEFINE l == p.left
               r == p.right
    <3>2. l \in Seq(Byte) /\ r \in Seq(Byte) /\ Len(l) + Len(r) = 0
      BY <1>6, <3>1 DEF CursorsOver, gapbuf_empty, Size
    <3> HIDE DEF l, r
    <3>3. l = <<>>
      BY <3>2
    <3> QED  BY <3>3 DEF l
  <2>2. rs # <<>>
    <3> SUFFICES ASSUME rs = <<>> PROVE FALSE
      OBVIOUS
    <3>1. d = [c EXCEPT !.point = EndNode]
      BY <1>1, <1>6 DEF Unlinked
    <3>2. d.point = EndNode
      BY <1>4, <3>1
    <3> QED  BY <3>2, BufferParts, CellText DEF d
  <2>3. d.lefts = b.lefts /\ d.rights = Tail(rs) /\ d.point = Head(rs)
    <3> DEFINE y == Head(rs)
               z == Tail(rs)
    <3>1. d = [c EXCEPT !.point = y, !.rights = z]
      BY <1>1, <1>6, <2>2 DEF Unlinked
    <3> HIDE DEF y, z
    <3>2. PICK f : f = [c EXCEPT !.point = y]
      OBVIOUS
    <3>3. f = [lefts |-> b.lefts, point |-> y, rights |-> rs,
               point_position |-> b.point_position]
      BY <1>4, <3>2
    <3>4. d = [f EXCEPT !.rights = z]
      BY <3>1, <3>2
    <3>5. d.lefts = b.lefts /\ d.rights = z /\ d.point = y
      BY <3>3, <3>4
    <3> QED  BY <3>5 DEF y, z
  <2>4. d.point.left = <<>>
    <3>1. Head(rs) \in RightCell
      BY <1>2, <2>2
    <3> QED  BY <2>3, <3>1 DEF RightCell, gapbuf_at_left
  <2>5. Tied(TextsOf(Tail(rs)))
    BY <1>2, <2>2, TailTied
  <2>6. Tied(Append(TextsOf(d.lefts), d.point.left)) /\ Tied(TextsOf(d.rights))
    BY <1>1, <2>1, <2>3, <2>4, <2>5
  <2> QED  BY <2>6 DEF d
<1> QED  BY <1>3, <1>5, <1>6

\* An iteration of delete_string.
LEMMA DeleteBytesTied ==
    ASSUME TextInv, TiedInv, Loose(Text(doc))', DeleteBytes PROVE TiedInv'
<1>1. call.op \in Deletes
  BY DEF DeleteBytes, Deletes
<1>2. CASE tb.point = EndNode
  <2>1. call'.op = "abort" /\ call'.line = 107
    BY <1>2 DEF DeleteBytes, Abort
  <2> QED  BY <2>1 DEF TiedInv, Doing
<1>3. CASE tb.point # EndNode
  <2>1. tb \in Buffers
    BY <1>3 DEF TextInv, ListInv, Sentinels
  <2>2. PICK n \in 0 .. Len(View(tb).right) :
           /\ n \in 0 .. Len(tb.point.right)
           /\ tb' = Shortened(tb, n)
           /\ call' = [call EXCEPT !.bytes = @ - n]
    BY <2>1, DeleteBytesDone
  <2>3. call'.op = call.op
    <3>1. \/ call \in [op : {"delete"}, pos : Positions, current_pos : Place,
                       inside : BOOLEAN, bytes : Nat]
          \/ call \in [op : {"delete_string"}, inside : {TRUE}, bytes : Nat]
      BY <1>1, CallOps DEF TextInv, Doing, Deletes
    <3> QED  BY <2>2, <3>1
  <2>4. /\ Tied(Append(TextsOf(tb.lefts), tb.point.left))
        /\ Tied(TextsOf(tb.rights))
    BY <1>1, <2>1, TiedDeleting
  <2>5. tb' \in Buffers => /\ Tied(Append(TextsOf(tb'.lefts), tb'.point.left))
                           /\ Tied(TextsOf(tb'.rights))
    BY <2>1, <2>2, <2>4, ShortenedTied
  <2> QED  BY <1>1, <2>3, <2>5, TiedInDeletion
<1> QED  BY <1>2, <1>3

\* text_buffer_delete ends.
LEMMA DeleteReturnTied ==
    ASSUME TextInv, DocInv, TiedInv, Loose(Text(doc))', DeleteReturn PROVE TiedInv'
<1>1. /\ call.op = "delete" /\ Doing("delete") /\ ~call.inside
      /\ tb' = tb /\ call'.op = "returned"
  BY DEF DeleteReturn, Doing, Returned
<1>2. tb \in Buffers
  BY <1>1, ChunkAtPoint DEF TextInv, Doing
<1>3. Deleting
  BY <1>1, DocOps
<1>4. View(tb).right # <<>> => ~IsContinuation(View(tb).right[1])
  <2> DEFINE v == View(tb)
  <2>1. PICK e \in Seq(Byte) :
           Walk(Undeleted(v, e, call.bytes), call.pos, call.current_pos)
    BY <1>3 DEF Deleting
  <2>2. call.bytes = 0
    BY <1>1, <1>3 DEF Deleting
  <2>3. v \in CursorsOver(Byte)
    BY <1>2, BufferView
  <2> HIDE DEF v
  <2>4. Undeleted(v, e, 0) = [left |-> v.left \o e, right |-> v.right]
    <3>1. 0 \in 0 .. Len(v.right)
      <4>1. v.right \in Seq(Byte)
        BY <2>3 DEF CursorsOver
      <4> DEFINE r == v.right
      <4> HIDE DEF r
      <4>2. 0 \in 0 .. Len(r)
        BY <4>1 DEF r
      <4> QED  BY <4>2 DEF r
    <3> QED  BY <2>3, <3>1, UndeletedGoesOn
  <2> DEFINE w == Undeleted(v, e, 0)
  <2>5. Between(w) /\ w.right = v.right
    BY <2>1, <2>2, <2>4 DEF Walk
  <2> HIDE DEF w
  <2>6. v.right # <<>> => ~IsContinuation(v.right[1])
    BY <2>5, CodepointAfter
  <2> QED  BY <2>6 DEF v
<1>5. Tied(Together(tb))
  BY <1>1, <1>2, <1>4, TiedDeleting, TiedAgain DEF Deletes
<1> QED  BY <1>1, <1>5, TiedAfter DEF Deletes

\* delete_string ends, for its caller or in text_buffer_delete.
LEMMA DeleteStringReturnTied ==
    ASSUME TextInv, DocInv, TiedInv, Loose(Text(doc))', DeleteStringReturn
    PROVE  TiedInv'
<1>1. tb' = tb /\ call.bytes = 0 /\ call.op \in Deletes
  BY DEF DeleteStringReturn, Deletes
<1>2. CASE ~is_tbuf(tb)
  <2>1. call'.op = "abort" /\ call'.line = 634
    BY <1>2 DEF DeleteStringReturn, Abort
  <2> QED  BY <2>1 DEF TiedInv, Doing
<1>3. ASSUME is_tbuf(tb)
      PROVE  tb \in Buffers
  <2>1. tb \notin Sentinels
    BY <1>3, SentinelIsNoTbuf
  <2> QED  BY <2>1 DEF TextInv, ListInv
<1>4. CASE is_tbuf(tb) /\ call.op = "delete"
  <2>1. call \in [op : {"delete"}, pos : Positions, current_pos : Place,
                  inside : BOOLEAN, bytes : Nat]
    BY <1>4, CallOps DEF TextInv, Doing
  <2>2. call' = [call EXCEPT !.inside = FALSE]
    BY <1>4 DEF DeleteStringReturn, Doing
  <2>3. call'.op = "delete"
    BY <2>1, <2>2
  <2>4. /\ Tied(Append(TextsOf(tb.lefts), tb.point.left))
        /\ Tied(TextsOf(tb.rights))
    BY <1>1, <1>3, <1>4, TiedDeleting
  <2> QED  BY <1>1, <2>3, <2>4, TiedInDeletion DEF Deletes
<1>5. CASE is_tbuf(tb) /\ call.op = "delete_string"
  <2>1. call'.op = "returned"
    BY <1>5 DEF DeleteStringReturn, Doing, Returned
  <2>2. View(tb) = doc /\ Between(doc)
    <3>1. DeletingString /\ Between(doc)
      BY <1>5, DocOps DEF Doing
    <3>2. View(tb) \in CursorsOver(Byte)
      BY <1>3, <1>5, BufferView
    <3> QED  BY <1>1, <3>1, <3>2, NoStep DEF DeletingString
  <2>3. View(tb).right # <<>> => ~IsContinuation(View(tb).right[1])
    BY <2>2, CodepointAfter
  <2>4. Tied(Together(tb))
    BY <1>1, <1>3, <1>5, <2>3, TiedDeleting, TiedAgain
  <2> QED  BY <1>1, <2>1, <2>4, TiedAfter DEF Deletes
<1> QED  BY <1>1, <1>2, <1>4, <1>5 DEF Deletes

\* text_buffer_init leaves one empty chunk.
LEMMA InitTied == Init => TiedInv
<1> SUFFICES ASSUME Init PROVE TiedInv
  OBVIOUS
<1>1. /\ tb.lefts = <<>> /\ tb.rights = <<>> /\ tb.point.left = <<>>
      /\ tb.point.right = <<>> /\ call.op = "idle" /\ doc = Blank
  BY DEF Init, text_buffer_init, Blank, Idle
<1>2. Text(doc) = <<>>
  BY <1>1 DEF Text, Blank
<1>3. TextsWith(tb, <<>>) = <<(<<>> \o <<>>) \o <<>>>>
  BY <1>1 DEF TextsWith, TextsOf
<1>4. Tied(TextsWith(tb, <<>>))
  BY <1>3, TiedOne
<1>5. ToType = <<>>
  BY <1>1 DEF ToType, Doing
<1> QED  BY <1>1, <1>2, <1>4, <1>5, LooseNothing DEF TiedInv, Doing

\* Every step keeps the chunks tied.
LEMMA TiedStep == TextInv /\ DocInv /\ TiedInv /\ [Next]_vars => TiedInv'
<1> SUFFICES ASSUME TextInv, DocInv, TiedInv, [Next]_vars
             PROVE  TiedInv'
  OBVIOUS
<1>1. Loose(Text(doc))'
  BY DocLoose DEF TiedInv
<1>2. CASE UNCHANGED vars
  <2>1. tb' = tb /\ call' = call /\ doc' = doc
    BY <1>2 DEF vars
  <2>2. ToType' = ToType /\ (Doing("abort")' <=> Doing("abort"))
    BY <2>1 DEF ToType, Doing
  <2> QED  BY <1>1, <2>1, <2>2 DEF TiedInv
<1>3. CASE Work
  BY <1>1, <1>3, InsertStepTied, InsertReturnTied, SetPointStepTied,
     SetPointFailsTied, SetPointReturnTied, DeleteStepTied, DeleteReturnTied,
     DeleteBytesTied, DeleteStringReturnTied, ForwardStepTied,
     ForwardReturnTied, BackwardStepTied, BackwardReturnTied DEF Work
<1>4. CASE Next /\ ~Work
  BY <1>1, <1>4, ReceiveTied, CallInsertTied, CallSetPointTied, CallDeleteTied,
     CallClearTied, CallMoveTied DEF Next
<1> QED  BY <1>2, <1>3, <1>4

-----------------------------------------------------------------------------
(***************************************************************************)
(* The theorems about the text.                                            *)
(***************************************************************************)

\* The inductive invariant.
BufferInv == TextInv /\ DocInv /\ TiedInv

\* BufferInv holds in every state: what a call of text_buffer.c has done and
\* what it has left to do make up what it promises, and no codepoint is
\* spread over more than two chunks.
THEOREM BufferInductive == Spec => []BufferInv
<1>1. Init => BufferInv
  BY InitText, InitDoc, InitTied DEF BufferInv
<1>2. BufferInv /\ [Next]_vars => BufferInv'
  BY TextStep, DocStep, TiedStep DEF BufferInv
<1> QED  BY <1>1, <1>2, PTL DEF Spec

\* Between calls the list is one of chunks and shows the text.
LEMMA AtRestDoc ==
    ASSUME BufferInv, AtRest
    PROVE  tb \in Buffers /\ Between(doc) /\ Resting
<1>1. tb \in Buffers
  BY ChunkAtPoint DEF BufferInv, TextInv, AtRest, Doing
<1>2. Between(doc) /\ Resting
  BY DocOps DEF BufferInv, DocInv
<1> QED  BY <1>1, <1>2

\* After every call that returns, the chunks hold the text, and the point
\* stands in it, where the calls so far say on a flat text.
THEOREM BufferHoldsDocument == Spec => []HoldsDocument
<1>1. BufferInv => HoldsDocument
  BY AtRestDoc DEF HoldsDocument, Resting
<1> QED  BY <1>1, BufferInductive, PTL

\* Between calls the list passes is_tbuf, and the byte after the cursor
\* starts a codepoint, as is_tbuf_on_codepoint is meant to assert.
THEOREM ListOnCodepoint == Spec => []IsTbuf
<1>1. BufferInv => IsTbuf
  <2> SUFFICES ASSUME BufferInv, AtRest
               PROVE  /\ is_tbuf(tb)
                      /\ 0 \in Boundaries(doc.right)
                      /\ View(tb).right # <<>>
                           => ~IsContinuation(Head(View(tb).right))
    BY DEF IsTbuf
  <2>1. tb \in Buffers /\ Between(doc) /\ View(tb) = doc
    BY AtRestDoc DEF Resting
  <2>2. /\ 0 \in Boundaries(doc.right) /\ doc.right \in Seq(Byte)
        /\ doc.right # <<>> => ~IsContinuation(doc.right[1])
    BY <2>1, CodepointAfter
  <2>3. doc.right # <<>> => Head(doc.right) = doc.right[1]
    BY <2>2
  <2> QED  BY <2>1, <2>2, <2>3, BufferIsTbuf
<1> QED  BY <1>1, BufferInductive, PTL

\* The results of text_buffer_set_point and of the moves are right: whether
\* the text has the position, and how many codepoints there were to skip.
THEOREM ResultsAreRight == Spec => []ResultsRight
<1>1. BufferInv => ResultsRight
  BY AtRestDoc DEF ResultsRight, Resting, AtRest, Doing
<1> QED  BY <1>1, BufferInductive, PTL

\* Between calls text_buffer_read hands out the document, and tbuf_empty
\* says whether there is any text.
THEOREM QueriesAreRight == Spec => []QueriesRight
<1>1. BufferInv => QueriesRight
  <2> SUFFICES ASSUME BufferInv, AtRest
               PROVE  /\ FlattenSeq(text_buffer_read(tb)) = Text(doc)
                      /\ tbuf_empty(tb) <=> Text(doc) = <<>>
    BY DEF QueriesRight
  <2>1. tb \in Buffers /\ View(tb) = doc
    BY AtRestDoc DEF Resting
  <2> QED  BY <2>1, ReadsAll, AllChunks
<1> QED  BY <1>1, BufferInductive, PTL

\* As long as the caller only sets the point, moves it forward and deletes,
\* the stored position is the position of the point.
THEOREM PositionIsRight == Spec => []PositionRight
<1>1. BufferInv => PositionRight
  BY AtRestDoc DEF PositionRight, Resting
<1> QED  BY <1>1, BufferInductive, PTL

\* The assertions that fail are the two that AbortsExplained names: that of
\* forward_char, which wants a codepoint to lie in two chunks at most, never
\* does, for no chunk that fills up lies inside a codepoint.
THEOREM OnlyTheseAborts == Spec => []AbortsExplained
<1>1. BufferInv => AbortsExplained
  <2> SUFFICES ASSUME BufferInv, Doing("abort") PROVE AbortsExplained
    BY DEF AbortsExplained
  <2>1. call.line = 477 \/ AbortsExplained
    BY DocOps DEF BufferInv, DocInv, Aborted
  <2>2. call.line # 477
    BY DEF BufferInv, TiedInv
  <2> QED  BY <2>1, <2>2
<1> QED  BY <1>1, BufferInductive, PTL
-----------------------------------------------------------------------------
(***************************************************************************)
(* Where a deletion gets stuck.                                            *)
(***************************************************************************)

\* What text_buffer_delete has still to delete of a codepoint is the rest of it,
\* once it does not begin in the point.
RestInv ==
    Doing("delete") /\ call.inside =>
        /\ \A i \in 2 .. call.bytes : IsContinuation(View(tb).right[i])
        /\ call.bytes > 0 /\ tb.point.right = <<>> => IsContinuation(View(tb).right[1])

\* It comes to the start of a codepoint, in its chunk.
LEMMA DeleteStepRest == ASSUME TextInv, DocInv, DeleteStep PROVE RestInv'
<1> DEFINE t == View(tb).right
           k == CharSize(NextByte(tb))
<1>1. Deleting /\ tb \in Buffers /\ ~AtEnd(tb) /\ tb' = Entered(tb)
  BY DocOps, ChunkAtPoint DEF DeleteStep, TextInv, Doing
<1>2. /\ View(tb') = View(tb) /\ tb'.point.right # <<>>
      /\ t # <<>> /\ NextByte(tb) = t[1]
  BY <1>1, EnteredBuffer
<1>3. t \in Seq(Byte) /\ IsUtf8(t)
  <2>1. View(tb) \in CursorsOver(Byte) /\ 0 \in 0 .. Len(t)
    BY ViewTyped DEF TextInv, CursorsOver
  <2>2. PICK erased \in Seq(Byte) : Between(Undeleted(View(tb), erased, 0))
    BY <1>1 DEF Deleting, Walk, DeleteStep
  <2>3. Undeleted(View(tb), erased, 0).right = t
    BY <2>1, UndeletedGoesOn
  <2> QED  BY <2>2, <2>3, CodepointAfter
<1>4. call \in [op : {"delete"}, pos : Positions, current_pos : Place,
                inside : BOOLEAN, bytes : Nat]
  BY CallOps DEF TextInv, DeleteStep
<1>5. call'.op = "delete" => call'.bytes = k
  <2> HIDE DEF k
  <2>1. \/ call' = [call EXCEPT !.current_pos = Stepped(@, NextByte(tb)),
                                !.inside = TRUE, !.bytes = k]
        \/ Abort(727)
    BY DEF DeleteStep, k
  <2> QED  BY <1>4, <2>1, AbortEnds
<1> HIDE DEF t
<1>6. \A i \in 2 .. k : IsContinuation(t[i])
  <2>1. k \in 1 .. Len(t) /\ \A m \in Boundaries(t) : m = 0 \/ m >= k
    BY <1>2, <1>3, FirstCodepoint
  <2> HIDE DEF k
  <2> SUFFICES ASSUME NEW i \in 2 .. k PROVE IsContinuation(t[i])
    OBVIOUS
  <2>2. i - 1 \in 0 .. Len(t) /\ i - 1 # Len(t) /\ (i - 1) + 1 = i
    BY <1>3, <2>1
  <2>3. i - 1 \notin Boundaries(t)
    BY <2>1
  <2> QED  BY <2>2, <2>3 DEF Boundaries
<1> QED  BY <1>2, <1>5, <1>6 DEF RestInv, Doing, t

\* What the point holds of the codepoint is erased first.
LEMMA DeleteBytesRest ==
    ASSUME TextInv, DocInv, RestInv, DeleteBytes PROVE RestInv'
<1> SUFFICES ASSUME Doing("delete")' PROVE RestInv'
  BY DEF RestInv
<1> DEFINE t == View(tb).right
           u == View(tb').right
           m == call.bytes
<1>1. tb \in Buffers /\ m > 0 /\ call.inside
  BY NoDeletionAtSentinel DEF DeleteBytes
<1>2. PICK n \in 0 .. Len(t) :
         /\ n \in 0 .. Len(tb.point.right)
         /\ View(tb') = Erased(View(tb), n)
         /\ call' = [call EXCEPT !.bytes = @ - n]
  BY <1>1, DeleteBytesDone
<1>3. call \in [op : {"delete"}, pos : Positions, current_pos : Place,
                inside : BOOLEAN, bytes : Nat]
  <2>1. \/ call \in [op : {"delete"}, pos : Positions, current_pos : Place,
                     inside : BOOLEAN, bytes : Nat]
        \/ call \in [op : {"delete_string"}, inside : {TRUE}, bytes : Nat]
    BY CallOps DEF TextInv, DeleteBytes, Doing
  <2> QED  BY <1>2, <2>1 DEF Doing
<1>4. Deleting /\ call'.bytes = m - n /\ call'.inside
  BY <1>1, <1>2, <1>3, DocOps DEF Doing
<1>5. /\ \A i \in 2 .. m : IsContinuation(t[i])
      /\ tb.point.right = <<>> => IsContinuation(t[1])
  BY <1>1, <1>3 DEF RestInv, Doing
<1>6. t \in Seq(Byte) /\ m \in 0 .. Len(t)
  BY <1>4, ViewTyped DEF TextInv, CursorsOver, Deleting
<1>7. n = 0 => tb.point.right = <<>>
  <2> DEFINE r == tb.point.right
             have == IF m < Len(r) THEN m ELSE Len(r)
  <2>1. tb.point # EndNode /\ r \in Seq(Byte)
    BY <1>1, BufferParts, CellText
  <2>2. call' = [call EXCEPT !.bytes = @ - have]
    BY <2>1 DEF DeleteBytes
  <2>3. Len(r) \in Nat
    BY <2>1
  <2> HIDE DEF r, m
  <2>4. m - n = m - have
    BY <1>2, <1>3, <2>2 DEF m
  <2>5. n = 0 => Len(r) = 0
    BY <1>1, <1>6, <2>3, <2>4
  <2> QED  BY <2>1, <2>5 DEF r
<1>8. u = SubSeq(t, n + 1, Len(t))
  BY <1>2 DEF Erased
<1> HIDE DEF t, u, m
<1>9. \A i \in 1 .. m - n : u[i] = t[n + i]
  BY <1>2, <1>6, <1>8
<1>10. \A i \in 2 .. m - n : IsContinuation(u[i])
  <2> TAKE i \in 2 .. m - n
  <2>1. n + i \in 2 .. m /\ i \in 1 .. m - n
    BY <1>2, <1>6
  <2> QED  BY <1>5, <1>9, <2>1
<1>11. m - n > 0 => IsContinuation(u[1])
  <2> HAVE m - n > 0
  <2>1. u[1] = t[n + 1]
    BY <1>2, <1>6, <1>9
  <2>2. CASE n = 0
    BY <1>5, <1>7, <2>1, <2>2
  <2>3. CASE n # 0
    <3>1. n + 1 \in 2 .. m
      BY <1>2, <1>6, <2>3
    <3> QED  BY <1>5, <2>1, <3>1
  <2> QED  BY <2>2, <2>3
<1> QED  BY <1>4, <1>10, <1>11 DEF RestInv, u, m

\* No other step leaves text_buffer_delete inside delete_string.
LEMMA ElsewhereRest ==
    ASSUME TextInv, RestInv, Next, ~DeleteStep, ~DeleteBytes PROVE RestInv'
<1> SUFFICES ~(Doing("delete") /\ call.inside)'
  BY DEF RestInv
<1>1. CASE \/ Receive \/ CallInsert \/ CallSetPoint \/ CallDelete \/ CallDeleteString
           \/ CallClear \/ CallForward \/ CallBackward
  BY <1>1 DEF Receive, CallInsert, CallSetPoint, CallDelete, CallDeleteString,
     CallClear, CallForward, CallBackward, Idle, Returned, Doing
<1>2. CASE InsertStep
  <2>1. call \in [op : {"insert"}, str : Seq(Byte)]
    BY <1>2, CallOps DEF TextInv, InsertStep
  <2>2. \/ call'.op = "abort"
        \/ \E s : call' = [call EXCEPT !.str = s]
    BY <1>2 DEF InsertStep, Abort
  <2> QED  BY <2>1, <2>2 DEF Doing
<1>3. CASE InsertReturn \/ SetPointFails \/ SetPointReturn \/ DeleteReturn
             \/ ForwardReturn \/ BackwardReturn
  BY <1>3 DEF InsertReturn, SetPointFails, SetPointReturn, DeleteReturn,
     ForwardReturn, BackwardReturn, AssertAndReturn, Abort, Returned, Doing
<1>4. CASE SetPointStep
  BY <1>4 DEF SetPointStep, Abort, Doing
<1>5. CASE ForwardStep \/ BackwardStep
  <2>1. call.op \in {"forward", "backward"}
    BY <1>5 DEF ForwardStep, BackwardStep, Doing
  <2>2. \/ call'.op = "abort" \/ call' = call
        \/ call' = [call EXCEPT !.length = @ - 1, !.steps = @ + 1]
    BY <1>5 DEF ForwardStep, BackwardStep, Abort
  <2>3. call \in MoveCalls(call.want)
    BY <2>1, CallOps DEF TextInv
  <2> QED  BY <2>1, <2>2, <2>3 DEF MoveCalls, Doing
<1>6. CASE DeleteStringReturn
  <2>1. \/ call'.op \in {"abort", "returned"}
        \/ Doing("delete") /\ call' = [call EXCEPT !.inside = FALSE]
    BY <1>6 DEF DeleteStringReturn, Abort, Returned
  <2>2. Doing("delete") => call \in [op : {"delete"}, pos : Positions,
                                     current_pos : Place, inside : BOOLEAN, bytes : Nat]
    BY CallOps DEF TextInv
  <2> QED  BY <2>1, <2>2 DEF Doing
<1> QED  BY <1>1, <1>2, <1>3, <1>4, <1>5, <1>6 DEF Next, Work

LEMMA RestStep == TextInv /\ DocInv /\ RestInv /\ [Next]_vars => RestInv'
<1> SUFFICES ASSUME TextInv, DocInv, RestInv, [Next]_vars PROVE RestInv'
  OBVIOUS
<1>1. CASE UNCHANGED vars
  <2>1. tb' = tb /\ call' = call
    BY <1>1 DEF vars
  <2> QED  BY <2>1 DEF RestInv, Doing
<1> QED  BY <1>1, DeleteStepRest, DeleteBytesRest, ElsewhereRest

\* A deletion gets stuck in front of another chunk only, which has the rest of
\* what is to be deleted, and text_buffer_delete only within a codepoint: every
\* other loop over the list goes on.
THEOREM StuckOnlyInCodepoint == Spec => []StuckExplained
<1>1. Init => RestInv
  BY DEF Init, Idle, RestInv, Doing
<1>2. BufferInv /\ RestInv => StuckExplained
  <2> SUFFICES ASSUME BufferInv, RestInv, Stuck PROVE StuckExplained
    BY DEF StuckExplained
  <2> DEFINE t == View(tb).right
  <2>1. tb \in Buffers /\ tb.point.right = <<>>
    <3>1. tb \notin Sentinels
      BY DEF Stuck, Sentinels
    <3> QED  BY <3>1 DEF BufferInv, TextInv, ListInv, Stuck, gapbuf_at_right
  <2>2. call.bytes \in 0 .. Len(t) /\ call.bytes > 0 /\ call.inside
    BY DocOps DEF BufferInv, Stuck, Doing, Deleting, DeletingString
  <2>3. t = Join(tb.rights) /\ t \in Seq(Byte)
    <3>1. t = tb.point.right \o Join(tb.rights) /\ Join(tb.rights) \in Seq(Byte)
      BY <2>1, BufferView
    <3> HIDE DEF t
    <3> QED  BY <2>1, <3>1
  <2>4. t # <<>> /\ Head(t) = t[1]
    <3> HIDE DEF t
    <3> QED  BY <2>2, <2>3
  <2>5. tb.rights # <<>>
    BY <2>3, <2>4, JoinNothing
  <2>6. Doing("delete") => IsContinuation(Head(t))
    BY <2>1, <2>2, <2>4 DEF RestInv
  <2>7. Doing("delete_string") => Erased(View(tb), call.bytes) = doc
    BY DocOps DEF BufferInv, DeletingString
  <2> QED  BY <2>5, <2>6, <2>7 DEF StuckExplained
<1>3. BufferInv /\ RestInv /\ [Next]_vars => RestInv'
  BY RestStep DEF BufferInv
<1> QED  BY <1>1, <1>2, <1>3, BufferInductive, PTL DEF Spec
=============================================================================
