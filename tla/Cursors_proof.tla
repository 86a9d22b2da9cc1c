--------------------------- MODULE Cursors_proof ----------------------------
(***************************************************************************)
(* Lemmas about Cursors: an operation on a part of a text is the same      *)
(* operation on the whole text.  Then what the other proofs share:         *)
(* induction and recursion over the natural numbers.                       *)
(***************************************************************************)
EXTENDS Cursors, Integers, SequenceTheorems, FiniteSetTheorems,
        WellFoundedInduction, TLAPS

CursorsOver(S) == [left : Seq(S), right : Seq(S)]

\* The empty sequence is all there is of length 0.
LEMMA NothingIsSeq ==
    ASSUME NEW S, NEW s \in Seq(S), Len(s) = 0
    PROVE  s = <<>>
BY SMT

\* The empty sequence is neutral.
LEMMA ConcatNothing ==
    ASSUME NEW S, NEW s \in Seq(S)
    PROVE  s \o <<>> = s /\ <<>> \o s = s
BY SMT

\* A part of the first of two joined texts.
LEMMA SubSeqFirst ==
    ASSUME NEW S, NEW s \in Seq(S), NEW t \in Seq(S),
           NEW m \in 1 .. Len(s) + 1, NEW n \in 0 .. Len(s)
    PROVE  SubSeq(s \o t, m, n) = SubSeq(s, m, n)
BY SMT

\* The rest of two joined texts from a place in the first.
LEMMA SubSeqRest ==
    ASSUME NEW S, NEW s \in Seq(S), NEW t \in Seq(S),
           NEW m \in 1 .. Len(s) + 1
    PROVE  SubSeq(s \o t, m, Len(s \o t)) = SubSeq(s, m, Len(s)) \o t
BY SMT

\* The second of two joined texts.
LEMMA SubSeqSecond ==
    ASSUME NEW S, NEW s \in Seq(S), NEW t \in Seq(S)
    PROVE  SubSeq(s \o t, Len(s) + 1, Len(s \o t)) = t
BY SMT

\* The end of two joined texts, from a place in the second.
LEMMA SubSeqLast ==
    ASSUME NEW S, NEW s \in Seq(S), NEW t \in Seq(S), NEW n \in 0 .. Len(t)
    PROVE  /\ SubSeq(s \o t, 1, Len(s \o t) - n)
                = s \o SubSeq(t, 1, Len(t) - n)
           /\ SubSeq(s \o t, Len(s \o t) - n + 1, Len(s \o t))
                = SubSeq(t, Len(t) - n + 1, Len(t))
BY SMT

\* A part of a text is a text.
LEMMA SubSeqText ==
    ASSUME NEW S, NEW s \in Seq(S), NEW m \in 1 .. Len(s) + 1,
           NEW n \in 0 .. Len(s)
    PROVE  SubSeq(s, m, n) \in Seq(S)
BY SMT

\* The two parts of a text make it again.
LEMMA PartsJoin ==
    ASSUME NEW S, NEW s \in Seq(S), NEW n \in 0 .. Len(s)
    PROVE  SubSeq(s, 1, n) \o SubSeq(s, n + 1, Len(s)) = s
<1> DEFINE l == SubSeq(s, 1, n)
           r == SubSeq(s, n + 1, Len(s))
<1>1. /\ l \in Seq(S) /\ Len(l) = n
      /\ \A i \in 1 .. n : l[i] = s[i]
  OBVIOUS
<1>2. /\ r \in Seq(S) /\ Len(r) = Len(s) - n
      /\ \A i \in 1 .. Len(s) - n : r[i] = s[i + n]
  OBVIOUS
<1> HIDE DEF l, r
<1>3. /\ l \o r \in Seq(S) /\ Len(l \o r) = Len(s)
      /\ \A i \in 1 .. Len(s) :
            (l \o r)[i] = IF i <= n THEN l[i] ELSE r[i - n]
  BY <1>1, <1>2
<1>4. ASSUME NEW i \in 1 .. Len(s)
      PROVE  (l \o r)[i] = s[i]
  <2>1. CASE i <= n
    BY <1>1, <1>3, <2>1
  <2>2. CASE ~(i <= n)
    <3>1. i - n \in 1 .. Len(s) - n /\ (i - n) + n = i
      BY <2>2
    <3>2. QED
      BY <1>2, <1>3, <2>2, <3>1
  <2>3. QED
    BY <2>1, <2>2
<1>5. l \o r = s
  BY <1>3, <1>4, SeqEqual
<1>6. QED
  BY <1>5 DEF l, r

\* Joining texts is associative.
LEMMA ConcatThree ==
    ASSUME NEW S, NEW s \in Seq(S), NEW t \in Seq(S), NEW u \in Seq(S)
    PROVE  (s \o t) \o u = s \o (t \o u)
BY SMT

-----------------------------------------------------------------------------

\* Moving forward in a part moves forward in the whole.
LEMMA FramedAdvanced ==
    ASSUME NEW S, NEW c \in CursorsOver(S),
           NEW pre \in Seq(S), NEW post \in Seq(S),
           NEW n \in 0 .. Len(c.right)
    PROVE  /\ n \in 0 .. Len(Framed(pre, c, post).right)
           /\ Framed(pre, Advanced(c, n), post)
                = Advanced(Framed(pre, c, post), n)
<1> DEFINE l == c.left
           r == c.right
<1>1. l \in Seq(S) /\ r \in Seq(S) /\ n \in 0 .. Len(r)
  BY DEF CursorsOver
<1>2. pre \o (l \o SubSeq(r, 1, n)) = (pre \o l) \o SubSeq(r \o post, 1, n)
  <2> DEFINE part == SubSeq(r, 1, n)
  <2>1. part \in Seq(S)
    BY <1>1, SubSeqText
  <2>2. SubSeq(r \o post, 1, n) = part
    BY <1>1, SubSeqFirst
  <2> HIDE DEF part, l, r
  <2>3. pre \o (l \o part) = (pre \o l) \o part
    BY <1>1, <2>1
  <2>4. QED
    BY <2>2, <2>3 DEF part
<1>3. SubSeq(r \o post, n + 1, Len(r \o post))
        = SubSeq(r, n + 1, Len(r)) \o post
  <2>1. n + 1 \in 1 .. Len(r) + 1
    BY <1>1
  <2>2. QED
    BY <1>1, <2>1, SubSeqRest
<1>4. n \in 0 .. Len(r \o post)
  BY <1>1
<1>5. QED
  BY <1>2, <1>3, <1>4 DEF Framed, Advanced

\* Moving back in a part moves back in the whole.
LEMMA FramedRetreated ==
    ASSUME NEW S, NEW c \in CursorsOver(S),
           NEW pre \in Seq(S), NEW post \in Seq(S),
           NEW n \in 0 .. Len(c.left)
    PROVE  /\ n \in 0 .. Len(Framed(pre, c, post).left)
           /\ Framed(pre, Retreated(c, n), post)
                = Retreated(Framed(pre, c, post), n)
<1> DEFINE l == c.left
           r == c.right
<1>1. l \in Seq(S) /\ r \in Seq(S) /\ n \in 0 .. Len(l)
  BY DEF CursorsOver
<1>2. /\ SubSeq(pre \o l, 1, Len(pre \o l) - n)
            = pre \o SubSeq(l, 1, Len(l) - n)
      /\ SubSeq(pre \o l, Len(pre \o l) - n + 1, Len(pre \o l))
            = SubSeq(l, Len(l) - n + 1, Len(l))
  BY <1>1, SubSeqLast
<1>3. SubSeq(l, Len(l) - n + 1, Len(l)) \in Seq(S)
  <2>1. Len(l) - n + 1 \in 1 .. Len(l) + 1 /\ Len(l) \in 0 .. Len(l)
    BY <1>1
  <2>2. QED
    BY <1>1, <2>1, SubSeqText
<1>4. (SubSeq(l, Len(l) - n + 1, Len(l)) \o r) \o post
        = SubSeq(l, Len(l) - n + 1, Len(l)) \o (r \o post)
  <2> DEFINE part == SubSeq(l, Len(l) - n + 1, Len(l))
  <2>1. part \in Seq(S)
    BY <1>3
  <2> HIDE DEF part, l, r
  <2>2. (part \o r) \o post = part \o (r \o post)
    BY <1>1, <2>1
  <2>3. QED
    BY <2>2 DEF part
<1>5. n \in 0 .. Len(pre \o l)
  BY <1>1
<1>6. QED
  BY <1>2, <1>4, <1>5 DEF Framed, Retreated

\* Typing in a part types in the whole.
LEMMA FramedTyped ==
    ASSUME NEW S, NEW c \in CursorsOver(S),
           NEW pre \in Seq(S), NEW post \in Seq(S), NEW s \in Seq(S)
    PROVE  Framed(pre, Typed(c, s), post) = Typed(Framed(pre, c, post), s)
<1>1. (pre \o c.left) \o s = pre \o (c.left \o s)
  BY ConcatThree DEF CursorsOver
<1>2. QED
  BY <1>1 DEF Framed, Typed

\* Erasing in a part erases in the whole.
LEMMA FramedErased ==
    ASSUME NEW S, NEW c \in CursorsOver(S),
           NEW pre \in Seq(S), NEW post \in Seq(S),
           NEW n \in 0 .. Len(c.right)
    PROVE  /\ n \in 0 .. Len(Framed(pre, c, post).right)
           /\ Framed(pre, Erased(c, n), post)
                = Erased(Framed(pre, c, post), n)
<1> DEFINE r == c.right
<1>1. r \in Seq(S) /\ n \in 0 .. Len(r) /\ n + 1 \in 1 .. Len(r) + 1
  BY DEF CursorsOver
<1>2. SubSeq(r \o post, n + 1, Len(r \o post))
        = SubSeq(r, n + 1, Len(r)) \o post
  BY <1>1, SubSeqRest
<1>3. n \in 0 .. Len(r \o post)
  BY <1>1
<1>4. QED
  BY <1>2, <1>3 DEF Framed, Erased

\* What was typed is what the text before the cursor has grown by.
LEMMA TypedGrowth ==
    ASSUME NEW S, NEW c \in CursorsOver(S), NEW s \in Seq(S)
    PROVE  SubSeq(Typed(c, s).left, Len(c.left) + 1, Len(Typed(c, s).left)) = s
BY SubSeqSecond DEF CursorsOver, Typed

\* The operations make no bytes of their own.
LEMMA OperationsClosed ==
    ASSUME NEW S, NEW c \in CursorsOver(S)
    PROVE  /\ \A n \in 0 .. Len(c.right) : Advanced(c, n) \in CursorsOver(S)
           /\ \A n \in 0 .. Len(c.left) : Retreated(c, n) \in CursorsOver(S)
           /\ \A s \in Seq(S) : Typed(c, s) \in CursorsOver(S)
           /\ \A n \in 0 .. Len(c.right) : Erased(c, n) \in CursorsOver(S)
<1> DEFINE l == c.left
           r == c.right
<1>1. l \in Seq(S) /\ r \in Seq(S)
  BY DEF CursorsOver
<1> HIDE DEF l, r
<1>2. ASSUME NEW n \in 0 .. Len(r)
      PROVE  SubSeq(r, 1, n) \in Seq(S) /\ SubSeq(r, n + 1, Len(r)) \in Seq(S)
  BY <1>1
<1>3. ASSUME NEW n \in 0 .. Len(l)
      PROVE  /\ SubSeq(l, 1, Len(l) - n) \in Seq(S)
             /\ SubSeq(l, Len(l) - n + 1, Len(l)) \in Seq(S)
  BY <1>1
<1>4. ASSUME NEW n \in 0 .. Len(r)
      PROVE  l \o SubSeq(r, 1, n) \in Seq(S)
  BY <1>1, <1>2
<1>5. ASSUME NEW n \in 0 .. Len(l)
      PROVE  SubSeq(l, Len(l) - n + 1, Len(l)) \o r \in Seq(S)
  BY <1>1, <1>3
<1>6. ASSUME NEW n \in 0 .. Len(c.right)
      PROVE  Advanced(c, n) \in CursorsOver(S) /\ Erased(c, n) \in CursorsOver(S)
  BY <1>1, <1>2, <1>4 DEF Advanced, Erased, CursorsOver, l, r
<1>7. ASSUME NEW n \in 0 .. Len(c.left)
      PROVE  Retreated(c, n) \in CursorsOver(S)
  BY <1>3, <1>5 DEF Retreated, CursorsOver, l, r
<1>8. ASSUME NEW s \in Seq(S)
      PROVE  Typed(c, s) \in CursorsOver(S)
  BY <1>1 DEF Typed, CursorsOver, l, r
<1>9. QED
  BY <1>6, <1>7, <1>8

\* The parts of a text are texts over its letters.
LEMMA PartsOfText ==
    ASSUME NEW S, NEW T, NEW s \in Seq(T), NEW t \in Seq(T), s \o t \in Seq(S)
    PROVE  s \in Seq(S) /\ t \in Seq(S)
<1>1. ASSUME NEW i \in 1 .. Len(s)
      PROVE  s[i] \in S
  <2>1. i \in 1 .. Len(s \o t) /\ (s \o t)[i] = s[i]
    OBVIOUS
  <2>2. QED
    BY <2>1
<1>2. ASSUME NEW i \in 1 .. Len(t)
      PROVE  t[i] \in S
  <2>1. Len(s) + i \in 1 .. Len(s \o t) /\ (s \o t)[Len(s) + i] = t[i]
    OBVIOUS
  <2>2. QED
    BY <2>1
<1>3. QED
  BY <1>1, <1>2

\* The members of two joined sequences.
LEMMA ConcatMembers ==
    ASSUME NEW S, NEW s \in Seq(S), NEW t \in Seq(S)
    PROVE  /\ s \o t \in Seq(S) /\ Len(s \o t) = Len(s) + Len(t)
           /\ \A i \in 1 .. Len(s) : (s \o t)[i] = s[i]
           /\ \A i \in 1 .. Len(t) : (s \o t)[Len(s) + i] = t[i]
BY SMT

-----------------------------------------------------------------------------
(***************************************************************************)
(* Induction and recursion over the natural numbers, of sets and functions *)
(* rather than of operators: a predicate P is shown for every number by    *)
(* taking the set {n \in Nat : P(n)}, and a recursive function is shown to *)
(* be one by a function of the step it makes.                              *)
(***************************************************************************)

\* The natural numbers are well-founded.
LEMMA LessWellFounded ==
    IsWellFoundedOn({ss \in Nat \X Nat : ss[1] < ss[2]}, Nat)
BY NatLessThanWellFounded DEF OpToRel

\* A set of natural numbers has a least one, if it has any.
LEMMA LeastMember ==
    ASSUME NEW T \in SUBSET Nat, T # {}
    PROVE  \E x \in T : \A y \in T : x <= y
<1> DEFINE R == {ss \in Nat \X Nat : ss[1] < ss[2]}
<1>1. IsWellFoundedOn(R, Nat)
  BY LessWellFounded
<1> HIDE DEF R
<1>2. PICK x \in T : \A y \in T : ~ (<<y, x>> \in R)
  BY <1>1, WFMin
<1>3. \A y \in T : ~(y < x)
  BY <1>2 DEF R
<1>4. QED
  BY <1>3

\* What has 0, and the next number with each, has every number.
LEMMA Inductive ==
    ASSUME NEW T, 0 \in T, \A n \in Nat : n \in T => n + 1 \in T
    PROVE  \A n \in Nat : n \in T
<1> SUFFICES ASSUME NEW k \in Nat, k \notin T
             PROVE  FALSE
  OBVIOUS
<1> DEFINE U == {n \in Nat : n \notin T}
<1>1. PICK x \in U : \A y \in U : x <= y
  BY LeastMember
<1>2. x # 0 /\ x - 1 \in Nat
  OBVIOUS
<1>3. x - 1 \in T
  BY <1>1, <1>2
<1>4. QED
  BY <1>2, <1>3

\* f has the values that a step from each value to the next makes.
Iterates(f, S, first, step) ==
    /\ f \in [Nat -> S]
    /\ f[0] = first
    /\ \A n \in Nat : f[n + 1] = step[<<n, f[n]>>]

\* A step to make n times from a first value makes a sequence of values.
LEMMA Recursion ==
    ASSUME NEW S, NEW first \in S, NEW step \in [Nat \X S -> S]
    PROVE  \E f : Iterates(f, S, first, step)
<1> DEFINE Upto(n) == {g \in [0 .. n -> S] :
                          /\ g[0] = first
                          /\ \A i \in 0 .. n - 1 : g[i + 1] = step[<<i, g[i]>>]}
           There == {n \in Nat : Upto(n) # {}}
           Agree == {i \in Nat : \A m \in Nat, n \in Nat :
                        i <= m /\ i <= n =>
                           \A g \in Upto(m), h \in Upto(n) : g[i] = h[i]}
<1>1. \A n \in Nat : n \in There
  <2>1. 0 \in There
    <3>1. [i \in 0 .. 0 |-> first] \in Upto(0)
      OBVIOUS
    <3>2. QED
      BY <3>1
  <2>2. ASSUME NEW n \in Nat, n \in There
        PROVE  n + 1 \in There
    <3>1. PICK g : g \in Upto(n)
      BY <2>2
    <3>2. /\ g \in [0 .. n -> S] /\ g[0] = first
          /\ \A i \in 0 .. n - 1 : g[i + 1] = step[<<i, g[i]>>]
      BY <3>1
    <3> DEFINE h == [i \in 0 .. n + 1 |-> IF i <= n THEN g[i] ELSE step[<<n, g[n]>>]]
    <3>3. step[<<n, g[n]>>] \in S
      BY <3>2
    <3>4. h \in [0 .. n + 1 -> S] /\ h[0] = first
      BY <3>2, <3>3
    <3>5. ASSUME NEW i \in 0 .. (n + 1) - 1
          PROVE  h[i + 1] = step[<<i, h[i]>>]
      BY <3>2, SMTT(30)
    <3>6. h \in Upto(n + 1)
      BY <3>4, <3>5
    <3> HIDE DEF Upto, h
    <3>7. QED
      BY <3>6
  <2> HIDE DEF There
  <2>3. QED
    BY <2>1, <2>2, Inductive
<1>2. \A n \in Nat : n \in Agree
  <2>1. 0 \in Agree
    OBVIOUS
  <2>2. ASSUME NEW i \in Nat, i \in Agree
        PROVE  i + 1 \in Agree
    <3> SUFFICES ASSUME NEW m \in Nat, NEW n \in Nat, i + 1 <= m, i + 1 <= n,
                        NEW g \in Upto(m), NEW h \in Upto(n)
                 PROVE  g[i + 1] = h[i + 1]
      OBVIOUS
    <3>1. g[i + 1] = step[<<i, g[i]>>] /\ h[i + 1] = step[<<i, h[i]>>]
      OBVIOUS
    <3>2. i <= m /\ i <= n
      OBVIOUS
    <3>3. g[i] = h[i]
      <4> HIDE DEF Upto
      <4>1. QED
        BY <2>2, <3>2
    <3>4. QED
      BY <3>1, <3>3
  <2> HIDE DEF Agree
  <2>3. QED
    BY <2>1, <2>2, Inductive
<1> DEFINE g(n) == CHOOSE h : h \in Upto(n)
           f == [n \in Nat |-> g(n)[n]]
<1>3. ASSUME NEW n \in Nat
      PROVE  g(n) \in Upto(n)
  BY <1>1
<1>4. ASSUME NEW n \in Nat
      PROVE  f[n] = g(n)[n] /\ f[n] \in S
  <2>1. g(n) \in Upto(n)
    BY <1>3
  <2> HIDE DEF g
  <2>2. g(n)[n] \in S
    BY <2>1
  <2>3. QED
    BY <2>2
<1>5. f[0] = first
  <2>1. g(0) \in Upto(0)
    BY <1>3
  <2> HIDE DEF g
  <2>2. g(0)[0] = first
    BY <2>1
  <2>3. QED
    BY <2>2
<1>6. ASSUME NEW n \in Nat
      PROVE  f[n + 1] = step[<<n, f[n]>>]
  <2>1. g(n) \in Upto(n) /\ g(n + 1) \in Upto(n + 1)
    <3>1. n + 1 \in Nat
      OBVIOUS
    <3> HIDE DEF Upto, g
    <3>2. QED
      BY <1>3, <3>1
  <2> HIDE DEF g
  <2>2. g(n + 1)[n + 1] = step[<<n, g(n + 1)[n]>>]
    <3>1. n \in 0 .. (n + 1) - 1
      OBVIOUS
    <3>2. QED
      BY <2>1, <3>1
  <2>3. g(n + 1)[n] = g(n)[n]
    <3>1. n \in Agree /\ n <= n /\ n <= n + 1
      BY <1>2
    <3> HIDE DEF Upto
    <3>2. QED
      BY <2>1, <3>1
  <2>4. QED
    BY <2>2, <2>3
<1>7. Iterates(f, S, first, step)
  BY <1>4, <1>5, <1>6 DEF Iterates
<1>8. QED
  BY <1>7
=============================================================================
