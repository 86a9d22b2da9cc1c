--------------------------- MODULE Framing_proof ----------------------------
(***************************************************************************)
(* Proofs about Framing: what parse_request returns are the bodies that    *)
(* were written, whatever the bytes of the bodies and however the writer   *)
(* and the reader take turns, as long as nothing follows a body.           *)
(*                                                                         *)
(* The invariant says where in the stream of frames the reader is.  A      *)
(* frame is its header lines, one of which announces the length in decimal *)
(* digits, an empty line and a body; what is left of it to be read follows *)
(* from the reader's local variables, and is the beginning of the pipe.    *)
(* That a decimal number is read as the number it was written from is      *)
(* shown first, by induction over its digits.                              *)
(***************************************************************************)
EXTENDS Framing, Cursors_proof

\* What is left of a number when its last digits are taken away, and how many
\* digits it has.
Quotients(n, left, length) ==
    /\ length \in 1 .. n + 1
    /\ \A k \in 0 .. n + 1 : left[k] \in Nat
    /\ left[0] = n
    /\ \A k \in 1 .. n + 1 : left[k] = left[k - 1] \div 10
    /\ left[length] = 0

\* What Decimal is defined by: the quotients exist, and end at 0.
LEMMA DecimalQuotients ==
    ASSUME NEW n \in Nat
    PROVE  \E left, length :
              /\ Quotients(n, left, length)
              /\ Decimal(n) = [i \in 1 .. length |-> 48 + (left[length - i] % 10)]
<1> DEFINE step == [p \in Nat \X Nat |-> p[2] \div 10]
<1>1. step \in [Nat \X Nat -> Nat]
  <2>1. \A p \in Nat \X Nat : p[2] \in Nat
    OBVIOUS
  <2>2. \A m \in Nat : m \div 10 \in Nat
    OBVIOUS
  <2>3. QED
    BY <2>1, <2>2
<1>2. PICK f : f \in [Nat -> Nat] /\ f[0] = n
                 /\ \A i \in Nat : f[i + 1] = step[<<i, f[i]>>]
  <2> HIDE DEF step
  <2>1. PICK f : Iterates(f, Nat, n, step)
    BY <1>1, Recursion
  <2>2. QED
    BY <2>1 DEF Iterates
<1>3. \A i \in Nat : f[i + 1] = f[i] \div 10
  BY <1>2
<1> HIDE DEF step
<1> DEFINE Turn(a, k) == IF k = 0 THEN n ELSE a[k - 1] \div 10
           made == [k \in 0 .. n + 1 |-> f[k]]
           left == CHOOSE a : a = [k \in 0 .. n + 1 |-> Turn(a, k)]
<1>4. made = [k \in 0 .. n + 1 |-> Turn(made, k)]
  <2>1. ASSUME NEW k \in 0 .. n + 1
        PROVE  f[k] = Turn(made, k)
    <3>1. CASE k = 0
      BY <1>2, <3>1
    <3>2. CASE k # 0
      <4>1. k - 1 \in 0 .. n + 1 /\ k - 1 \in Nat /\ (k - 1) + 1 = k
        BY <3>2
      <4>2. f[k] = f[k - 1] \div 10
        BY <1>3, <4>1
      <4>3. made[k - 1] = f[k - 1]
        BY <4>1
      <4>4. QED
        BY <3>2, <4>2, <4>3
    <3>3. QED
      BY <3>1, <3>2
  <2> HIDE DEF Turn
  <2>2. QED
    BY <2>1
<1>5. left = [k \in 0 .. n + 1 |-> Turn(left, k)]
  <2> HIDE DEF Turn, made
  <2>1. QED
    BY <1>4
<1> DEFINE Last(k) == left[k] = 0 /\ (k > 1 => left[k - 1] # 0)
           length == CHOOSE k \in 1 .. n + 1 : Last(k)
<1>6. Decimal(n) = [i \in 1 .. length |-> 48 + (left[length - i] % 10)]
  BY DEF Decimal
<1> HIDE DEF left
<1>7. left[0] = n /\ \A k \in 1 .. n + 1 : left[k] = left[k - 1] \div 10
  BY <1>5
<1> HIDE DEF Turn
<1>8. \A k \in 0 .. n + 1 : left[k] \in Nat
  <2> DEFINE T == {k \in Nat : k <= n + 1 => left[k] \in Nat}
  <2>1. 0 \in T
    BY <1>7
  <2>2. ASSUME NEW k \in Nat, k \in T
        PROVE  k + 1 \in T
    <3> SUFFICES ASSUME k + 1 <= n + 1
                 PROVE  left[k + 1] \in Nat
      OBVIOUS
    <3>1. k + 1 \in 1 .. n + 1 /\ (k + 1) - 1 = k /\ left[k] \in Nat
      BY <2>2
    <3>2. left[k + 1] = left[k] \div 10
      BY <1>7, <3>1
    <3>3. QED
      BY <3>1, <3>2
  <2> HIDE DEF T
  <2>3. \A k \in Nat : k \in T
    BY <2>1, <2>2, Inductive
  <2>4. QED
    BY <2>3 DEF T
<1>9. left[n + 1] = 0
  <2> DEFINE T == {k \in Nat : k <= n + 1 => left[k] = 0 \/ left[k] + k <= n}
  <2>1. 0 \in T
    BY <1>7
  <2>2. ASSUME NEW k \in Nat, k \in T
        PROVE  k + 1 \in T
    <3> SUFFICES ASSUME k + 1 <= n + 1
                 PROVE  left[k + 1] = 0 \/ left[k + 1] + (k + 1) <= n
      OBVIOUS
    <3>1. /\ k + 1 \in 1 .. n + 1 /\ (k + 1) - 1 = k /\ left[k] \in Nat
          /\ left[k] = 0 \/ left[k] + k <= n
      BY <1>8, <2>2
    <3>2. left[k + 1] = left[k] \div 10
      BY <1>7, <3>1
    <3>3. \A m \in Nat : m \div 10 = 0 \/ m \div 10 + 1 <= m
      OBVIOUS
    <3>4. 0 \div 10 = 0
      OBVIOUS
    <3>5. left[k + 1] \in Nat
      BY <1>8, <3>1
    <3>6. CASE left[k] = 0
      BY <3>2, <3>4, <3>6
    <3>7. CASE left[k] + k <= n
      BY <3>1, <3>2, <3>3, <3>5, <3>7
    <3>8. QED
      BY <3>1, <3>6, <3>7
  <2> HIDE DEF T
  <2>3. n + 1 \in T
    BY <2>1, <2>2, Inductive
  <2>4. n + 1 \in 0 .. n + 1
    OBVIOUS
  <2>5. QED
    BY <1>8, <2>3, <2>4 DEF T
<1>10. \E k \in 1 .. n + 1 : Last(k)
  <2> DEFINE Zero == {k \in 1 .. n + 1 : left[k] = 0}
  <2>1. Zero \in SUBSET Nat /\ n + 1 \in Zero
    BY <1>9
  <2> HIDE DEF Zero
  <2>2. PICK k \in Zero : \A m \in Zero : k <= m
    BY <2>1, LeastMember
  <2>3. k \in 1 .. n + 1 /\ left[k] = 0
    BY DEF Zero
  <2>4. ASSUME k > 1 PROVE left[k - 1] # 0
    <3>1. k - 1 \in 1 .. n + 1 /\ ~(k <= k - 1)
      BY <2>3, <2>4
    <3>2. QED
      BY <2>2, <3>1 DEF Zero
  <2>5. QED
    BY <2>3, <2>4
<1>11. length \in 1 .. n + 1 /\ Last(length)
  <2> HIDE DEF Last
  <2>1. QED
    BY <1>10
<1> HIDE DEF length
<1>12. Quotients(n, left, length)
  BY <1>7, <1>8, <1>11 DEF Quotients
<1>13. QED
  BY <1>6, <1>12

\* The digits that atoi_len takes, and the number after each of them.
Sums(str, digits, ret) ==
    /\ digits \in 0 .. Len(str)
    /\ \A i \in 1 .. digits : str[i] \in Digits
    /\ digits < Len(str) => str[digits + 1] \notin Digits
    /\ ret[0] = 0
    /\ \A i \in 1 .. digits : ret[i] = ret[i - 1] * 10 + (str[i] - 48)

\* What atoi_len is defined by: how many digits it takes, and its partial sums.
LEMMA AtoiSums ==
    ASSUME NEW str \in Seq(Int)
    PROVE  \E digits, ret : Sums(str, digits, ret) /\ atoi_len(str) = ret[digits]
<1> DEFINE step == [p \in Nat \X Int |-> IF p[1] + 1 \in 1 .. Len(str)
                                         THEN p[2] * 10 + (str[p[1] + 1] - 48) ELSE 0]
           Taken(n) == /\ \A i \in 1 .. n : str[i] \in Digits
                       /\ n < Len(str) => str[n + 1] \notin Digits
           digits == CHOOSE n \in 0 .. Len(str) : Taken(n)
<1>1. Len(str) \in Nat /\ \A i \in 1 .. Len(str) : str[i] \in Int
  OBVIOUS
<1>2. \E n \in 0 .. Len(str) : Taken(n)
  <2> DEFINE Stops == {n \in 0 .. Len(str) : n = Len(str) \/ str[n + 1] \notin Digits}
  <2>1. Stops \in SUBSET Nat /\ Len(str) \in Stops
    BY <1>1
  <2> HIDE DEF Stops
  <2>2. PICK n \in Stops : \A m \in Stops : n <= m
    BY <2>1, LeastMember
  <2>3. n \in 0 .. Len(str) /\ (n < Len(str) => str[n + 1] \notin Digits)
    BY <1>1 DEF Stops
  <2>4. ASSUME NEW i \in 1 .. n PROVE str[i] \in Digits
    <3>1. /\ i - 1 \in 0 .. Len(str) /\ i - 1 # Len(str) /\ (i - 1) + 1 = i
          /\ ~(n <= i - 1)
      BY <1>1, <2>3
    <3>2. i - 1 \notin Stops
      BY <2>2, <3>1
    <3>3. QED
      BY <3>1, <3>2 DEF Stops
  <2>5. QED
    BY <2>3, <2>4
<1>3. digits \in 0 .. Len(str) /\ Taken(digits)
  <2> HIDE DEF Taken
  <2>1. QED
    BY <1>2
<1>4. step \in [Nat \X Int -> Int]
  <2>1. ASSUME NEW p \in Nat \X Int
        PROVE  (IF p[1] + 1 \in 1 .. Len(str)
                THEN p[2] * 10 + (str[p[1] + 1] - 48) ELSE 0) \in Int
    <3>1. p[1] \in Nat /\ p[2] \in Int
      OBVIOUS
    <3>2. CASE p[1] + 1 \in 1 .. Len(str)
      <4>1. str[p[1] + 1] \in Int
        BY <1>1, <3>2
      <4>2. QED
        BY <3>1, <3>2, <4>1
    <3>3. QED
      BY <3>1, <3>2
  <2>2. QED
    BY <2>1
<1>5. PICK f : f \in [Nat -> Int] /\ f[0] = 0
                 /\ \A i \in Nat : f[i + 1] = step[<<i, f[i]>>]
  <2> HIDE DEF step
  <2>1. 0 \in Int
    OBVIOUS
  <2>2. PICK f : Iterates(f, Int, 0, step)
    BY <1>4, <2>1, Recursion
  <2>3. QED
    BY <2>2 DEF Iterates
<1>6. ASSUME NEW i \in 1 .. Len(str)
      PROVE  f[i] = f[i - 1] * 10 + (str[i] - 48)
  <2>1. i - 1 \in Nat /\ (i - 1) + 1 = i /\ f[i - 1] \in Int
    BY <1>1, <1>5
  <2>2. f[i] = step[<<i - 1, f[i - 1]>>]
    BY <1>5, <2>1
  <2>3. <<i - 1, f[i - 1]>> \in Nat \X Int
    BY <2>1
  <2>4. QED
    BY <2>1, <2>2, <2>3
<1> HIDE DEF step
<1> DEFINE Turn(a, i) == IF i = 0 THEN 0 ELSE a[i - 1] * 10 + (str[i] - 48)
           ret == CHOOSE a : a = [i \in 0 .. digits |-> Turn(a, i)]
<1>7. atoi_len(str) = ret[digits]
  BY DEF atoi_len
<1> HIDE DEF digits
<1> DEFINE made == [i \in 0 .. digits |-> f[i]]
<1>8. made = [i \in 0 .. digits |-> Turn(made, i)]
  <2>1. ASSUME NEW i \in 0 .. digits
        PROVE  f[i] = Turn(made, i)
    <3>1. CASE i = 0
      BY <1>5, <3>1
    <3>2. CASE i # 0
      <4>1. i - 1 \in 0 .. digits /\ i \in 1 .. Len(str)
        BY <1>1, <1>3, <3>2
      <4>2. made[i - 1] = f[i - 1]
        BY <4>1
      <4>3. QED
        BY <1>6, <3>2, <4>1, <4>2
    <3>3. QED
      BY <3>1, <3>2
  <2> HIDE DEF Turn
  <2>2. QED
    BY <2>1
<1>9. ret = [i \in 0 .. digits |-> Turn(ret, i)]
  <2> HIDE DEF Turn, made
  <2>1. QED
    BY <1>8
<1> HIDE DEF ret
<1>10. ret[0] = 0 /\ \A i \in 1 .. digits : ret[i] = ret[i - 1] * 10 + (str[i] - 48)
  BY <1>1, <1>3, <1>9
<1>11. Sums(str, digits, ret)
  BY <1>3, <1>10 DEF Sums
<1>12. QED
  BY <1>7, <1>11

\* A length is never negative.
LEMMA AtoiIsNat ==
    ASSUME NEW str \in Seq(Int)
    PROVE  atoi_len(str) \in Nat
<1>1. PICK digits, ret : Sums(str, digits, ret) /\ atoi_len(str) = ret[digits]
  BY AtoiSums
<1> DEFINE T == {i \in Nat : i <= digits => ret[i] \in Nat}
<1>2. 0 \in T
  BY <1>1 DEF Sums
<1>3. ASSUME NEW i \in Nat, i \in T
      PROVE  i + 1 \in T
  <2> SUFFICES ASSUME i + 1 <= digits
               PROVE  ret[i + 1] \in Nat
    OBVIOUS
  <2>1. i + 1 \in 1 .. digits /\ (i + 1) - 1 = i /\ ret[i] \in Nat
    BY <1>1, <1>3 DEF Sums
  <2>2. ret[i + 1] = ret[i] * 10 + (str[i + 1] - 48) /\ str[i + 1] \in 48 .. 57
    BY <1>1, <2>1 DEF Sums, Digits
  <2>3. \A m \in Nat, d \in 48 .. 57 : m * 10 + (d - 48) \in Nat
    OBVIOUS
  <2>4. QED
    BY <2>1, <2>2, <2>3
<1> HIDE DEF T
<1>4. \A i \in Nat : i \in T
  BY <1>2, <1>3, Inductive
<1>5. digits \in Nat
  BY <1>1 DEF Sums
<1>6. QED
  BY <1>1, <1>4, <1>5 DEF T

\* What atoi_len reads of a decimal number is the number, whatever its size.
LEMMA AtoiOfDecimal ==
    ASSUME NEW n \in Nat
    PROVE  /\ Decimal(n) \in Seq(Digits)
           /\ Decimal(n) # <<>>
           /\ atoi_len(Decimal(n)) = n
<1>1. PICK left, length :
         /\ Quotients(n, left, length)
         /\ Decimal(n) = [i \in 1 .. length |-> 48 + (left[length - i] % 10)]
  BY DecimalQuotients
<1>2. PICK str : str = Decimal(n)
  OBVIOUS
<1>3. length \in Nat /\ length >= 1 /\ length <= n + 1
  BY <1>1 DEF Quotients
<1>4. ASSUME NEW i \in 1 .. length
      PROVE  /\ length - i \in 0 .. n + 1 /\ left[length - i] \in Nat
             /\ 48 + (left[length - i] % 10) \in 48 .. 57
  <2>1. length - i \in 0 .. n + 1
    BY <1>3
  <2>2. left[length - i] \in Nat
    BY <1>1, <2>1 DEF Quotients
  <2>3. \A m \in Nat : m % 10 \in 0 .. 9
    OBVIOUS
  <2>4. left[length - i] % 10 \in 0 .. 9
    BY <2>2, <2>3
  <2>5. QED
    BY <2>1, <2>2, <2>4
<1>5. /\ str \in Seq(48 .. 57) /\ Len(str) = length
      /\ \A i \in 1 .. length : str[i] = 48 + (left[length - i] % 10)
  BY <1>1, <1>2, <1>3, <1>4
<1>6. str \in Seq(Int)
  BY <1>5
<1>7. PICK digits, ret : Sums(str, digits, ret) /\ atoi_len(str) = ret[digits]
  BY <1>6, AtoiSums
<1>8. digits = length
  <2>1. digits \in 0 .. length
    BY <1>5, <1>7 DEF Sums
  <2>2. CASE digits < length
    <3>1. str[digits + 1] \notin Digits /\ digits + 1 \in 1 .. length
      BY <1>3, <1>5, <1>7, <2>1, <2>2 DEF Sums
    <3>2. QED
      BY <1>5, <3>1 DEF Digits
  <2>3. QED
    BY <1>3, <2>1, <2>2
<1> DEFINE T == {i \in Nat : i <= length => ret[i] = left[length - i]}
<1>9. 0 \in T
  <2>1. length - 0 = length
    BY <1>3
  <2>2. QED
    BY <1>1, <1>7, <2>1 DEF Sums, Quotients
<1>10. ASSUME NEW i \in Nat, i \in T
       PROVE  i + 1 \in T
  <2> SUFFICES ASSUME i + 1 <= length
               PROVE  ret[i + 1] = left[length - (i + 1)]
    OBVIOUS
  <2> DEFINE m == left[length - (i + 1)]
  <2>1. /\ i + 1 \in 1 .. length /\ (i + 1) - 1 = i
        /\ length - i \in 1 .. n + 1 /\ (length - i) - 1 = length - (i + 1)
    BY <1>3
  <2>2. ret[i + 1] = ret[i] * 10 + (str[i + 1] - 48)
    BY <1>7, <1>8, <2>1 DEF Sums
  <2>3. ret[i] = left[length - i]
    BY <1>3, <1>10
  <2>4. left[length - i] = m \div 10
    BY <1>1, <2>1 DEF Quotients
  <2>5. str[i + 1] = 48 + (m % 10) /\ m \in Nat
    BY <1>4, <1>5, <2>1
  <2> HIDE DEF m
  <2>6. (m \div 10) * 10 + (m % 10) = m /\ m % 10 \in Nat /\ m \div 10 \in Nat
    BY <2>5
  <2>7. ret[i + 1] = (m \div 10) * 10 + (m % 10)
    BY <2>2, <2>3, <2>4, <2>5, <2>6
  <2>8. QED
    BY <2>6, <2>7 DEF m
<1> HIDE DEF T
<1>11. \A i \in Nat : i \in T
  BY <1>9, <1>10, Inductive
<1>12. ret[length] = left[0]
  <2>1. length - length = 0
    BY <1>3
  <2>2. QED
    BY <1>3, <1>11, <2>1 DEF T
<1>13. str # <<>>
  BY <1>3, <1>5
<1>14. atoi_len(str) = n
  BY <1>1, <1>7, <1>8, <1>12 DEF Quotients
<1>15. QED
  BY <1>2, <1>5, <1>13, <1>14 DEF Digits

-----------------------------------------------------------------------------

\* A byte in a header line.
Visible == Symbol \ {CR, LF}

\* The header lines that say nothing of the length.
Others == {line \in Extra : line # <<>>}

\* What a reader that counts as the writer does takes a frame for, what the
\* writer writes after that, and the line that announces it.
Whole(f) == IF f.kind = "response" THEN Append(f.body, CR) ELSE f.body

Trail(f) == CASE f.kind = "plain" -> <<>>
              [] f.kind = "trailed" -> LineEnd
              [] f.kind = "response" -> <<LF>>

FieldLine(f) == <<Field>> \o Decimal(Len(Whole(f)))

Rest(f) == Whole(f) \o Trail(f)

EndAndRest(f) == LineEnd \o Rest(f)

\* The header of f, when its line cur is read and after is behind the end of
\* that line.
Todo(length, cur, after, f) ==
    \/ /\ length = Unset
       /\ cur = FieldLine(f)
       /\ \/ after = EndAndRest(f)
          \/ \E line \in Others : after = line \o (LineEnd \o EndAndRest(f))
    \/ /\ length = Unset
       /\ cur \in Others
       /\ after = FieldLine(f) \o (LineEnd \o EndAndRest(f))
    \/ /\ length = Len(Whole(f))
       /\ cur \in Others
       /\ after = EndAndRest(f)
    \/ /\ length = Len(Whole(f))
       /\ cur = <<>>
       /\ after = Rest(f)

\* The reader is in the middle of the header of f, or of its body: left is not
\* read yet.
InHeader(length, line, f, left) ==
    \E x \in Seq(Visible), after \in Seq(Symbol) :
       /\ Todo(length, line \o x, after, f)
       /\ \/ left = x \o (LineEnd \o after)
          \/ x = <<>> /\ left = <<LF>> \o after

InBody(body, f, left) ==
    \E y \in Seq(Symbol) : Whole(f) = body \o y /\ left = y \o Trail(f)

Reading(r, f, left) ==
    \/ /\ r.state = "header"
       /\ r.body = <<>>
       /\ InHeader(r.length, r.line, f, left)
    \/ /\ r.state = "body"
       /\ r.line = <<>>
       /\ r.length = Len(Whole(f))
       /\ InBody(r.body, f, left)

Readers == [state : {"header", "body", "stopped", "overrun"},
            line : Seq(Symbol), length : Nat \cup {Unset}, body : Seq(Symbol)]

-----------------------------------------------------------------------------

\* A sequence over a set is one over a larger set.
LEMMA SeqSuperset ==
    ASSUME NEW S, NEW T, S \subseteq T, NEW s \in Seq(S)
    PROVE  s \in Seq(T)
BY SMT

\* The first element of two joined sequences.
LEMMA FirstOfJoined ==
    ASSUME NEW S, NEW s \in Seq(S), NEW t \in Seq(S), s # <<>>
    PROVE  /\ s \o t # <<>>
           /\ Head(s \o t) = Head(s)
           /\ Tail(s \o t) = Tail(s) \o t
           /\ Head(s) \in S
           /\ Tail(s) \in Seq(S)
<1>1. Head(s) \in S /\ Tail(s) \in Seq(S)
  OBVIOUS
<1>2. s \o t # <<>> /\ Head(s \o t) = Head(s)
  OBVIOUS
<1>3. Tail(s \o t) = Tail(s) \o t
  <2>1. /\ Tail(s \o t) = SubSeq(s \o t, 2, Len(s \o t))
        /\ Tail(s) = SubSeq(s, 2, Len(s))
    BY <1>2, TailIsSubSeq
  <2>2. 2 \in 1 .. Len(s) + 1
    BY <1>1
  <2>3. QED
    BY <2>1, <2>2, SubSeqRest
<1>4. QED
  BY <1>1, <1>2, <1>3

\* The first element goes to the end of what was taken before.
LEMMA TakeFirst ==
    ASSUME NEW S, NEW s \in Seq(S), NEW t \in Seq(S), t # <<>>
    PROVE  /\ Append(s, Head(t)) \in Seq(S)
           /\ Append(s, Head(t)) \o Tail(t) = s \o t
BY SMT

\* A line end.
LEMMA LineEnds ==
    ASSUME NEW t \in Seq(Symbol)
    PROVE  /\ LineEnd \o t \in Seq(Symbol)
           /\ LineEnd \o t # <<>>
           /\ Head(LineEnd \o t) = CR
           /\ Tail(LineEnd \o t) = <<LF>> \o t
           /\ <<LF>> \o t \in Seq(Symbol)
           /\ <<LF>> \o t # <<>>
           /\ Head(<<LF>> \o t) = LF
           /\ Tail(<<LF>> \o t) = t
<1>1. LineEnd \in Seq(Symbol) /\ <<LF>> \in Seq(Symbol)
  BY DEF LineEnd, CR, LF, Symbol
<1>2. /\ LineEnd # <<>> /\ <<LF>> # <<>>
      /\ Head(LineEnd) = CR /\ Tail(LineEnd) = <<LF>>
      /\ Head(<<LF>>) = LF /\ Tail(<<LF>>) = <<>>
  BY DEF LineEnd
<1>3. /\ LineEnd \o t # <<>> /\ Head(LineEnd \o t) = Head(LineEnd)
      /\ Tail(LineEnd \o t) = Tail(LineEnd) \o t
  BY <1>1, <1>2, FirstOfJoined
<1>4. /\ <<LF>> \o t # <<>> /\ Head(<<LF>> \o t) = Head(<<LF>>)
      /\ Tail(<<LF>> \o t) = Tail(<<LF>>) \o t
  BY <1>1, <1>2, FirstOfJoined
<1>5. QED
  BY <1>1, <1>2, <1>3, <1>4, ConcatNothing, ConcatProperties

\* What a frame is made of.
LEMMA FrameParts ==
    ASSUME NEW f \in Frames
    PROVE  /\ Whole(f) \in Seq(Symbol)
           /\ Trail(f) \in Seq(Symbol)
           /\ Rest(f) \in Seq(Symbol)
           /\ EndAndRest(f) \in Seq(Symbol)
           /\ FieldLine(f) \in Seq(Visible)
           /\ Len(FieldLine(f)) <= BufSize
           /\ Len(FieldLine(f)) # 1 /\ FieldLine(f) # <<>>
           /\ Head(FieldLine(f)) = Field
           /\ atoi_len(Tail(FieldLine(f))) = Len(Whole(f))
<1>1. /\ f.body \in Bodies /\ f.body \in Seq(Symbol)
      /\ f.kind \in {"plain", "trailed", "response"}
  BY FramesAssumption DEF Frames
<1>2. CR \in Symbol /\ LF \in Symbol /\ <<LF>> \in Seq(Symbol) /\ LineEnd \in Seq(Symbol)
  BY DEF CR, LF, Symbol, LineEnd
<1>3. /\ Whole(f) \in Seq(Symbol)
      /\ Len(Whole(f)) = Len(f.body) \/ Len(Whole(f)) = Len(f.body) + 1
  BY <1>1, <1>2 DEF Whole
<1>4. Trail(f) \in Seq(Symbol)
  BY <1>1, <1>2 DEF Trail
<1>5. Rest(f) \in Seq(Symbol) /\ EndAndRest(f) \in Seq(Symbol)
  BY <1>2, <1>3, <1>4, ConcatProperties DEF Rest, EndAndRest
<1>6. PICK d : d = Decimal(Len(Whole(f)))
  OBVIOUS
<1>7. /\ d \in Seq(Digits) /\ d # <<>> /\ atoi_len(d) = Len(Whole(f))
      /\ Len(d) < BufSize
  <2>1. d \in Seq(Digits) /\ d # <<>> /\ atoi_len(d) = Len(Whole(f))
    <3>1. Len(Whole(f)) \in Nat
      BY <1>3
    <3>2. QED
      BY <1>6, <3>1, AtoiOfDecimal
  <2>2. /\ Len(Decimal(Len(f.body))) < BufSize
        /\ Len(Decimal(Len(f.body) + 1)) < BufSize
    BY <1>1, FramesAssumption
  <2>3. Len(d) < BufSize
    BY <1>3, <1>6, <2>2
  <2>4. QED
    BY <2>1, <2>3
<1>8. d \in Seq(Visible) /\ <<Field>> \in Seq(Visible)
  <2>1. Digits \subseteq Visible /\ Field \in Visible
    BY DEF Digits, Visible, Symbol, CR, LF, Field
  <2>2. QED
    BY <1>7, <2>1, SeqSuperset
<1>9. /\ <<Field>> \o d \in Seq(Visible) /\ Len(<<Field>> \o d) = Len(d) + 1
      /\ Head(<<Field>> \o d) = Field /\ Tail(<<Field>> \o d) = d
  <2>1. <<Field>> # <<>> /\ Head(<<Field>>) = Field /\ Tail(<<Field>>) = <<>>
    OBVIOUS
  <2>2. /\ Head(<<Field>> \o d) = Field /\ Tail(<<Field>> \o d) = <<>> \o d
    BY <1>8, <2>1, FirstOfJoined
  <2>3. QED
    BY <1>8, <2>2, ConcatNothing, ConcatProperties
<1>10. /\ Len(d) \in Nat /\ Len(d) >= 1 /\ BufSize \in Nat
  BY <1>7, FramesAssumption
<1>11. FieldLine(f) = <<Field>> \o d
  BY <1>6 DEF FieldLine
<1>12. /\ FieldLine(f) \in Seq(Visible)
       /\ Len(FieldLine(f)) <= BufSize
       /\ Len(FieldLine(f)) # 1 /\ FieldLine(f) # <<>>
       /\ Head(FieldLine(f)) = Field
       /\ Tail(FieldLine(f)) = d
  BY <1>7, <1>9, <1>10, <1>11
<1>13. QED
  BY <1>3, <1>4, <1>5, <1>7, <1>12

\* A line that does not announce the length.
LEMMA OtherLines ==
    ASSUME NEW line \in Others
    PROVE  /\ line \in Seq(Visible)
           /\ line # <<>>
           /\ Len(line) <= BufSize
           /\ Head(line) # Field
BY FramesAssumption DEF Others, Visible

\* The line that is read fits into buf, and the rest are bytes.
LEMMA TodoTyped ==
    ASSUME NEW f \in Frames, NEW length, NEW cur, NEW after, Todo(length, cur, after, f)
    PROVE  cur \in Seq(Visible) /\ Len(cur) <= BufSize
<1>1. /\ FieldLine(f) \in Seq(Visible)
      /\ Len(FieldLine(f)) <= BufSize
  BY FrameParts
<1>2. <<>> \in Seq(Visible) /\ Len(<<>>) <= BufSize
  BY FramesAssumption
<1>3. cur = FieldLine(f) \/ cur \in Others \/ cur = <<>>
  BY DEF Todo
<1>4. QED
  BY <1>1, <1>2, <1>3, OtherLines

-----------------------------------------------------------------------------

\* The byte that is read in a header.
LEMMA HeaderGoesOn ==
    ASSUME NEW f \in Frames, NEW length, NEW line \in Seq(Symbol), NEW left,
           InHeader(length, line, f, left)
    PROVE  /\ left \in Seq(Symbol)
           /\ left # <<>>
           /\ Head(left) \notin {CR, LF} =>
                 /\ Len(line) < BufSize
                 /\ InHeader(length, Append(line, Head(left)), f, Tail(left))
           /\ Head(left) = CR => InHeader(length, line, f, Tail(left))
<1>1. PICK x \in Seq(Visible), after \in Seq(Symbol) :
         /\ Todo(length, line \o x, after, f)
         /\ \/ left = x \o (LineEnd \o after)
            \/ x = <<>> /\ left = <<LF>> \o after
  BY DEF InHeader
<1>2. x \in Seq(Symbol) /\ Visible \subseteq Symbol
  BY SeqSuperset DEF Visible
<1>3. PICK e, g : e = LineEnd \o after /\ g = <<LF>> \o after
  OBVIOUS
<1>4. /\ e \in Seq(Symbol) /\ e # <<>> /\ Head(e) = CR /\ Tail(e) = g
      /\ g \in Seq(Symbol) /\ g # <<>> /\ Head(g) = LF /\ Tail(g) = after
  BY <1>3, LineEnds
<1>5. CR # LF
  BY DEF CR, LF
<1>6. CASE x = <<>> /\ left = g
  BY <1>4, <1>5, <1>6
<1>7. CASE x = <<>> /\ left = x \o e
  <2>1. left = e
    BY <1>4, <1>7, ConcatNothing
  <2>2. InHeader(length, line, f, g)
    BY <1>1, <1>3, <1>7 DEF InHeader
  <2>3. QED
    BY <1>4, <1>5, <2>1, <2>2
<1>8. CASE x # <<>> /\ left = x \o e
  <2>1. /\ left # <<>> /\ Head(left) = Head(x) /\ Tail(left) = Tail(x) \o e
    BY <1>2, <1>4, <1>8, FirstOfJoined, SMTT(30)
  <2>2. Head(x) \in Visible /\ Tail(x) \in Seq(Visible)
    BY <1>8
  <2>3. Head(left) \notin {CR, LF}
    BY <2>1, <2>2 DEF Visible
  <2>4. Len(line) < BufSize
    <3>1. Len(line \o x) <= BufSize
      BY <1>1, TodoTyped
    <3>2. Len(line \o x) = Len(line) + Len(x) /\ Len(x) \in Nat /\ Len(x) > 0 /\ Len(line) \in Nat
      BY <1>2, <1>8
    <3>3. QED
      BY <3>1, <3>2, FramesAssumption
  <2>5. Append(line, Head(left)) \o Tail(x) = line \o x
    BY <1>2, <1>8, <2>1, TakeFirst
  <2>6. InHeader(length, Append(line, Head(left)), f, Tail(left))
    BY <1>1, <1>3, <2>1, <2>2, <2>5 DEF InHeader
  <2>7. left \in Seq(Symbol)
    BY <1>2, <1>4, <1>8, ConcatProperties
  <2>8. QED
    BY <2>1, <2>3, <2>4, <2>6, <2>7
<1>9. QED
  BY <1>1, <1>3, <1>6, <1>7, <1>8

\* The end of a line in a header.
LEMMA HeaderLineEnds ==
    ASSUME NEW f \in Frames, NEW length, NEW line \in Seq(Symbol), NEW left,
           InHeader(length, line, f, left), Head(left) = LF
    PROVE  Tail(left) \in Seq(Symbol) /\ Todo(length, line, Tail(left), f)
<1>1. PICK x \in Seq(Visible), after \in Seq(Symbol) :
         /\ Todo(length, line \o x, after, f)
         /\ \/ left = x \o (LineEnd \o after)
            \/ x = <<>> /\ left = <<LF>> \o after
  BY DEF InHeader
<1>2. PICK e, g : e = LineEnd \o after /\ g = <<LF>> \o after
  OBVIOUS
<1>3. /\ e \in Seq(Symbol) /\ e # <<>> /\ Head(e) = CR /\ Tail(e) = g
      /\ g \in Seq(Symbol) /\ g # <<>> /\ Head(g) = LF /\ Tail(g) = after
  BY <1>2, LineEnds
<1>4. CR # LF
  BY DEF CR, LF
<1>5. ASSUME x = <<>>, left = x \o e PROVE FALSE
  BY <1>3, <1>4, <1>5, ConcatNothing
<1>6. ASSUME x # <<>>, left = x \o e PROVE FALSE
  <2>1. x \in Seq(Symbol)
    BY SeqSuperset DEF Visible
  <2>2. Head(left) = Head(x)
    BY <1>3, <1>6, <2>1, FirstOfJoined
  <2>3. Head(x) \in Visible
    BY <1>6
  <2>4. QED
    BY <2>2, <2>3 DEF Visible
<1>7. x = <<>> /\ left = g
  BY <1>1, <1>2, <1>5, <1>6
<1>8. line \o x = line
  BY <1>7, ConcatNothing
<1>9. QED
  BY <1>1, <1>3, <1>7, <1>8

\* A line begins: its bytes are there.
LEMMA LineBegins ==
    ASSUME NEW f \in Frames, NEW length, NEW cur \in Seq(Visible),
           NEW after \in Seq(Symbol), Todo(length, cur, after, f)
    PROVE  InHeader(length, <<>>, f, cur \o (LineEnd \o after))
<1>1. <<>> \o cur = cur
  BY ConcatNothing
<1>2. QED
  BY <1>1 DEF InHeader

\* After the end of a line that is not empty the next one begins, and after
\* the empty line the body does.
LEMMA NextLine ==
    ASSUME NEW f \in Frames, NEW length, NEW line, NEW after \in Seq(Symbol),
           Todo(length, line, after, f)
    PROVE  /\ line # <<>> /\ Head(line) # Field => InHeader(length, <<>>, f, after)
           /\ line # <<>> /\ Head(line) = Field =>
                 /\ Len(line) # 1
                 /\ InHeader(atoi_len(Tail(line)), <<>>, f, after)
           /\ line = <<>> =>
                 length = Len(Whole(f)) /\ length # Unset /\ after = Rest(f)
<1> DEFINE c == Len(Whole(f))
           n == FieldLine(f)
           w == EndAndRest(f)
<1>1. /\ n \in Seq(Visible) /\ Len(n) # 1 /\ Head(n) = Field /\ n # <<>>
      /\ atoi_len(Tail(n)) = c
      /\ w \in Seq(Symbol) /\ Rest(f) \in Seq(Symbol) /\ Whole(f) \in Seq(Symbol)
      /\ LineEnd \o w \in Seq(Symbol) /\ <<>> \in Seq(Visible)
      /\ w = LineEnd \o Rest(f)
  <2>1. w \in Seq(Symbol)
    BY FrameParts
  <2>2. LineEnd \o w \in Seq(Symbol)
    BY <2>1, LineEnds
  <2>3. n # <<>>
    BY FrameParts
  <2>4. QED
    BY <2>1, <2>2, <2>3, FrameParts DEF EndAndRest
<1>2. c \in Nat /\ c # Unset
  BY <1>1 DEF Unset
<1>3. InHeader(c, <<>>, f, w)
  <2>1. Todo(c, <<>>, Rest(f), f)
    BY DEF Todo
  <2>2. <<>> \o (LineEnd \o Rest(f)) = w
    BY <1>1, ConcatNothing
  <2> HIDE DEF c, w, n
  <2>3. QED
    BY <1>1, <2>1, <2>2, LineBegins
<1>4. ASSUME NEW o \in Others
      PROVE  InHeader(c, <<>>, f, o \o (LineEnd \o w))
  <2>1. Todo(c, o, w, f)
    BY DEF Todo
  <2> HIDE DEF c, w, n
  <2>2. QED
    BY <1>1, <2>1, LineBegins, OtherLines
<1>5. InHeader(Unset, <<>>, f, n \o (LineEnd \o w))
  <2>1. Todo(Unset, n, w, f)
    BY DEF Todo
  <2> HIDE DEF c, w, n
  <2>2. QED
    BY <1>1, <2>1, LineBegins
<1>6. \/ length = Unset /\ line = n /\ (after = w \/ \E o \in Others : after = o \o (LineEnd \o w))
      \/ length = Unset /\ line \in Others /\ after = n \o (LineEnd \o w)
      \/ length = c /\ line \in Others /\ after = w
      \/ length = c /\ line = <<>> /\ after = Rest(f)
  BY DEF Todo
<1> HIDE DEF c, w, n
<1>7. CASE /\ length = Unset /\ line = n
           /\ after = w \/ \E o \in Others : after = o \o (LineEnd \o w)
  <2>1. InHeader(c, <<>>, f, after)
    <3>1. CASE after = w
      BY <1>3, <3>1
    <3>2. CASE \E o \in Others : after = o \o (LineEnd \o w)
      <4>1. PICK o \in Others : after = o \o (LineEnd \o w)
        BY <3>2
      <4>2. InHeader(c, <<>>, f, o \o (LineEnd \o w))
        BY <1>4
      <4>3. QED
        BY <4>1, <4>2
    <3>3. QED
      BY <1>7, <3>1, <3>2
  <2>2. /\ line # <<>> /\ Head(line) = Field /\ Len(line) # 1
        /\ atoi_len(Tail(line)) = c
    <3>1. line = n
      BY <1>7
    <3>2. QED
      BY <1>1, <3>1
  <2>3. QED
    BY <2>1, <2>2
<1>8. CASE length = Unset /\ line \in Others /\ after = n \o (LineEnd \o w)
  BY <1>1, <1>5, <1>8, OtherLines
<1>9. CASE length = c /\ line \in Others /\ after = w
  BY <1>3, <1>9, OtherLines
<1>10. CASE length = c /\ line = <<>> /\ after = Rest(f)
  BY <1>2, <1>10 DEF c
<1>11. QED
  BY <1>6, <1>7, <1>8, <1>9, <1>10

\* The bytes of a body.
LEMMA BodyGoesOn ==
    ASSUME NEW f \in Frames, NEW body \in Seq(Symbol), NEW left, InBody(body, f, left)
    PROVE  /\ left \in Seq(Symbol)
           /\ Len(body) < Len(Whole(f)) =>
                 left # <<>> /\ InBody(Append(body, Head(left)), f, Tail(left))
           /\ Len(body) = Len(Whole(f)) => body = Whole(f) /\ left = Trail(f)
<1>1. PICK y \in Seq(Symbol) : Whole(f) = body \o y /\ left = y \o Trail(f)
  BY DEF InBody
<1>2. Trail(f) \in Seq(Symbol)
  BY FrameParts
<1>3. Len(Whole(f)) = Len(body) + Len(y) /\ Len(body) \in Nat /\ Len(y) \in Nat
  BY <1>1
<1>4. ASSUME Len(body) < Len(Whole(f))
      PROVE  left # <<>> /\ InBody(Append(body, Head(left)), f, Tail(left))
  <2>1. y # <<>>
    BY <1>3, <1>4
  <2>2. /\ left # <<>> /\ Head(left) = Head(y) /\ Tail(left) = Tail(y) \o Trail(f)
        /\ Tail(y) \in Seq(Symbol)
    BY <1>1, <1>2, <2>1, FirstOfJoined
  <2>3. Append(body, Head(y)) \o Tail(y) = body \o y
    BY <2>1, TakeFirst
  <2>4. QED
    BY <1>1, <2>2, <2>3 DEF InBody
<1>5. ASSUME Len(body) = Len(Whole(f))
      PROVE  body = Whole(f) /\ left = Trail(f)
  <2>1. y = <<>>
    BY <1>3, <1>5
  <2>2. QED
    BY <1>1, <1>2, <2>1, ConcatNothing
<1>6. left \in Seq(Symbol)
  BY <1>1, <1>2, ConcatProperties
<1>7. QED
  BY <1>4, <1>5, <1>6

-----------------------------------------------------------------------------

\* The headers of a frame, as they are written and as they are read.
LEMMA HeaderJoins ==
    ASSUME NEW n \in Seq(Symbol), NEW o \in Seq(Symbol), NEW b \in Seq(Symbol)
    PROVE  /\ ((n \o LineEnd) \o LineEnd) \o b = n \o (LineEnd \o (LineEnd \o b))
           /\ (((n \o LineEnd) \o (o \o LineEnd)) \o LineEnd) \o b
                = n \o (LineEnd \o (o \o (LineEnd \o (LineEnd \o b))))
<1> DEFINE e == LineEnd
<1>1. e \in Seq(Symbol)
  BY DEF LineEnd, CR, LF, Symbol
<1> HIDE DEF e
<1>2. \A s \in Seq(Symbol), t \in Seq(Symbol) : s \o t \in Seq(Symbol)
  BY ConcatProperties
<1>3. \A s \in Seq(Symbol), t \in Seq(Symbol), u \in Seq(Symbol) :
         (s \o t) \o u = s \o (t \o u)
  BY ConcatThree
<1>4. PICK ne, oe, eb : ne = n \o e /\ oe = o \o e /\ eb = e \o b
  OBVIOUS
<1>5. ne \in Seq(Symbol) /\ oe \in Seq(Symbol) /\ eb \in Seq(Symbol)
  BY <1>1, <1>2, <1>4
<1>6. (ne \o e) \o b = n \o (e \o eb)
  <2>1. (ne \o e) \o b = ne \o eb
    BY <1>1, <1>4, <1>5, ConcatThree, SMTT(30)
  <2>2. (n \o e) \o eb = n \o (e \o eb)
    BY <1>1, <1>3, <1>5, ZenonT(30)
  <2>3. QED
    BY <1>4, <2>1, <2>2
<1>7. ((ne \o oe) \o e) \o b = n \o (e \o (o \o (e \o eb)))
  <2>1. PICK no : no = ne \o oe
    OBVIOUS
  <2>2. no \in Seq(Symbol)
    BY <1>2, <1>5, <2>1
  <2>3. (no \o e) \o b = no \o eb
    BY <1>1, <1>4, <2>2, ConcatThree, SMTT(30)
  <2>4. (ne \o oe) \o eb = ne \o (oe \o eb)
    BY <1>5, ConcatThree, SMTT(30)
  <2>5. (o \o e) \o eb = o \o (e \o eb)
    BY <1>1, <1>5, ConcatThree, SMTT(30)
  <2>6. PICK t : t = o \o (e \o eb)
    OBVIOUS
  <2>7. t \in Seq(Symbol)
    BY <1>1, <1>2, <1>5, <2>6
  <2>8. (n \o e) \o t = n \o (e \o t)
    BY <1>1, <2>7, ConcatThree, SMTT(30)
  <2>9. QED
    BY <1>4, <2>1, <2>3, <2>4, <2>5, <2>6, <2>8
<1>8. QED
  BY <1>4, <1>6, <1>7 DEF e

\* The bytes of a frame are its header lines, an empty line, and the rest.
LEMMA BytesAre ==
    ASSUME NEW f \in Frames
    PROVE  LET n == FieldLine(f)
           IN  \/ Bytes(f) = ((n \o LineEnd) \o LineEnd) \o Rest(f)
               \/ \E o \in Others :
                     \/ Bytes(f) = (((n \o LineEnd) \o (o \o LineEnd)) \o LineEnd) \o Rest(f)
                     \/ Bytes(f) = (((o \o LineEnd) \o (n \o LineEnd)) \o LineEnd) \o Rest(f)
<1> DEFINE n == FieldLine(f)
           e == LineEnd
           Is(h) == \/ h = (n \o e) \o e
                    \/ \E o \in Others : \/ h = ((n \o e) \o (o \o e)) \o e
                                         \/ h = ((o \o e) \o (n \o e)) \o e
<1>1. e \in Seq(Symbol) /\ n \in Seq(Symbol) /\ f.body \in Seq(Symbol)
  <2>1. n \in Seq(Symbol)
    BY FrameParts, SeqSuperset DEF Visible
  <2>2. f.body \in Seq(Symbol)
    BY FramesAssumption DEF Frames
  <2>3. QED
    BY <2>1, <2>2 DEF LineEnd, CR, LF, Symbol
<1>2. \A o \in Others : o \in Seq(Symbol)
  BY OtherLines, SeqSuperset DEF Visible
<1>3. \A h : Is(h) => h \in Seq(Symbol)
  <2>1. \A s \in Seq(Symbol), t \in Seq(Symbol) : s \o t \in Seq(Symbol)
    BY ConcatProperties
  <2> HIDE DEF n, e
  <2>2. QED
    BY <1>1, <1>2, <2>1
<1>4. \A h \in Seq(Symbol) : (h \o f.body) \o e = h \o (f.body \o e)
  <2> PICK g : g = f.body
    OBVIOUS
  <2>1. g \in Seq(Symbol) /\ e \in Seq(Symbol)
    BY <1>1
  <2> HIDE DEF e
  <2>2. \A s \in Seq(Symbol), t \in Seq(Symbol), u \in Seq(Symbol) :
           (s \o t) \o u = s \o (t \o u)
    BY ConcatThree
  <2>3. \A h \in Seq(Symbol) : (h \o g) \o e = h \o (g \o e)
    BY <2>1, <2>2, Zenon
  <2>4. QED
    BY <2>3
<1>5. CASE f.kind = "response"
  <2>1. n = <<Field>> \o Decimal(Len(f.body) + 1)
    BY <1>1, <1>5 DEF FieldLine, Whole
  <2>2. Rest(f) = f.body \o e
    <3>1. Rest(f) = Append(f.body, CR) \o <<LF>>
      BY <1>5 DEF Rest, Whole, Trail
    <3>2. QED
      BY <1>1, <3>1 DEF LineEnd, CR, LF, Symbol
  <2>3. Bytes(f) = (((n \o e) \o e) \o f.body) \o e
    BY <1>5, <2>1 DEF Bytes, json_rpc_write_response
  <2> HIDE DEF n, e
  <2>4. PICK h : h = (n \o e) \o e
    OBVIOUS
  <2>5. h \in Seq(Symbol)
    BY <1>3, <2>4
  <2>6. (h \o f.body) \o e = h \o (f.body \o e)
    BY <1>4, <2>5, Zenon
  <2>7. QED
    BY <2>2, <2>3, <2>4, <2>6 DEF n, e
<1>6. CASE f.kind # "response"
  <2>1. n = <<Field>> \o Decimal(Len(f.body))
    BY <1>6 DEF FieldLine, Whole
  <2>2. f.extra.line = <<>> \/ f.extra.line \in Others
    BY DEF Frames, NoExtra, Others
  <2>3. \E h : Is(h) /\ Plain(f.body, f.extra) = h \o f.body
    <3>1. CASE f.extra.line = <<>>
      <4>1. <<>> \o (n \o e) = n \o e /\ (n \o e) \o <<>> = n \o e
        <5>1. n \o e \in Seq(Symbol)
          BY <1>1, ConcatProperties
        <5>2. QED
          BY <5>1, ConcatNothing
      <4>2. Plain(f.body, f.extra) = ((n \o e) \o e) \o f.body
        BY <2>1, <3>1, <4>1 DEF Plain
      <4>3. QED
        BY <4>2
    <3>2. CASE f.extra.line \in Others
      <4>1. f.extra.line # <<>>
        BY <3>2 DEF Others
      <4>2. CASE f.extra.first
        <5>1. Plain(f.body, f.extra) = (((f.extra.line \o e) \o (n \o e)) \o e) \o f.body
          BY <2>1, <4>1, <4>2 DEF Plain
        <5>2. Is(((f.extra.line \o e) \o (n \o e)) \o e)
          BY <3>2
        <5>3. QED
          BY <5>1, <5>2
      <4>3. CASE ~f.extra.first
        <5>1. Plain(f.body, f.extra) = (((n \o e) \o (f.extra.line \o e)) \o e) \o f.body
          BY <2>1, <4>1, <4>3 DEF Plain
        <5>2. Is(((n \o e) \o (f.extra.line \o e)) \o e)
          BY <3>2
        <5>3. QED
          BY <5>1, <5>2
      <4>4. QED
        BY <4>2, <4>3
    <3>3. QED
      BY <2>2, <3>1, <3>2
  <2>4. PICK h : Is(h) /\ Plain(f.body, f.extra) = h \o f.body
    BY <2>3
  <2>5. h \in Seq(Symbol)
    BY <1>3, <2>4
  <2>6. Bytes(f) = h \o Rest(f)
    <3>1. CASE f.kind = "plain"
      <4>1. Rest(f) = f.body
        BY <1>1, <3>1, ConcatNothing DEF Rest, Whole, Trail
      <4>2. QED
        BY <2>4, <3>1, <4>1 DEF Bytes
    <3>2. CASE f.kind = "trailed"
      <4>1. Rest(f) = f.body \o e
        BY <3>2 DEF Rest, Whole, Trail
      <4>2. Bytes(f) = (h \o f.body) \o e
        BY <2>4, <3>2 DEF Bytes
      <4> HIDE DEF e
      <4>3. (h \o f.body) \o e = h \o (f.body \o e)
        BY <1>4, <2>5, Zenon
      <4>4. QED
        BY <4>1, <4>2, <4>3
    <3>3. QED
      BY <1>6, <3>1, <3>2 DEF Frames
  <2>7. QED
    BY <2>4, <2>6
<1>7. QED
  BY <1>5, <1>6

\* What the writer writes is what the reader reads: one header line that
\* announces the length, perhaps another one, the empty line and the body.
LEMMA ReadingBegins ==
    ASSUME NEW f \in Frames
    PROVE  Bytes(f) \in Seq(Symbol) /\ Bytes(f) # <<>> /\ Reading(Fresh, f, Bytes(f))
<1> DEFINE n == FieldLine(f)
           b == Rest(f)
           w == EndAndRest(f)
<1>1. /\ n \in Seq(Visible) /\ n \in Seq(Symbol) /\ n # <<>> /\ b \in Seq(Symbol)
      /\ w \in Seq(Symbol) /\ w = LineEnd \o b /\ LineEnd \o w \in Seq(Symbol)
  <2>1. w \in Seq(Symbol)
    BY FrameParts
  <2>2. n # <<>>
    BY FrameParts
  <2>3. n \in Seq(Symbol)
    BY FrameParts, SeqSuperset DEF Visible
  <2>4. LineEnd \o w \in Seq(Symbol)
    BY <2>1, LineEnds
  <2>5. QED
    BY <2>1, <2>2, <2>3, <2>4, FrameParts DEF EndAndRest
<1>2. \A o \in Others : o \in Seq(Visible) /\ o \in Seq(Symbol) /\ o # <<>>
  BY OtherLines, SeqSuperset DEF Visible
<1>3. \/ Bytes(f) = n \o (LineEnd \o w)
      \/ \E o \in Others : \/ Bytes(f) = n \o (LineEnd \o (o \o (LineEnd \o w)))
                           \/ Bytes(f) = o \o (LineEnd \o (n \o (LineEnd \o w)))
  <2>1. \/ Bytes(f) = ((n \o LineEnd) \o LineEnd) \o b
        \/ \E o \in Others :
              \/ Bytes(f) = (((n \o LineEnd) \o (o \o LineEnd)) \o LineEnd) \o b
              \/ Bytes(f) = (((o \o LineEnd) \o (n \o LineEnd)) \o LineEnd) \o b
    BY BytesAre
  <2> HIDE DEF n, b, w
  <2>2. ((n \o LineEnd) \o LineEnd) \o b = n \o (LineEnd \o (LineEnd \o b))
    BY <1>1, HeaderJoins
  <2>3. ASSUME NEW o \in Others
        PROVE  /\ (((n \o LineEnd) \o (o \o LineEnd)) \o LineEnd) \o b
                     = n \o (LineEnd \o (o \o (LineEnd \o (LineEnd \o b))))
               /\ (((o \o LineEnd) \o (n \o LineEnd)) \o LineEnd) \o b
                     = o \o (LineEnd \o (n \o (LineEnd \o (LineEnd \o b))))
    <3>1. \A s \in Seq(Symbol), t \in Seq(Symbol), u \in Seq(Symbol) :
             (((s \o LineEnd) \o (t \o LineEnd)) \o LineEnd) \o u
                = s \o (LineEnd \o (t \o (LineEnd \o (LineEnd \o u))))
      BY HeaderJoins
    <3>2. n \in Seq(Symbol) /\ o \in Seq(Symbol) /\ b \in Seq(Symbol)
      BY <1>1, <1>2
    <3>3. QED
      BY <3>1, <3>2, Zenon
  <2>4. QED
    BY <1>1, <2>1, <2>2, <2>3
<1>4. \A cur, after : Todo(Unset, cur, after, f) /\ cur \in Seq(Visible) /\ after \in Seq(Symbol)
                         => Reading(Fresh, f, cur \o (LineEnd \o after))
  <2> TAKE cur, after
  <2> HAVE Todo(Unset, cur, after, f) /\ cur \in Seq(Visible) /\ after \in Seq(Symbol)
  <2>1. InHeader(Unset, <<>>, f, cur \o (LineEnd \o after))
    BY LineBegins
  <2>2. QED
    BY <2>1 DEF Reading, Fresh
<1>5. \A cur, after : cur \in Seq(Symbol) /\ cur # <<>> /\ after \in Seq(Symbol)
                         => /\ cur \o (LineEnd \o after) \in Seq(Symbol)
                            /\ cur \o (LineEnd \o after) # <<>>
  <2> TAKE cur, after
  <2> HAVE cur \in Seq(Symbol) /\ cur # <<>> /\ after \in Seq(Symbol)
  <2>1. LineEnd \o after \in Seq(Symbol)
    BY LineEnds
  <2>2. QED
    BY <2>1, FirstOfJoined, ConcatProperties
<1>6. CASE Bytes(f) = n \o (LineEnd \o w)
  <2>1. Todo(Unset, n, w, f)
    BY DEF Todo
  <2> HIDE DEF n, b, w
  <2>2. QED
    BY <1>1, <1>4, <1>5, <1>6, <2>1
<1>7. CASE \E o \in Others : Bytes(f) = n \o (LineEnd \o (o \o (LineEnd \o w)))
  <2>1. PICK o \in Others : Bytes(f) = n \o (LineEnd \o (o \o (LineEnd \o w)))
    BY <1>7
  <2>2. PICK after : after = o \o (LineEnd \o w)
    OBVIOUS
  <2>3. Todo(Unset, n, after, f)
    BY <2>2 DEF Todo
  <2> HIDE DEF n, b, w
  <2>4. after \in Seq(Symbol)
    BY <1>1, <1>2, <2>2, ConcatProperties
  <2>5. QED
    BY <1>1, <1>4, <1>5, <2>1, <2>2, <2>3, <2>4
<1>8. CASE \E o \in Others : Bytes(f) = o \o (LineEnd \o (n \o (LineEnd \o w)))
  <2>1. PICK o \in Others : Bytes(f) = o \o (LineEnd \o (n \o (LineEnd \o w)))
    BY <1>8
  <2>2. PICK after : after = n \o (LineEnd \o w)
    OBVIOUS
  <2>3. Todo(Unset, o, after, f)
    BY <2>2 DEF Todo
  <2> HIDE DEF n, b, w
  <2>4. after \in Seq(Symbol)
    BY <1>1, <2>2, ConcatProperties
  <2>5. QED
    BY <1>2, <1>4, <1>5, <2>1, <2>2, <2>3, <2>4
<1>9. QED
  BY <1>3, <1>6, <1>7, <1>8

-----------------------------------------------------------------------------

\* rest[i] is what is written after the first i of frames.
Behind(frames, rest) ==
    /\ rest \in [0 .. Len(frames) -> Seq(Symbol)]
    /\ rest[Len(frames)] = <<>>
    /\ \A i \in 1 .. Len(frames) : rest[i - 1] = Bytes(frames[i]) \o rest[i]

\* r has returned k of frames and is before the next one or in the middle of
\* it, and bytes is what it has not read yet.
Place(frames, rest, bytes, r, k) ==
    \/ /\ k <= Len(frames)
       /\ r = Fresh
       /\ bytes = rest[k]
    \/ /\ k < Len(frames)
       /\ \E left : bytes = left \o rest[k + 1] /\ Reading(r, frames[k + 1], left)

\* The frames of the pipe: those that were sent, and one in the middle of which
\* the writer ended, of which end is what it did not write.
Stream(frames, s, ended, end) ==
    /\ frames \in Seq(Frames)
    /\ end \in Seq(Symbol)
    /\ \/ end = <<>> /\ frames = s
       \/ /\ end # <<>>
          /\ ended
          /\ \E f \in Frames : f.kind = "plain" /\ frames = Append(s, f)

\* The reader is where the writer means it to be, or at the end of the pipe.
Follows(bytes, ended, r, k, s) ==
    \/ r = Stopped /\ ended /\ bytes = <<>>
    \/ \E frames, rest, end :
          /\ Stream(frames, s, ended, end)
          /\ Behind(frames, rest)
          /\ Place(frames, rest, bytes \o end, r, k)

-----------------------------------------------------------------------------

\* Joining is associative.
LEMMA Regroup ==
    \A s \in Seq(Symbol), t \in Seq(Symbol), u \in Seq(Symbol) :
       (s \o t) \o u = s \o (t \o u)
BY ConcatThree

\* What is left of a frame are bytes.
LEMMA ReadingTyped ==
    ASSUME NEW f \in Frames, NEW r \in Readers, NEW left, Reading(r, f, left)
    PROVE  left \in Seq(Symbol) /\ r.state \in {"header", "body"}
<1>1. r.line \in Seq(Symbol) /\ r.body \in Seq(Symbol)
  BY DEF Readers
<1>2. CASE r.state = "header" /\ InHeader(r.length, r.line, f, left)
  BY <1>1, <1>2, HeaderGoesOn
<1>3. CASE r.state = "body" /\ InBody(r.body, f, left)
  BY <1>1, <1>3, BodyGoesOn
<1>4. QED
  BY <1>2, <1>3 DEF Reading

\* A reader that has a byte to read reads it in a frame.
LEMMA NextByte ==
    ASSUME NEW bytes \in Seq(Symbol), NEW ended, NEW r \in Readers, NEW k \in Nat,
           NEW s \in Seq(Frames), Follows(bytes, ended, r, k, s), bytes # <<>>
    PROVE  \E f \in Frames, left \in Seq(Symbol) :
              /\ Reading(r, f, left)
              /\ left # <<>> =>
                    /\ Head(bytes) = Head(left)
                    /\ \A after : Reading(after, f, Tail(left))
                                     => Follows(Tail(bytes), ended, after, k, s)
<1>1. PICK frames, rest, end :
         /\ Stream(frames, s, ended, end)
         /\ Behind(frames, rest)
         /\ Place(frames, rest, bytes \o end, r, k)
  BY DEF Follows
<1>2. /\ frames \in Seq(Frames) /\ end \in Seq(Symbol)
      /\ rest \in [0 .. Len(frames) -> Seq(Symbol)] /\ rest[Len(frames)] = <<>>
      /\ \A i \in 1 .. Len(frames) : rest[i - 1] = Bytes(frames[i]) \o rest[i]
      /\ Len(frames) \in Nat
  <2>1. frames \in Seq(Frames) /\ end \in Seq(Symbol)
    BY <1>1 DEF Stream
  <2>2. Len(frames) \in Nat
    BY <2>1
  <2>3. QED
    BY <1>1, <2>1, <2>2 DEF Behind
<1>3. /\ bytes \o end # <<>> /\ Head(bytes \o end) = Head(bytes)
      /\ Tail(bytes \o end) = Tail(bytes) \o end
  BY <1>2, FirstOfJoined
<1>4. k < Len(frames)
      /\ \E left : bytes \o end = left \o rest[k + 1] /\ Reading(r, frames[k + 1], left)
  <2>1. CASE k <= Len(frames) /\ r = Fresh /\ bytes \o end = rest[k]
    <3>1. k # Len(frames)
      BY <1>2, <1>3, <2>1
    <3>2. k < Len(frames) /\ k + 1 \in 1 .. Len(frames) /\ (k + 1) - 1 = k
      BY <1>2, <2>1, <3>1
    <3>3. rest[k] = Bytes(frames[k + 1]) \o rest[k + 1] /\ frames[k + 1] \in Frames
      <4>1. frames[k + 1] \in Frames
        BY <1>2, <3>2, ElementOfSeq
      <4>2. rest[k] = Bytes(frames[k + 1]) \o rest[k + 1]
        BY <1>2, <3>2
      <4>3. QED
        BY <4>1, <4>2
    <3>4. Reading(r, frames[k + 1], Bytes(frames[k + 1]))
      BY <2>1, <3>3, ReadingBegins
    <3>5. QED
      BY <2>1, <3>2, <3>3, <3>4
  <2>2. QED
    BY <1>1, <2>1 DEF Place
<1>5. PICK left : bytes \o end = left \o rest[k + 1] /\ Reading(r, frames[k + 1], left)
  BY <1>4
<1>6. PICK f : f = frames[k + 1]
  OBVIOUS
<1>7. f \in Frames /\ rest[k + 1] \in Seq(Symbol)
  <2>1. k + 1 \in 1 .. Len(frames) /\ k + 1 \in 0 .. Len(frames)
    BY <1>2, <1>4
  <2>2. QED
    BY <1>2, <1>6, <2>1
<1>8. left \in Seq(Symbol)
  BY <1>5, <1>6, <1>7, ReadingTyped
<1>9. ASSUME left # <<>>
      PROVE  /\ Head(bytes) = Head(left)
             /\ \A after : Reading(after, f, Tail(left))
                              => Follows(Tail(bytes), ended, after, k, s)
  <2>1. /\ Head(left \o rest[k + 1]) = Head(left)
        /\ Tail(left \o rest[k + 1]) = Tail(left) \o rest[k + 1]
    BY <1>7, <1>8, <1>9, FirstOfJoined
  <2>2. Tail(bytes) \o end = Tail(left) \o rest[k + 1]
    BY <1>3, <1>5, <2>1
  <2>3. ASSUME NEW after, Reading(after, f, Tail(left))
        PROVE  Follows(Tail(bytes), ended, after, k, s)
    <3>1. Place(frames, rest, Tail(bytes) \o end, after, k)
      BY <1>4, <1>6, <2>2, <2>3 DEF Place
    <3>2. QED
      BY <1>1, <3>1 DEF Follows
  <2>4. QED
    BY <1>3, <1>5, <2>1, <2>3
<1>10. QED
  BY <1>5, <1>6, <1>7, <1>8, <1>9

\* A body that is read to its length is the one of the next frame that was
\* sent, and when nothing follows it, the reader is before the frame after it.
LEMMA BodyReturned ==
    ASSUME NEW bytes \in Seq(Symbol), NEW ended, NEW r \in Readers, NEW k \in Nat,
           NEW s \in Seq(Frames), Follows(bytes, ended, r, k, s),
           r.state = "body", Len(r.body) = r.length
    PROVE  /\ k + 1 \in DOMAIN s
           /\ r.body = Whole(s[k + 1])
           /\ s[k + 1].kind = "plain" => Follows(bytes, ended, Fresh, k + 1, s)
<1>1. r # Stopped /\ r # Fresh
  BY DEF Stopped, Fresh
<1>2. PICK frames, rest, end :
         /\ Stream(frames, s, ended, end)
         /\ Behind(frames, rest)
         /\ Place(frames, rest, bytes \o end, r, k)
  BY <1>1 DEF Follows
<1>3. /\ frames \in Seq(Frames) /\ end \in Seq(Symbol)
      /\ rest \in [0 .. Len(frames) -> Seq(Symbol)] /\ rest[Len(frames)] = <<>>
      /\ Len(frames) \in Nat
  BY <1>2 DEF Stream, Behind
<1>4. PICK left : /\ k < Len(frames)
                  /\ bytes \o end = left \o rest[k + 1]
                  /\ Reading(r, frames[k + 1], left)
  BY <1>1, <1>2 DEF Place
<1>5. PICK f : f = frames[k + 1]
  OBVIOUS
<1>6. f \in Frames /\ rest[k + 1] \in Seq(Symbol) /\ k + 1 <= Len(frames)
  <2>1. k + 1 \in 1 .. Len(frames) /\ k + 1 \in 0 .. Len(frames)
    BY <1>3, <1>4
  <2>2. frames[k + 1] \in Frames
    BY <1>3, <2>1, ElementOfSeq
  <2>3. rest[k + 1] \in Seq(Symbol)
    BY <1>3, <2>1
  <2>4. k + 1 <= Len(frames)
    BY <2>1
  <2>5. QED
    BY <1>5, <2>2, <2>3, <2>4
<1>7. r.body = Whole(f) /\ left = Trail(f)
  <2>1. InBody(r.body, f, left) /\ r.length = Len(Whole(f))
    BY <1>4, <1>5 DEF Reading
  <2>2. r.body \in Seq(Symbol)
    BY DEF Readers
  <2>3. QED
    BY <1>6, <2>1, <2>2, BodyGoesOn
<1>8. f.kind = "plain" => bytes \o end = rest[k + 1]
  <2>1. f.kind = "plain" => left = <<>>
    BY <1>7 DEF Trail
  <2>2. <<>> \o rest[k + 1] = rest[k + 1]
    BY <1>6, ConcatNothing
  <2>3. QED
    BY <1>4, <2>1, <2>2
<1>9. k + 1 \in DOMAIN s /\ f = s[k + 1]
  <2>1. CASE frames = s
    BY <1>3, <1>4, <1>5, <2>1
  <2>2. ASSUME NEW g \in Frames, g.kind = "plain", frames = Append(s, g), end # <<>>
        PROVE  k + 1 \in DOMAIN s /\ f = s[k + 1]
    <3>1. /\ Len(frames) = Len(s) + 1 /\ frames[Len(s) + 1] = g
          /\ \A i \in 1 .. Len(s) : frames[i] = s[i]
          /\ Len(s) \in Nat
      BY <2>2
    <3>2. CASE k < Len(s)
      BY <1>5, <3>1, <3>2
    <3>3. CASE k = Len(s)
      <4>1. bytes \o end = <<>>
        BY <1>3, <1>5, <1>8, <2>2, <3>1, <3>3
      <4>2. Len(bytes \o end) = Len(bytes) + Len(end) /\ Len(bytes) \in Nat /\ Len(end) > 0
        BY <1>3, <2>2
      <4>3. QED
        BY <4>1, <4>2
    <3>4. QED
      BY <1>4, <3>1, <3>2, <3>3
  <2>3. QED
    BY <1>2, <2>1, <2>2 DEF Stream
<1>10. ASSUME s[k + 1].kind = "plain"
       PROVE  Follows(bytes, ended, Fresh, k + 1, s)
  <2>1. Place(frames, rest, bytes \o end, Fresh, k + 1)
    BY <1>6, <1>8, <1>9, <1>10 DEF Place
  <2>2. QED
    BY <1>2, <2>1 DEF Follows
<1>11. QED
  BY <1>7, <1>9, <1>10

\* Another frame is written.
LEMMA PlaceExtended ==
    ASSUME NEW frames \in Seq(Frames), NEW rest, NEW bytes, NEW r, NEW k \in Nat,
           NEW f \in Frames, Behind(frames, rest), Place(frames, rest, bytes, r, k),
           r \in Readers
    PROVE  \E more : /\ Behind(Append(frames, f), more)
                     /\ Place(Append(frames, f), more, bytes \o Bytes(f), r, k)
<1> DEFINE n == Len(frames)
           longer == Append(frames, f)
           more == [i \in 0 .. n + 1 |-> IF i <= n THEN rest[i] \o Bytes(f) ELSE <<>>]
<1>1. /\ n \in Nat /\ longer \in Seq(Frames) /\ Len(longer) = n + 1
      /\ longer[n + 1] = f /\ \A i \in 1 .. n : longer[i] = frames[i] /\ frames[i] \in Frames
  OBVIOUS
<1>2. /\ rest \in [0 .. n -> Seq(Symbol)] /\ rest[n] = <<>>
      /\ \A i \in 1 .. n : rest[i - 1] = Bytes(frames[i]) \o rest[i]
  BY DEF Behind
<1>3. \A g \in Frames : Bytes(g) \in Seq(Symbol)
  BY ReadingBegins
<1> HIDE DEF n, longer
<1>4. more \in [0 .. n + 1 -> Seq(Symbol)]
  <2>1. \A i \in 0 .. n : rest[i] \o Bytes(f) \in Seq(Symbol)
    BY <1>2, <1>3, ConcatProperties
  <2>2. <<>> \in Seq(Symbol)
    OBVIOUS
  <2>3. QED
    BY <1>1, <2>1, <2>2
<1>5. /\ more[n + 1] = <<>>
      /\ \A i \in 0 .. n : more[i] = rest[i] \o Bytes(f)
  BY <1>1
<1> HIDE DEF more
<1>6. ASSUME NEW i \in 1 .. n + 1
      PROVE  more[i - 1] = Bytes(longer[i]) \o more[i]
  <2>1. CASE i = n + 1
    <3>1. /\ more[i - 1] = rest[n] \o Bytes(f) /\ more[i] = <<>> /\ longer[i] = f
          /\ Bytes(f) \in Seq(Symbol)
      BY <1>1, <1>3, <1>5, <2>1
    <3>2. QED
      BY <1>2, <3>1, ConcatNothing
  <2>2. CASE i # n + 1
    <3>1. i \in 1 .. n /\ i - 1 \in 0 .. n /\ i \in 0 .. n
      BY <1>1, <2>2
    <3>2. more[i - 1] = (Bytes(frames[i]) \o rest[i]) \o Bytes(f)
      BY <1>2, <1>5, <3>1
    <3>3. Bytes(frames[i]) \in Seq(Symbol) /\ rest[i] \in Seq(Symbol) /\ Bytes(f) \in Seq(Symbol)
      BY <1>1, <1>2, <1>3, <3>1
    <3>4. (Bytes(frames[i]) \o rest[i]) \o Bytes(f)
            = Bytes(frames[i]) \o (rest[i] \o Bytes(f))
      BY <3>3, Regroup, Zenon
    <3>5. QED
      BY <1>1, <1>5, <3>1, <3>2, <3>4
  <2>3. QED
    BY <2>1, <2>2
<1>7. Behind(longer, more)
  BY <1>1, <1>4, <1>5, <1>6 DEF Behind
<1>8. CASE k <= n /\ r = Fresh /\ bytes = rest[k]
  <2>1. k \in 0 .. n /\ k <= n + 1
    BY <1>1, <1>8
  <2>2. bytes \o Bytes(f) = more[k]
    BY <1>5, <1>8, <2>1
  <2>3. Place(longer, more, bytes \o Bytes(f), r, k)
    BY <1>1, <1>8, <2>1, <2>2 DEF Place
  <2>4. QED
    BY <1>7, <2>3 DEF longer
<1>9. CASE k < n /\ \E left : bytes = left \o rest[k + 1] /\ Reading(r, frames[k + 1], left)
  <2>1. PICK left : bytes = left \o rest[k + 1] /\ Reading(r, frames[k + 1], left)
    BY <1>9
  <2>2. k + 1 \in 1 .. n /\ k + 1 \in 0 .. n /\ k < n + 1
    BY <1>1, <1>9
  <2>3. left \in Seq(Symbol) /\ rest[k + 1] \in Seq(Symbol) /\ Bytes(f) \in Seq(Symbol)
    BY <1>1, <1>2, <1>3, <2>1, <2>2, ReadingTyped
  <2>4. bytes \o Bytes(f) = left \o more[k + 1]
    <3>1. (left \o rest[k + 1]) \o Bytes(f) = left \o (rest[k + 1] \o Bytes(f))
      BY <2>3, Regroup, Zenon
    <3>2. QED
      BY <1>5, <2>1, <2>2, <3>1
  <2>5. Place(longer, more, bytes \o Bytes(f), r, k)
    BY <1>1, <2>1, <2>2, <2>4 DEF Place
  <2>6. QED
    BY <1>7, <2>5 DEF longer
<1>10. QED
  BY <1>8, <1>9 DEF Place, n

\* Another frame at the end of the pipe does not move the reader.
LEMMA FrameWritten ==
    ASSUME NEW bytes \in Seq(Symbol), NEW r \in Readers, NEW k \in Nat,
           NEW s \in Seq(Frames), Follows(bytes, FALSE, r, k, s), NEW f \in Frames
    PROVE  Follows(bytes \o Bytes(f), FALSE, r, k, Append(s, f))
<1>1. PICK rest : Behind(s, rest) /\ Place(s, rest, bytes, r, k)
  BY ConcatNothing DEF Follows, Stream
<1>2. PICK more : /\ Behind(Append(s, f), more)
                  /\ Place(Append(s, f), more, bytes \o Bytes(f), r, k)
  BY <1>1, PlaceExtended
<1>3. bytes \o Bytes(f) \in Seq(Symbol) /\ Append(s, f) \in Seq(Frames)
  BY ReadingBegins, ConcatProperties
<1>4. (bytes \o Bytes(f)) \o <<>> = bytes \o Bytes(f)
  BY <1>3, ConcatNothing
<1>5. Stream(Append(s, f), Append(s, f), FALSE, <<>>)
  BY <1>3 DEF Stream
<1>6. QED
  BY <1>2, <1>4, <1>5 DEF Follows

\* The writer ends, between two frames, or in the middle of one.
LEMMA WriterEnds ==
    ASSUME NEW bytes \in Seq(Symbol), NEW r \in Readers, NEW k \in Nat,
           NEW s \in Seq(Frames), Follows(bytes, FALSE, r, k, s)
    PROVE  /\ Follows(bytes, TRUE, r, k, s)
           /\ \A body \in Bodies, n \in Nat :
                 n >= 1 /\ n < Len(Plain(body, NoExtra)) =>
                    Follows(bytes \o SubSeq(Plain(body, NoExtra), 1, n), TRUE, r, k, s)
<1>1. PICK rest : Behind(s, rest) /\ Place(s, rest, bytes, r, k)
  BY ConcatNothing DEF Follows, Stream
<1>2. Follows(bytes, TRUE, r, k, s)
  <2>1. Stream(s, s, TRUE, <<>>) /\ bytes \o <<>> = bytes
    BY ConcatNothing DEF Stream
  <2>2. QED
    BY <1>1, <2>1 DEF Follows
<1>3. ASSUME NEW body \in Bodies, NEW n \in Nat, n >= 1, n < Len(Plain(body, NoExtra))
      PROVE  Follows(bytes \o SubSeq(Plain(body, NoExtra), 1, n), TRUE, r, k, s)
  <2> DEFINE f == [kind |-> "plain", body |-> body, extra |-> NoExtra]
  <2>1. f \in Frames /\ Bytes(f) = Plain(body, NoExtra) /\ f.kind = "plain"
    BY DEF Frames, Bytes
  <2> HIDE DEF f
  <2>2. PICK b : b = Bytes(f)
    OBVIOUS
  <2>3. b \in Seq(Symbol)
    BY <2>1, <2>2, ReadingBegins
  <2>4. PICK p, q : p = SubSeq(b, 1, n) /\ q = SubSeq(b, n + 1, Len(b))
    OBVIOUS
  <2>5. n \in 0 .. Len(b) /\ n < Len(b) /\ Len(b) \in Nat
    BY <1>3, <2>1, <2>2, <2>3
  <2>6. p \in Seq(Symbol) /\ q \in Seq(Symbol) /\ q # <<>> /\ p \o q = b
    <3>1. p \o q = b
      BY <2>3, <2>4, <2>5, PartsJoin
    <3>2. p \in Seq(Symbol) /\ q \in Seq(Symbol)
      BY <2>3, <2>4, <2>5, SubSeqText
    <3>3. Len(q) = Len(b) - n
      BY <2>3, <2>4, <2>5
    <3>4. q # <<>>
      BY <2>5, <3>3
    <3>5. QED
      BY <3>1, <3>2, <3>4
  <2>7. PICK more : /\ Behind(Append(s, f), more)
                    /\ Place(Append(s, f), more, bytes \o b, r, k)
    BY <1>1, <2>1, <2>2, PlaceExtended
  <2>8. (bytes \o p) \o q = bytes \o b
    <3>1. (bytes \o p) \o q = bytes \o (p \o q)
      BY <2>6, Regroup, Zenon
    <3>2. QED
      BY <2>6, <3>1
  <2>9. Stream(Append(s, f), s, TRUE, q)
    BY <2>1, <2>6 DEF Stream
  <2>10. Follows(bytes \o p, TRUE, r, k, s)
    BY <2>7, <2>8, <2>9 DEF Follows
  <2>11. QED
    BY <2>1, <2>2, <2>4, <2>10
<1>4. QED
  BY <1>2, <1>3

-----------------------------------------------------------------------------

\* The types, and what the local variables are outside of their part of a
\* frame.
ReaderTyped ==
    /\ input \in Seq(Symbol)
    /\ closed \in BOOLEAN
    /\ reader \in Readers
    /\ Len(reader.line) <= BufSize <=> reader.state # "overrun"
    /\ reader.state = "header" => reader.body = <<>>
    /\ reader.length = Unset \/ reader.length >= Len(reader.body)
    /\ got \in Seq(Seq(Symbol))
    /\ sent \in Seq(Frames)

\* Nothing follows the body of any frame that was returned.
Before == \A j \in 1 .. Len(got) : j \in DOMAIN sent => sent[j].kind = "plain"

ReaderInv ==
    /\ ReaderTyped
    /\ InOrder
    /\ Before => Follows(input, closed, reader, Len(got), sent)

-----------------------------------------------------------------------------

\* The local variables at the start of a call, and where it ends.
LEMMA FreshTyped ==
    /\ Fresh \in Readers /\ Stopped \in Readers
<1>1. <<>> \in Seq(Symbol)
  OBVIOUS
<1>2. \A state \in {"header", "stopped"} :
         [state |-> state, line |-> <<>>, length |-> Unset, body |-> <<>>] \in Readers
  BY <1>1 DEF Readers
<1>3. Stopped = [state |-> "stopped", line |-> <<>>, length |-> Unset, body |-> <<>>]
  BY DEF Fresh, Stopped
<1>4. QED
  BY <1>2, <1>3 DEF Fresh

\* The pipe is empty, and the reader before the first frame.
LEMMA InitReads == Init => ReaderInv
<1> SUFFICES ASSUME Init
             PROVE  ReaderInv
  OBVIOUS
<1>1. ReaderTyped
  <2>1. Fresh \in Readers
    BY FreshTyped
  <2>2. /\ Len(Fresh.line) <= BufSize /\ Fresh.body = <<>> /\ Fresh.length = Unset
        /\ Fresh.state = "header"
    BY FramesAssumption DEF Fresh
  <2>3. <<>> \in Seq(Symbol) /\ <<>> \in Seq(Seq(Symbol)) /\ <<>> \in Seq(Frames)
    OBVIOUS
  <2>4. QED
    BY <2>1, <2>2, <2>3 DEF Init, ReaderTyped
<1>2. InOrder
  BY DEF Init, InOrder
<1>3. Follows(<<>>, FALSE, Fresh, 0, <<>>)
  <2> DEFINE rest == [i \in 0 .. 0 |-> <<>>]
  <2>1. Stream(<<>>, <<>>, FALSE, <<>>)
    BY DEF Stream
  <2>2. Behind(<<>>, rest)
    BY DEF Behind
  <2>3. Place(<<>>, rest, <<>> \o <<>>, Fresh, 0)
    BY DEF Place
  <2> HIDE DEF rest
  <2>4. QED
    BY <2>1, <2>2, <2>3 DEF Follows
<1>4. Len(got) = 0
  BY DEF Init
<1>5. QED
  BY <1>1, <1>2, <1>3, <1>4 DEF ReaderInv, Init

\* A writer that goes on changes nothing of the frames that it has sent.
LEMMA WriteKeeps == ReaderInv /\ Write => ReaderInv'
<1> SUFFICES ASSUME ReaderInv, Write
             PROVE  ReaderInv'
  OBVIOUS
<1>1. PICK f \in Frames : sent' = Append(sent, f) /\ input' = input \o Bytes(f)
  BY DEF Write
<1>2. ~closed /\ UNCHANGED <<closed, reader, got>>
  BY DEF Write
<1>3. /\ input \in Seq(Symbol) /\ closed \in BOOLEAN /\ reader \in Readers
      /\ got \in Seq(Seq(Symbol)) /\ sent \in Seq(Frames)
  BY DEF ReaderInv, ReaderTyped
<1>4. /\ sent' \in Seq(Frames) /\ DOMAIN sent \subseteq DOMAIN sent'
      /\ \A i \in DOMAIN sent : sent'[i] = sent[i]
  BY <1>1, <1>3
<1>5. ReaderTyped'
  <2>1. input' \in Seq(Symbol)
    BY <1>1, <1>3, ReadingBegins, ConcatProperties
  <2>2. QED
    BY <1>2, <1>4, <2>1 DEF ReaderInv, ReaderTyped
<1>6. InOrder'
  <2> SUFFICES ASSUME NEW i \in DOMAIN got,
                      \A j \in 1 .. i - 1 : j \in DOMAIN sent' => sent'[j].kind = "plain"
               PROVE  i \in DOMAIN sent' /\ got[i] = Content(i)'
    BY <1>2 DEF InOrder
  <2>1. \A j \in 1 .. i - 1 : j \in DOMAIN sent => sent[j].kind = "plain"
    BY <1>4
  <2>2. i \in DOMAIN sent /\ got[i] = Content(i)
    BY <2>1 DEF ReaderInv, InOrder
  <2>3. QED
    BY <1>4, <2>2 DEF Content
<1>7. ASSUME Before'
      PROVE  Follows(input, closed, reader, Len(got), sent)'
  <2>1. Before
    BY <1>2, <1>4, <1>7 DEF Before
  <2>2. Follows(input, FALSE, reader, Len(got), sent)
    <3>1. closed = FALSE
      BY <1>2, <1>3
    <3>2. QED
      BY <2>1, <3>1 DEF ReaderInv
  <2>3. Len(got) \in Nat
    BY <1>3
  <2>4. Follows(input \o Bytes(f), FALSE, reader, Len(got), Append(sent, f))
    BY <1>1, <1>3, <2>2, <2>3, FrameWritten
  <2>5. closed' = FALSE /\ reader' = reader /\ got' = got
    BY <1>2, <1>3
  <2>6. QED
    BY <1>1, <2>4, <2>5
<1>8. QED
  BY <1>5, <1>6, <1>7 DEF ReaderInv

\* What the reader has returned does not change with the writer, nor with a
\* byte that it reads.
LEMMA SameOrder ==
    ASSUME InOrder, got' = got, sent' = sent
    PROVE  InOrder'
BY DEF InOrder, Content

\* Nor does what followed the bodies that it has returned.
LEMMA SameBefore ==
    ASSUME Before', got' = got, sent' = sent
    PROVE  Before
BY DEF Before

\* A writer that ends leaves the reader where it is, and what it has begun is
\* the beginning of a frame.
LEMMA CloseKeeps == ReaderInv /\ Close => ReaderInv'
<1> SUFFICES ASSUME ReaderInv, Close
             PROVE  ReaderInv'
  OBVIOUS
<1>1. closed = FALSE /\ closed' = TRUE /\ reader' = reader /\ got' = got /\ sent' = sent
  BY DEF Close, ReaderInv, ReaderTyped
<1>2. /\ input \in Seq(Symbol) /\ reader \in Readers
      /\ got \in Seq(Seq(Symbol)) /\ sent \in Seq(Frames)
  BY DEF ReaderInv, ReaderTyped
<1>3. \/ input' = input
      \/ \E body \in Bodies : \E n \in 1 .. Len(Plain(body, NoExtra)) - 1 :
            input' = input \o SubSeq(Plain(body, NoExtra), 1, n)
  BY DEF Close
<1>4. ASSUME NEW body \in Bodies
      PROVE  Plain(body, NoExtra) \in Seq(Symbol)
  <2> DEFINE f == [kind |-> "plain", body |-> body, extra |-> NoExtra]
  <2>1. f \in Frames /\ Bytes(f) = Plain(body, NoExtra)
    BY DEF Frames, Bytes
  <2> HIDE DEF f
  <2>2. QED
    BY <2>1, ReadingBegins
<1>5. input' \in Seq(Symbol)
  <2>1. CASE input' = input
    BY <1>2, <2>1
  <2>2. ASSUME NEW body \in Bodies, NEW n \in 1 .. Len(Plain(body, NoExtra)) - 1,
               input' = input \o SubSeq(Plain(body, NoExtra), 1, n)
        PROVE  input' \in Seq(Symbol)
    <3>1. PICK b : b = Plain(body, NoExtra)
      OBVIOUS
    <3>2. b \in Seq(Symbol) /\ n \in 0 .. Len(b)
      BY <1>4, <2>2, <3>1
    <3>3. SubSeq(b, 1, n) \in Seq(Symbol)
      BY <3>2, SubSeqText
    <3>4. QED
      BY <1>2, <2>2, <3>1, <3>3, ConcatProperties
  <2>3. QED
    BY <1>3, <2>1, <2>2
<1>6. ReaderTyped'
  BY <1>1, <1>5 DEF ReaderInv, ReaderTyped
<1>7. InOrder'
  BY <1>1, SameOrder DEF ReaderInv
<1>8. ASSUME Before'
      PROVE  Follows(input, closed, reader, Len(got), sent)'
  <2>1. Before
    BY <1>1, <1>8, SameBefore
  <2>2. Follows(input, FALSE, reader, Len(got), sent)
    BY <1>1, <2>1 DEF ReaderInv
  <2>3. Len(got) \in Nat
    BY <1>2
  <2>4. /\ Follows(input, TRUE, reader, Len(got), sent)
        /\ \A body \in Bodies, n \in Nat :
              n >= 1 /\ n < Len(Plain(body, NoExtra)) =>
                 Follows(input \o SubSeq(Plain(body, NoExtra), 1, n), TRUE,
                         reader, Len(got), sent)
    BY <1>2, <2>2, <2>3, WriterEnds
  <2>5. Follows(input', TRUE, reader, Len(got), sent)
    <3>1. CASE input' = input
      BY <2>4, <3>1
    <3>2. ASSUME NEW body \in Bodies, NEW n \in 1 .. Len(Plain(body, NoExtra)) - 1,
                 input' = input \o SubSeq(Plain(body, NoExtra), 1, n)
          PROVE  Follows(input', TRUE, reader, Len(got), sent)
      <4>1. Len(Plain(body, NoExtra)) \in Nat
        BY <1>4
      <4>2. n \in Nat /\ n >= 1 /\ n < Len(Plain(body, NoExtra))
        BY <4>1
      <4>3. QED
        BY <2>4, <3>2, <4>2
    <3>3. QED
      BY <1>3, <3>1, <3>2
  <2>6. QED
    BY <1>1, <2>5
<1>9. QED
  BY <1>6, <1>7, <1>8 DEF ReaderInv

-----------------------------------------------------------------------------

\* A byte is read: what has to be shown of the step.
LEMMA ByteKeeps ==
    ASSUME ReaderInv, input # <<>>, NEW r \in Readers, Consume(r),
           Len(r.line) <= BufSize <=> r.state # "overrun",
           r.state = "header" => r.body = <<>>,
           r.length = Unset \/ r.length >= Len(r.body),
           \A f \in Frames, left \in Seq(Symbol) :
              Reading(reader, f, left) /\ (left # <<>> => Head(left) = Head(input))
                => left # <<>> /\ Reading(r, f, Tail(left))
    PROVE  ReaderInv'
<1>1. input' = Tail(input) /\ reader' = r /\ closed' = closed /\ got' = got /\ sent' = sent
  BY DEF Consume
<1>2. /\ input \in Seq(Symbol) /\ reader \in Readers
      /\ got \in Seq(Seq(Symbol)) /\ sent \in Seq(Frames)
  BY DEF ReaderInv, ReaderTyped
<1>3. ReaderTyped'
  <2>1. Tail(input) \in Seq(Symbol)
    BY <1>2
  <2>2. QED
    BY <1>1, <2>1 DEF ReaderInv, ReaderTyped
<1>4. InOrder'
  BY <1>1, SameOrder DEF ReaderInv
<1>5. ASSUME Before'
      PROVE  Follows(input, closed, reader, Len(got), sent)'
  <2>1. Follows(input, closed, reader, Len(got), sent)
    BY <1>1, <1>5, SameBefore DEF ReaderInv
  <2>2. Len(got) \in Nat
    BY <1>2
  <2>3. PICK f \in Frames, left \in Seq(Symbol) :
           /\ Reading(reader, f, left)
           /\ left # <<>> =>
                 /\ Head(input) = Head(left)
                 /\ \A after : Reading(after, f, Tail(left))
                                  => Follows(Tail(input), closed, after, Len(got), sent)
    BY <1>2, <2>1, <2>2, NextByte
  <2>4. left # <<>> /\ Reading(r, f, Tail(left))
    BY <2>3
  <2>5. Follows(Tail(input), closed, r, Len(got), sent)
    BY <2>3, <2>4
  <2>6. QED
    BY <1>1, <2>5
<1>6. QED
  BY <1>3, <1>4, <1>5 DEF ReaderInv

-----------------------------------------------------------------------------

\* The local variables, each.
LEMMA ReaderFields ==
    ASSUME NEW r \in Readers
    PROVE  /\ r.state \in {"header", "body", "stopped", "overrun"}
           /\ r.line \in Seq(Symbol)
           /\ r.length \in Nat \cup {Unset}
           /\ r.body \in Seq(Symbol)
           /\ \A line \in Seq(Symbol) : [r EXCEPT !.line = line] \in Readers
           /\ \A n \in Nat : [r EXCEPT !.length = n] \in Readers
           /\ \A body \in Seq(Symbol) : [r EXCEPT !.body = body] \in Readers
           /\ [r EXCEPT !.state = "body"] \in Readers
           /\ \A line \in Seq(Symbol) :
                 [r EXCEPT !.line = line, !.state = "overrun"] \in Readers
BY DEF Readers

\* A reader in a header.
LEMMA InHeaderOf ==
    ASSUME NEW f \in Frames, NEW r \in Readers, NEW left, r.state = "header"
    PROVE  Reading(r, f, left) <=> r.body = <<>> /\ InHeader(r.length, r.line, f, left)
BY DEF Reading

\* A byte of a header line of a frame fits into buf.
LEMMA HeaderByteKeeps == ReaderInv /\ HeaderByte => ReaderInv'
<1> SUFFICES ASSUME ReaderInv, HeaderByte
             PROVE  ReaderInv'
  OBVIOUS
<1>1. /\ input \in Seq(Symbol) /\ reader \in Readers /\ Len(reader.line) <= BufSize
      /\ reader.body = <<>> /\ reader.state = "header" /\ input # <<>>
      /\ Head(input) \notin {CR, LF}
      /\ reader.length = Unset \/ reader.length >= Len(reader.body)
  BY DEF ReaderInv, ReaderTyped, HeaderByte, Reads
<1>2. reader.line \in Seq(Symbol)
  BY <1>1, ReaderFields
<1>3. \A f \in Frames, left \in Seq(Symbol) :
         Reading(reader, f, left) /\ (left # <<>> => Head(left) = Head(input)) =>
            /\ left # <<>> /\ Len(reader.line) < BufSize
            /\ InHeader(reader.length, Append(reader.line, Head(input)), f, Tail(left))
  <2> TAKE f \in Frames, left \in Seq(Symbol)
  <2> HAVE Reading(reader, f, left) /\ (left # <<>> => Head(left) = Head(input))
  <2>1. InHeader(reader.length, reader.line, f, left)
    BY <1>1, InHeaderOf
  <2>2. QED
    BY <1>1, <1>2, <2>1, HeaderGoesOn
<1> DEFINE line == Append(reader.line, Head(input))
<1>4. /\ line \in Seq(Symbol) /\ Len(line) = Len(reader.line) + 1
      /\ Len(reader.line) \in Nat /\ BufSize \in Nat
  BY <1>1, <1>2, FramesAssumption
<1>5. Consume([reader EXCEPT !.line = line,
                             !.state = IF Len(line) > BufSize THEN "overrun" ELSE @])
  BY DEF HeaderByte
<1>6. CASE Len(reader.line) < BufSize
  <2> DEFINE r == [reader EXCEPT !.line = line]
  <2>1. Len(line) <= BufSize /\ ~(Len(line) > BufSize)
    BY <1>4, <1>6
  <2> HIDE DEF line
  <2>2. Consume(r)
    <3>1. [reader EXCEPT !.line = line,
                         !.state = IF Len(line) > BufSize THEN "overrun" ELSE @] = r
      BY <1>1, <2>1 DEF Readers
    <3>2. QED
      BY <1>5, <3>1
  <2>3. r \in Readers
    BY <1>1, <1>4, ReaderFields
  <2>4. /\ r.line = line /\ r.body = reader.body
        /\ r.length = reader.length /\ r.state = "header"
    BY <1>1 DEF Readers
  <2>5. \A f \in Frames, left \in Seq(Symbol) :
           Reading(reader, f, left) /\ (left # <<>> => Head(left) = Head(input))
             => left # <<>> /\ Reading(r, f, Tail(left))
    <3> HIDE DEF r
    <3>1. QED
      BY <1>1, <1>3, <2>3, <2>4, InHeaderOf DEF line
  <2> HIDE DEF r
  <2>6. QED
    BY <1>1, <2>1, <2>2, <2>3, <2>4, <2>5, ByteKeeps
<1>7. CASE ~(Len(reader.line) < BufSize)
  <2> DEFINE r == [reader EXCEPT !.line = line, !.state = "overrun"]
  <2>1. Len(line) > BufSize /\ ~(Len(line) <= BufSize)
    BY <1>4, <1>7
  <2> HIDE DEF line
  <2>2. Consume(r)
    BY <1>5, <2>1
  <2>3. r \in Readers
    BY <1>1, <1>4, ReaderFields
  <2>4. /\ r.line = line /\ r.state = "overrun"
        /\ r.length = reader.length /\ r.body = reader.body
    BY <1>1 DEF Readers
  <2>5. \A f \in Frames, left \in Seq(Symbol) :
           Reading(reader, f, left) /\ (left # <<>> => Head(left) = Head(input))
             => left # <<>> /\ Reading(r, f, Tail(left))
    BY <1>3, <1>7
  <2> HIDE DEF r
  <2>6. QED
    BY <1>1, <2>1, <2>2, <2>3, <2>4, <2>5, ByteKeeps
<1>8. QED
  BY <1>6, <1>7

\* A carriage return is left out.
LEMMA HeaderReturnKeeps == ReaderInv /\ HeaderReturn => ReaderInv'
<1> SUFFICES ASSUME ReaderInv, HeaderReturn
             PROVE  ReaderInv'
  OBVIOUS
<1>1. /\ input \in Seq(Symbol) /\ reader \in Readers /\ Len(reader.line) <= BufSize
      /\ reader.body = <<>> /\ reader.state = "header" /\ input # <<>>
      /\ Head(input) = CR /\ Consume(reader)
      /\ reader.length = Unset \/ reader.length >= Len(reader.body)
  BY DEF ReaderInv, ReaderTyped, HeaderReturn, Reads
<1>2. reader.line \in Seq(Symbol)
  BY <1>1, ReaderFields
<1>3. \A f \in Frames, left \in Seq(Symbol) :
         Reading(reader, f, left) /\ (left # <<>> => Head(left) = Head(input))
           => left # <<>> /\ Reading(reader, f, Tail(left))
  <2> TAKE f \in Frames, left \in Seq(Symbol)
  <2> HAVE Reading(reader, f, left) /\ (left # <<>> => Head(left) = Head(input))
  <2>1. InHeader(reader.length, reader.line, f, left)
    BY <1>1, InHeaderOf
  <2>2. left # <<>> /\ InHeader(reader.length, reader.line, f, Tail(left))
    BY <1>1, <1>2, <2>1, HeaderGoesOn
  <2>3. QED
    BY <1>1, <2>2, InHeaderOf
<1>4. QED
  BY <1>1, <1>3, ByteKeeps

\* The end of a header line: the length is taken, or the line is ignored.
LEMMA HeaderLineKeeps == ReaderInv /\ HeaderLine => ReaderInv'
<1> SUFFICES ASSUME ReaderInv, HeaderLine
             PROVE  ReaderInv'
  OBVIOUS
<1> DEFINE rest == [reader EXCEPT !.line = <<>>]
           n == atoi_len(Tail(reader.line))
           counted == [rest EXCEPT !.length = n]
<1>1. /\ input \in Seq(Symbol) /\ reader \in Readers /\ Len(reader.line) <= BufSize
      /\ reader.body = <<>> /\ reader.state = "header" /\ input # <<>>
      /\ Head(input) = LF /\ reader.line # <<>>
      /\ reader.length = Unset \/ reader.length >= Len(reader.body)
  BY DEF ReaderInv, ReaderTyped, HeaderLine, Reads
<1>2. reader.line \in Seq(Symbol)
  BY <1>1, ReaderFields
<1>3. n \in Nat
  <2>1. Tail(reader.line) \in Seq(Symbol)
    BY <1>1, <1>2
  <2>2. Symbol \subseteq Int
    BY DEF Symbol, Field
  <2>3. Tail(reader.line) \in Seq(Int)
    BY <2>1, <2>2, SeqSuperset
  <2>4. QED
    BY <2>3, AtoiIsNat
<1>4. \/ Head(reader.line) # Field /\ Consume(rest)
      \/ Head(reader.line) = Field /\ Len(reader.line) = 1 /\ Consume(Stopped)
      \/ Head(reader.line) = Field /\ Len(reader.line) # 1 /\ Consume(counted)
  BY DEF HeaderLine
<1> HIDE DEF n
<1>5. /\ rest \in Readers /\ rest.state = "header" /\ rest.body = <<>>
      /\ rest.length = reader.length /\ rest.line = <<>>
      /\ counted \in Readers /\ counted.state = "header" /\ counted.body = <<>>
      /\ counted.length = n /\ counted.line = <<>>
  <2>1. <<>> \in Seq(Symbol)
    OBVIOUS
  <2>2. rest \in Readers
    BY <1>1, <2>1, ReaderFields
  <2>3. /\ rest.state = "header" /\ rest.body = <<>>
        /\ rest.length = reader.length /\ rest.line = <<>>
    BY <1>1 DEF Readers
  <2> HIDE DEF rest
  <2>4. counted \in Readers
    BY <1>3, <2>2, ReaderFields
  <2>5. /\ counted.state = "header" /\ counted.body = <<>>
        /\ counted.length = n /\ counted.line = <<>>
    BY <2>2, <2>3 DEF Readers
  <2>6. QED
    BY <2>2, <2>3, <2>4, <2>5
<1>6. \A f \in Frames, left \in Seq(Symbol) :
         Reading(reader, f, left) /\ (left # <<>> => Head(left) = Head(input)) =>
            /\ left # <<>>
            /\ Head(reader.line) # Field => InHeader(reader.length, <<>>, f, Tail(left))
            /\ Head(reader.line) = Field => /\ Len(reader.line) # 1
                                            /\ InHeader(n, <<>>, f, Tail(left))
  <2> TAKE f \in Frames, left \in Seq(Symbol)
  <2> HAVE Reading(reader, f, left) /\ (left # <<>> => Head(left) = Head(input))
  <2>1. InHeader(reader.length, reader.line, f, left)
    BY <1>1, InHeaderOf
  <2>2. left # <<>>
    BY <1>2, <2>1, HeaderGoesOn
  <2>3. Head(left) = LF
    BY <1>1, <2>2
  <2>4. /\ Tail(left) \in Seq(Symbol)
        /\ Todo(reader.length, reader.line, Tail(left), f)
    BY <1>2, <2>1, <2>3, HeaderLineEnds
  <2>5. QED
    BY <1>1, <2>2, <2>4, NextLine DEF n
<1> HIDE DEF rest, counted
<1>7. CASE Head(reader.line) # Field /\ Consume(rest)
  <2>1. \A f \in Frames, left \in Seq(Symbol) :
           Reading(reader, f, left) /\ (left # <<>> => Head(left) = Head(input))
             => left # <<>> /\ Reading(rest, f, Tail(left))
    BY <1>5, <1>6, <1>7, InHeaderOf
  <2>2. Len(rest.line) <= BufSize
    BY <1>5, FramesAssumption
  <2>3. rest.length = Unset \/ rest.length >= Len(rest.body)
    BY <1>1, <1>5
  <2>4. QED
    BY <1>1, <1>5, <1>7, <2>1, <2>2, <2>3, ByteKeeps
<1>8. CASE Head(reader.line) = Field /\ Len(reader.line) = 1 /\ Consume(Stopped)
  <2>1. \A f \in Frames, left \in Seq(Symbol) :
           Reading(reader, f, left) /\ (left # <<>> => Head(left) = Head(input))
             => left # <<>> /\ Reading(Stopped, f, Tail(left))
    BY <1>6, <1>8
  <2>2. /\ Stopped \in Readers /\ Len(Stopped.line) <= BufSize
        /\ Stopped.state = "stopped" /\ Stopped.length = Unset
    BY FreshTyped, FramesAssumption DEF Stopped, Fresh
  <2>3. Stopped.state = "header" => Stopped.body = <<>>
    BY <2>2
  <2>4. QED
    BY <1>1, <1>8, <2>1, <2>2, <2>3, ByteKeeps
<1>9. CASE Head(reader.line) = Field /\ Len(reader.line) # 1 /\ Consume(counted)
  <2>1. \A f \in Frames, left \in Seq(Symbol) :
           Reading(reader, f, left) /\ (left # <<>> => Head(left) = Head(input))
             => left # <<>> /\ Reading(counted, f, Tail(left))
    BY <1>5, <1>6, <1>9, InHeaderOf
  <2>2. Len(counted.line) <= BufSize
    BY <1>5, FramesAssumption
  <2>3. counted.length >= Len(counted.body)
    BY <1>3, <1>5
  <2>4. QED
    BY <1>1, <1>5, <1>9, <2>1, <2>2, <2>3, ByteKeeps
<1>10. QED
  BY <1>4, <1>7, <1>8, <1>9

\* The empty line: the length was assigned.
LEMMA HeaderEndsKeeps == ReaderInv /\ HeaderEnds => ReaderInv'
<1> SUFFICES ASSUME ReaderInv, HeaderEnds
             PROVE  ReaderInv'
  OBVIOUS
<1>1. /\ input \in Seq(Symbol) /\ reader \in Readers
      /\ reader.body = <<>> /\ reader.state = "header" /\ input # <<>>
      /\ Head(input) = LF /\ reader.line = <<>>
      /\ reader.length = Unset \/ reader.length >= Len(reader.body)
  BY DEF ReaderInv, ReaderTyped, HeaderEnds, Reads
<1>2. \A f \in Frames, left \in Seq(Symbol) :
         Reading(reader, f, left) /\ (left # <<>> => Head(left) = Head(input)) =>
            /\ left # <<>>
            /\ reader.length = Len(Whole(f))
            /\ reader.length # Unset
            /\ InBody(<<>>, f, Tail(left))
  <2> TAKE f \in Frames, left \in Seq(Symbol)
  <2> HAVE Reading(reader, f, left) /\ (left # <<>> => Head(left) = Head(input))
  <2>1. InHeader(reader.length, reader.line, f, left) /\ reader.line \in Seq(Symbol)
    BY <1>1, InHeaderOf, ReaderFields
  <2>2. left # <<>>
    BY <2>1, HeaderGoesOn
  <2>3. /\ Tail(left) \in Seq(Symbol)
        /\ Todo(reader.length, reader.line, Tail(left), f)
    <3>1. Head(left) = LF
      BY <1>1, <2>2
    <3>2. QED
      BY <2>1, <3>1, HeaderLineEnds
  <2>4. reader.length = Len(Whole(f)) /\ reader.length # Unset /\ Tail(left) = Rest(f)
    BY <1>1, <2>3, NextLine
  <2>5. Whole(f) \in Seq(Symbol)
    BY FrameParts
  <2>6. Whole(f) = <<>> \o Whole(f)
    BY <2>5, ConcatNothing
  <2>7. InBody(<<>>, f, Tail(left))
    BY <2>4, <2>5, <2>6 DEF InBody, Rest
  <2>8. QED
    BY <2>2, <2>4, <2>7
<1>3. \/ reader.length # Unset /\ Consume([reader EXCEPT !.state = "body"])
      \/ /\ reader.length = Unset
         /\ \E n \in Leftover : Consume([reader EXCEPT !.state = "body", !.length = n])
      \/ reader.length = Unset /\ Consume(Stopped)
  BY DEF HeaderEnds
<1>4. CASE reader.length # Unset /\ Consume([reader EXCEPT !.state = "body"])
  <2> DEFINE r == [reader EXCEPT !.state = "body"]
  <2>1. /\ r \in Readers /\ r.state = "body" /\ r.line = <<>> /\ r.body = <<>>
        /\ r.length = reader.length
    BY <1>1, ReaderFields DEF Readers
  <2>2. Consume(r)
    BY <1>4
  <2> HIDE DEF r
  <2>3. \A f \in Frames, left \in Seq(Symbol) :
           Reading(reader, f, left) /\ (left # <<>> => Head(left) = Head(input))
             => left # <<>> /\ Reading(r, f, Tail(left))
    BY <1>2, <2>1 DEF Reading
  <2>4. Len(r.line) <= BufSize /\ (r.state = "header" => r.body = <<>>)
    BY <2>1, FramesAssumption
  <2>5. r.length = Unset \/ r.length >= Len(r.body)
    BY <1>1, <2>1
  <2>6. QED
    BY <1>1, <2>1, <2>2, <2>3, <2>4, <2>5, ByteKeeps
<1>5. ASSUME NEW n \in Leftover, reader.length = Unset,
             Consume([reader EXCEPT !.state = "body", !.length = n])
      PROVE  ReaderInv'
  <2> DEFINE r == [reader EXCEPT !.state = "body", !.length = n]
  <2>1. n \in Nat
    BY FramesAssumption
  <2>2. /\ r \in Readers /\ r.state = "body" /\ r.line = <<>> /\ r.body = <<>>
        /\ r.length = n
    BY <1>1, <2>1 DEF Readers
  <2>3. Consume(r)
    BY <1>5
  <2> HIDE DEF r
  <2>4. \A f \in Frames, left \in Seq(Symbol) :
           Reading(reader, f, left) /\ (left # <<>> => Head(left) = Head(input))
             => left # <<>> /\ Reading(r, f, Tail(left))
    BY <1>2, <1>5
  <2>5. Len(r.line) <= BufSize /\ (r.state = "header" => r.body = <<>>)
    BY <2>2, FramesAssumption
  <2>6. r.length >= Len(r.body)
    BY <2>1, <2>2
  <2>7. QED
    BY <1>1, <2>2, <2>3, <2>4, <2>5, <2>6, ByteKeeps
<1>6. CASE reader.length = Unset /\ Consume(Stopped)
  <2>1. \A f \in Frames, left \in Seq(Symbol) :
           Reading(reader, f, left) /\ (left # <<>> => Head(left) = Head(input))
             => left # <<>> /\ Reading(Stopped, f, Tail(left))
    BY <1>2, <1>6
  <2>2. /\ Stopped \in Readers /\ Len(Stopped.line) <= BufSize
        /\ Stopped.state = "stopped" /\ Stopped.length = Unset
    BY FreshTyped, FramesAssumption DEF Stopped, Fresh
  <2>3. Stopped.state = "header" => Stopped.body = <<>>
    BY <2>2
  <2>4. QED
    BY <1>1, <1>6, <2>1, <2>2, <2>3, ByteKeeps
<1>7. QED
  BY <1>3, <1>4, <1>5, <1>6

\* A byte of a body.
LEMMA BodyByteKeeps == ReaderInv /\ BodyByte => ReaderInv'
<1> SUFFICES ASSUME ReaderInv, BodyByte
             PROVE  ReaderInv'
  OBVIOUS
<1> DEFINE body == Append(reader.body, Head(input))
           r == [reader EXCEPT !.body = body]
<1>1. /\ input \in Seq(Symbol) /\ reader \in Readers /\ Len(reader.line) <= BufSize
      /\ reader.state = "body" /\ input # <<>>
      /\ Len(reader.body) < reader.length /\ Consume(r)
  BY DEF ReaderInv, ReaderTyped, BodyByte, Reads
<1>2. reader.body \in Seq(Symbol) /\ Len(reader.body) \in Nat /\ reader.length \in Nat
  <2>1. reader.body \in Seq(Symbol) /\ reader.length \in Nat \cup {Unset}
    BY <1>1, ReaderFields
  <2>2. Len(reader.body) \in Nat
    BY <2>1
  <2>3. QED
    BY <1>1, <2>1, <2>2 DEF Unset
<1>3. body \in Seq(Symbol) /\ Len(body) = Len(reader.body) + 1
  BY <1>1, <1>2
<1> HIDE DEF body
<1>4. /\ r \in Readers /\ r.state = "body" /\ r.line = reader.line /\ r.body = body
      /\ r.length = reader.length
  BY <1>1, <1>3 DEF Readers
<1> HIDE DEF r
<1>5. \A f \in Frames, left \in Seq(Symbol) :
         Reading(reader, f, left) /\ (left # <<>> => Head(left) = Head(input))
           => left # <<>> /\ Reading(r, f, Tail(left))
  <2> TAKE f \in Frames, left \in Seq(Symbol)
  <2> HAVE Reading(reader, f, left) /\ (left # <<>> => Head(left) = Head(input))
  <2>1. reader.line = <<>> /\ reader.length = Len(Whole(f)) /\ InBody(reader.body, f, left)
    BY <1>1 DEF Reading
  <2>2. left # <<>> /\ InBody(Append(reader.body, Head(left)), f, Tail(left))
    BY <1>1, <1>2, <2>1, BodyGoesOn
  <2>3. InBody(body, f, Tail(left))
    BY <2>2 DEF body
  <2>4. QED
    BY <1>4, <2>1, <2>2, <2>3 DEF Reading
<1>6. r.length >= Len(r.body)
  BY <1>1, <1>2, <1>3, <1>4
<1>7. Len(r.line) <= BufSize /\ (r.state = "header" => r.body = <<>>)
  BY <1>1, <1>4
<1>8. QED
  BY <1>1, <1>4, <1>5, <1>6, <1>7, ByteKeeps

\* The body that is returned is the next one.
LEMMA DeliverKeeps == ReaderInv /\ Deliver => ReaderInv'
<1> SUFFICES ASSUME ReaderInv, Deliver
             PROVE  ReaderInv'
  OBVIOUS
<1> DEFINE k == Len(got)
<1>1. /\ reader.state = "body" /\ Len(reader.body) = reader.length
      /\ got' = Append(got, reader.body) /\ reader' = Fresh
      /\ input' = input /\ closed' = closed /\ sent' = sent
  BY DEF Deliver
<1>2. /\ input \in Seq(Symbol) /\ reader \in Readers /\ closed \in BOOLEAN
      /\ got \in Seq(Seq(Symbol)) /\ sent \in Seq(Frames)
  BY DEF ReaderInv, ReaderTyped
<1>3. /\ reader.body \in Seq(Symbol) /\ k \in Nat /\ Len(got') = k + 1
      /\ got' \in Seq(Seq(Symbol)) /\ got'[k + 1] = reader.body
      /\ \A i \in 1 .. k : got'[i] = got[i]
  <2>1. reader.body \in Seq(Symbol)
    BY <1>2, ReaderFields
  <2>2. QED
    BY <1>1, <1>2, <2>1
<1> HIDE DEF k
<1>4. ReaderTyped'
  <2>1. /\ Fresh \in Readers /\ Len(Fresh.line) <= BufSize /\ Fresh.body = <<>>
        /\ Fresh.length = Unset /\ Fresh.state = "header"
    BY FreshTyped, FramesAssumption DEF Fresh
  <2>2. QED
    BY <1>1, <1>2, <1>3, <2>1 DEF ReaderTyped
<1>5. ASSUME Before
      PROVE  /\ k + 1 \in DOMAIN sent
             /\ reader.body = Whole(sent[k + 1])
             /\ sent[k + 1].kind = "plain" => Follows(input, closed, Fresh, k + 1, sent)
  <2>1. Follows(input, closed, reader, k, sent)
    BY <1>5 DEF ReaderInv, k
  <2>2. QED
    BY <1>1, <1>2, <1>3, <2>1, BodyReturned
<1>6. InOrder'
  <2> SUFFICES ASSUME NEW i \in DOMAIN got',
                      \A j \in 1 .. i - 1 : j \in DOMAIN sent => sent[j].kind = "plain"
               PROVE  i \in DOMAIN sent /\ got'[i] = Content(i)
    BY <1>1 DEF InOrder, Content
  <2>1. i \in 1 .. k + 1
    BY <1>3
  <2>2. CASE i = k + 1
    <3>1. Before
      <4>1. i - 1 = k
        BY <1>3, <2>2
      <4>2. QED
        BY <4>1 DEF Before, k
    <3>2. QED
      BY <1>3, <1>5, <2>2, <3>1 DEF Content, Whole
  <2>3. CASE i # k + 1
    <3>1. i \in 1 .. k /\ i \in DOMAIN got
      BY <1>2, <1>3, <2>1, <2>3 DEF k
    <3>2. i \in DOMAIN sent /\ got[i] = Content(i)
      BY <3>1 DEF ReaderInv, InOrder
    <3>3. QED
      BY <1>3, <3>1, <3>2
  <2>4. QED
    BY <2>2, <2>3
<1>7. ASSUME Before'
      PROVE  Follows(input, closed, reader, Len(got), sent)'
  <2>1. \A j \in 1 .. k + 1 : j \in DOMAIN sent => sent[j].kind = "plain"
    BY <1>1, <1>3, <1>7 DEF Before
  <2>2. Before
    BY <1>3, <2>1 DEF Before, k
  <2>3. k + 1 \in 1 .. k + 1
    BY <1>3
  <2>4. Follows(input, closed, Fresh, k + 1, sent)
    BY <1>5, <2>1, <2>2, <2>3
  <2>5. QED
    BY <1>1, <1>3, <2>4
<1>8. QED
  BY <1>4, <1>6, <1>7 DEF ReaderInv

\* The end of the pipe.
LEMMA InputEndsKeeps == ReaderInv /\ InputEnds => ReaderInv'
<1> SUFFICES ASSUME ReaderInv, InputEnds
             PROVE  ReaderInv'
  OBVIOUS
<1>1. /\ closed /\ input = <<>> /\ reader' = Stopped
      /\ input' = input /\ closed' = closed /\ got' = got /\ sent' = sent
  BY DEF InputEnds
<1>2. ReaderTyped'
  <2>1. /\ Stopped \in Readers /\ Len(Stopped.line) <= BufSize /\ Stopped.body = <<>>
        /\ Stopped.length = Unset /\ Stopped.state = "stopped"
    BY FreshTyped, FramesAssumption DEF Stopped, Fresh
  <2>2. QED
    BY <1>1, <2>1 DEF ReaderInv, ReaderTyped
<1>3. InOrder'
  BY <1>1, SameOrder DEF ReaderInv
<1>4. Follows(input, closed, reader, Len(got), sent)'
  BY <1>1 DEF Follows
<1>5. QED
  BY <1>2, <1>3, <1>4 DEF ReaderInv

-----------------------------------------------------------------------------

\* ReaderInv is inductive.
THEOREM ReaderInductive == Spec => []ReaderInv
<1>1. Init => ReaderInv
  BY InitReads
<1>2. ReaderInv /\ [Next]_vars => ReaderInv'
  <2> SUFFICES ASSUME ReaderInv, [Next]_vars
               PROVE  ReaderInv'
    OBVIOUS
  <2>1. CASE Write
    BY <2>1, WriteKeeps
  <2>2. CASE Close
    BY <2>2, CloseKeeps
  <2>3. CASE HeaderByte
    BY <2>3, HeaderByteKeeps
  <2>4. CASE HeaderReturn
    BY <2>4, HeaderReturnKeeps
  <2>5. CASE HeaderLine
    BY <2>5, HeaderLineKeeps
  <2>6. CASE HeaderEnds
    BY <2>6, HeaderEndsKeeps
  <2>7. CASE BodyByte
    BY <2>7, BodyByteKeeps
  <2>8. CASE Deliver
    BY <2>8, DeliverKeeps
  <2>9. CASE InputEnds
    BY <2>9, InputEndsKeeps
  <2>10. CASE UNCHANGED vars
    <3>1. /\ input' = input /\ closed' = closed /\ reader' = reader
          /\ got' = got /\ sent' = sent
      BY <2>10 DEF vars
    <3>2. ReaderTyped' /\ InOrder'
      BY <3>1, SameOrder DEF ReaderInv, ReaderTyped
    <3>3. Before' => Follows(input, closed, reader, Len(got), sent)'
      BY <3>1, SameBefore DEF ReaderInv
    <3>4. QED
      BY <3>2, <3>3 DEF ReaderInv
  <2>11. QED
    BY <2>1, <2>2, <2>3, <2>4, <2>5, <2>6, <2>7, <2>8, <2>9, <2>10
       DEF Next, parse_request
<1>3. QED
  BY <1>1, <1>2, PTL DEF Spec

\* parse_request stores no byte of a body behind the end of the buffer that it
\* allocated for it, whatever the bytes of the pipe and whatever the length it
\* has taken from them, or from nothing; and none behind the end of buf but in
\* an overrun, which ReaderKeepsInStep and BodiesInOrder are about.
THEOREM FramingTyped == Spec => []TypeOK
<1>1. ReaderInv => TypeOK
  <2> SUFFICES ASSUME ReaderInv
               PROVE  TypeOK
    OBVIOUS
  <2>1. /\ reader.state \in {"header", "body", "stopped", "overrun"}
        /\ reader.line \in Seq(Symbol)
    BY ReaderFields DEF ReaderInv, ReaderTyped
  <2>2. Len(reader.line) \in Nat /\ BufSize \in Nat
    BY <2>1, FramesAssumption
  <2>3. Len(reader.line) > BufSize <=> reader.state = "overrun"
    BY <2>2 DEF ReaderInv, ReaderTyped
  <2>4. QED
    BY <2>1, <2>3 DEF ReaderInv, ReaderTyped, TypeOK
<1>2. QED
  BY <1>1, ReaderInductive, PTL

\* What json_rpc_server_step gets are the bodies that were written, whole, in
\* their order and each once, up to the first one that a line end follows: for
\* all bodies, header lines, numbers of frames and interleavings with the writer.
THEOREM BodiesInOrder == Spec => []InOrder
<1>1. ReaderInv => InOrder
  BY DEF ReaderInv
<1>2. QED
  BY <1>1, ReaderInductive, PTL

\* parse_request never uses a length that was not assigned, never overruns buf
\* and never stops before the end of the pipe, unless something follows a body.
THEOREM ReaderKeepsInStep == Spec => []KeepsInStep
<1>1. ReaderInv => KeepsInStep
  <2> SUFFICES ASSUME ReaderInv, InStep
               PROVE  /\ ~(/\ Reads("header") /\ Head(input) = LF
                           /\ reader.line = <<>> /\ reader.length = Unset)
                      /\ reader.state # "overrun"
                      /\ reader.state = "stopped" => closed /\ input = <<>>
    BY DEF KeepsInStep
  <2>1. /\ input \in Seq(Symbol) /\ reader \in Readers
        /\ got \in Seq(Seq(Symbol)) /\ sent \in Seq(Frames) /\ Len(got) \in Nat
    BY DEF ReaderInv, ReaderTyped
  <2>2. Follows(input, closed, reader, Len(got), sent)
    BY DEF ReaderInv, InStep, Before
  <2>3. ASSUME Reads("header"), Head(input) = LF, reader.line = <<>>, reader.length = Unset
        PROVE  FALSE
    <3>1. input # <<>> /\ reader.state = "header"
      BY <2>3 DEF Reads
    <3>2. PICK f \in Frames, left \in Seq(Symbol) :
             /\ Reading(reader, f, left)
             /\ left # <<>> =>
                   /\ Head(input) = Head(left)
                   /\ \A after : Reading(after, f, Tail(left))
                                    => Follows(Tail(input), closed, after, Len(got), sent)
      BY <2>1, <2>2, <3>1, NextByte
    <3>3. InHeader(reader.length, reader.line, f, left) /\ reader.line \in Seq(Symbol)
      BY <2>1, <3>1, <3>2, InHeaderOf, ReaderFields
    <3>4. left # <<>>
      BY <3>3, HeaderGoesOn
    <3>5. /\ Tail(left) \in Seq(Symbol)
          /\ Todo(reader.length, reader.line, Tail(left), f)
      BY <2>3, <3>2, <3>3, <3>4, HeaderLineEnds
    <3>6. QED
      BY <2>3, <3>5, NextLine
  <2>4. \/ reader = Stopped /\ closed /\ input = <<>>
        \/ reader = Fresh
        \/ reader.state \in {"header", "body"}
    <3>1. CASE reader = Stopped /\ closed /\ input = <<>>
      BY <3>1
    <3>2. ASSUME NEW frames, NEW rest, NEW end, Stream(frames, sent, closed, end),
                 Behind(frames, rest), Place(frames, rest, input \o end, reader, Len(got))
          PROVE  reader = Fresh \/ reader.state \in {"header", "body"}
      BY <3>2 DEF Place, Reading
    <3>3. QED
      BY <2>2, <3>1, <3>2 DEF Follows
  <2>5. QED
    BY <2>3, <2>4 DEF Stopped, Fresh
<1>2. QED
  BY <1>1, ReaderInductive, PTL
=============================================================================
