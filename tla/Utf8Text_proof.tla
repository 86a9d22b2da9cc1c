-------------------------- MODULE Utf8Text_proof ---------------------------
(***************************************************************************)
(* Lemmas about Utf8Text: whole codepoints, the places between them, the   *)
(* position after a text, walks to a position, counting codepoints from a  *)
(* place forward and backward, and texts cut in pieces.                    *)
(***************************************************************************)
EXTENDS Utf8Text, Cursors_proof

Byte == 0 .. 255

\* A codepoint has six bytes at most.
LEMMA CharSizes == \A ch : CharSize(ch) \in 0 .. 6
BY DEF CharSize, codepoint_size

\* A newline is not a part of another codepoint.
LEMMA NewLineStarts == ~IsContinuation(NewLine) /\ CharSize(NewLine) = 1
BY DEF IsContinuation, NewLine, CharSize

\* A sequence of whole codepoints, byte by byte.
LEMMA Utf8Bytes ==
    ASSUME NEW t \in Seq(Byte)
    PROVE  IsUtf8(t) <=>
             /\ t # <<>> => ~IsContinuation(t[1])
             /\ \A i \in 1 .. Len(t) : ~IsContinuation(t[i]) =>
                   /\ CharSize(t[i]) > 0
                   /\ i + CharSize(t[i]) - 1 <= Len(t)
                   /\ \A j \in i + 1 .. i + CharSize(t[i]) - 1 : IsContinuation(t[j])
                   /\ i + CharSize(t[i]) - 1 < Len(t)
                        => ~IsContinuation(t[i + CharSize(t[i])])
<1> DEFINE Whole(i) == LET end == i + CharSize(t[i]) - 1
                       IN  /\ CharSize(t[i]) > 0
                           /\ end <= Len(t)
                           /\ (i .. end) \cap Starts(t) = {i}
                           /\ end < Len(t) => end + 1 \in Starts(t)
           ByBytes(i) == /\ CharSize(t[i]) > 0
                         /\ i + CharSize(t[i]) - 1 <= Len(t)
                         /\ \A j \in i + 1 .. i + CharSize(t[i]) - 1 : IsContinuation(t[j])
                         /\ i + CharSize(t[i]) - 1 < Len(t)
                              => ~IsContinuation(t[i + CharSize(t[i])])
<1>1. Len(t) \in Nat /\ (t # <<>> <=> Len(t) >= 1)
  OBVIOUS
<1>2. \A i : i \in Starts(t) <=> i \in 1 .. Len(t) /\ ~IsContinuation(t[i])
  BY DEF Starts
<1>3. ASSUME NEW i \in 1 .. Len(t), ~IsContinuation(t[i])
      PROVE  Whole(i) <=> ByBytes(i)
  <2> DEFINE size == CharSize(t[i])
             end == i + size - 1
  <2>1. size \in Nat /\ i \in Nat
    BY CharSizes
  <2> HIDE DEF size
  <2>2. CASE ~(size > 0 /\ end <= Len(t))
    BY <2>2 DEF size
  <2>3. CASE size > 0 /\ end <= Len(t)
    <3>1. ((i .. end) \cap Starts(t) = {i})
             <=> (\A j \in i + 1 .. end : IsContinuation(t[j]))
      <4>1. i \in Starts(t) /\ i \in i .. end
        BY <1>2, <1>3, <2>1, <2>3
      <4>2. \A j \in i + 1 .. end : j \in 1 .. Len(t) /\ j \in i .. end /\ j # i
        BY <2>1, <2>3, <1>1
      <4>3. \A j \in i .. end : j = i \/ j \in i + 1 .. end
        BY <2>1, <2>3
      <4> HIDE DEF end
      <4>4. QED
        BY <4>1, <4>2, <4>3, <1>2
    <3>2. end < Len(t) => (end + 1 \in Starts(t) <=> ~IsContinuation(t[i + size]))
      <4>1. end + 1 = i + size /\ end + 1 >= 1 /\ end \in Nat
        BY <2>1, <2>3
      <4>2. end < Len(t) => end + 1 \in 1 .. Len(t)
        BY <4>1, <1>1
      <4>3. QED
        BY <4>1, <4>2, <1>2
    <3>3. QED
      BY <3>1, <3>2, <2>3 DEF size
  <2>4. QED
    BY <2>2, <2>3
<1>4. IsUtf8(t) <=> /\ t # <<>> => ~IsContinuation(t[1])
                    /\ \A i \in Starts(t) : Whole(i)
  BY <1>1, <1>2 DEF IsUtf8
<1> HIDE DEF Whole, ByBytes
<1>5. IsUtf8(t) <=> /\ t # <<>> => ~IsContinuation(t[1])
                    /\ \A i \in 1 .. Len(t) : ~IsContinuation(t[i]) => ByBytes(i)
  BY <1>2, <1>3, <1>4
<1>6. QED
  BY <1>5 DEF ByBytes

\* Nothing is a sequence of whole codepoints.
LEMMA Utf8Nothing == IsUtf8(<<>>) /\ Boundaries(<<>>) = {0}
BY DEF IsUtf8, Starts, Boundaries

\* The places between codepoints, byte by byte.
LEMMA BoundaryBytes ==
    ASSUME NEW t \in Seq(Byte), NEW n
    PROVE  /\ n \in Boundaries(t) <=> /\ n \in 0 .. Len(t)
                                      /\ n = Len(t) \/ ~IsContinuation(t[n + 1])
           /\ n \in Boundaries(t) => n \in Nat
           /\ Len(t) \in Boundaries(t)
BY DEF Boundaries

\* Whole codepoints after whole codepoints.
LEMMA Utf8Concat ==
    ASSUME NEW s \in Seq(Byte), NEW t \in Seq(Byte), IsUtf8(s), IsUtf8(t)
    PROVE  s \o t \in Seq(Byte) /\ IsUtf8(s \o t)
<1> DEFINE u == s \o t
           m == Len(s)
           n == Len(t)
<1>1. /\ u \in Seq(Byte) /\ Len(u) = m + n /\ m \in Nat /\ n \in Nat
      /\ \A i \in 1 .. m : u[i] = s[i]
      /\ \A i \in 1 .. n : u[m + i] = t[i]
  OBVIOUS
<1>2. /\ m >= 1 => ~IsContinuation(s[1])
      /\ \A i \in 1 .. m : ~IsContinuation(s[i]) =>
            /\ CharSize(s[i]) > 0
            /\ i + CharSize(s[i]) - 1 <= m
            /\ \A j \in i + 1 .. i + CharSize(s[i]) - 1 : IsContinuation(s[j])
            /\ i + CharSize(s[i]) - 1 < m => ~IsContinuation(s[i + CharSize(s[i])])
  BY Utf8Bytes
<1>3. /\ n >= 1 => ~IsContinuation(t[1])
      /\ \A i \in 1 .. n : ~IsContinuation(t[i]) =>
            /\ CharSize(t[i]) > 0
            /\ i + CharSize(t[i]) - 1 <= n
            /\ \A j \in i + 1 .. i + CharSize(t[i]) - 1 : IsContinuation(t[j])
            /\ i + CharSize(t[i]) - 1 < n => ~IsContinuation(t[i + CharSize(t[i])])
  BY Utf8Bytes
<1>4. u # <<>> => m + n >= 1
  BY <1>1
<1> HIDE DEF u, m, n
<1>5. m + n >= 1 => ~IsContinuation(u[1])
  <2>1. CASE m >= 1
    BY <2>1, <1>1, <1>2
  <2>2. CASE m = 0 /\ n >= 1
    <3>1. u[m + 1] = t[1]
      BY <2>2, <1>1
    <3>2. QED
      BY <3>1, <2>2, <1>3
  <2>3. QED
    BY <2>1, <2>2, <1>1
<1>6. ASSUME NEW i \in 1 .. m + n, ~IsContinuation(u[i])
      PROVE  /\ CharSize(u[i]) > 0
             /\ i + CharSize(u[i]) - 1 <= m + n
             /\ \A j \in i + 1 .. i + CharSize(u[i]) - 1 : IsContinuation(u[j])
             /\ i + CharSize(u[i]) - 1 < m + n => ~IsContinuation(u[i + CharSize(u[i])])
  <2>1. CASE i \in 1 .. m
    <3>1. u[i] = s[i] /\ i \in Nat
      BY <2>1, <1>1
    <3>2. PICK k \in Nat : k = CharSize(u[i])
      BY CharSizes
    <3>3. /\ k > 0 /\ i + k - 1 <= m
          /\ \A j \in i + 1 .. i + k - 1 : IsContinuation(s[j])
          /\ i + k - 1 < m => ~IsContinuation(s[i + k])
      BY <3>1, <3>2, <2>1, <1>2, <1>6
    <3>4. ASSUME NEW j \in i + 1 .. i + k - 1
          PROVE  IsContinuation(u[j])
      <4>1. j \in 1 .. m
        BY <3>1, <3>3, <1>1
      <4>2. QED
        BY <4>1, <3>3, <1>1
    <3>5. ASSUME i + k - 1 < m + n
          PROVE  ~IsContinuation(u[i + k])
      <4>1. CASE i + k - 1 < m
        <5>1. i + k \in 1 .. m
          BY <4>1, <3>1, <3>3, <1>1
        <5>2. QED
          BY <5>1, <4>1, <3>3, <1>1
      <4>2. CASE i + k - 1 = m
        <5>1. i + k = m + 1 /\ n >= 1
          BY <4>2, <3>1, <3>3, <3>5, <1>1
        <5>2. u[m + 1] = t[1]
          BY <5>1, <1>1
        <5>3. QED
          BY <5>1, <5>2, <1>3
      <4>3. QED
        BY <4>1, <4>2, <3>1, <3>3, <1>1
    <3>6. i + k - 1 <= m + n
      BY <3>1, <3>3, <1>1
    <3>7. QED
      BY <3>2, <3>3, <3>4, <3>5, <3>6
  <2>2. CASE i \notin 1 .. m
    <3>1. PICK a \in 1 .. n : i = m + a
      <4>1. i - m \in 1 .. n /\ i = m + (i - m)
        BY <2>2, <1>1
      <4>2. QED
        BY <4>1
    <3>2. u[i] = t[a] /\ a \in Nat
      BY <3>1, <1>1
    <3>3. PICK k \in Nat : k = CharSize(u[i])
      BY CharSizes
    <3>4. /\ k > 0 /\ a + k - 1 <= n
          /\ \A j \in a + 1 .. a + k - 1 : IsContinuation(t[j])
          /\ a + k - 1 < n => ~IsContinuation(t[a + k])
      BY <3>2, <3>3, <1>3, <1>6
    <3>5. ASSUME NEW j \in i + 1 .. i + k - 1
          PROVE  IsContinuation(u[j])
      <4>1. j - m \in a + 1 .. a + k - 1 /\ j - m \in 1 .. n /\ j = m + (j - m)
        BY <3>1, <3>2, <3>4, <1>1
      <4>2. u[m + (j - m)] = t[j - m]
        BY <4>1, <1>1
      <4>3. QED
        BY <4>1, <4>2, <3>4
    <3>6. ASSUME i + k - 1 < m + n
          PROVE  ~IsContinuation(u[i + k])
      <4>1. a + k \in 1 .. n /\ i + k = m + (a + k) /\ a + k - 1 < n
        BY <3>1, <3>2, <3>4, <3>6, <1>1
      <4>2. u[m + (a + k)] = t[a + k]
        BY <4>1, <1>1
      <4>3. QED
        BY <4>1, <4>2, <3>4
    <3>7. i + k - 1 <= m + n
      BY <3>1, <3>2, <3>4, <1>1
    <3>8. QED
      BY <3>3, <3>4, <3>5, <3>6, <3>7
  <2>3. QED
    BY <2>1, <2>2
<1>7. IsUtf8(u)
  BY <1>1, <1>4, <1>5, <1>6, Utf8Bytes
<1>8. QED
  BY <1>1, <1>7 DEF u

\* What comes before a place between codepoints and what comes after it.
LEMMA Utf8Cut ==
    ASSUME NEW t \in Seq(Byte), IsUtf8(t), NEW n \in Boundaries(t)
    PROVE  /\ SubSeq(t, 1, n) \in Seq(Byte) /\ SubSeq(t, n + 1, Len(t)) \in Seq(Byte)
           /\ Len(SubSeq(t, 1, n)) = n /\ Len(SubSeq(t, n + 1, Len(t))) = Len(t) - n
           /\ IsUtf8(SubSeq(t, 1, n)) /\ IsUtf8(SubSeq(t, n + 1, Len(t)))
<1> DEFINE s == SubSeq(t, 1, n)
           u == SubSeq(t, n + 1, Len(t))
           len == Len(t)
<1>1. /\ n \in 0 .. len /\ len \in Nat /\ n \in Nat
      /\ n < len => ~IsContinuation(t[n + 1])
  BY BoundaryBytes
<1>2. /\ s \in Seq(Byte) /\ Len(s) = n
      /\ \A i \in 1 .. n : s[i] = t[i]
  BY <1>1
<1>3. /\ u \in Seq(Byte) /\ Len(u) = len - n
      /\ \A i \in 1 .. len - n : u[i] = t[n + i]
  BY <1>1
<1>4. /\ len >= 1 => ~IsContinuation(t[1])
      /\ \A i \in 1 .. len : ~IsContinuation(t[i]) =>
            /\ CharSize(t[i]) > 0
            /\ i + CharSize(t[i]) - 1 <= len
            /\ \A j \in i + 1 .. i + CharSize(t[i]) - 1 : IsContinuation(t[j])
            /\ i + CharSize(t[i]) - 1 < len => ~IsContinuation(t[i + CharSize(t[i])])
  BY Utf8Bytes
<1>5. (s # <<>> => n >= 1) /\ (u # <<>> => len - n >= 1)
  BY <1>1, <1>2, <1>3
<1> HIDE DEF s, u, len
<1>6. IsUtf8(s)
  <2>1. s # <<>> => ~IsContinuation(s[1])
    BY <1>1, <1>2, <1>4, <1>5
  <2>2. ASSUME NEW i \in 1 .. n, ~IsContinuation(s[i])
        PROVE  /\ CharSize(s[i]) > 0
               /\ i + CharSize(s[i]) - 1 <= n
               /\ \A j \in i + 1 .. i + CharSize(s[i]) - 1 : IsContinuation(s[j])
               /\ i + CharSize(s[i]) - 1 < n => ~IsContinuation(s[i + CharSize(s[i])])
    <3>1. s[i] = t[i] /\ i \in Nat /\ i \in 1 .. len
      BY <1>1, <1>2
    <3>2. PICK k \in Nat : k = CharSize(s[i])
      BY CharSizes
    <3>3. /\ k > 0 /\ i + k - 1 <= len
          /\ \A j \in i + 1 .. i + k - 1 : IsContinuation(t[j])
          /\ i + k - 1 < len => ~IsContinuation(t[i + k])
      BY <3>1, <3>2, <1>4, <2>2
    <3>4. i + k - 1 <= n
      <4>1. SUFFICES ASSUME i + k - 1 > n PROVE FALSE
        BY <3>1, <1>1
      <4>2. n + 1 \in i + 1 .. i + k - 1 /\ n < len
        BY <4>1, <3>1, <3>3, <1>1
      <4>3. QED
        BY <4>2, <3>3, <1>1
    <3>5. ASSUME NEW j \in i + 1 .. i + k - 1
          PROVE  IsContinuation(s[j])
      <4>1. j \in 1 .. n
        BY <3>1, <3>4, <1>1
      <4>2. QED
        BY <4>1, <3>3, <1>2
    <3>6. ASSUME i + k - 1 < n
          PROVE  ~IsContinuation(s[i + k])
      <4>1. i + k \in 1 .. n /\ i + k - 1 < len
        BY <3>1, <3>3, <3>6, <1>1
      <4>2. QED
        BY <4>1, <3>3, <1>2
    <3>7. QED
      BY <3>2, <3>3, <3>4, <3>5, <3>6
  <2>3. QED
    BY <2>1, <2>2, <1>2, Utf8Bytes
<1>7. IsUtf8(u)
  <2>1. u # <<>> => ~IsContinuation(u[1])
    BY <1>1, <1>3, <1>5
  <2>2. ASSUME NEW i \in 1 .. len - n, ~IsContinuation(u[i])
        PROVE  /\ CharSize(u[i]) > 0
               /\ i + CharSize(u[i]) - 1 <= len - n
               /\ \A j \in i + 1 .. i + CharSize(u[i]) - 1 : IsContinuation(u[j])
               /\ i + CharSize(u[i]) - 1 < len - n
                    => ~IsContinuation(u[i + CharSize(u[i])])
    <3>1. u[i] = t[n + i] /\ i \in Nat /\ n + i \in 1 .. len
      BY <1>1, <1>3
    <3>2. PICK k \in Nat : k = CharSize(u[i])
      BY CharSizes
    <3>3. /\ k > 0 /\ (n + i) + k - 1 <= len
          /\ \A j \in (n + i) + 1 .. (n + i) + k - 1 : IsContinuation(t[j])
          /\ (n + i) + k - 1 < len => ~IsContinuation(t[(n + i) + k])
      BY <3>1, <3>2, <1>4, <2>2
    <3>4. i + k - 1 <= len - n
      BY <3>1, <3>3, <1>1
    <3>5. ASSUME NEW j \in i + 1 .. i + k - 1
          PROVE  IsContinuation(u[j])
      <4>1. j \in 1 .. len - n /\ n + j \in (n + i) + 1 .. (n + i) + k - 1
        BY <3>1, <3>4, <1>1
      <4>2. QED
        BY <4>1, <3>3, <1>3
    <3>6. ASSUME i + k - 1 < len - n
          PROVE  ~IsContinuation(u[i + k])
      <4>1. i + k \in 1 .. len - n /\ (n + i) + k - 1 < len /\ n + (i + k) = (n + i) + k
        BY <3>1, <3>3, <3>6, <1>1
      <4>2. u[i + k] = t[n + (i + k)]
        BY <4>1, <1>3
      <4>3. QED
        BY <4>1, <4>2, <3>3
    <3>7. QED
      BY <3>2, <3>3, <3>4, <3>5, <3>6
  <2>3. QED
    BY <2>1, <2>2, <1>3, Utf8Bytes
<1>8. QED
  BY <1>2, <1>3, <1>6, <1>7 DEF s, u, len

\* p is one codepoint, as far as its bytes say where it starts.
IsCodepoint(p) ==
    /\ p \in Seq(Byte) /\ Len(p) >= 1
    /\ ~IsContinuation(p[1])
    /\ \A j \in 2 .. Len(p) : IsContinuation(p[j])

\* The first codepoint of a text, and the places between the codepoints of
\* the rest.
LEMMA FirstCodepoint ==
    ASSUME NEW t \in Seq(Byte), IsUtf8(t), t # <<>>, NEW k, k = CharSize(t[1])
    PROVE  /\ k \in 1 .. Len(t) /\ k \in Boundaries(t) /\ 0 \in Boundaries(t)
           /\ k <= 6 /\ ~IsContinuation(t[1])
           /\ \A m \in Boundaries(t) : m = 0 \/ m >= k
           /\ IsCodepoint(SubSeq(t, 1, k))
           /\ Len(SubSeq(t, 1, k)) = k /\ SubSeq(t, 1, k)[1] = t[1]
<1>1. Len(t) \in Nat /\ Len(t) >= 1 /\ 1 \in 1 .. Len(t)
  OBVIOUS
<1>2. ~IsContinuation(t[1]) /\ k \in 0 .. 6
  BY Utf8Bytes, CharSizes
<1>3. /\ k > 0 /\ k <= Len(t)
      /\ \A j \in 2 .. k : IsContinuation(t[j])
      /\ k < Len(t) => ~IsContinuation(t[k + 1])
  <2>1. /\ CharSize(t[1]) > 0
        /\ 1 + CharSize(t[1]) - 1 <= Len(t)
        /\ \A j \in 1 + 1 .. 1 + CharSize(t[1]) - 1 : IsContinuation(t[j])
        /\ 1 + CharSize(t[1]) - 1 < Len(t) => ~IsContinuation(t[1 + CharSize(t[1])])
    BY <1>1, <1>2, Utf8Bytes
  <2>2. 1 + k - 1 = k /\ 1 + k = k + 1
    BY <1>2
  <2>3. QED
    BY <2>1, <2>2
<1>4. k \in Boundaries(t) /\ 0 \in Boundaries(t)
  BY <1>1, <1>2, <1>3, BoundaryBytes
<1>5. ASSUME NEW m \in Boundaries(t), m # 0, m < k
      PROVE  FALSE
  <2>1. m \in Nat /\ m <= Len(t) /\ (m = Len(t) \/ ~IsContinuation(t[m + 1]))
    BY BoundaryBytes
  <2>2. m + 1 \in 2 .. k /\ m < Len(t)
    BY <2>1, <1>5, <1>2, <1>3
  <2>3. QED
    BY <2>1, <2>2, <1>3
<1>6. \A m \in Boundaries(t) : m = 0 \/ m >= k
  <2>1. \A m \in Boundaries(t) : m \in Nat
    BY BoundaryBytes
  <2>2. QED
    BY <2>1, <1>2, <1>5
<1>7. /\ SubSeq(t, 1, k) \in Seq(Byte) /\ Len(SubSeq(t, 1, k)) = k
      /\ \A j \in 1 .. k : SubSeq(t, 1, k)[j] = t[j]
  BY <1>2, <1>3
<1>8. QED
  BY <1>1, <1>2, <1>3, <1>4, <1>6, <1>7 DEF IsCodepoint

\* The places in two texts, one after the other.
LEMMA BoundariesJoined ==
    ASSUME NEW s \in Seq(Byte), NEW t \in Seq(Byte)
    PROVE  /\ \A m \in 0 .. Len(t) :
                 Len(s) + m \in Boundaries(s \o t) <=> m \in Boundaries(t)
           /\ \A m \in 0 .. Len(s) - 1 :
                 m \in Boundaries(s \o t) <=> m \in Boundaries(s)
<1> DEFINE u == s \o t
           a == Len(s)
           b == Len(t)
<1>1. /\ u \in Seq(Byte) /\ Len(u) = a + b /\ a \in Nat /\ b \in Nat
      /\ \A i \in 1 .. a : u[i] = s[i]
      /\ \A i \in 1 .. b : u[a + i] = t[i]
  OBVIOUS
<1>2. /\ \A m : m \in Boundaries(u) <=> /\ m \in 0 .. Len(u)
                                        /\ m = Len(u) \/ ~IsContinuation(u[m + 1])
      /\ \A m : m \in Boundaries(s) <=> /\ m \in 0 .. a
                                        /\ m = a \/ ~IsContinuation(s[m + 1])
      /\ \A m : m \in Boundaries(t) <=> /\ m \in 0 .. b
                                        /\ m = b \/ ~IsContinuation(t[m + 1])
  BY <1>1, BoundaryBytes
<1> HIDE DEF u, a, b
<1>3. ASSUME NEW m \in 0 .. b
      PROVE  a + m \in Boundaries(u) <=> m \in Boundaries(t)
  <2>1. CASE m = b
    BY <2>1, <1>1, <1>2
  <2>2. CASE m # b
    <3>1. m + 1 \in 1 .. b /\ a + m \in 0 .. a + b /\ a + m # a + b
          /\ (a + m) + 1 = a + (m + 1)
      BY <2>2, <1>1
    <3>2. u[(a + m) + 1] = t[m + 1]
      BY <3>1, <1>1
    <3>3. QED
      BY <3>1, <3>2, <1>1, <1>2
  <2>3. QED
    BY <2>1, <2>2
<1>4. ASSUME NEW m \in 0 .. a - 1
      PROVE  m \in Boundaries(u) <=> m \in Boundaries(s)
  <2>1. m + 1 \in 1 .. a /\ m \in 0 .. a /\ m \in 0 .. a + b /\ m # a + b /\ m # a
    BY <1>1
  <2>2. QED
    BY <2>1, <1>1, <1>2
<1>5. QED
  BY <1>3, <1>4 DEF u, a, b

\* The newlines of a text, and the codepoints after the last of them.
NewLines(t) == {i \in 1 .. Len(t) : t[i] = NewLine}
LastLine(t) == {i \in Starts(t) : \A j \in i .. Len(t) : t[j] # NewLine}

\* The position counts the newlines before, and the starts after the last.
LEMMA PositionCounts ==
    ASSUME NEW t \in Seq(Byte)
    PROVE  /\ IsFiniteSet(NewLines(t)) /\ IsFiniteSet(LastLine(t))
           /\ PositionAfter(t) = [line_num |-> Cardinality(NewLines(t)),
                                  char_num |-> Cardinality(LastLine(t))]
           /\ PositionAfter(t) \in [line_num : Nat, char_num : Nat]
<1>1. IsFiniteSet(1 .. Len(t)) /\ NewLines(t) \subseteq 1 .. Len(t)
      /\ LastLine(t) \subseteq 1 .. Len(t)
  BY FS_Interval DEF NewLines, LastLine, Starts
<1>2. IsFiniteSet(NewLines(t)) /\ IsFiniteSet(LastLine(t))
  BY <1>1, FS_Subset
<1>3. Cardinality(NewLines(t)) \in Nat /\ Cardinality(LastLine(t)) \in Nat
  BY <1>2, FS_CardinalityType
<1>4. PositionAfter(t) = [line_num |-> Cardinality(NewLines(t)),
                          char_num |-> Cardinality(LastLine(t))]
  BY DEF PositionAfter, NewLines, LastLine
<1>5. QED
  BY <1>2, <1>3, <1>4

\* The start of a text.
LEMMA PositionOfNothing == PositionAfter(<<>>) = Origin
<1>1. NewLines(<<>>) = {} /\ LastLine(<<>>) = {}
  BY DEF NewLines, LastLine, Starts
<1>2. <<>> \in Seq(Byte)
  OBVIOUS
<1>3. QED
  BY <1>1, <1>2, PositionCounts, FS_EmptySet DEF Origin

\* The position after one codepoint more is what the walks count.
LEMMA PositionStep ==
    ASSUME NEW s \in Seq(Byte), NEW p, IsCodepoint(p)
    PROVE  PositionAfter(s \o p) = Stepped(PositionAfter(s), p[1])
<1> DEFINE u == s \o p
           n == Len(s)
           k == Len(p)
<1>1. /\ p \in Seq(Byte) /\ u \in Seq(Byte) /\ Len(u) = n + k /\ n \in Nat
      /\ k \in Nat /\ k >= 1
      /\ \A i \in 1 .. n : u[i] = s[i]
      /\ \A i \in 1 .. k : u[n + i] = p[i]
      /\ ~IsContinuation(p[1]) /\ \A j \in 2 .. k : IsContinuation(p[j])
  BY DEF IsCodepoint
<1>2. /\ \A i : i \in NewLines(u) <=> i \in 1 .. n + k /\ u[i] = NewLine
      /\ \A i : i \in NewLines(s) <=> i \in 1 .. n /\ s[i] = NewLine
      /\ \A i : i \in LastLine(u) <=> /\ i \in 1 .. n + k /\ ~IsContinuation(u[i])
                                      /\ \A j \in i .. n + k : u[j] # NewLine
      /\ \A i : i \in LastLine(s) <=> /\ i \in 1 .. n /\ ~IsContinuation(s[i])
                                      /\ \A j \in i .. n : s[j] # NewLine
  BY <1>1 DEF NewLines, LastLine, Starts
<1> HIDE DEF u, n, k
<1>3. /\ u[n + 1] = p[1] /\ ~IsContinuation(u[n + 1]) /\ n + 1 \in 1 .. n + k
      /\ \A i \in 1 .. n + k : i \notin 1 .. n => i = n + 1 \/ i \in n + 2 .. n + k
      /\ \A i \in n + 2 .. n + k : i \in 1 .. n + k /\ i \notin 1 .. n /\ i # n + 1
      /\ n + 1 \notin 1 .. n
      /\ \A i \in 1 .. n : i \in 1 .. n + k /\ i # n + 1 /\ n + 1 \in i .. n + k
  BY <1>1
<1>4. ASSUME NEW i \in n + 2 .. n + k
      PROVE  IsContinuation(u[i]) /\ u[i] # NewLine
  <2>1. i - n \in 2 .. k /\ i - n \in 1 .. k /\ i = n + (i - n)
    BY <1>1
  <2>2. u[n + (i - n)] = p[i - n]
    BY <2>1, <1>1
  <2>3. IsContinuation(u[i])
    BY <2>1, <2>2, <1>1
  <2>4. QED
    BY <2>3, NewLineStarts
<1>5. /\ IsFiniteSet(NewLines(s)) /\ IsFiniteSet(LastLine(s))
      /\ PositionAfter(s) = [line_num |-> Cardinality(NewLines(s)),
                             char_num |-> Cardinality(LastLine(s))]
      /\ PositionAfter(u) = [line_num |-> Cardinality(NewLines(u)),
                             char_num |-> Cardinality(LastLine(u))]
      /\ n + 1 \notin NewLines(s) /\ n + 1 \notin LastLine(s)
  BY <1>1, <1>2, <1>3, PositionCounts
<1>9. /\ \A i \in NewLines(s) : i \in NewLines(u)
      /\ \A i \in NewLines(u) : i \in NewLines(s) \/ i = n + 1
  <2>1. ASSUME NEW i \in NewLines(s)
        PROVE  i \in NewLines(u)
    <3>1. i \in 1 .. n /\ s[i] = NewLine
      BY <1>2
    <3>2. QED
      BY <3>1, <1>1, <1>2, <1>3
  <2>2. ASSUME NEW i \in NewLines(u), i # n + 1
        PROVE  i \in NewLines(s)
    <3>1. i \in 1 .. n + k /\ u[i] = NewLine
      BY <1>2
    <3>2. i \in 1 .. n
      BY <3>1, <2>2, <1>3, <1>4
    <3>3. QED
      BY <3>1, <3>2, <1>1, <1>2
  <2>3. QED
    BY <2>1, <2>2
<1>6. CASE p[1] = NewLine
  <2>1. NewLines(u) = NewLines(s) \cup {n + 1}
    <3>1. n + 1 \in NewLines(u)
      BY <1>2, <1>3, <1>6
    <3>2. QED
      BY <3>1, <1>9
  <2>2. LastLine(u) = {}
    <3>1. SUFFICES ASSUME NEW i \in LastLine(u) PROVE FALSE
      OBVIOUS
    <3>2. i \in 1 .. n + k /\ ~IsContinuation(u[i])
          /\ \A j \in i .. n + k : u[j] # NewLine
      BY <1>2
    <3>3. i \in 1 .. n \/ i = n + 1
      BY <3>2, <1>3, <1>4
    <3>4. n + 1 \in i .. n + k
      BY <3>3, <1>1, <1>3
    <3>5. QED
      BY <3>2, <3>4, <1>3, <1>6
  <2>3. Cardinality(NewLines(u)) = Cardinality(NewLines(s)) + 1
        /\ Cardinality(LastLine(u)) = 0
    BY <2>1, <2>2, <1>5, FS_AddElement, FS_EmptySet
  <2>4. QED
    BY <2>3, <1>5, <1>6 DEF Stepped, u
<1>7. CASE p[1] # NewLine
  <2>1. NewLines(u) = NewLines(s)
    <3>1. n + 1 \notin NewLines(u)
      BY <1>2, <1>3, <1>7
    <3>2. QED
      BY <3>1, <1>9
  <2>2. LastLine(u) = LastLine(s) \cup {n + 1}
    <3>1. n + 1 \in LastLine(u)
      <4>1. \A j \in n + 1 .. n + k : j = n + 1 \/ j \in n + 2 .. n + k
        BY <1>1
      <4>2. QED
        BY <4>1, <1>2, <1>3, <1>4, <1>7
    <3>2. ASSUME NEW i \in LastLine(u), i # n + 1
          PROVE  i \in LastLine(s)
      <4>1. i \in 1 .. n + k /\ ~IsContinuation(u[i])
            /\ \A j \in i .. n + k : u[j] # NewLine
        BY <1>2
      <4>2. i \in 1 .. n
        BY <4>1, <3>2, <1>3, <1>4
      <4>3. \A j \in i .. n : j \in i .. n + k /\ j \in 1 .. n
        BY <4>2, <1>1
      <4>4. QED
        BY <4>1, <4>2, <4>3, <1>1, <1>2, SMTT(30)
    <3>3. ASSUME NEW i \in LastLine(s)
          PROVE  i \in LastLine(u)
      <4>1. i \in 1 .. n /\ ~IsContinuation(s[i])
            /\ \A j \in i .. n : s[j] # NewLine
        BY <1>2
      <4>2. ASSUME NEW j \in i .. n + k
            PROVE  u[j] # NewLine
        <5>1. (j \in 1 .. n /\ j \in i .. n) \/ j = n + 1 \/ j \in n + 2 .. n + k
          BY <4>1, <1>1
        <5>2. QED
          BY <5>1, <4>1, <1>1, <1>3, <1>4, <1>7
      <4>3. QED
        BY <4>1, <4>2, <1>1, <1>2, <1>3
    <3>4. QED
      BY <3>1, <3>2, <3>3
  <2>3. Cardinality(LastLine(u)) = Cardinality(LastLine(s)) + 1
    BY <2>2, <1>5, FS_AddElement
  <2>4. QED
    BY <2>1, <2>3, <1>5, <1>7 DEF Stepped, u
<1>8. QED
  BY <1>6, <1>7

\* The position never goes back along a text.
LEMMA PositionGoesOn ==
    ASSUME NEW s \in Seq(Byte), NEW r \in Seq(Byte)
    PROVE  ~Before(PositionAfter(s \o r), PositionAfter(s))
<1> DEFINE u == s \o r
           n == Len(s)
           k == Len(r)
<1>1. /\ u \in Seq(Byte) /\ Len(u) = n + k /\ n \in Nat /\ k \in Nat
      /\ \A i \in 1 .. n : u[i] = s[i]
  OBVIOUS
<1>2. /\ \A i : i \in NewLines(u) <=> i \in 1 .. n + k /\ u[i] = NewLine
      /\ \A i : i \in NewLines(s) <=> i \in 1 .. n /\ s[i] = NewLine
      /\ \A i : i \in LastLine(u) <=> /\ i \in 1 .. n + k /\ ~IsContinuation(u[i])
                                      /\ \A j \in i .. n + k : u[j] # NewLine
      /\ \A i : i \in LastLine(s) <=> /\ i \in 1 .. n /\ ~IsContinuation(s[i])
                                      /\ \A j \in i .. n : s[j] # NewLine
  BY <1>1 DEF NewLines, LastLine, Starts
<1> HIDE DEF u, n, k
<1>3. /\ IsFiniteSet(NewLines(u)) /\ IsFiniteSet(LastLine(u))
      /\ PositionAfter(s) = [line_num |-> Cardinality(NewLines(s)),
                             char_num |-> Cardinality(LastLine(s))]
      /\ PositionAfter(u) = [line_num |-> Cardinality(NewLines(u)),
                             char_num |-> Cardinality(LastLine(u))]
      /\ PositionAfter(s) \in [line_num : Nat, char_num : Nat]
      /\ PositionAfter(u) \in [line_num : Nat, char_num : Nat]
  BY <1>1, PositionCounts
<1>4. \A i \in 1 .. n : i \in 1 .. n + k
  BY <1>1
<1>5. NewLines(s) \subseteq NewLines(u)
  BY <1>1, <1>2, <1>4
<1>6. Cardinality(NewLines(s)) <= Cardinality(NewLines(u))
  BY <1>3, <1>5, FS_Subset
<1>7. ASSUME Cardinality(NewLines(s)) = Cardinality(NewLines(u))
      PROVE  Cardinality(LastLine(s)) <= Cardinality(LastLine(u))
  <2>1. NewLines(s) = NewLines(u)
    BY <1>3, <1>5, <1>7, FS_Subset
  <2>2. LastLine(s) \subseteq LastLine(u)
    <3>1. SUFFICES ASSUME NEW i \in LastLine(s) PROVE i \in LastLine(u)
      OBVIOUS
    <3>2. i \in 1 .. n /\ ~IsContinuation(s[i]) /\ \A j \in i .. n : s[j] # NewLine
      BY <1>2
    <3>3. ASSUME NEW j \in i .. n + k, u[j] = NewLine
          PROVE  FALSE
      <4>1. j \in 1 .. n + k
        BY <3>2, <1>1
      <4>2. j \in 1 .. n /\ s[j] = NewLine
        BY <4>1, <3>3, <2>1, <1>2
      <4>3. j \in i .. n
        BY <4>2
      <4>4. QED
        BY <4>2, <4>3, <3>2
    <3>4. QED
      BY <3>2, <3>3, <1>1, <1>2, <1>4
  <2>3. QED
    BY <2>2, <1>3, FS_Subset
<1>8. ~Before(PositionAfter(u), PositionAfter(s))
  <2>1. PICK a \in Nat, b \in Nat, c \in Nat, d \in Nat :
           /\ a = Cardinality(NewLines(s)) /\ b = Cardinality(LastLine(s))
           /\ c = Cardinality(NewLines(u)) /\ d = Cardinality(LastLine(u))
    BY <1>3
  <2>2. PositionAfter(s) = [line_num |-> a, char_num |-> b]
        /\ PositionAfter(u) = [line_num |-> c, char_num |-> d]
    BY <2>1, <1>3
  <2>3. a <= c /\ (a = c => b <= d)
    BY <2>1, <1>6, <1>7
  <2>4. QED
    BY <2>2, <2>3 DEF Before
<1>9. QED
  BY <1>8 DEF u

-----------------------------------------------------------------------------
(***************************************************************************)
(* Walking to a position.                                                  *)
(***************************************************************************)

Place == [line_num : Nat, char_num : Nat]

\* text_position_cmp orders the positions.
LEMMA BeforeOrders ==
    ASSUME NEW a \in Place, NEW b \in Place, NEW c \in Place
    PROVE  /\ ~Before(a, a)
           /\ (~Before(b, a) /\ Before(b, c)) => Before(a, c)
           /\ ~Before(a, b) /\ ~Before(b, a) => a = b
BY DEF Place, Before

\* FirstPlace is the first of the places, and the end when there is none.
LEMMA FirstPlaceIs ==
    ASSUME NEW t \in Seq(Byte), NEW pos
    PROVE  /\ FirstPlace(t, pos) \in Boundaries(t)
           /\ FirstPlace(t, pos) \in 0 .. Len(t)
           /\ \A m \in PlacesFrom(t, pos) : FirstPlace(t, pos) <= m
           /\ \A n \in PlacesFrom(t, pos) :
                 (\A m \in PlacesFrom(t, pos) : n <= m) => FirstPlace(t, pos) = n
           /\ PlacesFrom(t, pos) = {} => FirstPlace(t, pos) = Len(t)
           /\ PlacesFrom(t, pos) # {} => FirstPlace(t, pos) \in PlacesFrom(t, pos)
<1> DEFINE P == PlacesFrom(t, pos)
           Least(n) == \A m \in P : n <= m
<1>1. P \subseteq Boundaries(t) /\ Boundaries(t) \subseteq Nat
  BY BoundaryBytes DEF PlacesFrom
<1>2. CASE P = {}
  BY <1>2, BoundaryBytes DEF FirstPlace
<1>3. CASE P # {}
  <2>1. FirstPlace(t, pos) = CHOOSE n \in P : Least(n)
    BY <1>3 DEF FirstPlace
  <2> HIDE DEF P
  <2>2. \E n \in P : Least(n)
    BY <1>1, <1>3, LeastMember
  <2>3. FirstPlace(t, pos) \in P /\ Least(FirstPlace(t, pos))
    BY <2>1, <2>2
  <2>4. ASSUME NEW n \in P, Least(n)
        PROVE  FirstPlace(t, pos) = n
    <3>1. n \in Nat /\ FirstPlace(t, pos) \in Nat
      BY <2>3, <1>1
    <3>2. n <= FirstPlace(t, pos) /\ FirstPlace(t, pos) <= n
      BY <2>3, <2>4
    <3>3. QED
      BY <3>1, <3>2
  <2>5. FirstPlace(t, pos) \in Boundaries(t) /\ FirstPlace(t, pos) \in 0 .. Len(t)
    BY <2>3, <1>1, BoundaryBytes
  <2>6. QED
    BY <2>3, <2>4, <2>5, <1>3 DEF P
<1>4. QED
  BY <1>2, <1>3

\* Where two texts meet.
LEMMA CursorBetween ==
    ASSUME NEW c \in CursorsOver(Byte)
    PROVE  /\ CursorAt(Text(c), Len(c.left)) = c
           /\ SubSeq(Text(c), 1, Len(c.left)) = c.left
           /\ Text(c) \in Seq(Byte) /\ Len(Text(c)) = Len(c.left) + Len(c.right)
           /\ c.left \in Seq(Byte) /\ c.right \in Seq(Byte)
           /\ Len(c.left) \in Nat /\ Len(c.left) <= Len(Text(c))
           /\ c.right = <<>> => Len(Text(c)) = Len(c.left)
<1> DEFINE l == c.left
           r == c.right
<1>1. l \in Seq(Byte) /\ r \in Seq(Byte) /\ c = [left |-> l, right |-> r]
  BY DEF CursorsOver
<1> HIDE DEF l, r
<1>2. /\ SubSeq(l \o r, 1, Len(l)) = l
      /\ SubSeq(l \o r, Len(l) + 1, Len(l \o r)) = r
      /\ l \o r \in Seq(Byte) /\ Len(l \o r) = Len(l) + Len(r)
      /\ Len(l) \in Nat /\ Len(l) <= Len(l \o r)
      /\ r = <<>> => Len(l \o r) = Len(l)
  <2>1. SubSeq(l \o r, Len(l) + 1, Len(l \o r)) = r
    BY <1>1, SubSeqSecond
  <2>2. SubSeq(l \o r, 1, Len(l)) = l
    BY <1>1
  <2>3. /\ l \o r \in Seq(Byte) /\ Len(l \o r) = Len(l) + Len(r)
        /\ Len(l) \in Nat /\ Len(r) \in Nat
    BY <1>1
  <2>4. r = <<>> => Len(r) = 0
    OBVIOUS
  <2>5. Len(l) <= Len(l \o r) /\ (r = <<>> => Len(l \o r) = Len(l))
    <3>1. PICK a \in Nat, b \in Nat : a = Len(l) /\ b = Len(r)
      BY <2>3
    <3>2. Len(l \o r) = a + b
      BY <2>3, <3>1
    <3>3. QED
      BY <2>4, <3>1, <3>2
  <2>6. QED
    BY <2>1, <2>2, <2>3, <2>5
<1>3. QED
  BY <1>1, <1>2 DEF CursorAt, Text, l, r

\* A cursor between codepoints.
Between(c) == c \in CursorsOver(Byte) /\ IsUtf8(c.left) /\ IsUtf8(c.right)

\* It has come to the position p, and not past the first place at pos or
\* beyond it.
Walk(c, pos, p) ==
    /\ Between(c)
    /\ p = PositionAfter(c.left)
    /\ \A m \in PlacesFrom(Text(c), pos) : Len(c.left) <= m

\* A cursor between codepoints stands at one of the places of its text.
LEMMA BetweenIsPlace ==
    ASSUME NEW c, Between(c)
    PROVE  /\ Text(c) \in Seq(Byte) /\ IsUtf8(Text(c))
           /\ Len(c.left) \in Boundaries(Text(c))
           /\ \A pos : Len(c.left) \in PlacesFrom(Text(c), pos)
                         <=> ~Before(PositionAfter(c.left), pos)
           /\ PositionAfter(c.left) \in Place
<1>1. /\ c \in CursorsOver(Byte) /\ c.left \in Seq(Byte) /\ c.right \in Seq(Byte)
      /\ IsUtf8(c.left) /\ IsUtf8(c.right)
      /\ SubSeq(Text(c), 1, Len(c.left)) = c.left
  BY CursorBetween DEF Between
<1>2. Text(c) \in Seq(Byte) /\ IsUtf8(Text(c))
  BY <1>1, Utf8Concat DEF Text
<1>3. Len(c.left) \in Boundaries(Text(c))
  <2>1. 0 \in Boundaries(c.right) /\ 0 \in 0 .. Len(c.right)
    <3>1. CASE c.right = <<>>
      BY <3>1, Utf8Nothing
    <3>2. CASE c.right # <<>>
      BY <3>2, <1>1, FirstCodepoint
    <3>3. QED
      BY <3>1, <3>2, <1>1
  <2>2. Len(c.left) + 0 \in Boundaries(Text(c))
    BY <1>1, <2>1, BoundariesJoined DEF Text
  <2>3. QED
    BY <1>1, <2>2
<1>4. PositionAfter(c.left) \in Place
  BY <1>1, PositionCounts DEF Place
<1>5. QED
  BY <1>1, <1>2, <1>3, <1>4 DEF PlacesFrom

\* Every place of the text makes such a cursor.
LEMMA PlaceIsBetween ==
    ASSUME NEW t \in Seq(Byte), IsUtf8(t), NEW n \in Boundaries(t)
    PROVE  /\ Between(CursorAt(t, n)) /\ Text(CursorAt(t, n)) = t
           /\ Len(CursorAt(t, n).left) = n
           /\ CursorAt(t, n).left = SubSeq(t, 1, n)
<1> DEFINE l == SubSeq(t, 1, n)
           r == SubSeq(t, n + 1, Len(t))
<1>1. l \in Seq(Byte) /\ r \in Seq(Byte) /\ IsUtf8(l) /\ IsUtf8(r) /\ Len(l) = n
  BY Utf8Cut
<1>2. l \o r = t
  BY BoundaryBytes, PartsJoin
<1> HIDE DEF l, r
<1>3. /\ [left |-> l, right |-> r].left = l /\ [left |-> l, right |-> r].right = r
      /\ [left |-> l, right |-> r] \in CursorsOver(Byte)
  BY <1>1 DEF CursorsOver
<1>4. CursorAt(t, n) = [left |-> l, right |-> r]
  BY DEF CursorAt, l, r
<1>5. QED
  BY <1>1, <1>2, <1>3, <1>4 DEF Between, Text, l

\* A walk begins at the start of a text.
LEMMA WalkStarts ==
    ASSUME NEW t \in Seq(Byte), IsUtf8(t), NEW pos
    PROVE  /\ Walk([left |-> <<>>, right |-> t], pos, Origin)
           /\ Text([left |-> <<>>, right |-> t]) = t
<1> DEFINE c == [left |-> <<>>, right |-> t]
<1>1. c \in CursorsOver(Byte) /\ c.left = <<>> /\ c.right = t /\ Len(c.left) = 0
  BY DEF CursorsOver
<1>2. Text(c) = t
  <2>1. <<>> \o t = t
    BY ConcatNothing
  <2>2. QED
    BY <1>1, <2>1 DEF Text
<1>3. \A m \in PlacesFrom(t, pos) : 0 <= m
  BY BoundaryBytes DEF PlacesFrom
<1> HIDE DEF c
<1>4. Walk(c, pos, Origin)
  BY <1>1, <1>2, <1>3, Utf8Nothing, PositionOfNothing DEF Walk, Between
<1>5. QED
  BY <1>2, <1>4 DEF c

\* Or at a cursor that stands before the position.
LEMMA WalkFrom ==
    ASSUME NEW c, Between(c), NEW pos \in Place, Before(PositionAfter(c.left), pos)
    PROVE  Walk(c, pos, PositionAfter(c.left))
<1> DEFINE t == Text(c)
           n == Len(c.left)
<1>1. /\ t \in Seq(Byte) /\ c.left \in Seq(Byte) /\ c.right \in Seq(Byte)
      /\ SubSeq(t, 1, n) = c.left /\ n \in Nat /\ n <= Len(t) /\ Len(t) \in Nat
      /\ PositionAfter(c.left) \in Place
  <2>1. c \in CursorsOver(Byte)
    BY DEF Between
  <2>2. Len(t) \in Nat
    BY <2>1, CursorBetween
  <2>3. QED
    BY <2>1, <2>2, CursorBetween, BetweenIsPlace
<1> HIDE DEF t, n
<1>2. ASSUME NEW m \in PlacesFrom(t, pos), m < n
      PROVE  FALSE
  <2>1. m \in Nat /\ ~Before(PositionAfter(SubSeq(t, 1, m)), pos)
    BY <1>1, BoundaryBytes DEF PlacesFrom
  <2> DEFINE s == SubSeq(t, 1, m)
             r == SubSeq(c.left, m + 1, n)
  <2>2. s = SubSeq(c.left, 1, m)
    BY <1>1, <1>2, <2>1
  <2>3. s \in Seq(Byte) /\ r \in Seq(Byte)
    BY <1>1, <1>2, <2>1, <2>2 DEF n
  <2>4. s \o r = c.left
    <3>1. m \in 0 .. Len(c.left)
      BY <1>1, <1>2, <2>1 DEF n
    <3>2. SubSeq(c.left, 1, m) \o SubSeq(c.left, m + 1, Len(c.left)) = c.left
      BY <1>1, <3>1, PartsJoin
    <3>3. QED
      BY <2>2, <3>2 DEF n
  <2> HIDE DEF s, r
  <2>5. ~Before(PositionAfter(c.left), PositionAfter(s)) /\ PositionAfter(s) \in Place
    BY <2>3, <2>4, PositionGoesOn, PositionCounts DEF Place
  <2>6. Before(PositionAfter(s), pos)
    BY <2>5, <1>1, BeforeOrders
  <2>7. QED
    BY <2>1, <2>6 DEF s
<1>3. \A m \in PlacesFrom(t, pos) : n <= m
  <2>1. \A m \in PlacesFrom(t, pos) : m \in Nat
    BY <1>1, BoundaryBytes DEF PlacesFrom
  <2>2. QED
    BY <1>1, <1>2, <2>1
<1>4. QED
  BY <1>3 DEF Walk, t, n

\* It goes on by one codepoint.
LEMMA WalkGoesOn ==
    ASSUME NEW c, NEW pos, NEW p, Walk(c, pos, p), Before(p, pos),
           c.right # <<>>, NEW k, k = CharSize(c.right[1])
    PROVE  /\ k \in 1 .. Len(c.right)
           /\ Walk(Advanced(c, k), pos, Stepped(p, c.right[1]))
           /\ Text(Advanced(c, k)) = Text(c)
<1> DEFINE l == c.left
           r == c.right
           q == SubSeq(r, 1, k)
           rest == SubSeq(r, k + 1, Len(r))
<1>1. /\ l \in Seq(Byte) /\ r \in Seq(Byte) /\ IsUtf8(l) /\ IsUtf8(r)
      /\ p = PositionAfter(l) /\ r # <<>>
      /\ Text(c) = l \o r /\ Len(l) \in Nat
      /\ \A m \in PlacesFrom(Text(c), pos) : Len(l) <= m
      /\ Len(l) \notin PlacesFrom(Text(c), pos)
      /\ k = CharSize(r[1])
  BY CursorBetween, BetweenIsPlace DEF Walk, Between, Text
<1>5. Advanced(c, k) = [left |-> l \o q, right |-> rest]
  BY DEF Advanced
<1> HIDE DEF l, r
<1>2. /\ k \in 1 .. Len(r) /\ k \in Boundaries(r)
      /\ \A m \in Boundaries(r) : m = 0 \/ m >= k
      /\ IsCodepoint(q) /\ q[1] = r[1]
  BY <1>1, FirstCodepoint
<1>3. /\ q \in Seq(Byte) /\ rest \in Seq(Byte) /\ IsUtf8(q) /\ IsUtf8(rest)
      /\ Len(q) = k
  BY <1>1, <1>2, Utf8Cut
<1>4. q \o rest = r
  <2>1. k \in 0 .. Len(r)
    BY <1>2
  <2>2. QED
    BY <1>1, <2>1, PartsJoin
<1> DEFINE d == [left |-> l \o q, right |-> rest]
<1> HIDE DEF q, rest
<1>6. /\ l \o q \in Seq(Byte) /\ IsUtf8(l \o q) /\ Len(l \o q) = Len(l) + k
  BY <1>1, <1>3, Utf8Concat
<1>7. (l \o q) \o rest = l \o r
  <2>1. l \in Seq(Byte) /\ q \in Seq(Byte) /\ rest \in Seq(Byte)
    BY <1>1, <1>3
  <2>2. (l \o q) \o rest = l \o (q \o rest)
    BY <2>1, ConcatThree
  <2>3. QED
    BY <2>2, <1>4
<1>8. /\ d.left = l \o q /\ d.right = rest /\ d \in CursorsOver(Byte)
      /\ Text(d) = Text(c)
  BY <1>1, <1>3, <1>6, <1>7 DEF CursorsOver, Text
<1>9. PositionAfter(d.left) = Stepped(p, r[1])
  BY <1>1, <1>2, <1>8, PositionStep
<1>10. ASSUME NEW m \in PlacesFrom(Text(c), pos)
       PROVE  Len(d.left) <= m
  <2>1. m \in Boundaries(l \o r) /\ m >= Len(l) /\ m # Len(l) /\ l \o r \in Seq(Byte)
        /\ Len(l \o r) = Len(l) + Len(r)
    BY <1>1 DEF PlacesFrom
  <2>2. m \in Nat /\ m <= Len(l) + Len(r)
    <3>1. m \in 0 .. Len(l \o r)
      BY <2>1, BoundaryBytes
    <3>2. QED
      BY <2>1, <3>1
  <2>3. PICK i \in 0 .. Len(r) : m = Len(l) + i
    <3>1. m - Len(l) \in 0 .. Len(r) /\ m = Len(l) + (m - Len(l))
      BY <2>1, <2>2, <1>1
    <3>2. QED
      BY <3>1
  <2>4. i \in Boundaries(r) /\ i # 0
    BY <2>1, <2>3, <1>1, BoundariesJoined
  <2>5. i >= k
    BY <2>4, <1>2
  <2>6. QED
    BY <2>3, <2>5, <1>1, <1>2, <1>6, <1>8
<1> HIDE DEF d
<1>11. Between(d)
  BY <1>3, <1>6, <1>8 DEF Between
<1>12. Walk(d, pos, Stepped(p, r[1]))
  BY <1>8, <1>9, <1>10, <1>11 DEF Walk
<1>13. Advanced(c, k) = d
  BY <1>5 DEF d
<1>14. QED
  BY <1>2, <1>8, <1>12, <1>13 DEF r

\* And ends where text_buffer_set_point is to set the point.
LEMMA WalkEnds ==
    ASSUME NEW c, NEW pos, NEW p, Walk(c, pos, p), ~Before(p, pos) \/ c.right = <<>>
    PROVE  /\ SetTo(c, pos) = c
           /\ FirstPlace(Text(c), pos) = Len(c.left)
<1>1. /\ c \in CursorsOver(Byte) /\ Text(c) \in Seq(Byte)
      /\ c.right = <<>> => Len(Text(c)) = Len(c.left)
      /\ Len(c.left) \in Nat
      /\ CursorAt(Text(c), Len(c.left)) = c
      /\ p = PositionAfter(c.left)
      /\ \A m \in PlacesFrom(Text(c), pos) : Len(c.left) <= m
  BY CursorBetween, BetweenIsPlace DEF Walk, Between
<1>2. CASE ~Before(p, pos)
  <2>1. Len(c.left) \in PlacesFrom(Text(c), pos)
    BY <1>1, <1>2, BetweenIsPlace DEF Walk
  <2>2. FirstPlace(Text(c), pos) = Len(c.left)
    BY <2>1, <1>1, FirstPlaceIs
  <2>3. QED
    BY <2>2, <1>1 DEF SetTo
<1>3. CASE Before(p, pos) /\ c.right = <<>>
  <2>1. Len(Text(c)) = Len(c.left) /\ Len(c.left) \notin PlacesFrom(Text(c), pos)
    BY <1>1, <1>3, BetweenIsPlace DEF Walk
  <2>2. PlacesFrom(Text(c), pos) = {}
    <3>1. ASSUME NEW m \in PlacesFrom(Text(c), pos)
          PROVE  FALSE
      <4>1. m \in 0 .. Len(Text(c))
        BY <1>1, BoundaryBytes DEF PlacesFrom
      <4>2. m = Len(c.left)
        BY <4>1, <2>1, <1>1
      <4>3. QED
        BY <4>2, <2>1
    <3>2. QED
      BY <3>1
  <2>3. FirstPlace(Text(c), pos) = Len(c.left)
    BY <2>1, <2>2, <1>1, FirstPlaceIs
  <2>4. QED
    BY <2>3, <1>1 DEF SetTo
<1>4. QED
  BY <1>2, <1>3

\* It has come to the position when the text has it.
LEMMA WalkFinds ==
    ASSUME NEW c, NEW pos \in Place, NEW p, Walk(c, pos, p)
    PROVE  /\ p = pos => HasPosition(Text(c), pos)
           /\ ~Before(p, pos) /\ p # pos => PastEndOfLine(Text(c), pos)
           /\ Before(p, pos) /\ c.right = <<>> => ~HasPosition(Text(c), pos)
<1> DEFINE t == Text(c)
           n == Len(c.left)
<1>1. /\ t \in Seq(Byte) /\ IsUtf8(t) /\ c.left \in Seq(Byte) /\ c.right \in Seq(Byte)
      /\ SubSeq(t, 1, n) = c.left /\ n \in Nat
      /\ c.right = <<>> => Len(t) = n
      /\ p = PositionAfter(c.left) /\ p \in Place /\ n \in Boundaries(t)
      /\ (n \in PlacesFrom(t, pos) <=> ~Before(p, pos))
      /\ \A m \in PlacesFrom(t, pos) : n <= m
  BY CursorBetween, BetweenIsPlace DEF Walk, Between
<1> HIDE DEF t, n
<1>2. ASSUME NEW m \in Boundaries(t), PositionAfter(SubSeq(t, 1, m)) = pos
      PROVE  m \in PlacesFrom(t, pos) /\ m >= n /\ m \in Nat /\ m <= Len(t)
             /\ ~Before(pos, p)
  <2>1. m \in PlacesFrom(t, pos)
    BY <1>2, BeforeOrders DEF PlacesFrom
  <2>2. m >= n /\ m \in Nat /\ m <= Len(t)
    BY <2>1, <1>1, BoundaryBytes
  <2> DEFINE s == SubSeq(t, 1, m)
             r == SubSeq(s, n + 1, m)
  <2>3. s \in Seq(Byte) /\ Len(s) = m
    BY <2>2, <1>1
  <2>4. SubSeq(s, 1, n) = c.left
    BY <2>2, <2>3, <1>1
  <2>5. r \in Seq(Byte) /\ c.left \o r = s
    <3>1. n \in 0 .. Len(s)
      BY <2>2, <2>3, <1>1
    <3> HIDE DEF s
    <3>2. SubSeq(s, 1, n) \o SubSeq(s, n + 1, Len(s)) = s
      BY <2>3, <3>1, PartsJoin
    <3>3. r \in Seq(Byte)
      BY <2>3, <3>1
    <3>4. QED
      BY <2>3, <2>4, <3>2, <3>3
  <2> HIDE DEF s, r
  <2>6. ~Before(PositionAfter(s), p)
    BY <2>5, <1>1, PositionGoesOn
  <2>7. QED
    BY <2>1, <2>2, <2>6, <1>2 DEF s
<1>3. p = pos => HasPosition(t, pos)
  BY <1>1 DEF HasPosition
<1>4. ASSUME ~Before(p, pos), p # pos
      PROVE  PastEndOfLine(t, pos)
  <2>1. n \in PlacesFrom(t, pos)
    BY <1>1, <1>4
  <2>2. ~HasPosition(t, pos)
    <3>1. SUFFICES ASSUME NEW m \in Boundaries(t), PositionAfter(SubSeq(t, 1, m)) = pos
                   PROVE  FALSE
      BY DEF HasPosition
    <3>2. ~Before(pos, p)
      BY <1>2, <3>1
    <3>3. QED
      BY <3>2, <1>1, <1>4, BeforeOrders
  <2>3. QED
    BY <2>1, <2>2 DEF PastEndOfLine
<1>5. ASSUME Before(p, pos), c.right = <<>>
      PROVE  ~HasPosition(t, pos)
  <2>1. SUFFICES ASSUME NEW m \in Boundaries(t), PositionAfter(SubSeq(t, 1, m)) = pos
                 PROVE  FALSE
    BY DEF HasPosition
  <2>2. m \in PlacesFrom(t, pos) /\ m >= n /\ m \in Nat /\ m <= Len(t)
    BY <1>2, <2>1
  <2>3. m = n
    BY <2>2, <1>1, <1>5
  <2>4. QED
    BY <2>2, <2>3, <1>1, <1>5
<1>6. QED
  BY <1>3, <1>4, <1>5 DEF t

-----------------------------------------------------------------------------
(***************************************************************************)
(* Counting codepoints.                                                    *)
(***************************************************************************)

\* As many numbers, all of them larger by d.
LEMMA CountShifted ==
    ASSUME NEW S \in SUBSET Nat, IsFiniteSet(S), NEW d \in Nat,
           NEW T, T = {d + i : i \in S}
    PROVE  IsFiniteSet(T) /\ Cardinality(T) = Cardinality(S)
<1> DEFINE f == [i \in S |-> d + i]
<1>1. f \in Injection(S, T)
  <2>1. f \in [S -> T]
    OBVIOUS
  <2>2. ASSUME NEW i \in DOMAIN f, NEW j \in DOMAIN f, f[i] = f[j] PROVE i = j
    <3>1. i \in Nat /\ j \in Nat /\ d + i = d + j
      BY <2>2
    <3>2. QED
      BY <3>1
  <2>3. QED
    BY <2>1, <2>2 DEF Injection, IsInjective
<1>2. f \in Surjection(S, T)
  BY DEF Surjection
<1>3. ExistsBijection(S, T)
  BY <1>1, <1>2 DEF ExistsBijection, Bijection
<1>4. QED
  BY <1>3, FS_Bijection

\* The starts of codepoints up to a place, and those beyond it.
StartsTo(t, k) == {i \in Starts(t) : i <= k}
StartsFrom(t, k) == {i \in Starts(t) : i > k}

\* The starts of a text can be counted.
LEMMA StartsCounted ==
    ASSUME NEW t \in Seq(Byte), NEW k
    PROVE  /\ IsFiniteSet(Starts(t)) /\ Starts(t) \in SUBSET Nat
           /\ IsFiniteSet(StartsTo(t, k)) /\ IsFiniteSet(StartsFrom(t, k))
           /\ StartsTo(t, k) \in SUBSET Nat /\ StartsFrom(t, k) \in SUBSET Nat
           /\ Cardinality(Starts(t)) \in Nat
           /\ Cardinality(StartsTo(t, k)) \in Nat /\ Cardinality(StartsFrom(t, k)) \in Nat
           /\ \A n \in Nat : Available(t, n) \in Nat /\ Available(t, n) <= n
           /\ Available(t, 0) = 0
<1>1. IsFiniteSet(1 .. Len(t)) /\ Starts(t) \subseteq 1 .. Len(t)
      /\ StartsTo(t, k) \subseteq 1 .. Len(t) /\ StartsFrom(t, k) \subseteq 1 .. Len(t)
  BY FS_Interval DEF Starts, StartsTo, StartsFrom
<1>2. /\ IsFiniteSet(Starts(t)) /\ IsFiniteSet(StartsTo(t, k))
      /\ IsFiniteSet(StartsFrom(t, k))
  BY <1>1, FS_Subset
<1>3. /\ Cardinality(Starts(t)) \in Nat
      /\ Cardinality(StartsTo(t, k)) \in Nat /\ Cardinality(StartsFrom(t, k)) \in Nat
  BY <1>2, FS_CardinalityType
<1>4. QED
  BY <1>1, <1>2, <1>3 DEF Available

\* Where forward_chars over n codepoints comes to in t, and backward_chars.
ForwardTo(t, n, k) == /\ k \in Boundaries(t)
                      /\ Cardinality(StartsTo(t, k)) = Available(t, n)
BackTo(t, n, k) == /\ k \in Boundaries(t)
                   /\ Cardinality(StartsFrom(t, k)) = Available(t, n)

\* There is one such place at most.
LEMMA OnePlace ==
    ASSUME NEW t \in Seq(Byte), NEW n, NEW k, NEW m
    PROVE  /\ ForwardTo(t, n, k) /\ ForwardTo(t, n, m) => k = m
           /\ BackTo(t, n, k) /\ BackTo(t, n, m) => k = m
<1>1. ASSUME NEW a \in Boundaries(t), NEW b \in Boundaries(t), a < b
      PROVE  /\ Cardinality(StartsTo(t, a)) # Cardinality(StartsTo(t, b))
             /\ Cardinality(StartsFrom(t, a)) # Cardinality(StartsFrom(t, b))
  <2>1. /\ a \in Nat /\ b \in Nat /\ b <= Len(t) /\ Len(t) \in Nat
        /\ a = Len(t) \/ ~IsContinuation(t[a + 1])
    BY BoundaryBytes
  <2>2. a + 1 \in Starts(t) /\ a + 1 <= b /\ a + 1 > a /\ ~(a + 1 <= a) /\ ~(a + 1 > b)
    BY <2>1, <1>1 DEF Starts
  <2>3. \A i \in Starts(t) : i \in Nat /\ (i <= a => i <= b) /\ (i > b => i > a)
    <3>1. \A i \in Starts(t) : i \in Nat
      BY StartsCounted
    <3>2. QED
      BY <3>1, <2>1, <1>1
  <2>4. StartsTo(t, a) \in SUBSET StartsTo(t, b) /\ StartsFrom(t, b) \in SUBSET StartsFrom(t, a)
    BY <2>3 DEF StartsTo, StartsFrom
  <2>5. StartsTo(t, a) # StartsTo(t, b) /\ StartsFrom(t, a) # StartsFrom(t, b)
    BY <2>2 DEF StartsTo, StartsFrom
  <2>6. QED
    BY <2>4, <2>5, StartsCounted, FS_Subset
<1>2. \A a \in Boundaries(t) : a \in Nat
  BY BoundaryBytes
<1>3. ASSUME k \in Boundaries(t), m \in Boundaries(t), k # m
      PROVE  k < m \/ m < k
  BY <1>2, <1>3
<1>4. QED
  BY <1>1, <1>3 DEF ForwardTo, BackTo

\* No codepoint to skip, or none in the text.
LEMMA NothingToSkip ==
    ASSUME NEW t \in Seq(Byte), NEW n \in Nat
    PROVE  /\ n = 0 \/ t = <<>> => Available(t, n) = 0
           /\ n = 0 \/ t = <<>> => BackTo(t, n, Len(t))
           /\ (n = 0 \/ t = <<>>) /\ 0 \in Boundaries(t) => ForwardTo(t, n, 0)
<1>1. t = <<>> => Starts(t) = {}
  BY DEF Starts
<1>2. t = <<>> => Cardinality(Starts(t)) = 0
  BY <1>1, FS_EmptySet
<1>3. n = 0 \/ t = <<>> => Available(t, n) = 0
  BY <1>2, StartsCounted DEF Available
<1>4. StartsTo(t, 0) = {} /\ StartsFrom(t, Len(t)) = {}
  BY DEF StartsTo, StartsFrom, Starts
<1>5. QED
  BY <1>3, <1>4, FS_EmptySet, BoundaryBytes DEF BackTo, ForwardTo

\* One codepoint more in front.
LEMMA StartsAfterOne ==
    ASSUME NEW p, IsCodepoint(p), NEW u \in Seq(Byte)
    PROVE  /\ Starts(p \o u) = {1} \cup {Len(p) + i : i \in Starts(u)}
           /\ Cardinality(Starts(p \o u)) = Cardinality(Starts(u)) + 1
           /\ \A k \in Nat :
                 Cardinality(StartsTo(p \o u, Len(p) + k)) = Cardinality(StartsTo(u, k)) + 1
<1> DEFINE t == p \o u
           a == Len(p)
           b == Len(u)
<1>1. /\ p \in Seq(Byte) /\ t \in Seq(Byte) /\ Len(t) = a + b /\ a \in Nat /\ b \in Nat
      /\ a >= 1
      /\ \A i \in 1 .. a : t[i] = p[i]
      /\ \A i \in 1 .. b : t[a + i] = u[i]
      /\ ~IsContinuation(p[1]) /\ \A j \in 2 .. a : IsContinuation(p[j])
  BY DEF IsCodepoint
<1>2. /\ \A i : i \in Starts(t) <=> i \in 1 .. a + b /\ ~IsContinuation(t[i])
      /\ \A i : i \in Starts(u) <=> i \in 1 .. b /\ ~IsContinuation(u[i])
  BY <1>1 DEF Starts
<1> DEFINE shifted(S) == {a + i : i \in S}
<1> HIDE DEF t, a, b
<1>3. 1 \in Starts(t)
  BY <1>1, <1>2
<1>4. ASSUME NEW i \in Starts(t), i # 1
      PROVE  \E j \in Starts(u) : i = a + j
  <2>1. i \in 1 .. a + b /\ ~IsContinuation(t[i])
    BY <1>2
  <2>2. i \notin 2 .. a
    BY <2>1, <1>1
  <2>3. i - a \in 1 .. b /\ i = a + (i - a)
    BY <2>1, <2>2, <1>1, <1>4
  <2>4. t[a + (i - a)] = u[i - a]
    BY <2>3, <1>1
  <2>5. i - a \in Starts(u)
    BY <2>1, <2>3, <2>4, <1>2
  <2>6. QED
    BY <2>3, <2>5
<1>5. ASSUME NEW j \in Starts(u)
      PROVE  a + j \in Starts(t) /\ a + j # 1 /\ j \in Nat
  <2>1. j \in 1 .. b /\ ~IsContinuation(u[j])
    BY <1>2
  <2>2. a + j \in 1 .. a + b /\ a + j # 1 /\ j \in Nat
    BY <2>1, <1>1
  <2>3. t[a + j] = u[j]
    BY <2>1, <1>1
  <2>4. QED
    BY <2>1, <2>2, <2>3, <1>2
<1>6. Starts(t) = {1} \cup shifted(Starts(u))
  BY <1>3, <1>4, <1>5
<1>7. ASSUME NEW S \in SUBSET Starts(u)
      PROVE  /\ IsFiniteSet(shifted(S)) /\ Cardinality(shifted(S)) = Cardinality(S)
             /\ Cardinality({1} \cup shifted(S)) = Cardinality(S) + 1
  <2>1. S \in SUBSET Nat /\ IsFiniteSet(S)
    BY StartsCounted, FS_Subset
  <2>2. IsFiniteSet(shifted(S)) /\ Cardinality(shifted(S)) = Cardinality(S)
    BY <2>1, <1>1, CountShifted, ZenonT(30)
  <2>3. 1 \notin shifted(S)
    BY <1>5
  <2> HIDE DEF shifted
  <2>4. Cardinality(shifted(S) \cup {1}) = Cardinality(S) + 1
    BY <2>2, <2>3, FS_AddElement
  <2>5. QED
    BY <2>2, <2>4
<1>8. Cardinality(Starts(t)) = Cardinality(Starts(u)) + 1
  BY <1>6, <1>7
<1>9. ASSUME NEW k \in Nat
      PROVE  Cardinality(StartsTo(t, a + k)) = Cardinality(StartsTo(u, k)) + 1
  <2>1. StartsTo(t, a + k) = {1} \cup shifted(StartsTo(u, k))
    <3>1. 1 <= a + k
      BY <1>1
    <3>2. \A j \in Starts(u) : a + j <= a + k <=> j <= k
      BY <1>1, <1>5
    <3>3. QED
      BY <3>1, <3>2, <1>6 DEF StartsTo
  <2>2. StartsTo(u, k) \in SUBSET Starts(u)
    BY DEF StartsTo
  <2>3. QED
    BY <2>1, <2>2, <1>7
<1>10. QED
  BY <1>6, <1>8, <1>9 DEF t, a

\* One byte more at the end.
LEMMA StartsBeforeOne ==
    ASSUME NEW u \in Seq(Byte), NEW x \in Byte
    PROVE  LET t == Append(u, x)
           IN  /\ IsContinuation(x) => Starts(t) = Starts(u)
               /\ ~IsContinuation(x) => /\ Starts(t) = Starts(u) \cup {Len(u) + 1}
                                        /\ Cardinality(Starts(t)) = Cardinality(Starts(u)) + 1
               /\ \A k \in 0 .. Len(u) :
                     /\ IsContinuation(x) => StartsFrom(t, k) = StartsFrom(u, k)
                     /\ ~IsContinuation(x) => Cardinality(StartsFrom(t, k))
                                                = Cardinality(StartsFrom(u, k)) + 1
<1> DEFINE t == Append(u, x)
           n == Len(u)
<1>1. /\ t \in Seq(Byte) /\ Len(t) = n + 1 /\ n \in Nat
      /\ \A i \in 1 .. n : t[i] = u[i]
      /\ t[n + 1] = x
  OBVIOUS
<1>2. /\ \A i : i \in Starts(t) <=> i \in 1 .. n + 1 /\ ~IsContinuation(t[i])
      /\ \A i : i \in Starts(u) <=> i \in 1 .. n /\ ~IsContinuation(u[i])
  BY <1>1 DEF Starts
<1> HIDE DEF t, n
<1>3. \A i : i \in 1 .. n + 1 <=> i \in 1 .. n \/ i = n + 1
  BY <1>1
<1>4. n + 1 \notin 1 .. n
  BY <1>1
<1>5. IsContinuation(x) => Starts(t) = Starts(u)
  BY <1>1, <1>2, <1>3, <1>4
<1>6. ~IsContinuation(x) => Starts(t) = Starts(u) \cup {n + 1}
  BY <1>1, <1>2, <1>3, <1>4
<1>7. ASSUME NEW S \in SUBSET Starts(u)
      PROVE  Cardinality(S \cup {n + 1}) = Cardinality(S) + 1
  <2>1. n + 1 \notin S
    BY <1>2, <1>4
  <2>2. IsFiniteSet(S)
    BY StartsCounted, FS_Subset
  <2>3. QED
    BY <2>1, <2>2, FS_AddElement
<1>8. ASSUME NEW k \in 0 .. n
      PROVE  /\ IsContinuation(x) => StartsFrom(t, k) = StartsFrom(u, k)
             /\ ~IsContinuation(x) => Cardinality(StartsFrom(t, k))
                                        = Cardinality(StartsFrom(u, k)) + 1
  <2>1. n + 1 > k
    BY <1>1
  <2>2. ~IsContinuation(x) => StartsFrom(t, k) = StartsFrom(u, k) \cup {n + 1}
    BY <2>1, <1>6 DEF StartsFrom
  <2>3. StartsFrom(u, k) \in SUBSET Starts(u)
    BY DEF StartsFrom
  <2>4. QED
    BY <2>2, <2>3, <1>5, <1>7 DEF StartsFrom
<1>9. QED
  BY <1>5, <1>6, <1>7, <1>8 DEF t, n

\* The place is one codepoint further on when there is one more in front.
LEMMA ForwardOne ==
    ASSUME NEW p, IsCodepoint(p), NEW u \in Seq(Byte), NEW n \in Nat, n > 0
    PROVE  /\ Available(p \o u, n) = Available(u, n - 1) + 1
           /\ \A k : ForwardTo(u, n - 1, k) => ForwardTo(p \o u, n, Len(p) + k)
<1>1. p \in Seq(Byte) /\ Len(p) \in Nat /\ p \o u \in Seq(Byte)
  BY DEF IsCodepoint
<1>2. Cardinality(Starts(p \o u)) = Cardinality(Starts(u)) + 1
      /\ Cardinality(Starts(u)) \in Nat
  BY StartsAfterOne, StartsCounted
<1>3. Available(p \o u, n) = Available(u, n - 1) + 1
  BY <1>2 DEF Available
<1>4. ASSUME NEW k, ForwardTo(u, n - 1, k)
      PROVE  ForwardTo(p \o u, n, Len(p) + k)
  <2>1. k \in Boundaries(u) /\ k \in 0 .. Len(u) /\ k \in Nat
    BY <1>4, BoundaryBytes DEF ForwardTo
  <2>2. Len(p) + k \in Boundaries(p \o u)
    BY <2>1, <1>1, BoundariesJoined
  <2>3. Cardinality(StartsTo(p \o u, Len(p) + k)) = Available(u, n - 1) + 1
    BY <2>1, <1>4, StartsAfterOne DEF ForwardTo
  <2>4. QED
    BY <2>2, <2>3, <1>3 DEF ForwardTo
<1>5. QED
  BY <1>3, <1>4

\* And there is one.
LEMMA ForwardExists ==
    ASSUME NEW t \in Seq(Byte), IsUtf8(t), NEW n \in Nat
    PROVE  \E k : ForwardTo(t, n, k)
<1> DEFINE T == {m \in Nat : \A s \in Seq(Byte) : IsUtf8(s) => \E k : ForwardTo(s, m, k)}
<1>1. 0 \in T
  <2>1. SUFFICES ASSUME NEW s \in Seq(Byte), IsUtf8(s) PROVE \E k : ForwardTo(s, 0, k)
    OBVIOUS
  <2>2. 0 \in Boundaries(s)
    BY <2>1, FirstCodepoint, Utf8Nothing
  <2>3. QED
    BY <2>2, NothingToSkip
<1>2. ASSUME NEW m \in Nat, m \in T
      PROVE  m + 1 \in T
  <2>1. SUFFICES ASSUME NEW s \in Seq(Byte), IsUtf8(s)
                 PROVE  \E k : ForwardTo(s, m + 1, k)
    OBVIOUS
  <2>2. CASE s = <<>>
    <3>1. 0 \in Boundaries(s) /\ m + 1 \in Nat
      BY <2>2, Utf8Nothing
    <3>2. ForwardTo(s, m + 1, 0)
      BY <2>2, <3>1, NothingToSkip
    <3>3. QED
      BY <3>2
  <2>3. CASE s # <<>>
    <3> DEFINE j == CharSize(s[1])
               p == SubSeq(s, 1, j)
               u == SubSeq(s, j + 1, Len(s))
    <3>1. IsCodepoint(p) /\ j \in Boundaries(s) /\ j \in 0 .. Len(s)
      BY <2>1, <2>3, FirstCodepoint
    <3>2. u \in Seq(Byte) /\ IsUtf8(u)
      BY <2>1, <3>1, Utf8Cut
    <3>3. p \o u = s
      BY <3>1, PartsJoin
    <3>4. PICK k : ForwardTo(u, m, k)
      BY <3>2, <1>2
    <3> HIDE DEF p, u
    <3>5. m + 1 > 0 /\ m + 1 \in Nat /\ (m + 1) - 1 = m
      OBVIOUS
    <3>6. ForwardTo(p \o u, m + 1, Len(p) + k)
      BY <3>1, <3>2, <3>4, <3>5, ForwardOne
    <3>7. QED
      BY <3>3, <3>6
  <2>4. QED
    BY <2>2, <2>3
<1> HIDE DEF T
<1>3. n \in T
  BY <1>1, <1>2, Inductive
<1>4. QED
  BY <1>3 DEF T

\* The place is the same when a byte more follows the text, and one
\* codepoint more is skipped if the byte starts one.
LEMMA BackOne ==
    ASSUME NEW u \in Seq(Byte), NEW x \in Byte, NEW n \in Nat, n > 0
    PROVE  /\ ~IsContinuation(x) =>
                 /\ Available(Append(u, x), n) = Available(u, n - 1) + 1
                 /\ \A k : BackTo(u, n - 1, k) => BackTo(Append(u, x), n, k)
           /\ IsContinuation(x) /\ Starts(u) # {} =>
                 /\ Available(Append(u, x), n) = Available(u, n)
                 /\ \A k : BackTo(u, n, k) => BackTo(Append(u, x), n, k)
<1> DEFINE t == Append(u, x)
<1>1. /\ t \in Seq(Byte) /\ Len(t) = Len(u) + 1 /\ Len(u) \in Nat
      /\ \A i \in 1 .. Len(u) : t[i] = u[i]
      /\ t[Len(u) + 1] = x
  OBVIOUS
<1>2. Cardinality(Starts(u)) \in Nat
  BY StartsCounted
<1> HIDE DEF t
<1>3. ASSUME NEW k \in Boundaries(u), k = Len(u) => ~IsContinuation(x)
      PROVE  k \in Boundaries(t) /\ k \in 0 .. Len(u)
  <2>1. k \in 0 .. Len(u) /\ (k = Len(u) \/ ~IsContinuation(u[k + 1]))
    BY BoundaryBytes
  <2>2. k \in 0 .. Len(t) /\ k + 1 \in 1 .. Len(t)
    BY <2>1, <1>1
  <2>3. ~IsContinuation(t[k + 1])
    <3>1. CASE k = Len(u)
      BY <3>1, <1>1, <1>3
    <3>2. CASE k # Len(u)
      <4>1. k + 1 \in 1 .. Len(u)
        BY <2>1, <3>2, <1>1
      <4>2. QED
        BY <4>1, <2>1, <3>2, <1>1
    <3>3. QED
      BY <3>1, <3>2
  <2>4. QED
    BY <2>1, <2>2, <2>3, <1>1, BoundaryBytes
<1>4. CASE ~IsContinuation(x)
  <2>1. Cardinality(Starts(t)) = Cardinality(Starts(u)) + 1
    BY <1>4, StartsBeforeOne DEF t
  <2>2. Available(t, n) = Available(u, n - 1) + 1
    BY <2>1, <1>2 DEF Available
  <2>3. ASSUME NEW k, BackTo(u, n - 1, k)
        PROVE  BackTo(t, n, k)
    <3>1. k \in Boundaries(t) /\ k \in 0 .. Len(u)
      BY <2>3, <1>3, <1>4 DEF BackTo
    <3>2. Cardinality(StartsFrom(t, k)) = Cardinality(StartsFrom(u, k)) + 1
      BY <3>1, <1>4, StartsBeforeOne DEF t
    <3>3. QED
      BY <3>1, <3>2, <2>2, <2>3 DEF BackTo
  <2>4. QED
    BY <2>2, <2>3, <1>4 DEF t
<1>5. CASE IsContinuation(x) /\ Starts(u) # {}
  <2>1. Starts(t) = Starts(u)
    BY <1>5, StartsBeforeOne DEF t
  <2>2. Available(t, n) = Available(u, n)
    BY <2>1 DEF Available
  <2>3. Available(u, n) > 0
    <3>1. Cardinality(Starts(u)) # 0
      BY <1>5, StartsCounted, FS_EmptySet
    <3>2. QED
      BY <3>1, <1>2 DEF Available
  <2>4. ASSUME NEW k, BackTo(u, n, k)
        PROVE  BackTo(t, n, k)
    <3>1. k # Len(u)
      <4>1. StartsFrom(u, Len(u)) = {}
        BY DEF StartsFrom, Starts
      <4>2. k = Len(u) => Cardinality(StartsFrom(u, k)) = 0
        BY <4>1, FS_EmptySet
      <4>3. Cardinality(StartsFrom(u, k)) = Available(u, n)
        BY <2>4 DEF BackTo
      <4>4. QED
        BY <4>2, <4>3, <2>3
    <3>2. k \in Boundaries(t) /\ k \in 0 .. Len(u)
      BY <2>4, <3>1, <1>3 DEF BackTo
    <3>3. StartsFrom(t, k) = StartsFrom(u, k)
      BY <3>2, <1>5, StartsBeforeOne DEF t
    <3>4. QED
      BY <3>2, <3>3, <2>2, <2>4 DEF BackTo
  <2>5. QED
    BY <2>2, <2>4, <1>5 DEF t
<1>6. QED
  BY <1>4, <1>5 DEF t

\* A text without its last byte.
LEMMA WithoutLast ==
    ASSUME NEW t \in Seq(Byte), t # <<>>
    PROVE  LET u == SubSeq(t, 1, Len(t) - 1)
               x == t[Len(t)]
           IN  /\ u \in Seq(Byte) /\ x \in Byte /\ t = Append(u, x)
               /\ Len(u) = Len(t) - 1
               /\ u # <<>> => u[1] = t[1]
               /\ u = <<>> => x = t[1]
<1> DEFINE u == SubSeq(t, 1, Len(t) - 1)
           x == t[Len(t)]
<1>1. /\ Len(t) \in Nat /\ Len(t) >= 1 /\ Len(t) - 1 \in Nat
      /\ Len(t) \in 1 .. Len(t)
  OBVIOUS
<1>2. /\ u \in Seq(Byte) /\ Len(u) = Len(t) - 1 /\ x \in Byte
      /\ \A i \in 1 .. Len(t) - 1 : u[i] = t[i]
  <2>1. PICK n \in Nat : n = Len(t) - 1
    BY <1>1
  <2>2. u = SubSeq(t, 1, n) /\ n <= Len(t)
    BY <1>1, <2>1
  <2>3. u \in Seq(Byte) /\ Len(u) = n /\ \A i \in 1 .. n : u[i] = t[i]
    BY <2>2
  <2>4. x \in Byte
    BY <1>1
  <2>5. QED
    BY <2>1, <2>3, <2>4
<1> HIDE DEF u
<1>3. t = Append(u, x)
  <2>1. Append(u, x) \in Seq(Byte) /\ Len(Append(u, x)) = Len(t)
    BY <1>1, <1>2
  <2>2. \A i \in 1 .. Len(t) : Append(u, x)[i] = t[i]
    BY <1>1, <1>2
  <2>3. QED
    BY <2>1, <2>2, SeqEqual
<1>4. u # <<>> => Len(u) >= 1
  BY <1>2
<1>5. u = <<>> => Len(t) = 1
  BY <1>1, <1>2
<1>6. QED
  BY <1>1, <1>2, <1>3, <1>4, <1>5 DEF u

\* There is always a place to go back to.
LEMMA BackExists ==
    ASSUME NEW t \in Seq(Byte), t # <<>> => ~IsContinuation(t[1]), NEW n \in Nat
    PROVE  \E k : BackTo(t, n, k)
<1> DEFINE Begins(s) == s # <<>> => ~IsContinuation(s[1])
           T == {m \in Nat : \A s \in Seq(Byte), i \in Nat :
                               Len(s) = m /\ Begins(s) => \E k : BackTo(s, i, k)}
<1>1. 0 \in T
  <2>1. SUFFICES ASSUME NEW s \in Seq(Byte), NEW i \in Nat, Len(s) = 0
                 PROVE  \E k : BackTo(s, i, k)
    OBVIOUS
  <2>2. s = <<>>
    BY <2>1, NothingIsSeq
  <2>3. QED
    BY <2>2, NothingToSkip
<1>2. ASSUME NEW m \in Nat, m \in T
      PROVE  m + 1 \in T
  <2>1. SUFFICES ASSUME NEW s \in Seq(Byte), NEW i \in Nat, Len(s) = m + 1, Begins(s)
                 PROVE  \E k : BackTo(s, i, k)
    OBVIOUS
  <2>2. CASE i = 0
    BY <2>2, NothingToSkip
  <2>3. CASE i > 0
    <3>1. s # <<>> /\ ~IsContinuation(s[1])
      BY <2>1
    <3>2. PICK u \in Seq(Byte), x \in Byte :
             /\ s = Append(u, x) /\ Len(u) = m
             /\ u # <<>> => u[1] = s[1]
             /\ u = <<>> => x = s[1]
      <4>1. /\ SubSeq(s, 1, Len(s) - 1) \in Seq(Byte) /\ s[Len(s)] \in Byte
            /\ s = Append(SubSeq(s, 1, Len(s) - 1), s[Len(s)])
            /\ Len(SubSeq(s, 1, Len(s) - 1)) = Len(s) - 1
            /\ SubSeq(s, 1, Len(s) - 1) # <<>> => SubSeq(s, 1, Len(s) - 1)[1] = s[1]
            /\ SubSeq(s, 1, Len(s) - 1) = <<>> => s[Len(s)] = s[1]
        BY <3>1, WithoutLast
      <4>2. Len(s) - 1 = m
        BY <2>1
      <4>3. QED
        BY <4>1, <4>2
    <3>3. Begins(u)
      BY <3>1, <3>2
    <3>4. \A j \in Nat : \E k : BackTo(u, j, k)
      BY <3>2, <3>3, <1>2
    <3>5. CASE ~IsContinuation(x)
      <4>1. i - 1 \in Nat
        BY <2>3
      <4>2. PICK k : BackTo(u, i - 1, k)
        BY <3>4, <4>1
      <4>3. QED
        BY <4>2, <3>2, <3>5, <2>3, BackOne
    <3>6. CASE IsContinuation(x)
      <4>1. u # <<>> /\ ~IsContinuation(u[1])
        BY <3>1, <3>2, <3>6
      <4>2. 1 \in Starts(u)
        BY <4>1 DEF Starts
      <4>3. PICK k : BackTo(u, i, k)
        BY <3>4
      <4>4. QED
        BY <4>2, <4>3, <3>2, <3>6, <2>3, BackOne
    <3>7. QED
      BY <3>5, <3>6
  <2>4. QED
    BY <2>2, <2>3
<1>3. Len(t) \in Nat /\ Begins(t)
  OBVIOUS
<1> HIDE DEF T, Begins
<1>4. Len(t) \in T
  BY <1>1, <1>2, <1>3, Inductive
<1>5. QED
  BY <1>3, <1>4 DEF T

-----------------------------------------------------------------------------
(***************************************************************************)
(* What the calls do to a cursor between codepoints.                       *)
(***************************************************************************)

\* Parts of a cursor's text, at a place between its codepoints.
LEMMA StepsBetween ==
    ASSUME NEW c, Between(c)
    PROVE  /\ \A k \in Boundaries(c.right) :
                 /\ k \in 0 .. Len(c.right)
                 /\ Between(Advanced(c, k))
                 /\ Between(Erased(c, k))
           /\ \A k \in Boundaries(c.left) : Between(Retreated(c, Len(c.left) - k))
           /\ \A s \in Seq(Byte) : IsUtf8(s) => Between(Typed(c, s))
<1> DEFINE l == c.left
           r == c.right
<1>1. l \in Seq(Byte) /\ r \in Seq(Byte) /\ IsUtf8(l) /\ IsUtf8(r)
  BY CursorBetween DEF Between
<1>2. /\ \A k : Advanced(c, k) = [left |-> l \o SubSeq(r, 1, k),
                                  right |-> SubSeq(r, k + 1, Len(r))]
      /\ \A k : Erased(c, k) = [left |-> l, right |-> SubSeq(r, k + 1, Len(r))]
      /\ \A k : Retreated(c, k) = [left |-> SubSeq(l, 1, Len(l) - k),
                                   right |-> SubSeq(l, Len(l) - k + 1, Len(l)) \o r]
      /\ \A s : Typed(c, s) = [left |-> l \o s, right |-> r]
  BY DEF Advanced, Erased, Retreated, Typed
<1>3. ASSUME NEW a \in Seq(Byte), NEW b \in Seq(Byte), IsUtf8(a), IsUtf8(b)
      PROVE  Between([left |-> a, right |-> b])
  BY <1>3 DEF Between, CursorsOver
<1> HIDE DEF l, r
<1>4. ASSUME NEW k \in Boundaries(r)
      PROVE  k \in 0 .. Len(r) /\ Between(Advanced(c, k)) /\ Between(Erased(c, k))
  <2>1. k \in 0 .. Len(r)
    BY <1>1, BoundaryBytes
  <2>2. /\ SubSeq(r, 1, k) \in Seq(Byte) /\ IsUtf8(SubSeq(r, 1, k))
        /\ SubSeq(r, k + 1, Len(r)) \in Seq(Byte) /\ IsUtf8(SubSeq(r, k + 1, Len(r)))
    BY <1>1, Utf8Cut
  <2>3. l \o SubSeq(r, 1, k) \in Seq(Byte) /\ IsUtf8(l \o SubSeq(r, 1, k))
    BY <1>1, <2>2, Utf8Concat
  <2>4. QED
    BY <1>1, <1>2, <1>3, <2>1, <2>2, <2>3
<1>5. ASSUME NEW k \in Boundaries(l)
      PROVE  Between(Retreated(c, Len(l) - k))
  <2>1. k \in Nat /\ Len(l) \in Nat
    BY <1>1, BoundaryBytes
  <2>2. /\ SubSeq(l, 1, k) \in Seq(Byte) /\ IsUtf8(SubSeq(l, 1, k))
        /\ SubSeq(l, k + 1, Len(l)) \in Seq(Byte) /\ IsUtf8(SubSeq(l, k + 1, Len(l)))
    BY <1>1, Utf8Cut
  <2>3. SubSeq(l, k + 1, Len(l)) \o r \in Seq(Byte) /\ IsUtf8(SubSeq(l, k + 1, Len(l)) \o r)
    BY <1>1, <2>2, Utf8Concat
  <2>4. Len(l) - (Len(l) - k) = k
    BY <2>1
  <2>5. Retreated(c, Len(l) - k) = [left |-> SubSeq(l, 1, k),
                                    right |-> SubSeq(l, k + 1, Len(l)) \o r]
    BY <1>2, <2>4
  <2>6. QED
    BY <1>3, <2>2, <2>3, <2>5
<1>6. ASSUME NEW s \in Seq(Byte), IsUtf8(s)
      PROVE  Between(Typed(c, s))
  <2>1. l \o s \in Seq(Byte) /\ IsUtf8(l \o s)
    BY <1>1, <1>6, Utf8Concat
  <2>2. Typed(c, s) = [left |-> l \o s, right |-> r]
    BY <1>2
  <2>3. QED
    BY <1>1, <1>3, <2>1, <2>2
<1>7. QED
  BY <1>4, <1>5, <1>6 DEF l, r

\* Moving by nothing.
LEMMA NoStep ==
    ASSUME NEW c \in CursorsOver(Byte)
    PROVE  Advanced(c, 0) = c /\ Retreated(c, 0) = c /\ Erased(c, 0) = c
           /\ Retreated(c, Len(c.left) - Len(c.left)) = c
<1> DEFINE l == c.left
           r == c.right
<1>1. l \in Seq(Byte) /\ r \in Seq(Byte) /\ c = [left |-> l, right |-> r]
  BY DEF CursorsOver
<1>2. Advanced(c, 0) = [left |-> l \o SubSeq(r, 1, 0), right |-> SubSeq(r, 0 + 1, Len(r))]
      /\ Erased(c, 0) = [left |-> l, right |-> SubSeq(r, 0 + 1, Len(r))]
      /\ Retreated(c, 0) = [left |-> SubSeq(l, 1, Len(l) - 0),
                            right |-> SubSeq(l, Len(l) - 0 + 1, Len(l)) \o r]
  BY DEF Advanced, Erased, Retreated
<1> HIDE DEF l, r
<1>3. SubSeq(r, 1, 0) = <<>> /\ SubSeq(r, 0 + 1, Len(r)) = r
  BY <1>1
<1>4. SubSeq(l, 1, Len(l) - 0) = l /\ SubSeq(l, Len(l) - 0 + 1, Len(l)) = <<>>
  BY <1>1
<1>5. l \o <<>> = l /\ <<>> \o r = r
  BY <1>1, ConcatNothing
<1>6. Len(l) - Len(l) = 0
  BY <1>1
<1>7. QED
  BY <1>1, <1>2, <1>3, <1>4, <1>5, <1>6 DEF l

\* Moving forward in two goes.
LEMMA AdvancedTwice ==
    ASSUME NEW S, NEW c \in CursorsOver(S), NEW m \in Nat, NEW n \in Nat,
           m + n <= Len(c.right)
    PROVE  /\ m \in 0 .. Len(c.right)
           /\ n \in 0 .. Len(Advanced(c, m).right)
           /\ m + n \in 0 .. Len(c.right)
           /\ Advanced(Advanced(c, m), n) = Advanced(c, m + n)
<1> DEFINE l == c.left
           r == c.right
           a == SubSeq(r, 1, m)
           x == SubSeq(r, m + 1, Len(r))
<1>1. l \in Seq(S) /\ r \in Seq(S) /\ m + n <= Len(r)
  BY DEF CursorsOver
<1>2. Advanced(c, m) = [left |-> l \o a, right |-> x]
      /\ Advanced(c, m + n) = [left |-> l \o SubSeq(r, 1, m + n),
                               right |-> SubSeq(r, m + n + 1, Len(r))]
  BY DEF Advanced
<1> HIDE DEF l, r
<1>3. m \in 0 .. Len(r) /\ m + n \in 0 .. Len(r) /\ Len(r) \in Nat
  BY <1>1
<1>4. a \in Seq(S) /\ x \in Seq(S) /\ Len(x) = Len(r) - m /\ n <= Len(x)
  BY <1>1, <1>3
<1>5. SubSeq(x, 1, n) = SubSeq(r, m + 1, m + n)
      /\ SubSeq(x, n + 1, Len(x)) = SubSeq(r, m + n + 1, Len(r))
  BY <1>1, <1>3, <1>4
<1>6. a \o SubSeq(r, m + 1, m + n) = SubSeq(r, 1, m + n)
  <2>1. 1 \in 1 .. Len(r) + 1 /\ m \in 1 - 1 .. Len(r) /\ m + n \in m .. Len(r)
    BY <1>1, <1>3
  <2>2. QED
    BY <1>1, <2>1, ConcatAdjacentSubSeq
<1>7. SubSeq(r, m + 1, m + n) \in Seq(S)
  BY <1>1, <1>3
<1>8. (l \o a) \o SubSeq(x, 1, n) = l \o SubSeq(r, 1, m + n)
  <2> DEFINE y == SubSeq(r, m + 1, m + n)
  <2>1. l \in Seq(S) /\ a \in Seq(S) /\ y \in Seq(S)
    BY <1>1, <1>4, <1>7
  <2> HIDE DEF a, y
  <2>2. (l \o a) \o y = l \o (a \o y)
    BY <2>1, ConcatThree
  <2>3. QED
    BY <1>5, <1>6, <2>2 DEF y
<1> DEFINE la == l \o a
<1>9. Advanced(Advanced(c, m), n)
        = [left |-> la \o SubSeq(x, 1, n), right |-> SubSeq(x, n + 1, Len(x))]
      /\ Advanced(c, m).right = x
  <2> HIDE DEF la, x
  <2>1. Advanced(c, m) = [left |-> la, right |-> x]
    BY <1>2 DEF la
  <2>2. Advanced(c, m).left = la /\ Advanced(c, m).right = x
    BY <2>1
  <2>3. QED
    BY <2>2 DEF Advanced
<1>10. n \in 0 .. Len(Advanced(c, m).right)
  BY <1>4, <1>9
<1>11. QED
  BY <1>2, <1>3, <1>5, <1>8, <1>9, <1>10 DEF r

\* SkippedForward and SkippedBackward choose the only place there is.
LEMMA SkipsTo ==
    ASSUME NEW c \in CursorsOver(Byte), NEW n, NEW k
    PROVE  /\ ForwardTo(c.right, n, k) => SkippedForward(c, n) = Advanced(c, k)
           /\ BackTo(c.left, n, k)
                => SkippedBackward(c, n) = Retreated(c, Len(c.left) - k)
<1>1. c.left \in Seq(Byte) /\ c.right \in Seq(Byte)
  BY CursorBetween
<1> DEFINE F(j) == Cardinality(StartsTo(c.right, j)) = Available(c.right, n)
           B(j) == Cardinality(StartsFrom(c.left, j)) = Available(c.left, n)
<1>2. SkippedForward(c, n) = Advanced(c, CHOOSE j \in Boundaries(c.right) : F(j))
  BY DEF SkippedForward, StartsTo
<1>3. SkippedBackward(c, n)
        = Retreated(c, Len(c.left) - CHOOSE j \in Boundaries(c.left) : B(j))
  BY DEF SkippedBackward, StartsFrom
<1>4. /\ \A j : ForwardTo(c.right, n, j) <=> j \in Boundaries(c.right) /\ F(j)
      /\ \A j : BackTo(c.left, n, j) <=> j \in Boundaries(c.left) /\ B(j)
  BY DEF ForwardTo, BackTo
<1> HIDE DEF F, B
<1>5. ASSUME ForwardTo(c.right, n, k)
      PROVE  (CHOOSE j \in Boundaries(c.right) : F(j)) = k
  <2> DEFINE m == CHOOSE j \in Boundaries(c.right) : F(j)
  <2>1. m \in Boundaries(c.right) /\ F(m)
    BY <1>4, <1>5
  <2> HIDE DEF m
  <2>2. ForwardTo(c.right, n, m)
    BY <1>4, <2>1
  <2>3. m = k
    BY <1>1, <1>5, <2>2, OnePlace
  <2>4. QED
    BY <2>3 DEF m
<1>6. ASSUME BackTo(c.left, n, k)
      PROVE  (CHOOSE j \in Boundaries(c.left) : B(j)) = k
  <2> DEFINE m == CHOOSE j \in Boundaries(c.left) : B(j)
  <2>1. m \in Boundaries(c.left) /\ B(m)
    BY <1>4, <1>6
  <2> HIDE DEF m
  <2>2. BackTo(c.left, n, m)
    BY <1>4, <2>1
  <2>3. m = k
    BY <1>1, <1>6, <2>2, OnePlace
  <2>4. QED
    BY <2>3 DEF m
<1>7. QED
  BY <1>2, <1>3, <1>5, <1>6

\* Skipping takes a cursor between codepoints to one.
LEMMA SkipsBetween ==
    ASSUME NEW c, Between(c), NEW n \in Nat
    PROVE  Between(SkippedForward(c, n)) /\ Between(SkippedBackward(c, n))
<1>1. /\ c \in CursorsOver(Byte) /\ c.left \in Seq(Byte) /\ c.right \in Seq(Byte)
      /\ IsUtf8(c.left) /\ IsUtf8(c.right)
  BY CursorBetween DEF Between
<1>2. PICK k : ForwardTo(c.right, n, k)
  BY <1>1, ForwardExists
<1>3. c.left # <<>> => ~IsContinuation(c.left[1])
  BY <1>1, Utf8Bytes
<1>4. PICK j : BackTo(c.left, n, j)
  BY <1>1, <1>3, BackExists
<1>5. Between(Advanced(c, k)) /\ Between(Retreated(c, Len(c.left) - j))
  BY <1>2, <1>4, StepsBetween DEF ForwardTo, BackTo
<1>6. QED
  BY <1>1, <1>2, <1>4, <1>5, SkipsTo

\* forward_chars is done.
LEMMA SkipForwardEnds ==
    ASSUME NEW c, Between(c), NEW n \in Nat, n = 0 \/ c.right = <<>>
    PROVE  SkippedForward(c, n) = c /\ Available(c.right, n) = 0
<1>1. c \in CursorsOver(Byte) /\ c.right \in Seq(Byte) /\ IsUtf8(c.right)
  BY CursorBetween DEF Between
<1>2. 0 \in Boundaries(c.right)
  BY <1>1, FirstCodepoint, Utf8Nothing
<1>3. ForwardTo(c.right, n, 0) /\ Available(c.right, n) = 0
  BY <1>1, <1>2, NothingToSkip
<1>4. QED
  BY <1>1, <1>3, SkipsTo, NoStep

\* forward_chars goes on over one codepoint.
LEMMA SkipForwardGoesOn ==
    ASSUME NEW c, Between(c), NEW n \in Nat, n > 0, c.right # <<>>,
           NEW k, k = CharSize(c.right[1])
    PROVE  /\ k \in 1 .. Len(c.right)
           /\ Between(Advanced(c, k))
           /\ SkippedForward(Advanced(c, k), n - 1) = SkippedForward(c, n)
           /\ Available(c.right, n) = Available(Advanced(c, k).right, n - 1) + 1
           /\ PositionAfter(Advanced(c, k).left)
                = Stepped(PositionAfter(c.left), c.right[1])
<1> DEFINE l == c.left
           r == c.right
           q == SubSeq(r, 1, k)
           rest == SubSeq(r, k + 1, Len(r))
<1>1. /\ c \in CursorsOver(Byte) /\ l \in Seq(Byte) /\ r \in Seq(Byte) /\ IsUtf8(r)
      /\ r # <<>> /\ k = CharSize(r[1])
  BY CursorBetween DEF Between
<1>2. Advanced(c, k) = [left |-> l \o q, right |-> rest]
  BY DEF Advanced
<1>3. c.left = l /\ c.right = r
  OBVIOUS
<1> HIDE DEF l, r
<1>4. k \in 1 .. Len(r) /\ k \in Boundaries(r) /\ IsCodepoint(q) /\ q[1] = r[1]
      /\ Len(q) = k
  BY <1>1, FirstCodepoint
<1>5. rest \in Seq(Byte) /\ IsUtf8(rest)
  BY <1>1, <1>4, Utf8Cut
<1>6. q \o rest = r
  <2>1. k \in 0 .. Len(r)
    BY <1>4
  <2>2. QED
    BY <1>1, <2>1, PartsJoin
<1> DEFINE d == Advanced(c, k)
<1> HIDE DEF q, rest
<1>7. d.left = l \o q /\ d.right = rest
  BY <1>2
<1>8. Between(d)
  BY <1>3, <1>4, StepsBetween
<1> HIDE DEF d
<1>9. PICK j : ForwardTo(rest, n - 1, j)
  <2>1. n - 1 \in Nat
    OBVIOUS
  <2>2. QED
    BY <1>5, <2>1, ForwardExists
<1>10. ForwardTo(r, n, k + j) /\ Available(r, n) = Available(rest, n - 1) + 1
  BY <1>4, <1>5, <1>6, <1>9, ForwardOne
<1>11. SkippedForward(c, n) = Advanced(c, k + j)
  BY <1>1, <1>3, <1>10, SkipsTo
<1>12. SkippedForward(d, n - 1) = Advanced(d, j)
  BY <1>7, <1>8, <1>9, SkipsTo DEF Between
<1>13. Advanced(d, j) = Advanced(c, k + j)
  <2>1. j \in Nat /\ j <= Len(rest)
    BY <1>5, <1>9, BoundaryBytes DEF ForwardTo
  <2>2. Len(rest) = Len(r) - k
    BY <1>1, <1>4 DEF rest
  <2>3. j \in 0 .. Len(d.right) /\ k \in 0 .. Len(c.right) /\ j + k <= Len(c.right)
    BY <2>1, <2>2, <1>1, <1>3, <1>4, <1>7
  <2>4. QED
    BY <2>1, <2>3, <1>1, <1>4, AdvancedTwice DEF d
<1>14. PositionAfter(d.left) = Stepped(PositionAfter(l), r[1])
  BY <1>1, <1>4, <1>7, PositionStep
<1>15. QED
  BY <1>3, <1>4, <1>7, <1>8, <1>10, <1>11, <1>12, <1>13, <1>14 DEF d

\* backward_chars is done.
LEMMA SkipBackEnds ==
    ASSUME NEW c \in CursorsOver(Byte), NEW n \in Nat, n = 0 \/ c.left = <<>>
    PROVE  SkippedBackward(c, n) = c /\ Available(c.left, n) = 0
<1>1. c.left \in Seq(Byte)
  BY CursorBetween
<1>2. BackTo(c.left, n, Len(c.left)) /\ Available(c.left, n) = 0
  BY <1>1, NothingToSkip
<1>3. QED
  BY <1>2, SkipsTo, NoStep

\* Moving back by one byte, and then by the rest of the way.
LEMMA RetreatedOne ==
    ASSUME NEW c \in CursorsOver(Byte), c.left # <<>>, NEW k \in 0 .. Len(c.left) - 1
    PROVE  /\ Retreated(c, 1) \in CursorsOver(Byte)
           /\ Retreated(c, 1).left = SubSeq(c.left, 1, Len(c.left) - 1)
           /\ Len(Retreated(c, 1).left) = Len(c.left) - 1
           /\ Retreated(Retreated(c, 1), Len(Retreated(c, 1).left) - k)
                = Retreated(c, Len(c.left) - k)
           /\ Retreated(c, 1).right = <<c.left[Len(c.left)]>> \o c.right
<1> DEFINE l == c.left
           r == c.right
           n == Len(l)
           d == Retreated(c, 1)
           one == SubSeq(l, n - 1 + 1, n)
           front == SubSeq(l, 1, n - 1)
<1>1. l \in Seq(Byte) /\ r \in Seq(Byte) /\ l # <<>> /\ k \in 0 .. n - 1
  BY CursorBetween
<1>2. d = [left |-> front, right |-> one \o r]
  BY DEF Retreated
<1>3. \A m : Retreated(c, m) = [left |-> SubSeq(l, 1, n - m),
                                right |-> SubSeq(l, n - m + 1, n) \o r]
  BY DEF Retreated
<1>4. d.left = front /\ d.right = one \o r
  BY <1>2
<1> HIDE DEF l, r, d
<1>5. n \in Nat /\ n >= 1 /\ k \in Nat /\ k <= n - 1
  BY <1>1
<1> HIDE DEF n
<1>6. PICK m \in Nat : m = n - 1
  BY <1>5
<1>7. /\ front = SubSeq(l, 1, m) /\ front \in Seq(Byte) /\ Len(front) = m
      /\ \A i \in 1 .. m : front[i] = l[i]
  BY <1>1, <1>5, <1>6 DEF n
<1>8. one = <<l[n]>> /\ one \in Seq(Byte)
  <2>1. n - 1 + 1 = n /\ n \in 1 .. Len(l)
    BY <1>5 DEF n
  <2>2. one = SubSeq(l, n, n)
    BY <2>1
  <2>3. SubSeq(l, n, n) = <<l[n]>>
    <3>1. SubSeq(l, n, n) \in Seq(Byte) /\ <<l[n]>> \in Seq(Byte)
          /\ Len(SubSeq(l, n, n)) = 1 /\ Len(<<l[n]>>) = 1
          /\ SubSeq(l, n, n)[1] = l[n] /\ <<l[n]>>[1] = l[n]
      BY <2>1, <1>1
    <3>2. PICK a \in Seq(Byte), b \in Seq(Byte) :
             /\ a = SubSeq(l, n, n) /\ b = <<l[n]>> /\ Len(a) = 1 /\ Len(b) = 1
             /\ a[1] = b[1]
      BY <3>1
    <3>3. Len(a) = Len(b) /\ \A i \in 1 .. Len(a) : a[i] = b[i]
      BY <3>2
    <3>4. a = b
      BY <3>3, SeqEqual
    <3>5. QED
      BY <3>2, <3>4
  <2>4. <<l[n]>> \in Seq(Byte)
    BY <2>1, <1>1
  <2>5. QED
    BY <2>2, <2>3, <2>4
<1>9. Retreated(d, Len(front) - k)
        = [left |-> SubSeq(front, 1, k),
           right |-> SubSeq(front, k + 1, m) \o (one \o r)]
  <2>1. Retreated(d, m - k) = [left |-> SubSeq(front, 1, m - (m - k)),
                               right |-> SubSeq(front, m - (m - k) + 1, m) \o (one \o r)]
    BY <1>4, <1>7 DEF Retreated
  <2>2. m - (m - k) = k
    BY <1>5, <1>6
  <2>3. QED
    BY <2>1, <2>2, <1>7
<1>10. Retreated(c, n - k) = [left |-> SubSeq(l, 1, k), right |-> SubSeq(l, k + 1, n) \o r]
  <2>1. n - (n - k) = k
    BY <1>5
  <2>2. QED
    BY <1>3, <2>1
<1>11. SubSeq(front, 1, k) = SubSeq(l, 1, k)
  BY <1>1, <1>5, <1>6, <1>7 DEF n
<1>12. SubSeq(front, k + 1, m) \o (one \o r) = SubSeq(l, k + 1, n) \o r
  <2>1. SubSeq(front, k + 1, m) = SubSeq(l, k + 1, m) /\ SubSeq(l, k + 1, m) \in Seq(Byte)
    BY <1>1, <1>5, <1>6, <1>7 DEF n
  <2>2. SubSeq(l, k + 1, m) \o SubSeq(l, m + 1, n) = SubSeq(l, k + 1, n)
    <3>1. k + 1 \in 1 .. Len(l) + 1 /\ m \in k + 1 - 1 .. Len(l) /\ n \in m .. Len(l)
      BY <1>5, <1>6 DEF n
    <3>2. QED
      BY <1>1, <3>1, ConcatAdjacentSubSeq
  <2>3. SubSeq(l, m + 1, n) = one
    BY <1>5, <1>6
  <2>4. (SubSeq(l, k + 1, m) \o one) \o r = SubSeq(l, k + 1, m) \o (one \o r)
    <3>1. SubSeq(l, k + 1, m) \in Seq(Byte) /\ one \in Seq(Byte) /\ r \in Seq(Byte)
      BY <2>1, <1>1, <1>8
    <3>2. PICK a \in Seq(Byte), b \in Seq(Byte), e \in Seq(Byte) :
             a = SubSeq(l, k + 1, m) /\ b = one /\ e = r
      BY <3>1
    <3>3. (a \o b) \o e = a \o (b \o e)
      BY ConcatThree
    <3>4. QED
      BY <3>2, <3>3
  <2>5. QED
    BY <2>1, <2>2, <2>3, <2>4
<1>13. d \in CursorsOver(Byte)
  <2>1. one \o r \in Seq(Byte)
    BY <1>1, <1>8
  <2> HIDE DEF one, front
  <2>2. QED
    BY <2>1, <1>2, <1>7 DEF CursorsOver
<1>14. Retreated(d, Len(d.left) - k) = Retreated(c, n - k)
  BY <1>4, <1>9, <1>10, <1>11, <1>12
<1>15. QED
  BY <1>4, <1>6, <1>7, <1>8, <1>13, <1>14 DEF d, l, n, r

\* backward_chars goes back over one byte.
LEMMA SkipBackGoesOn ==
    ASSUME NEW c \in CursorsOver(Byte), c.left # <<>>, ~IsContinuation(c.left[1]),
           NEW n \in Nat, n > 0, NEW x, x = c.left[Len(c.left)]
    PROVE  /\ ~IsContinuation(x) =>
                 /\ SkippedBackward(Retreated(c, 1), n - 1) = SkippedBackward(c, n)
                 /\ Available(c.left, n) = Available(Retreated(c, 1).left, n - 1) + 1
           /\ IsContinuation(x) =>
                 /\ SkippedBackward(Retreated(c, 1), n) = SkippedBackward(c, n)
                 /\ Available(c.left, n) = Available(Retreated(c, 1).left, n)
           /\ Retreated(c, 1).left # <<>> => Retreated(c, 1).left[1] = c.left[1]
<1> DEFINE l == c.left
           d == Retreated(c, 1)
           u == SubSeq(l, 1, Len(l) - 1)
<1>1. /\ l \in Seq(Byte) /\ l # <<>> /\ ~IsContinuation(l[1]) /\ x = l[Len(l)]
      /\ Len(l) \in Nat /\ Len(l) >= 1 /\ c.left = l
  <2>1. l \in Seq(Byte)
    BY CursorBetween
  <2>2. l # <<>> /\ ~IsContinuation(l[1]) /\ x = l[Len(l)] /\ c.left = l
    OBVIOUS
  <2> HIDE DEF l
  <2>3. Len(l) \in Nat /\ Len(l) >= 1
    BY <2>1, <2>2
  <2>4. QED
    BY <2>1, <2>2, <2>3
<1>2. /\ d \in CursorsOver(Byte) /\ d.left = u /\ Len(d.left) = Len(l) - 1
      /\ \A k \in 0 .. Len(l) - 1 :
            Retreated(d, Len(d.left) - k) = Retreated(c, Len(l) - k)
  <2>1. 0 \in 0 .. Len(l) - 1
    BY <1>1
  <2>2. QED
    BY <1>1, <2>1, RetreatedOne
<1> HIDE DEF l, d
<1>3. /\ u \in Seq(Byte) /\ x \in Byte /\ l = Append(u, x)
      /\ Len(u) = Len(l) - 1
      /\ u # <<>> => u[1] = l[1]
      /\ u = <<>> => x = l[1]
  BY <1>1, WithoutLast
<1> HIDE DEF u
<1>4. u # <<>> => ~IsContinuation(u[1])
  BY <1>1, <1>3
<1>5. CASE ~IsContinuation(x)
  <2>1. n - 1 \in Nat
    OBVIOUS
  <2>2. PICK k : BackTo(u, n - 1, k)
    BY <1>3, <1>4, <2>1, BackExists
  <2>3. k \in 0 .. Len(l) - 1
    BY <1>3, <2>2, BoundaryBytes DEF BackTo
  <2>4. BackTo(l, n, k) /\ Available(l, n) = Available(u, n - 1) + 1
    BY <1>3, <1>5, <2>2, BackOne
  <2>5. SkippedBackward(c, n) = Retreated(c, Len(l) - k)
    BY <2>4, <1>1, SkipsTo
  <2>6. SkippedBackward(d, n - 1) = Retreated(d, Len(d.left) - k)
    BY <2>2, <1>2, SkipsTo
  <2>7. QED
    BY <2>3, <2>4, <2>5, <2>6, <1>1, <1>2, <1>3, <1>5 DEF d
<1>6. CASE IsContinuation(x)
  <2>1. u # <<>>
    BY <1>1, <1>3, <1>6
  <2>2. 1 \in Starts(u)
    BY <2>1, <1>3, <1>4 DEF Starts
  <2>3. PICK k : BackTo(u, n, k)
    BY <1>3, <1>4, BackExists
  <2>4. k \in 0 .. Len(l) - 1
    BY <1>3, <2>3, BoundaryBytes DEF BackTo
  <2>5. BackTo(l, n, k) /\ Available(l, n) = Available(u, n)
    BY <1>3, <1>6, <2>2, <2>3, BackOne
  <2>6. SkippedBackward(c, n) = Retreated(c, Len(l) - k)
    BY <2>5, <1>1, SkipsTo
  <2>7. SkippedBackward(d, n) = Retreated(d, Len(d.left) - k)
    BY <2>3, <1>2, SkipsTo
  <2>8. QED
    BY <2>4, <2>5, <2>6, <2>7, <1>1, <1>2, <1>3, <1>6 DEF d
<1>7. QED
  BY <1>5, <1>6

-----------------------------------------------------------------------------
(***************************************************************************)
(* Cursors between codepoints, and texts cut in pieces: two in a row are   *)
(* tied when no codepoint that begins before the first goes on after it.   *)
(***************************************************************************)

\* A cursor between codepoints stands before one, or at the end.
LEMMA CodepointAfter ==
    ASSUME NEW c, Between(c)
    PROVE  /\ c \in CursorsOver(Byte)
           /\ c.left \in Seq(Byte) /\ IsUtf8(c.left)
           /\ c.right \in Seq(Byte) /\ IsUtf8(c.right)
           /\ 0 \in Boundaries(c.right)
           /\ c.right # <<>> => ~IsContinuation(c.right[1]) /\ CharSize(c.right[1]) > 0
           /\ c.left # <<>> => ~IsContinuation(c.left[1])
<1>1. /\ c \in CursorsOver(Byte)
      /\ c.left \in Seq(Byte) /\ IsUtf8(c.left)
      /\ c.right \in Seq(Byte) /\ IsUtf8(c.right)
  BY DEF Between, CursorsOver
<1>2. \A t \in Seq(Byte) : IsUtf8(t) =>
         /\ 0 \in Boundaries(t)
         /\ t # <<>> => ~IsContinuation(t[1]) /\ CharSize(t[1]) > 0
  <2> SUFFICES ASSUME NEW t \in Seq(Byte), IsUtf8(t)
               PROVE  /\ 0 \in Boundaries(t)
                      /\ t # <<>> => ~IsContinuation(t[1]) /\ CharSize(t[1]) > 0
    OBVIOUS
  <2>1. CASE t = <<>>
    BY <2>1, Utf8Nothing
  <2>2. CASE t # <<>>
    BY <2>2, FirstCodepoint
  <2> QED  BY <2>1, <2>2
<1> QED  BY <1>1, <1>2

\* A text typed in two parts.
LEMMA TypedTwice ==
    ASSUME NEW c \in CursorsOver(Byte), NEW s \in Seq(Byte), NEW n \in 0 .. Len(s)
    PROVE  Typed(Typed(c, SubSeq(s, 1, n)), SubSeq(s, n + 1, Len(s))) = Typed(c, s)
<1> DEFINE a == SubSeq(s, 1, n)
           b == SubSeq(s, n + 1, Len(s))
<1>1. a \in Seq(Byte) /\ b \in Seq(Byte) /\ c.left \in Seq(Byte)
  BY DEF CursorsOver
<1>2. a \o b = s
  BY PartsJoin
<1> HIDE DEF a, b
<1>3. (c.left \o a) \o b = c.left \o (a \o b)
  <2>1. \A x, y, z \in Seq(Byte) : (x \o y) \o z = x \o (y \o z)
    BY ConcatThree
  <2> QED  BY <1>1, <2>1, Zenon
<1>4. (c.left \o a) \o b = c.left \o s
  BY <1>2, <1>3
<1> QED  BY <1>4 DEF Typed, a, b

\* The rest of a rest.
LEMMA RestOfRest ==
    ASSUME NEW s \in Seq(Byte), NEW m \in 0 .. Len(s), NEW n \in 0 .. m
    PROVE  LET r == SubSeq(s, n + 1, Len(s))
           IN  /\ r \in Seq(Byte) /\ Len(r) = Len(s) - n
               /\ SubSeq(r, m - n + 1, Len(r)) = SubSeq(s, m + 1, Len(s))
<1> DEFINE r == SubSeq(s, n + 1, Len(s))
<1>1. /\ r \in Seq(Byte) /\ Len(r) = Len(s) - n
      /\ \A i \in 1 .. Len(r) : r[i] = s[n + i]
  OBVIOUS
<1> HIDE DEF r
<1> DEFINE x == SubSeq(r, m - n + 1, Len(r))
           y == SubSeq(s, m + 1, Len(s))
<1>2. /\ x \in Seq(Byte) /\ Len(x) = Len(r) - (m - n)
      /\ \A i \in 1 .. Len(x) : x[i] = r[m - n + i]
  BY <1>1
<1>3. /\ y \in Seq(Byte) /\ Len(y) = Len(s) - m
      /\ \A i \in 1 .. Len(y) : y[i] = s[m + i]
  OBVIOUS
<1> HIDE DEF x, y
<1>4. Len(x) = Len(y)
  BY <1>1, <1>2, <1>3
<1>5. \A i \in 1 .. Len(x) : x[i] = y[i]
  <2> SUFFICES ASSUME NEW i \in 1 .. Len(x) PROVE x[i] = y[i]
    OBVIOUS
  <2>1. m - n + i \in 1 .. Len(r) /\ n + (m - n + i) = m + i
    BY <1>1, <1>2
  <2> QED  BY <2>1, <1>1, <1>2, <1>3, <1>4
<1>6. x = y
  BY <1>2, <1>3, <1>4, <1>5, SeqEqual
<1> QED  BY <1>1, <1>6 DEF x, y, r

\* Bytes erased in two parts.
LEMMA ErasedTwice ==
    ASSUME NEW c \in CursorsOver(Byte), NEW m \in 0 .. Len(c.right), NEW n \in 0 .. m
    PROVE  /\ Erased(Erased(c, n), m - n) = Erased(c, m)
           /\ m - n \in 0 .. Len(Erased(c, n).right)
<1> DEFINE s == c.right
           r == SubSeq(s, n + 1, Len(s))
<1>1. s \in Seq(Byte)
  BY DEF CursorsOver
<1> HIDE DEF s
<1>2. /\ SubSeq(r, m - n + 1, Len(r)) = SubSeq(s, m + 1, Len(s))
      /\ Len(r) = Len(s) - n
  BY <1>1, RestOfRest DEF s
<1>3. Erased(c, n).left = c.left /\ Erased(c, n).right = r
  BY DEF Erased, s
<1> HIDE DEF r
<1>4. m - n \in 0 .. Len(r)
  BY <1>2, <1>1 DEF s
<1> QED  BY <1>2, <1>3, <1>4 DEF Erased, s

\* Texts are put together in any order.
LEMMA ConcatBytes ==
    /\ \A x, y, z \in Seq(Byte) : (x \o y) \o z = x \o (y \o z)
    /\ \A x, y \in Seq(Byte) : x \o y \in Seq(Byte) /\ Len(x \o y) = Len(x) + Len(y)
<1>1. ASSUME NEW x \in Seq(Byte), NEW y \in Seq(Byte), NEW z \in Seq(Byte)
      PROVE  (x \o y) \o z = x \o (y \o z)
  BY ConcatThree
<1>2. \A x, y \in Seq(Byte) : x \o y \in Seq(Byte) /\ Len(x \o y) = Len(x) + Len(y)
  OBVIOUS
<1> QED  BY <1>1, <1>2

\* Five texts, named at once.
AreTexts(j, l, s, r, k) ==
    /\ j \in Seq(Byte) /\ l \in Seq(Byte) /\ s \in Seq(Byte)
    /\ r \in Seq(Byte) /\ k \in Seq(Byte)

\* The whole text around the bytes at the point.
LEMMA WholeText ==
    ASSUME NEW j, NEW l, NEW s, NEW r, NEW k, AreTexts(j, l, s, r, k)
    PROVE  ((j \o l) \o s) \o (r \o k) = j \o (((l \o s) \o r) \o k)
<1> DEFINE ls == l \o s
           rk == r \o k
<1>1. ls \in Seq(Byte) /\ rk \in Seq(Byte)
  BY DEF AreTexts
<1>2. (j \o l) \o s = j \o ls
  <2>1. j \in Seq(Byte) /\ l \in Seq(Byte) /\ s \in Seq(Byte)
    BY DEF AreTexts
  <2> QED  BY <2>1, ConcatBytes, Zenon
<1> HIDE DEF ls
<1>3. (ls \o r) \o k = ls \o rk
  <2>1. ls \in Seq(Byte) /\ r \in Seq(Byte) /\ k \in Seq(Byte)
    BY <1>1 DEF AreTexts
  <2> QED  BY <2>1, ConcatBytes, Zenon
<1> HIDE DEF rk
<1>4. (j \o ls) \o rk = j \o (ls \o rk)
  <2>1. j \in Seq(Byte) /\ ls \in Seq(Byte) /\ rk \in Seq(Byte)
    BY <1>1 DEF AreTexts
  <2> QED  BY <2>1, ConcatBytes, Zenon
<1>5. (j \o ls) \o rk = j \o ((ls \o r) \o k)
  BY <1>3, <1>4
<1> QED  BY <1>2, <1>5 DEF ls, rk

\* Moving a cursor does not change the text.
LEMMA MovedText ==
    ASSUME NEW c \in CursorsOver(Byte)
    PROVE  /\ \A k \in 0 .. Len(c.right) : Text(Advanced(c, k)) = Text(c)
           /\ \A k \in 0 .. Len(c.left) : Text(Retreated(c, k)) = Text(c)
<1> DEFINE l == c.left
           r == c.right
<1>1. l \in Seq(Byte) /\ r \in Seq(Byte)
  BY DEF CursorsOver
<1> HIDE DEF l, r
<1>2. \A x, y, z \in Seq(Byte) : (x \o y) \o z = x \o (y \o z)
  BY ConcatThree
<1>3. ASSUME NEW k \in 0 .. Len(r)
      PROVE  (l \o SubSeq(r, 1, k)) \o SubSeq(r, k + 1, Len(r)) = l \o r
  <2> DEFINE x == SubSeq(r, 1, k)
             y == SubSeq(r, k + 1, Len(r))
  <2>1. x \in Seq(Byte) /\ y \in Seq(Byte)
    BY <1>1
  <2>2. x \o y = r
    BY <1>1, PartsJoin
  <2> HIDE DEF x, y
  <2>3. (l \o x) \o y = l \o (x \o y)
    BY <1>1, <1>2, <2>1, Zenon
  <2> QED  BY <2>2, <2>3 DEF x, y
<1>4. ASSUME NEW k \in 0 .. Len(l)
      PROVE  SubSeq(l, 1, Len(l) - k) \o (SubSeq(l, Len(l) - k + 1, Len(l)) \o r) = l \o r
  <2> DEFINE m == Len(l) - k
             x == SubSeq(l, 1, m)
             y == SubSeq(l, m + 1, Len(l))
  <2>1. m \in 0 .. Len(l)
    BY <1>1
  <2> HIDE DEF m
  <2>2. x \in Seq(Byte) /\ y \in Seq(Byte)
    BY <1>1, <2>1
  <2>3. x \o y = l
    BY <1>1, <2>1, PartsJoin
  <2> HIDE DEF x, y
  <2>4. (x \o y) \o r = x \o (y \o r)
    BY <1>1, <1>2, <2>2, Zenon
  <2> QED  BY <2>3, <2>4 DEF x, y, m
<1> QED  BY <1>3, <1>4 DEF Text, Advanced, Retreated, l, r

\* What the skips leave of the text: all of it.
LEMMA SkippedText ==
    ASSUME NEW c, Between(c), NEW n \in Nat
    PROVE  Text(SkippedForward(c, n)) = Text(c) /\ Text(SkippedBackward(c, n)) = Text(c)
<1>1. /\ c \in CursorsOver(Byte) /\ c.left \in Seq(Byte) /\ c.right \in Seq(Byte)
      /\ IsUtf8(c.right)
      /\ c.left # <<>> => ~IsContinuation(c.left[1])
  BY CodepointAfter
<1>2. PICK k : ForwardTo(c.right, n, k)
  BY <1>1, ForwardExists
<1>3. PICK m : BackTo(c.left, n, m)
  BY <1>1, BackExists
<1>4. k \in 0 .. Len(c.right) /\ m \in 0 .. Len(c.left)
  BY <1>1, <1>2, <1>3, BoundaryBytes DEF ForwardTo, BackTo
<1>5. Len(c.left) - m \in 0 .. Len(c.left)
  <2> DEFINE x == Len(c.left)
  <2>1. x \in Nat
    BY <1>1
  <2> HIDE DEF x
  <2> QED  BY <1>4, <2>1 DEF x
<1>6. SkippedForward(c, n) = Advanced(c, k)
  BY <1>1, <1>2, SkipsTo
<1>7. SkippedBackward(c, n) = Retreated(c, Len(c.left) - m)
  BY <1>1, <1>3, SkipsTo
<1>8. Text(Advanced(c, k)) = Text(c) /\ Text(Retreated(c, Len(c.left) - m)) = Text(c)
  BY <1>1, <1>4, <1>5, MovedText
<1> QED  BY <1>6, <1>7, <1>8

\* A byte of the text starts a codepoint.
HasStart(t) == \E i \in 1 .. Len(t) : ~IsContinuation(t[i])

\* The first of two texts in a row does not lie inside a codepoint.
Meets(s, t) == HasStart(s) \/ t = <<>> \/ ~IsContinuation(t[1])

\* None of the texts lies inside a codepoint that goes on after it.
Tied(ss) == \A i \in 1 .. Len(ss) - 1 : Meets(ss[i], ss[i + 1])

\* Two lists of texts, one after the other.
LEMMA TiedJoined ==
    ASSUME NEW ss \in Seq(Seq(Byte)), NEW tt \in Seq(Seq(Byte))
    PROVE  Tied(ss \o tt) <=>
             /\ Tied(ss) /\ Tied(tt)
             /\ ss # <<>> /\ tt # <<>> => Meets(ss[Len(ss)], tt[1])
<1> DEFINE st == ss \o tt
           m == Len(ss)
           n == Len(tt)
<1>1. /\ Len(st) = m + n /\ m \in Nat /\ n \in Nat
      /\ \A i \in 1 .. m : st[i] = ss[i]
      /\ \A i \in 1 .. n : st[m + i] = tt[i]
      /\ ss # <<>> <=> m > 0
      /\ tt # <<>> <=> n > 0
  OBVIOUS
<1> HIDE DEF st, m, n
<1>2. ASSUME Tied(st) PROVE Tied(ss)
  <2> SUFFICES ASSUME NEW i \in 1 .. m - 1 PROVE Meets(ss[i], ss[i + 1])
    BY DEF Tied, m
  <2>1. /\ i \in 1 .. Len(st) - 1 /\ i \in 1 .. m /\ i + 1 \in 1 .. m
    BY <1>1
  <2> QED  BY <1>1, <1>2, <2>1 DEF Tied
<1>3. ASSUME Tied(st) PROVE Tied(tt)
  <2> SUFFICES ASSUME NEW i \in 1 .. n - 1 PROVE Meets(tt[i], tt[i + 1])
    BY DEF Tied, n
  <2>1. /\ m + i \in 1 .. Len(st) - 1 /\ i \in 1 .. n /\ i + 1 \in 1 .. n
        /\ m + (i + 1) = m + i + 1
    BY <1>1
  <2>2. st[m + i] = tt[i] /\ st[m + i + 1] = tt[i + 1]
    BY <1>1, <2>1
  <2>3. Meets(st[m + i], st[m + i + 1])
    BY <1>3, <2>1 DEF Tied
  <2> QED  BY <2>2, <2>3
<1>4. ASSUME Tied(st), m > 0, n > 0 PROVE Meets(ss[m], tt[1])
  <2>1. m \in 1 .. Len(st) - 1 /\ m \in 1 .. m /\ 1 \in 1 .. n
    BY <1>1, <1>4
  <2>2. st[m] = ss[m] /\ st[m + 1] = tt[1]
    BY <1>1, <2>1
  <2> QED  BY <1>4, <2>1, <2>2 DEF Tied
<1>5. ASSUME Tied(ss), Tied(tt), m > 0 /\ n > 0 => Meets(ss[m], tt[1])
      PROVE  Tied(st)
  <2> SUFFICES ASSUME NEW i \in 1 .. Len(st) - 1 PROVE Meets(st[i], st[i + 1])
    BY DEF Tied
  <2>1. CASE i < m
    <3>1. i \in 1 .. Len(ss) - 1 /\ i \in 1 .. m /\ i + 1 \in 1 .. m
      BY <1>1, <2>1 DEF m
    <3>2. st[i] = ss[i] /\ st[i + 1] = ss[i + 1]
      BY <1>1, <3>1
    <3> QED  BY <1>5, <3>1, <3>2 DEF Tied
  <2>2. CASE i = m
    <3>1. m > 0 /\ n > 0 /\ i \in 1 .. m /\ 1 \in 1 .. n
      BY <1>1, <2>2
    <3>2. st[i] = ss[m] /\ st[i + 1] = tt[1]
      BY <1>1, <2>2, <3>1
    <3> QED  BY <1>5, <3>1, <3>2
  <2>3. CASE i > m
    <3>1. /\ i - m \in 1 .. Len(tt) - 1 /\ i - m \in 1 .. n /\ i - m + 1 \in 1 .. n
          /\ m + (i - m) = i /\ m + (i - m + 1) = i + 1
      BY <1>1, <2>3 DEF n
    <3>2. st[i] = tt[i - m] /\ st[i + 1] = tt[i - m + 1]
      BY <1>1, <3>1
    <3> QED  BY <1>5, <3>1, <3>2 DEF Tied
  <2> QED  BY <1>1, <2>1, <2>2, <2>3
<1> QED  BY <1>1, <1>2, <1>3, <1>4, <1>5 DEF st, m, n

\* One text has no next one.
LEMMA TiedOne == ASSUME NEW s PROVE Tied(<<s>>)
BY DEF Tied

\* Texts in a row, however they are put together.
LEMMA TextsInRow ==
    /\ \A ss, tt, uu \in Seq(Seq(Byte)) : (ss \o tt) \o uu = ss \o (tt \o uu)
    /\ \A s \in Seq(Byte) : <<s>> \in Seq(Seq(Byte))
    /\ \A ss, tt \in Seq(Seq(Byte)) : ss \o tt \in Seq(Seq(Byte))
<1>1. ASSUME NEW ss \in Seq(Seq(Byte)), NEW tt \in Seq(Seq(Byte)), NEW uu \in Seq(Seq(Byte))
      PROVE  (ss \o tt) \o uu = ss \o (tt \o uu)
  BY ConcatThree
<1>2. \A s \in Seq(Byte) : <<s>> \in Seq(Seq(Byte))
  OBVIOUS
<1>3. \A ss, tt \in Seq(Seq(Byte)) : ss \o tt \in Seq(Seq(Byte))
  OBVIOUS
<1> QED  BY <1>1, <1>2, <1>3

\* Their members.
LEMMA RowMembers ==
    \A u, v \in Seq(Seq(Byte)) :
        /\ u \o v \in Seq(Seq(Byte)) /\ Len(u \o v) = Len(u) + Len(v)
        /\ \A i \in 1 .. Len(u) : (u \o v)[i] = u[i]
        /\ \A i \in 1 .. Len(v) : (u \o v)[Len(u) + i] = v[i]
<1> TAKE u, v \in Seq(Seq(Byte))
<1> QED  BY ConcatMembers

\* Texts are tied around one of them when its neighbours are tied to it.
LEMMA TiedAround ==
    ASSUME NEW ss \in Seq(Seq(Byte)), NEW p \in Seq(Byte), NEW tt \in Seq(Seq(Byte))
    PROVE  Tied((ss \o <<p>>) \o tt) <=>
             /\ Tied(ss) /\ Tied(tt)
             /\ ss # <<>> => Meets(ss[Len(ss)], p)
             /\ tt # <<>> => Meets(p, tt[1])
<1> DEFINE one == <<p>>
           sp == ss \o one
<1>1. one \in Seq(Seq(Byte)) /\ Len(one) = 1 /\ one[1] = p /\ one # <<>> /\ Tied(one)
  BY TiedOne
<1> HIDE DEF one
<1>2. sp \in Seq(Seq(Byte)) /\ Len(sp) = Len(ss) + 1 /\ sp[Len(ss) + 1] = p /\ sp # <<>>
  <2>1. 1 \in 1 .. Len(one)
    BY <1>1
  <2>2. sp \in Seq(Seq(Byte)) /\ Len(sp) = Len(ss) + Len(one) /\ sp[Len(ss) + 1] = one[1]
    BY <1>1, <2>1, RowMembers
  <2>3. Len(ss) \in Nat
    OBVIOUS
  <2> HIDE DEF sp
  <2> QED  BY <1>1, <2>2, <2>3
<1>3. Tied(sp) <=> Tied(ss) /\ (ss # <<>> => Meets(ss[Len(ss)], p))
  BY <1>1, TiedJoined
<1> HIDE DEF sp
<1>4. Tied(sp \o tt) <=> Tied(sp) /\ Tied(tt) /\ (tt # <<>> => Meets(sp[Len(sp)], tt[1]))
  BY <1>2, TiedJoined
<1>5. sp[Len(sp)] = p
  BY <1>2
<1> QED  BY <1>3, <1>4, <1>5 DEF sp, one

\* The first byte of two texts in a row.
LEMMA FirstByte ==
    ASSUME NEW s \in Seq(Byte), NEW t \in Seq(Byte)
    PROVE  /\ s # <<>> => s \o t # <<>> /\ (s \o t)[1] = s[1]
           /\ s = <<>> => s \o t = t
           /\ s \o t = <<>> <=> s = <<>> /\ t = <<>>
           /\ s \o t \in Seq(Byte)
<1>1. /\ s \o t \in Seq(Byte) /\ Len(s \o t) = Len(s) + Len(t)
      /\ \A i \in 1 .. Len(s) : (s \o t)[i] = s[i]
  BY ConcatMembers
<1>2. s # <<>> => 1 \in 1 .. Len(s)
  OBVIOUS
<1>3. s = <<>> => s \o t = t
  OBVIOUS
<1>4. Len(s) \in Nat /\ Len(t) \in Nat
  OBVIOUS
<1>5. s \o t = <<>> => Len(s \o t) = 0
  OBVIOUS
<1>6. s # <<>> => s \o t # <<>>
  BY <1>1, <1>2, <1>4, <1>5
<1> QED  BY <1>1, <1>2, <1>3, <1>6

\* A start in one of two texts is one in both.
LEMMA StartOfEither ==
    ASSUME NEW s \in Seq(Byte), NEW t \in Seq(Byte)
    PROVE  HasStart(s \o t) <=> HasStart(s) \/ HasStart(t)
<1> DEFINE st == s \o t
<1>1. /\ Len(st) = Len(s) + Len(t) /\ Len(s) \in Nat /\ Len(t) \in Nat
      /\ \A i \in 1 .. Len(s) : st[i] = s[i]
      /\ \A i \in 1 .. Len(t) : st[Len(s) + i] = t[i]
  BY ConcatMembers
<1> HIDE DEF st
<1>2. ASSUME HasStart(st) PROVE HasStart(s) \/ HasStart(t)
  <2>1. PICK i \in 1 .. Len(st) : ~IsContinuation(st[i])
    BY <1>2 DEF HasStart
  <2>2. CASE i <= Len(s)
    <3>1. i \in 1 .. Len(s)
      BY <1>1, <2>2
    <3> QED  BY <1>1, <2>1, <3>1 DEF HasStart
  <2>3. CASE i > Len(s)
    <3>1. i - Len(s) \in 1 .. Len(t) /\ Len(s) + (i - Len(s)) = i
      BY <1>1, <2>3
    <3> QED  BY <1>1, <2>1, <3>1 DEF HasStart
  <2> QED  BY <1>1, <2>2, <2>3
<1>3. ASSUME HasStart(s) PROVE HasStart(st)
  <2>1. PICK i \in 1 .. Len(s) : ~IsContinuation(s[i])
    BY <1>3 DEF HasStart
  <2>2. i \in 1 .. Len(st)
    BY <1>1
  <2> QED  BY <1>1, <2>1, <2>2 DEF HasStart
<1>4. ASSUME HasStart(t) PROVE HasStart(st)
  <2>1. PICK i \in 1 .. Len(t) : ~IsContinuation(t[i])
    BY <1>4 DEF HasStart
  <2>2. Len(s) + i \in 1 .. Len(st)
    BY <1>1
  <2> QED  BY <1>1, <2>1, <2>2 DEF HasStart
<1> QED  BY <1>2, <1>3, <1>4 DEF st
=============================================================================
