-------------------------- MODULE GapBuffer_proof ---------------------------
(***************************************************************************)
(* Proofs about GapBuffer, for every limit, alphabet and set of strings.   *)
(*                                                                         *)
(* The first part is about memory: slices of an array, and of an array     *)
(* after a copy.  From it follows what each operation does to the two      *)
(* sequences a buffer stands for, one lemma per operation; and from these  *)
(* the type invariant, that no byte of the gap is ever exposed, and that   *)
(* the buffers implement TextCursor.                                       *)
(***************************************************************************)
EXTENDS GapBuffer, Cursors_proof

Bytes == Byte \cup {NUL}

Arrays == [0 .. Limit - 1 -> Bytes]

Wellformed == {gb \in GapBufs : is_gapbuf(gb)}

-----------------------------------------------------------------------------
(***************************************************************************)
(* Sizes, and the fields of a buffer.                                      *)
(***************************************************************************)

\* A buffer has two halves of at least one byte.
LEMMA HalfFacts ==
    /\ Limit \in Nat
    /\ Half \in Nat
    /\ Limit = 2 * Half
    /\ Half > 0
<1>1. Limit \in Nat /\ Limit > 0 /\ Limit = 2 * Half
  BY LimitAssumption DEF Half
<1>2. Half \in Int
  BY <1>1, LimitAssumption DEF Half
<1>3. QED
  BY <1>1, <1>2

\* The fields of a well-formed buffer.
LEMMA Fields ==
    ASSUME NEW gb \in Wellformed
    PROVE  /\ gb.buffer \in Arrays
           /\ gb.gap_start \in Nat
           /\ gb.gap_end \in Nat
           /\ gb.gap_start <= gb.gap_end
           /\ gb.gap_end <= Limit
BY HalfFacts DEF Wellformed, GapBufs, Contents, is_gapbuf, Bytes, Arrays

\* Buf makes well-formed buffers.
LEMMA BufWellformed ==
    ASSUME NEW b \in Arrays, NEW s \in Nat, NEW e \in Nat, s <= e, e <= Limit
    PROVE  /\ Buf(b, s, e) \in Wellformed
           /\ Buf(b, s, e).buffer = b
           /\ Buf(b, s, e).gap_start = s
           /\ Buf(b, s, e).gap_end = e
BY HalfFacts
   DEF Buf, Wellformed, GapBufs, Contents, is_gapbuf, Bytes, Arrays

-----------------------------------------------------------------------------
(***************************************************************************)
(* Memory.                                                                 *)
(***************************************************************************)

\* The bytes of a slice within an array.
LEMMA ArraySlice ==
    ASSUME NEW b \in Arrays, NEW f \in Nat, NEW n \in Nat, f + n <= Limit
    PROVE  /\ Slice(b, f, n) \in Seq(Bytes)
           /\ Len(Slice(b, f, n)) = n
           /\ \A i \in 1 .. n : Slice(b, f, n)[i] = b[f + i - 1]
<1>1. ASSUME NEW i \in 1 .. n
      PROVE  b[f + i - 1] \in Bytes
  <2>1. f + i - 1 \in 0 .. Limit - 1
    BY HalfFacts
  <2>2. QED
    BY <2>1 DEF Arrays
<1>2. QED
  BY <1>1 DEF Slice

\* Adjacent slices make one slice.
LEMMA SliceJoin ==
    ASSUME NEW b \in Arrays, NEW f \in Nat, NEW m \in Nat, NEW n \in Nat,
           f + m + n <= Limit
    PROVE  Slice(b, f, m) \o Slice(b, f + m, n) = Slice(b, f, m + n)
<1> DEFINE lo == Slice(b, f, m)
           hi == Slice(b, f + m, n)
           all == Slice(b, f, m + n)
           joined == lo \o hi
<1>1. /\ lo \in Seq(Bytes) /\ Len(lo) = m
      /\ \A i \in 1 .. m : lo[i] = b[f + i - 1]
  BY ArraySlice, HalfFacts
<1>2. /\ hi \in Seq(Bytes) /\ Len(hi) = n
      /\ \A i \in 1 .. n : hi[i] = b[f + m + i - 1]
  BY ArraySlice, HalfFacts
<1>3. /\ all \in Seq(Bytes) /\ Len(all) = m + n
      /\ \A i \in 1 .. m + n : all[i] = b[f + i - 1]
  BY ArraySlice, HalfFacts
<1> HIDE DEF lo, hi, all
<1>4. /\ joined \in Seq(Bytes)
      /\ Len(joined) = m + n
      /\ \A i \in 1 .. m + n :
            joined[i] = IF i <= m THEN lo[i] ELSE hi[i - m]
  BY <1>1, <1>2, ConcatProperties
<1> HIDE DEF joined
<1>5. ASSUME NEW i \in 1 .. m + n
      PROVE  joined[i] = all[i]
  <2>1. CASE i <= m
    <3>1. i \in 1 .. m
      BY <2>1
    <3>2. QED
      BY <3>1, <2>1, <1>1, <1>3, <1>4
  <2>2. CASE ~(i <= m)
    <3>1. i - m \in 1 .. n /\ f + m + (i - m) - 1 = f + i - 1
      BY <2>2
    <3>2. QED
      BY <3>1, <2>2, <1>2, <1>3, <1>4
  <2>3. QED
    BY <2>1, <2>2
<1>6. joined = all
  BY <1>3, <1>4, <1>5, SeqEqual
<1>7. QED
  BY <1>6 DEF joined, lo, hi, all

\* A part of a slice is a slice.
LEMMA SliceSub ==
    ASSUME NEW b \in Arrays, NEW f \in Nat, NEW n \in Nat, f + n <= Limit,
           NEW m \in 0 .. n
    PROVE  /\ SubSeq(Slice(b, f, n), 1, m) = Slice(b, f, m)
           /\ SubSeq(Slice(b, f, n), m + 1, n) = Slice(b, f + m, n - m)
<1> DEFINE all == Slice(b, f, n)
           lo == SubSeq(all, 1, m)
           hi == SubSeq(all, m + 1, n)
<1>1. /\ all \in Seq(Bytes) /\ Len(all) = n
      /\ \A i \in 1 .. n : all[i] = b[f + i - 1]
  BY ArraySlice
<1> HIDE DEF all
<1>2. lo = Slice(b, f, m)
  BY <1>1 DEF Slice
<1>3. hi = Slice(b, f + m, n - m)
  BY <1>1 DEF Slice
<1>4. QED
  BY <1>2, <1>3 DEF all

\* Copying bytes into an array gives an array.
LEMMA CopiedArray ==
    ASSUME NEW dst \in Arrays, NEW d \in Nat, NEW src, NEW s \in Nat,
           NEW len \in Nat, Slice(src, s, len) \in Seq(Bytes)
    PROVE  Copied(dst, d, src, s, len) \in Arrays
<1>1. \A i \in 1 .. len : src[s + i - 1] \in Bytes
  BY DEF Slice
<1>2. ASSUME NEW i \in 0 .. Limit - 1
      PROVE  (IF d <= i /\ i < d + len THEN src[s + (i - d)]
                                       ELSE dst[i]) \in Bytes
  <2>1. CASE d <= i /\ i < d + len
    <3>1. i - d + 1 \in 1 .. len /\ s + (i - d + 1) - 1 = s + (i - d)
      BY <2>1, HalfFacts
    <3>2. QED
      BY <3>1, <2>1, <1>1
  <2>2. CASE ~(d <= i /\ i < d + len)
    BY <2>2 DEF Arrays
  <2>3. QED
    BY <2>1, <2>2
<1>3. QED
  BY <1>2 DEF Copied, Arrays

\* The range of a copy holds the bytes of the source.
LEMMA CopiedInside ==
    ASSUME NEW dst \in Arrays, NEW d \in Nat, NEW src, NEW s \in Nat,
           NEW len \in Nat, d + len <= Limit
    PROVE  Slice(Copied(dst, d, src, s, len), d, len) = Slice(src, s, len)
<1> DEFINE new == Copied(dst, d, src, s, len)
<1>1. ASSUME NEW i \in 1 .. len
      PROVE  new[d + i - 1] = src[s + i - 1]
  <2> DEFINE j == d + i - 1
  <2>1. /\ j \in 0 .. Limit - 1
        /\ d <= j /\ j < d + len
        /\ s + (j - d) = s + i - 1
    BY HalfFacts
  <2> HIDE DEF j
  <2>2. new[j] = IF d <= j /\ j < d + len THEN src[s + (j - d)] ELSE dst[j]
    BY <2>1 DEF Copied, Arrays
  <2>3. QED
    BY <2>1, <2>2 DEF j
<1> HIDE DEF new
<1>2. Slice(new, d, len) = Slice(src, s, len)
  BY <1>1 DEF Slice
<1>3. QED
  BY <1>2 DEF new

\* A copy changes nothing outside its range.
LEMMA CopiedOutside ==
    ASSUME NEW dst \in Arrays, NEW d \in Nat, NEW src, NEW s \in Nat,
           NEW len \in Nat, NEW f \in Nat, NEW n \in Nat,
           f + n <= Limit, f + n <= d \/ d + len <= f
    PROVE  Slice(Copied(dst, d, src, s, len), f, n) = Slice(dst, f, n)
<1> DEFINE new == Copied(dst, d, src, s, len)
<1>1. ASSUME NEW i \in 1 .. n
      PROVE  new[f + i - 1] = dst[f + i - 1]
  <2> DEFINE j == f + i - 1
  <2>1. j \in 0 .. Limit - 1 /\ ~(d <= j /\ j < d + len)
    BY HalfFacts
  <2> HIDE DEF j
  <2>2. new[j] = IF d <= j /\ j < d + len THEN src[s + (j - d)] ELSE dst[j]
    BY <2>1 DEF Copied, Arrays
  <2>3. QED
    BY <2>1, <2>2 DEF j
<1> HIDE DEF new
<1>2. Slice(new, f, n) = Slice(dst, f, n)
  BY <1>1 DEF Slice
<1>3. QED
  BY <1>2 DEF new

\* SliceSub for the slices that start at the beginning of an array.
LEMMA SliceSubFirst ==
    ASSUME NEW b \in Arrays, NEW n \in Nat, n <= Limit, NEW m \in 0 .. n
    PROVE  /\ SubSeq(Slice(b, 0, n), 1, m) = Slice(b, 0, m)
           /\ SubSeq(Slice(b, 0, n), m + 1, n) = Slice(b, m, n - m)
<1> DEFINE z == 0
<1>1. z \in Nat /\ z + n <= Limit /\ z + m = m
  BY HalfFacts
<1> HIDE DEF z
<1>2. /\ SubSeq(Slice(b, z, n), 1, m) = Slice(b, z, m)
      /\ SubSeq(Slice(b, z, n), m + 1, n) = Slice(b, z + m, n - m)
  BY <1>1, SliceSub
<1>3. QED
  BY <1>1, <1>2 DEF z

-----------------------------------------------------------------------------
(***************************************************************************)
(* What the operations do to the text.                                     *)
(***************************************************************************)

\* The text before and after the gap are sequences of the lengths the
\* indices give.
LEMMA Sides ==
    ASSUME NEW gb \in Wellformed
    PROVE  /\ Left(gb) \in Seq(Bytes)
           /\ Right(gb) \in Seq(Bytes)
           /\ Len(Left(gb)) = gb.gap_start
           /\ Len(Right(gb)) = Limit - gb.gap_end
<1> DEFINE s == gb.gap_start
           e == gb.gap_end
<1>1. /\ gb.buffer \in Arrays
      /\ s \in Nat /\ 0 + s <= Limit
      /\ e \in Nat /\ Limit - e \in Nat /\ e + (Limit - e) <= Limit
  BY Fields, HalfFacts
<1> HIDE DEF s, e
<1>2. Slice(gb.buffer, 0, s) \in Seq(Bytes) /\ Len(Slice(gb.buffer, 0, s)) = s
  BY <1>1, ArraySlice
<1>3. /\ Slice(gb.buffer, e, Limit - e) \in Seq(Bytes)
      /\ Len(Slice(gb.buffer, e, Limit - e)) = Limit - e
  BY <1>1, ArraySlice
<1>4. QED
  BY <1>2, <1>3 DEF Left, Right, s, e

\* A freshly allocated buffer is well-formed and empty.
LEMMA InitBuffer ==
    /\ gapbuf_init \in Wellformed
    /\ View(gapbuf_init) = Blank
<1> DEFINE zeroes == [i \in 0 .. Limit - 1 |-> NUL]
<1>1. /\ zeroes \in Arrays
      /\ 0 \in Nat /\ Limit \in Nat /\ 0 <= Limit /\ Limit <= Limit
      /\ gapbuf_init = Buf(zeroes, 0, Limit)
  BY HalfFacts DEF Arrays, Bytes, gapbuf_init
<1> HIDE DEF zeroes
<1>2. /\ gapbuf_init \in Wellformed
      /\ gapbuf_init.gap_start = 0
      /\ gapbuf_init.gap_end = Limit
  BY <1>1, BufWellformed
<1>3. Left(gapbuf_init) = <<>> /\ Right(gapbuf_init) = <<>>
  BY <1>2, Sides, NothingIsSeq, HalfFacts
<1>4. QED
  BY <1>2, <1>3 DEF View, Blank

\* gapbuf_clear empties a buffer, whatever its memory holds.
LEMMA ClearBuffer ==
    ASSUME NEW gb \in Wellformed
    PROVE  /\ gapbuf_clear(gb) \in Wellformed
           /\ View(gapbuf_clear(gb)) = Blank
<1> DEFINE new == gapbuf_clear(gb)
<1>1. new \in Wellformed /\ new.gap_start = 0 /\ new.gap_end = Limit
  BY BufWellformed, Fields, HalfFacts DEF gapbuf_clear
<1>2. Left(new) = <<>> /\ Right(new) = <<>>
  BY <1>1, Sides, NothingIsSeq, HalfFacts
<1>3. QED
  BY <1>1, <1>2 DEF View, Blank

\* gapbuf_forward moves num bytes from after the gap to before it.
LEMMA ForwardBuffer ==
    ASSUME NEW gb \in Wellformed, NEW num \in Nat,
           ~gapbuf_at_right(gb), gb.gap_end + num <= Limit
    PROVE  /\ gapbuf_forward(gb, num) \in Wellformed
           /\ num \in 0 .. Len(Right(gb))
           /\ View(gapbuf_forward(gb, num)) = Advanced(View(gb), num)
<1> DEFINE new == gapbuf_forward(gb, num)
           s == gb.gap_start
           e == gb.gap_end
           copied == Copied(gb.buffer, s, gb.buffer, e, num)
<1>1. /\ s \in Nat /\ e \in Nat /\ s <= e /\ e + num <= Limit
      /\ s + num <= Limit /\ gb.buffer \in Arrays
  BY Fields, HalfFacts
<1>2. new = Buf(copied, s + num, e + num)
  BY <1>1, HalfFacts DEF gapbuf_forward
<1> HIDE DEF new, s, e
<1>3. /\ copied \in Arrays
      /\ Slice(copied, s, num) = Slice(gb.buffer, e, num)
      /\ Slice(copied, 0, s) = Slice(gb.buffer, 0, s)
      /\ Slice(copied, e + num, Limit - (e + num))
            = Slice(gb.buffer, e + num, Limit - (e + num))
  <2>1. /\ 0 \in Nat /\ 0 + s <= Limit /\ 0 + s <= s
        /\ e + num \in Nat /\ Limit - (e + num) \in Nat
        /\ e + num + (Limit - (e + num)) <= Limit /\ s + num <= e + num
    BY <1>1, HalfFacts
  <2>2. Slice(gb.buffer, e, num) \in Seq(Bytes)
    BY <1>1, ArraySlice
  <2>3. copied \in Arrays
    BY <1>1, <2>2, CopiedArray
  <2>4. Slice(copied, s, num) = Slice(gb.buffer, e, num)
    BY <1>1, CopiedInside
  <2>5. Slice(copied, 0, s) = Slice(gb.buffer, 0, s)
    BY <1>1, <2>1, CopiedOutside
  <2>6. Slice(copied, e + num, Limit - (e + num))
          = Slice(gb.buffer, e + num, Limit - (e + num))
    BY <1>1, <2>1, CopiedOutside
  <2>7. QED
    BY <2>3, <2>4, <2>5, <2>6
<1> HIDE DEF copied
<1>4. /\ new \in Wellformed /\ new.buffer = copied
      /\ new.gap_start = s + num /\ new.gap_end = e + num
  BY <1>1, <1>2, <1>3, HalfFacts, BufWellformed
<1>5. num \in 0 .. Len(Right(gb)) /\ Len(Right(gb)) = Limit - e
  BY <1>1, Sides, HalfFacts DEF e
<1>6. /\ Limit - e \in Nat /\ e + (Limit - e) <= Limit
      /\ num \in 0 .. Limit - e
  BY <1>1, HalfFacts
<1>7. Left(new) = Left(gb) \o SubSeq(Right(gb), 1, num)
  <2>1. Slice(copied, 0, s) \o Slice(copied, s, num)
          = Slice(copied, 0, s + num)
    BY <1>1, <1>3, HalfFacts, SliceJoin
  <2>2. SubSeq(Slice(gb.buffer, e, Limit - e), 1, num)
          = Slice(gb.buffer, e, num)
    BY <1>1, <1>6, SliceSub
  <2>3. QED
    BY <1>3, <1>4, <2>1, <2>2 DEF Left, Right, s, e
<1>8. Right(new) = SubSeq(Right(gb), num + 1, Len(Right(gb)))
  <2>1. SubSeq(Slice(gb.buffer, e, Limit - e), num + 1, Limit - e)
          = Slice(gb.buffer, e + num, Limit - e - num)
    BY <1>1, <1>6, SliceSub
  <2>2. Limit - e - num = Limit - (e + num)
    BY <1>1, HalfFacts
  <2>3. QED
    BY <1>3, <1>4, <1>5, <2>1, <2>2 DEF Right, e
<1>9. QED
  BY <1>4, <1>5, <1>7, <1>8 DEF View, Advanced, new

\* gapbuf_backward moves num bytes from before the gap to after it.
LEMMA BackwardBuffer ==
    ASSUME NEW gb \in Wellformed, NEW num \in Nat,
           ~gapbuf_at_left(gb), num <= gb.gap_start
    PROVE  /\ gapbuf_backward(gb, num) \in Wellformed
           /\ num \in 0 .. Len(Left(gb))
           /\ View(gapbuf_backward(gb, num)) = Retreated(View(gb), num)
<1> DEFINE new == gapbuf_backward(gb, num)
           s == gb.gap_start
           e == gb.gap_end
           copied == Copied(gb.buffer, e - num, gb.buffer, s - num, num)
<1>1. /\ s \in Nat /\ e \in Nat /\ s <= e /\ e <= Limit /\ num <= s
      /\ gb.buffer \in Arrays
  BY Fields, HalfFacts
<1>2. new = Buf(copied, s - num, e - num)
  BY <1>1, HalfFacts DEF gapbuf_backward
<1> HIDE DEF new, s, e
<1>3. /\ s - num \in Nat /\ e - num \in Nat /\ s - num <= e - num
      /\ e - num <= Limit /\ Limit - e \in Nat
      /\ (s - num) + num <= Limit /\ (e - num) + num <= Limit
      /\ 0 + (s - num) <= e - num /\ 0 + (s - num) <= Limit
      /\ e + (Limit - e) <= Limit /\ (e - num) + num <= e
      /\ (e - num) + num = e /\ num + (Limit - e) = Limit - (e - num)
      /\ s - (s - num) = num /\ 0 + (s - num) = s - num
      /\ (s - num) + 1 = s - num + 1 /\ 0 + s <= Limit
      /\ s - num \in 0 .. s /\ (e - num) + num + (Limit - e) <= Limit
  BY <1>1, HalfFacts
<1>4. /\ copied \in Arrays
      /\ Slice(copied, e - num, num) = Slice(gb.buffer, s - num, num)
      /\ Slice(copied, 0, s - num) = Slice(gb.buffer, 0, s - num)
      /\ Slice(copied, e, Limit - e) = Slice(gb.buffer, e, Limit - e)
  <2>1. Slice(gb.buffer, s - num, num) \in Seq(Bytes)
    BY <1>1, <1>3, ArraySlice
  <2>2. copied \in Arrays
    BY <1>1, <1>3, <2>1, CopiedArray
  <2>3. Slice(copied, e - num, num) = Slice(gb.buffer, s - num, num)
    BY <1>1, <1>3, CopiedInside
  <2>4. Slice(copied, 0, s - num) = Slice(gb.buffer, 0, s - num)
    BY <1>1, <1>3, CopiedOutside
  <2>5. Slice(copied, e, Limit - e) = Slice(gb.buffer, e, Limit - e)
    BY <1>1, <1>3, CopiedOutside
  <2>6. QED
    BY <2>2, <2>3, <2>4, <2>5
<1> HIDE DEF copied
<1>5. /\ new \in Wellformed /\ new.buffer = copied
      /\ new.gap_start = s - num /\ new.gap_end = e - num
  BY <1>2, <1>3, <1>4, BufWellformed
<1>6. num \in 0 .. Len(Left(gb)) /\ Len(Left(gb)) = s
  BY <1>1, Sides DEF s
<1> DEFINE k == s - num
           d == e - num
           rest == Limit - e
<1>7. /\ k \in Nat /\ k \in 0 .. s /\ s <= Limit
      /\ k + 1 = s - num + 1 /\ s - k = num
      /\ d \in Nat /\ rest \in Nat /\ d + num + rest <= Limit
      /\ d + num = e /\ num + rest = Limit - d
  BY <1>1, <1>3
<1> HIDE DEF k, d, rest
<1>8. Left(new) = SubSeq(Left(gb), 1, Len(Left(gb)) - num)
  <2>1. SubSeq(Slice(gb.buffer, 0, s), 1, k) = Slice(gb.buffer, 0, k)
    BY <1>1, <1>7, SliceSubFirst
  <2>2. QED
    BY <1>4, <1>5, <1>6, <2>1 DEF Left, s, k
<1>9. Right(new)
        = SubSeq(Left(gb), Len(Left(gb)) - num + 1, Len(Left(gb)))
            \o Right(gb)
  <2>1. Slice(copied, d, num) \o Slice(copied, d + num, rest)
          = Slice(copied, d, num + rest)
    BY <1>7, <1>4, SliceJoin
  <2>2. SubSeq(Slice(gb.buffer, 0, s), k + 1, s)
          = Slice(gb.buffer, k, s - k)
    BY <1>1, <1>7, SliceSubFirst
  <2>3. SubSeq(Slice(gb.buffer, 0, s), s - num + 1, s)
          = Slice(gb.buffer, s - num, num)
    BY <2>2, <1>7 DEF k
  <2>4. Slice(copied, d, Limit - d)
          = Slice(gb.buffer, s - num, num) \o Slice(gb.buffer, e, Limit - e)
    BY <2>1, <1>4, <1>7 DEF d, rest
  <2>5. QED
    BY <1>5, <1>6, <2>3, <2>4 DEF Left, Right, s, e, d
<1>10. QED
  BY <1>5, <1>6, <1>8, <1>9 DEF View, Retreated, new

\* gapbuf_insert puts the bytes of the string before the gap.
LEMMA InsertBuffer ==
    ASSUME NEW gb \in Wellformed, NEW src, NEW from \in Nat, NEW len \in Nat,
           Slice(src, from, len) \in Seq(Bytes), len <= gapbuf_gap_size(gb)
    PROVE  /\ InsertedFrom(gb, src, from, len) \in Wellformed
           /\ InsertedFrom(gb, src, from, len).gap_start = gb.gap_start + len
           /\ InsertedFrom(gb, src, from, len).gap_end = gb.gap_end
           /\ View(InsertedFrom(gb, src, from, len))
                = Typed(View(gb), Slice(src, from, len))
<1> DEFINE new == InsertedFrom(gb, src, from, len)
           s == gb.gap_start
           e == gb.gap_end
           rest == Limit - e
           copied == Copied(gb.buffer, s, src, from, len)
<1>1. /\ s \in Nat /\ e \in Nat /\ s <= e /\ e <= Limit
      /\ s + len <= e /\ s + len <= Limit /\ s + len \in Nat
      /\ rest \in Nat /\ e + rest <= Limit
      /\ 0 \in Nat /\ 0 + s <= Limit /\ 0 + s <= s /\ gb.buffer \in Arrays
  BY Fields, HalfFacts DEF gapbuf_gap_size
<1>2. new = Buf(copied, s + len, e)
  BY <1>1 DEF InsertedFrom, gapbuf_gap_size
<1> HIDE DEF new, s, e, rest
<1>3. copied \in Arrays
  BY <1>1, CopiedArray
<1>4. Slice(copied, s, len) = Slice(src, from, len)
  BY <1>1, CopiedInside
<1>5. Slice(copied, 0, s) = Slice(gb.buffer, 0, s)
  BY <1>1, CopiedOutside
<1>6. Slice(copied, e, rest) = Slice(gb.buffer, e, rest)
  BY <1>1, CopiedOutside
<1> HIDE DEF copied
<1>7. /\ new \in Wellformed /\ new.buffer = copied
      /\ new.gap_start = s + len /\ new.gap_end = e
  BY <1>1, <1>2, <1>3, BufWellformed
<1>8. Slice(copied, 0, s) \o Slice(copied, s, len) = Slice(copied, 0, s + len)
  BY <1>1, <1>3, HalfFacts, SliceJoin
<1>9. Left(new) = Left(gb) \o Slice(src, from, len)
  BY <1>4, <1>5, <1>7, <1>8 DEF Left, s
<1>10. Right(new) = Right(gb)
  BY <1>6, <1>7 DEF Right, e, rest
<1>11. QED
  BY <1>7, <1>9, <1>10 DEF View, Typed, new, s, e

\* gapbuf_delete drops length bytes after the gap.
LEMMA DeleteBuffer ==
    ASSUME NEW gb \in Wellformed, NEW length \in Nat,
           gb.gap_end + length <= Limit
    PROVE  /\ gapbuf_delete(gb, length) \in Wellformed
           /\ length \in 0 .. Len(Right(gb))
           /\ View(gapbuf_delete(gb, length)) = Erased(View(gb), length)
<1> DEFINE new == gapbuf_delete(gb, length)
           e == gb.gap_end
           rest == Limit - e
<1>1. /\ gb.gap_start \in Nat /\ e \in Nat /\ gb.gap_start <= e + length
      /\ e + length <= Limit /\ e + length \in Nat /\ gb.buffer \in Arrays
      /\ rest \in Nat /\ e + rest <= Limit /\ length \in 0 .. rest
      /\ rest - length = Limit - (e + length)
  BY Fields, HalfFacts
<1>2. new = Buf(gb.buffer, gb.gap_start, e + length)
  BY <1>1, HalfFacts DEF gapbuf_delete
<1> HIDE DEF new, e, rest
<1>3. /\ new \in Wellformed /\ new.buffer = gb.buffer
      /\ new.gap_start = gb.gap_start /\ new.gap_end = e + length
  BY <1>1, <1>2, BufWellformed
<1>4. Len(Right(gb)) = rest
  BY Sides DEF e, rest
<1>5. SubSeq(Slice(gb.buffer, e, rest), length + 1, rest)
        = Slice(gb.buffer, e + length, rest - length)
  BY <1>1, SliceSub
<1>6. Right(new) = SubSeq(Right(gb), length + 1, Len(Right(gb)))
  BY <1>1, <1>3, <1>4, <1>5 DEF Right, e, rest
<1>7. Left(new) = Left(gb)
  BY <1>3 DEF Left
<1>8. QED
  BY <1>1, <1>3, <1>4, <1>6, <1>7 DEF View, Erased, new

-----------------------------------------------------------------------------
(***************************************************************************)
(* What split_point does to the text: nothing.                             *)
(***************************************************************************)

\* The point in the lower half: the new buffer holds the upper half, after
\* its gap.
LEMMA UpperHalfBuffer ==
    ASSUME NEW gb \in Wellformed
    PROVE  /\ UpperHalf(gb) \in Wellformed
           /\ View(UpperHalf(gb))
                = [left |-> <<>>, right |-> Slice(gb.buffer, Half, Half)]
<1> DEFINE upper == Slice(gb.buffer, Half, Half)
           filled == InsertedFrom(gapbuf_init, gb.buffer, Half, Half)
<1>1. upper \in Seq(Bytes) /\ Len(upper) = Half
  BY Fields, HalfFacts, ArraySlice
<1>2. /\ gapbuf_init \in Wellformed /\ gapbuf_init.gap_start = 0
      /\ gapbuf_init.gap_end = Limit /\ Half <= gapbuf_gap_size(gapbuf_init)
  BY InitBuffer, HalfFacts DEF gapbuf_init, Buf, gapbuf_gap_size
<1>3. /\ filled \in Wellformed /\ filled.gap_start = Half
      /\ View(filled) = Typed(Blank, upper)
  BY <1>1, <1>2, InitBuffer, HalfFacts, InsertBuffer
<1>4. View(filled) = [left |-> upper, right |-> <<>>]
  BY <1>1, <1>3, ConcatNothing DEF Typed, Blank
<1> HIDE DEF filled, upper
<1>5. ~gapbuf_at_left(filled) /\ Half <= filled.gap_start /\ Half \in Nat
  BY <1>3, HalfFacts DEF gapbuf_at_left
<1>6. /\ gapbuf_backward(filled, Half) \in Wellformed
      /\ View(gapbuf_backward(filled, Half)) = Retreated(View(filled), Half)
  BY <1>3, <1>5, BackwardBuffer
<1>7. /\ SubSeq(upper, 1, Len(upper) - Half) = <<>>
      /\ SubSeq(upper, Len(upper) - Half + 1, Len(upper)) = upper
  BY <1>1, HalfFacts
<1>8. Retreated(View(filled), Half) = [left |-> <<>>, right |-> upper]
  <2>1. upper \o <<>> = upper
    BY <1>1, ConcatNothing
  <2>2. View(filled).left = upper /\ View(filled).right = <<>>
    BY <1>4
  <2>3. QED
    BY <1>7, <2>1, <2>2 DEF Retreated
<1>9. QED
  BY <1>6, <1>8 DEF UpperHalf, filled, upper

\* The point in the lower half: together the point and the new buffer hold
\* the text of the full buffer, with the cursor where it was.
LEMMA SplitLowBuffer ==
    ASSUME NEW gb \in Wellformed, gapbuf_full(gb), gb.gap_start <= Half
    PROVE  /\ KeepLower(gb) \in Wellformed
           /\ Framed(<<>>, View(KeepLower(gb)),
                     Left(UpperHalf(gb)) \o Right(UpperHalf(gb)))
                = View(gb)
<1> DEFINE new == KeepLower(gb)
           s == gb.gap_start
           rest == Half - s
           after == Limit - s
           copied == Copied(gb.buffer, Half + s, gb.buffer, s, rest)
<1>1. /\ gb.gap_end = s /\ s \in Nat /\ s <= Half /\ gb.buffer \in Arrays
      /\ rest \in Nat /\ Half + s \in Nat /\ s <= Half + s
      /\ Half + s <= Limit /\ (Half + s) + rest <= Limit
      /\ s + rest <= Limit /\ s + rest = Half /\ s + Half = Half + s
      /\ Limit - (s + Half) = rest /\ rest + Half = Limit - s
      /\ Half \in Nat /\ Half + Half <= Limit /\ after \in Nat
      /\ s + after <= Limit /\ after = rest + Half /\ Half = s + rest
      /\ 0 \in Nat /\ 0 + s <= Limit /\ 0 + s <= Half + s
  BY Fields, HalfFacts DEF gapbuf_full
<1>2. new = Buf(copied, s, Half + s)
  BY <1>1 DEF KeepLower
<1> HIDE DEF new, s, rest, after
<1>3. copied \in Arrays
  <2>1. Slice(gb.buffer, s, rest) \in Seq(Bytes)
    BY <1>1, ArraySlice
  <2>2. QED
    BY <1>1, <2>1, CopiedArray
<1>4. Slice(copied, Half + s, rest) = Slice(gb.buffer, s, rest)
  BY <1>1, CopiedInside
<1>5. Slice(copied, 0, s) = Slice(gb.buffer, 0, s)
  BY <1>1, CopiedOutside
<1> HIDE DEF copied
<1>6. /\ new \in Wellformed /\ new.buffer = copied
      /\ new.gap_start = s /\ new.gap_end = Half + s
  BY <1>1, <1>2, <1>3, BufWellformed
<1>7. Left(new) = Left(gb)
  BY <1>5, <1>6 DEF Left, s
<1>8. Right(new) = Slice(gb.buffer, s, rest)
  BY <1>1, <1>4, <1>6 DEF Right
<1>9. Slice(gb.buffer, s, rest) \o Slice(gb.buffer, Half, Half)
        = Slice(gb.buffer, s, after)
  <2>1. /\ gb.buffer \in Arrays /\ s \in Nat /\ rest \in Nat /\ Half \in Nat
        /\ s + rest + Half <= Limit
    BY <1>1
  <2>2. Slice(gb.buffer, s, rest) \o Slice(gb.buffer, s + rest, Half)
          = Slice(gb.buffer, s, rest + Half)
    BY <2>1, SliceJoin
  <2>3. QED
    BY <1>1, <2>2
<1>10. Right(new) \o Slice(gb.buffer, Half, Half) = Right(gb)
  BY <1>1, <1>8, <1>9 DEF Right, after
<1>11. /\ Left(UpperHalf(gb)) = <<>>
       /\ Right(UpperHalf(gb)) = Slice(gb.buffer, Half, Half)
  BY UpperHalfBuffer DEF View
<1>12. Slice(gb.buffer, Half, Half) \in Seq(Bytes)
  BY <1>1, HalfFacts, ArraySlice
<1>13. /\ <<>> \o Slice(gb.buffer, Half, Half) = Slice(gb.buffer, Half, Half)
       /\ <<>> \o Left(gb) = Left(gb)
  BY <1>12, Sides, ConcatNothing
<1>14. QED
  BY <1>6, <1>7, <1>10, <1>11, <1>13 DEF Framed, View, new

\* The point in the upper half: likewise, with the new buffer before.
LEMMA SplitHighBuffer ==
    ASSUME NEW gb \in Wellformed, gapbuf_full(gb), gb.gap_start > Half
    PROVE  /\ KeepUpper(gb) \in Wellformed
           /\ LowerHalf(gb) \in Wellformed
           /\ Framed(Left(LowerHalf(gb)) \o Right(LowerHalf(gb)),
                     View(KeepUpper(gb)), <<>>)
                = View(gb)
<1> DEFINE new == KeepUpper(gb)
           lower == LowerHalf(gb)
           s == gb.gap_start
           rest == s - Half
           after == Limit - s
           copied == Copied(gb.buffer, 0, gb.buffer, Half, rest)
<1>1. /\ gb.gap_end = s /\ s \in Nat /\ Half <= s /\ gb.buffer \in Arrays
      /\ rest \in Nat /\ Half + rest <= Limit /\ rest <= s /\ s <= Limit
      /\ 0 \in Nat /\ 0 + rest <= Limit /\ 0 + rest <= s
      /\ after \in Nat /\ s + after <= Limit
      /\ 0 + Half <= Limit /\ s = Half + rest /\ Half = 0 + Half
      /\ 0 + s <= Limit /\ Half \in Nat
  BY Fields, HalfFacts DEF gapbuf_full
<1>2. new = Buf(copied, rest, s)
  BY <1>1 DEF KeepUpper
<1> HIDE DEF new, s, rest, after
<1>3. copied \in Arrays
  <2>1. Slice(gb.buffer, Half, rest) \in Seq(Bytes)
    BY <1>1, HalfFacts, ArraySlice
  <2>2. QED
    BY <1>1, <2>1, HalfFacts, CopiedArray
<1>4. Slice(copied, 0, rest) = Slice(gb.buffer, Half, rest)
  BY <1>1, HalfFacts, CopiedInside
<1>5. Slice(copied, s, after) = Slice(gb.buffer, s, after)
  BY <1>1, HalfFacts, CopiedOutside
<1> HIDE DEF copied
<1>6. /\ new \in Wellformed /\ new.buffer = copied
      /\ new.gap_start = rest /\ new.gap_end = s
  BY <1>1, <1>2, <1>3, BufWellformed
<1>7. Left(new) = Slice(gb.buffer, Half, rest)
  BY <1>4, <1>6 DEF Left
<1>8. Right(new) = Right(gb)
  BY <1>1, <1>5, <1>6 DEF Right, after
<1>9. Slice(gb.buffer, 0, Half) \in Seq(Bytes)
  BY <1>1, HalfFacts, ArraySlice
<1>10. lower \in Wellformed /\ View(lower) = Typed(Blank, Slice(gb.buffer, 0, Half))
  <2>1. /\ gapbuf_init \in Wellformed /\ 0 \in Nat
        /\ Half <= gapbuf_gap_size(gapbuf_init)
    BY InitBuffer, HalfFacts DEF gapbuf_init, Buf, gapbuf_gap_size
  <2>2. QED
    BY <1>9, <2>1, InitBuffer, HalfFacts, InsertBuffer DEF LowerHalf
<1>11. Left(lower) = Slice(gb.buffer, 0, Half) /\ Right(lower) = <<>>
  BY <1>9, <1>10, ConcatNothing DEF View, Typed, Blank
<1>12. Slice(gb.buffer, 0, Half) \o Slice(gb.buffer, Half, rest)
         = Slice(gb.buffer, 0, s)
  <2>1. /\ gb.buffer \in Arrays /\ 0 \in Nat /\ Half \in Nat /\ rest \in Nat
        /\ 0 + Half + rest <= Limit
    BY <1>1
  <2>2. Slice(gb.buffer, 0, Half) \o Slice(gb.buffer, 0 + Half, rest)
          = Slice(gb.buffer, 0, Half + rest)
    BY <2>1, SliceJoin
  <2>3. QED
    BY <1>1, <2>2
<1>13. /\ Slice(gb.buffer, 0, Half) \o <<>> = Slice(gb.buffer, 0, Half)
       /\ Right(gb) \o <<>> = Right(gb)
  BY <1>9, Sides, ConcatNothing
<1>14. (Left(lower) \o Right(lower)) \o Left(new) = Left(gb)
  BY <1>7, <1>11, <1>12, <1>13 DEF Left, s
<1>15. QED
  BY <1>6, <1>8, <1>10, <1>13, <1>14 DEF Framed, View, new, lower

-----------------------------------------------------------------------------
(***************************************************************************)
(* The type invariant.                                                     *)
(***************************************************************************)

\* The type invariant, in terms of Wellformed.
LEMMA TypeOKWellformed ==
    TypeOK <=> /\ point \in Wellformed
               /\ peer \in Wellformed
               /\ side \in {"none", "before", "after"}
BY DEF TypeOK, Wellformed

\* What a call of each operation does to a buffer: nothing if it fails.
LEMMA CallForward ==
    ASSUME NEW gb \in Wellformed, NEW num \in 0 .. Limit,
           NEW new, new = gapbuf_forward(gb, num)
    PROVE  \/ new = gb
           \/ /\ new \in Wellformed
              /\ num \in 0 .. Len(Right(gb))
              /\ View(new) = Advanced(View(gb), num)
<1>1. CASE gapbuf_at_right(gb) \/ gb.gap_end + num > Limit
  BY <1>1 DEF gapbuf_forward
<1>2. CASE ~(gapbuf_at_right(gb) \/ gb.gap_end + num > Limit)
  <2>1. num \in Nat /\ ~gapbuf_at_right(gb) /\ gb.gap_end + num <= Limit
    BY <1>2, HalfFacts, Fields
  <2>2. QED
    BY <2>1, ForwardBuffer
<1>3. QED
  BY <1>1, <1>2

\* gapbuf_backward refuses, or moves the cursor back.
LEMMA CallBackward ==
    ASSUME NEW gb \in Wellformed, NEW num \in 0 .. Limit,
           NEW new, new = gapbuf_backward(gb, num)
    PROVE  \/ new = gb
           \/ /\ new \in Wellformed
              /\ num \in 0 .. Len(Left(gb))
              /\ View(new) = Retreated(View(gb), num)
<1>1. CASE gapbuf_at_left(gb) \/ gb.gap_start < num
  BY <1>1 DEF gapbuf_backward
<1>2. CASE ~(gapbuf_at_left(gb) \/ gb.gap_start < num)
  <2>1. num \in Nat /\ ~gapbuf_at_left(gb) /\ num <= gb.gap_start
    BY <1>2, HalfFacts, Fields
  <2>2. QED
    BY <2>1, BackwardBuffer
<1>3. QED
  BY <1>1, <1>2

\* gapbuf_insert refuses, or types at the cursor.
LEMMA CallInsert ==
    ASSUME NEW gb \in Wellformed, NEW str \in Strings,
           NEW new, new = gapbuf_insert(gb, str)
    PROVE  \/ new = gb
           \/ /\ new \in Wellformed
              /\ View(new) = Typed(View(gb), str)
<1>1. str \in Seq(Byte) /\ str \in Seq(Bytes) /\ 1 \in Nat /\ Len(str) \in Nat
  BY StringsAssumption DEF Bytes
<1>2. Slice(str, 1, Len(str)) = str
  BY <1>1 DEF Slice
<1>3. CASE gapbuf_gap_size(gb) < Len(str)
  BY <1>3 DEF gapbuf_insert, InsertedFrom
<1>4. CASE ~(gapbuf_gap_size(gb) < Len(str))
  <2>1. Len(str) <= gapbuf_gap_size(gb)
    BY <1>1, <1>4, Fields DEF gapbuf_gap_size
  <2>2. QED
    BY <1>1, <1>2, <2>1, InsertBuffer DEF gapbuf_insert
<1>5. QED
  BY <1>3, <1>4

\* gapbuf_delete refuses, or erases after the cursor.
LEMMA CallDelete ==
    ASSUME NEW gb \in Wellformed, NEW length \in 0 .. Limit,
           NEW new, new = gapbuf_delete(gb, length)
    PROVE  \/ new = gb
           \/ /\ new \in Wellformed
              /\ length \in 0 .. Len(Right(gb))
              /\ View(new) = Erased(View(gb), length)
<1>1. CASE gb.gap_end + length > Limit
  BY <1>1 DEF gapbuf_delete
<1>2. CASE ~(gb.gap_end + length > Limit)
  <2>1. length \in Nat /\ gb.gap_end + length <= Limit
    BY <1>2, HalfFacts, Fields
  <2>2. QED
    BY <2>1, DeleteBuffer
<1>3. QED
  BY <1>1, <1>2

\* Every buffer stays well-formed under every operation and a split, for
\* every limit: the is_gapbuf assertions of text_buffer.c never fail.
THEOREM TypeCorrect == Spec => []TypeOK
<1>1. Init => TypeOK
  BY InitBuffer, TypeOKWellformed DEF Init
<1>2. TypeOK /\ [Next]_vars => TypeOK'
  <2> SUFFICES ASSUME /\ point \in Wellformed
                      /\ peer \in Wellformed
                      /\ side \in {"none", "before", "after"},
                      [Next]_vars
               PROVE  /\ point' \in Wellformed
                      /\ peer' \in Wellformed
                      /\ side' \in {"none", "before", "after"}
    BY DEF TypeOK, Wellformed
  <2>1. CASE Forward
    BY <2>1, CallForward DEF Forward
  <2>2. CASE Backward
    BY <2>2, CallBackward DEF Backward
  <2>3. CASE Insert
    BY <2>3, CallInsert DEF Insert
  <2>4. CASE Delete
    BY <2>4, CallDelete DEF Delete
  <2>5. CASE Clear
    BY <2>5, ClearBuffer, InitBuffer DEF Clear
  <2>6. CASE SplitLow
    BY <2>6, SplitLowBuffer, UpperHalfBuffer DEF SplitLow
  <2>7. CASE SplitHigh
    BY <2>7, SplitHighBuffer DEF SplitHigh
  <2>8. CASE UNCHANGED vars
    BY <2>8 DEF vars
  <2>9. QED
    BY <2>1, <2>2, <2>3, <2>4, <2>5, <2>6, <2>7, <2>8 DEF Next
<1>3. QED
  BY <1>1, <1>2, PTL DEF Spec

-----------------------------------------------------------------------------
(***************************************************************************)
(* No byte of the gap is exposed.                                          *)
(***************************************************************************)

\* The inductive invariant: the buffers are well-formed and stand for texts
\* of the caller's bytes.
IInv == /\ point \in Wellformed
        /\ peer \in Wellformed
        /\ side \in {"none", "before", "after"}
        /\ View(point) \in CursorsOver(Byte)
        /\ View(peer) \in CursorsOver(Byte)

\* It says more than TypeOK: no byte outside the gap is one of those that
\* gapbuf_init left there.
LEMMA IInvMeaning == IInv => TypeOK
BY DEF IInv, TypeOK, Wellformed

\* No text is a text over any bytes.
LEMMA BlankOver == Blank \in CursorsOver(Byte)
BY DEF Blank, CursorsOver

\* The invariant holds at first.
LEMMA IInvInit == Init => IInv
BY InitBuffer, BlankOver DEF Init, IInv

\* Every step keeps it.
LEMMA IInvStep == IInv /\ [Next]_vars => IInv'
<1> SUFFICES ASSUME IInv, [Next]_vars
             PROVE  IInv'
  OBVIOUS
<1>1. /\ point \in Wellformed /\ peer \in Wellformed
      /\ View(point) \in CursorsOver(Byte)
      /\ View(peer) \in CursorsOver(Byte)
      /\ side \in {"none", "before", "after"}
  BY DEF IInv
<1>2. ASSUME NEW c \in CursorsOver(Byte)
      PROVE  c.left \in Seq(Byte) /\ c.right \in Seq(Byte)
  BY DEF CursorsOver
<1>3. View(point).left = Left(point) /\ View(point).right = Right(point)
  BY DEF View
<1>4. CASE Forward
  <2>1. point' \in Wellformed /\ View(point') \in CursorsOver(Byte)
    BY <1>1, <1>3, <1>4, CallForward, OperationsClosed DEF Forward
  <2>2. QED
    BY <1>1, <1>4, <2>1 DEF Forward, IInv
<1>5. CASE Backward
  <2>1. point' \in Wellformed /\ View(point') \in CursorsOver(Byte)
    BY <1>1, <1>3, <1>5, CallBackward, OperationsClosed DEF Backward
  <2>2. QED
    BY <1>1, <1>5, <2>1 DEF Backward, IInv
<1>6. CASE Insert
  <2>1. point' \in Wellformed /\ View(point') \in CursorsOver(Byte)
    BY <1>1, <1>6, CallInsert, OperationsClosed, StringsAssumption DEF Insert
  <2>2. QED
    BY <1>1, <1>6, <2>1 DEF Insert, IInv
<1>7. CASE Delete
  <2>1. point' \in Wellformed /\ View(point') \in CursorsOver(Byte)
    BY <1>1, <1>3, <1>7, CallDelete, OperationsClosed DEF Delete
  <2>2. QED
    BY <1>1, <1>7, <2>1 DEF Delete, IInv
<1>8. CASE Clear
  BY <1>1, <1>8, ClearBuffer, InitBuffer, BlankOver DEF Clear, IInv
<1>9. CASE SplitLow
  <2>1. /\ KeepLower(point) \in Wellformed /\ UpperHalf(point) \in Wellformed
        /\ Framed(<<>>, View(KeepLower(point)),
                  Left(UpperHalf(point)) \o Right(UpperHalf(point)))
             = View(point)
        /\ View(UpperHalf(point))
             = [left |-> <<>>, right |-> Slice(point.buffer, Half, Half)]
    BY <1>1, <1>9, SplitLowBuffer, UpperHalfBuffer DEF SplitLow
  <2> DEFINE new == KeepLower(point)
             upper == UpperHalf(point)
  <2>2. /\ Left(new) \in Seq(Bytes) /\ Right(new) \in Seq(Bytes)
        /\ Left(upper) = <<>> /\ Right(upper) \in Seq(Bytes)
    BY <2>1, Sides DEF View
  <2>3. /\ <<>> \o Left(new) = View(point).left
        /\ Right(new) \o (<<>> \o Right(upper)) = View(point).right
    BY <2>1, <2>2 DEF Framed, View
  <2> HIDE DEF new, upper
  <2>4. Left(new) \in Seq(Byte)
    BY <1>1, <1>2, <2>2, <2>3, ConcatNothing
  <2>5. Right(new) \o Right(upper) \in Seq(Byte)
    BY <1>1, <1>2, <2>2, <2>3, ConcatNothing
  <2>6. Right(new) \in Seq(Byte) /\ Right(upper) \in Seq(Byte)
    BY <2>2, <2>5, PartsOfText
  <2>7. View(new) \in CursorsOver(Byte) /\ View(upper) \in CursorsOver(Byte)
    BY <2>2, <2>4, <2>6 DEF View, CursorsOver
  <2>8. QED
    BY <1>9, <2>1, <2>7 DEF SplitLow, IInv, new, upper
<1>10. CASE SplitHigh
  <2>1. /\ KeepUpper(point) \in Wellformed /\ LowerHalf(point) \in Wellformed
        /\ Framed(Left(LowerHalf(point)) \o Right(LowerHalf(point)),
                  View(KeepUpper(point)), <<>>)
             = View(point)
    BY <1>1, <1>10, SplitHighBuffer DEF SplitHigh
  <2> DEFINE new == KeepUpper(point)
             lower == LowerHalf(point)
             text == Left(lower) \o Right(lower)
  <2>2. /\ Left(new) \in Seq(Bytes) /\ Right(new) \in Seq(Bytes)
        /\ Left(lower) \in Seq(Bytes) /\ Right(lower) \in Seq(Bytes)
    BY <2>1, Sides
  <2>3. /\ text \o Left(new) = View(point).left
        /\ Right(new) \o <<>> = View(point).right
    BY <2>1 DEF Framed, View
  <2> HIDE DEF new, lower
  <2>4. text \in Seq(Bytes)
    BY <2>2
  <2> HIDE DEF text
  <2>5. text \in Seq(Byte) /\ Left(new) \in Seq(Byte)
    BY <1>1, <1>2, <2>2, <2>3, <2>4, PartsOfText, ZenonT(30)
  <2>6. Right(new) \in Seq(Byte)
    BY <1>1, <1>2, <2>2, <2>3, ConcatNothing
  <2>7. Left(lower) \in Seq(Byte) /\ Right(lower) \in Seq(Byte)
    BY <2>2, <2>5, PartsOfText DEF text
  <2>8. View(new) \in CursorsOver(Byte) /\ View(lower) \in CursorsOver(Byte)
    BY <2>5, <2>6, <2>7 DEF View, CursorsOver
  <2>9. QED
    BY <1>10, <2>1, <2>8 DEF SplitHigh, IInv, new, lower
<1>11. CASE UNCHANGED vars
  BY <1>11 DEF vars, IInv, View, Left, Right
<1>12. QED
  BY <1>4, <1>5, <1>6, <1>7, <1>8, <1>9, <1>10, <1>11 DEF Next

-----------------------------------------------------------------------------
(***************************************************************************)
(* What the operations that read return.                                   *)
(***************************************************************************)

\* Two texts make a string exactly if they are its parts.
MadeOf(str, l, r) ==
    l \o r = str <=> /\ l = SubSeq(str, 1, Len(l))
                     /\ r = SubSeq(str, Len(l) + 1, Len(str))

\* What MadeOf says by parts: the two make the string.
LEMMA PartsMake ==
    ASSUME NEW S, NEW l \in Seq(S), NEW r \in Seq(S), NEW str \in Seq(S),
           Len(str) = Len(l) + Len(r)
    PROVE  MadeOf(str, l, r)
<1>1. ASSUME l \o r = str
      PROVE  l = SubSeq(str, 1, Len(l)) /\ r = SubSeq(str, Len(l) + 1, Len(str))
  <2>1. SubSeq(l \o r, 1, Len(l)) = l
    OBVIOUS
  <2>2. SubSeq(l \o r, Len(l) + 1, Len(l \o r)) = r
    BY SubSeqSecond
  <2>3. QED
    BY <1>1, <2>1, <2>2
<1>2. ASSUME l = SubSeq(str, 1, Len(l)), r = SubSeq(str, Len(l) + 1, Len(str))
      PROVE  l \o r = str
  <2>1. /\ Len(l \o r) = Len(str)
        /\ \A i \in 1 .. Len(str) :
              (l \o r)[i] = IF i <= Len(l) THEN l[i] ELSE r[i - Len(l)]
    OBVIOUS
  <2>2. \A i \in 1 .. Len(l) : l[i] = str[i]
    <3> DEFINE m == Len(l)
    <3>1. m \in Nat /\ m <= Len(str) /\ l = SubSeq(str, 1, m)
      BY <1>2
    <3> HIDE DEF m
    <3>2. \A i \in 1 .. m : SubSeq(str, 1, m)[i] = str[i]
      BY <3>1
    <3>3. QED
      BY <3>1, <3>2 DEF m
  <2>3. \A i \in 1 .. Len(r) : r[i] = str[i + Len(l)]
    <3> DEFINE m == Len(l)
    <3>1. m \in Nat /\ m <= Len(str) /\ r = SubSeq(str, m + 1, Len(str))
          /\ Len(r) = Len(str) - m
      BY <1>2
    <3> HIDE DEF m
    <3>2. \A i \in 1 .. Len(str) - m :
             SubSeq(str, m + 1, Len(str))[i] = str[i + m]
      BY <3>1
    <3>3. QED
      BY <3>1, <3>2 DEF m
  <2>4. ASSUME NEW i \in 1 .. Len(str)
        PROVE  (l \o r)[i] = str[i]
    <3>1. CASE i <= Len(l)
      BY <3>1, <2>1, <2>2
    <3>2. CASE ~(i <= Len(l))
      <4>1. i - Len(l) \in 1 .. Len(r) /\ (i - Len(l)) + Len(l) = i
        BY <3>2
      <4>2. QED
        BY <3>2, <4>1, <2>1, <2>3
    <3>3. QED
      BY <3>1, <3>2
  <2>5. QED
    BY <2>1, <2>4, SeqEqual, SMTT(30)
<1>3. QED
  BY <1>1, <1>2 DEF MadeOf

\* gapbuf_strncmp compares the two parts of the text with the two parts of
\* the string.
LEMMA EqualsBuffer ==
    ASSUME NEW gb \in Wellformed, NEW str \in Seq(Byte)
    PROVE  gapbuf_equals(gb, str) <=> Left(gb) \o Right(gb) = str
<1> DEFINE s == gb.gap_start
           e == gb.gap_end
           n == Len(str)
           l == Left(gb)
           r == Right(gb)
<1>1. /\ s \in Nat /\ e \in Nat /\ s <= e /\ e <= Limit /\ n \in Nat
      /\ l \in Seq(Bytes) /\ r \in Seq(Bytes) /\ str \in Seq(Bytes)
      /\ Len(l) = s /\ Len(r) = Limit - e
      /\ gapbuf_length(gb) = Len(l) + Len(r)
      /\ Limit \in Nat
  BY Fields, Sides, HalfFacts, SMTT(30) DEF gapbuf_length, gapbuf_gap_size, Bytes
<1>2. ASSUME gapbuf_length(gb) # n
      PROVE  ~gapbuf_equals(gb, str) /\ l \o r # str
  BY <1>1, <1>2, SMTT(30) DEF gapbuf_equals
<1>3. ASSUME gapbuf_length(gb) = n
      PROVE  gapbuf_equals(gb, str) <=> l \o r = str
  <2>1. /\ n = s + Len(r) /\ s <= n /\ Limit - e = n - s
        /\ l = Slice(gb.buffer, 0, s) /\ r = Slice(gb.buffer, e, n - s)
    BY <1>1, <1>3 DEF Left, Right
  <2>2. l \o r = str <=> l = SubSeq(str, 1, s) /\ r = SubSeq(str, s + 1, n)
    <3> HIDE DEF l, r, s
    <3>1. /\ l \in Seq(Bytes) /\ r \in Seq(Bytes) /\ str \in Seq(Bytes)
          /\ Len(str) = Len(l) + Len(r)
      BY <1>1, <2>1
    <3>2. MadeOf(str, l, r)
      BY <3>1, PartsMake
    <3>3. Len(l) = s /\ Len(str) = n
      BY <1>1
    <3>4. QED
      BY <3>2, <3>3 DEF MadeOf
  <2>3. /\ Slice(str, 1, s) = SubSeq(str, 1, s)
        /\ Slice(str, 1 + s, n - s) = SubSeq(str, s + 1, n)
    <3> HIDE DEF s
    <3>1. QED
      BY <1>1, <2>1 DEF Slice
  <2>4. CASE n > s
    <3>1. e < Limit
      BY <1>1, <2>1, <2>4
    <3>2. gapbuf_equals(gb, str)
            <=> /\ Slice(gb.buffer, 0, s) = Slice(str, 1, s)
                /\ Slice(gb.buffer, e, n - s) = Slice(str, 1 + s, n - s)
      BY <1>3, <2>4, <3>1 DEF gapbuf_equals, SameBytes
    <3>3. QED
      BY <2>1, <2>2, <2>3, <3>2
  <2>5. CASE ~(n > s)
    <3>1. n = s /\ Len(r) = 0
      BY <1>1, <2>1, <2>5
    <3>2. gapbuf_equals(gb, str) <=> l = SubSeq(str, 1, s)
      BY <1>3, <2>1, <2>3, <2>5, <3>1 DEF gapbuf_equals, SameBytes
    <3>3. r = SubSeq(str, s + 1, n)
      <4>1. r = <<>>
        BY <1>1, <3>1, NothingIsSeq
      <4>2. SubSeq(str, n + 1, n) = <<>>
        BY <1>1
      <4>3. QED
        BY <3>1, <4>1, <4>2
    <3>4. QED
      BY <2>2, <3>2, <3>3
  <2>6. QED
    BY <2>4, <2>5
<1>4. QED
  BY <1>2, <1>3

\* gapbuf_getc reads the first byte after the gap.
LEMMA GetcBuffer ==
    ASSUME NEW gb \in Wellformed
    PROVE  gapbuf_getc(gb) = IF Right(gb) = <<>> THEN <<>>
                             ELSE <<Head(Right(gb))>>
<1> DEFINE e == gb.gap_end
           n == Limit - e
<1>1. /\ gb.buffer \in Arrays /\ e \in Nat /\ n \in Nat /\ e + n <= Limit
      /\ Limit \in Nat
  BY Fields, HalfFacts
<1>2. /\ Right(gb) \in Seq(Bytes) /\ Len(Right(gb)) = n
      /\ \A i \in 1 .. n : Right(gb)[i] = gb.buffer[e + i - 1]
  <2> HIDE DEF n, e
  <2>1. QED
    BY <1>1, ArraySlice DEF Right, n, e
<1>3. CASE e < Limit
  <2>1. 1 \in 1 .. n /\ e + 1 - 1 = e /\ Right(gb) # <<>>
    BY <1>1, <1>2, <1>3
  <2>2. Head(Right(gb)) = gb.buffer[e]
    BY <1>2, <2>1
  <2>3. QED
    BY <1>3, <2>1, <2>2 DEF gapbuf_getc
<1>4. CASE ~(e < Limit)
  <2>1. n = 0
    BY <1>1, <1>4
  <2>2. Right(gb) = <<>>
    BY <1>2, <2>1, NothingIsSeq
  <2>3. QED
    BY <1>4, <2>2 DEF gapbuf_getc
<1>5. QED
  BY <1>3, <1>4

\* gapbuf_strncmp returns 0 exactly for the text of the buffer wherever the
\* gap is, and gapbuf_getc reads the byte after the cursor, or fails at the
\* end of the text, for every limit and every string.
THEOREM TextRead == Spec => []ReadsText
<1>1. IInv => ReadsText
  BY EqualsBuffer, GetcBuffer, StringsAssumption DEF IInv, ReadsText
<1>2. QED
  BY IInvInit, IInvStep, <1>1, PTL DEF Spec

-----------------------------------------------------------------------------
(***************************************************************************)
(* The two buffers of a split.                                             *)
(***************************************************************************)

\* The point in the lower half: half of the bytes stay, half are in the new
\* buffer, whose gap is at its left end.
LEMMA SplitLowSizes ==
    ASSUME NEW gb \in Wellformed, gapbuf_full(gb), gb.gap_start <= Half
    PROVE  /\ gapbuf_length(KeepLower(gb)) = Half
           /\ gapbuf_length(UpperHalf(gb)) = Half
           /\ gapbuf_at_left(UpperHalf(gb))
<1>1. /\ KeepLower(gb).gap_start = gb.gap_start
      /\ KeepLower(gb).gap_end = gb.gap_start + Half
      /\ gb.gap_start \in Nat
  BY Fields DEF KeepLower, Buf, gapbuf_full
<1>2. gapbuf_length(KeepLower(gb)) = Half
  BY <1>1, HalfFacts DEF gapbuf_length, gapbuf_gap_size
<1> DEFINE upper == UpperHalf(gb)
<1>3. /\ upper \in Wellformed /\ Left(upper) = <<>>
      /\ Len(Right(upper)) = Half
  <2>1. Len(Slice(gb.buffer, Half, Half)) = Half
    BY Fields, HalfFacts, ArraySlice
  <2>2. QED
    BY <2>1, UpperHalfBuffer DEF View
<1> HIDE DEF upper
<1>4. upper.gap_start = 0 /\ Limit - upper.gap_end = Half
      /\ upper.gap_end \in Nat
  BY <1>3, Sides, Fields
<1>5. gapbuf_length(upper) = Half /\ gapbuf_at_left(upper)
  BY <1>4, HalfFacts DEF gapbuf_length, gapbuf_gap_size, gapbuf_at_left
<1>6. QED
  BY <1>2, <1>5 DEF upper

\* The point in the upper half: likewise, with the gap at the right end.
LEMMA SplitHighSizes ==
    ASSUME NEW gb \in Wellformed, gapbuf_full(gb), gb.gap_start > Half
    PROVE  /\ gapbuf_length(KeepUpper(gb)) = Half
           /\ gapbuf_length(LowerHalf(gb)) = Half
           /\ gapbuf_at_right(LowerHalf(gb))
<1>1. /\ KeepUpper(gb).gap_start = gb.gap_start - Half
      /\ KeepUpper(gb).gap_end = gb.gap_start
      /\ gb.gap_start \in Nat
  BY Fields DEF KeepUpper, Buf, gapbuf_full
<1>2. gapbuf_length(KeepUpper(gb)) = Half
  BY <1>1, HalfFacts DEF gapbuf_length, gapbuf_gap_size
<1> DEFINE lower == LowerHalf(gb)
<1>3. lower.gap_start = Half /\ lower.gap_end = Limit
  <2>1. /\ gapbuf_init \in Wellformed /\ 0 \in Nat
        /\ gapbuf_init.gap_start = 0 /\ gapbuf_init.gap_end = Limit
        /\ Half <= gapbuf_gap_size(gapbuf_init)
    BY InitBuffer, HalfFacts DEF gapbuf_init, Buf, gapbuf_gap_size
  <2>2. Slice(gb.buffer, 0, Half) \in Seq(Bytes)
    BY Fields, HalfFacts, ArraySlice
  <2>3. /\ lower.gap_start = gapbuf_init.gap_start + Half
        /\ lower.gap_end = gapbuf_init.gap_end
    BY <2>1, <2>2, HalfFacts, InsertBuffer DEF LowerHalf
  <2>4. QED
    BY <2>1, <2>3, HalfFacts
<1>4. gapbuf_length(lower) = Half /\ gapbuf_at_right(lower)
  BY <1>3, HalfFacts DEF gapbuf_length, gapbuf_gap_size, gapbuf_at_right
<1>5. QED
  BY <1>2, <1>4

\* What PeerAligned says of a later state needs the point to be well-formed
\* when it splits, no more.
LEMMA AlignedStep == IInv /\ PeerAligned /\ [Next]_vars => PeerAligned'
<1> SUFFICES ASSUME IInv, PeerAligned, [Next]_vars
             PROVE  PeerAligned'
  OBVIOUS
<1>1. point \in Wellformed
  BY DEF IInv
<1>2. CASE UNCHANGED <<peer, side>>
  BY <1>2 DEF PeerAligned, gapbuf_at_left, gapbuf_at_right, gapbuf_length,
              gapbuf_gap_size
<1>3. CASE Clear
  BY <1>3 DEF Clear, PeerAligned
<1>4. CASE SplitLow
  BY <1>1, <1>4, SplitLowSizes DEF SplitLow, PeerAligned
<1>5. CASE SplitHigh
  BY <1>1, <1>5, SplitHighSizes DEF SplitHigh, PeerAligned
<1>6. QED
  BY <1>2, <1>3, <1>4, <1>5
     DEF Next, Forward, Backward, Insert, Delete, vars

\* The buffer a split made has its gap on the side away from the point and
\* holds half of a full buffer, until the text is cleared: what
\* is_tbuf_aligned demands of it.
THEOREM PeerStaysAligned == Spec => []PeerAligned
<1>1. Init => PeerAligned
  BY DEF Init, PeerAligned
<1>2. QED
  BY IInvInit, IInvStep, <1>1, AlignedStep, PTL DEF Spec

\* A split leaves half of the bytes in the point and puts half into the new
\* buffer: the assertion at the end of split_point, and neither buffer of it
\* is empty, for every limit.
THEOREM SplitHalves == Spec => SplitMakesRoom
<1> DEFINE Room == side = "none" /\ side' # "none" =>
                      /\ gapbuf_length(point') = Half
                      /\ gapbuf_length(peer') = Half
<1>1. IInv /\ [Next]_vars => [Room]_vars
  <2> SUFFICES ASSUME IInv, [Next]_vars PROVE Room
    OBVIOUS
  <2>1. point \in Wellformed
    BY DEF IInv
  <2>2. CASE SplitLow
    BY <2>1, <2>2, SplitLowSizes DEF SplitLow
  <2>3. CASE SplitHigh
    BY <2>1, <2>3, SplitHighSizes DEF SplitHigh
  <2>4. CASE ~SplitLow /\ ~SplitHigh
    BY <2>4 DEF Next, Forward, Backward, Insert, Delete, Clear, vars
  <2>5. QED
    BY <2>2, <2>3, <2>4
<1>2. QED
  BY IInvInit, IInvStep, <1>1, PTL DEF Spec, SplitMakesRoom

-----------------------------------------------------------------------------
(***************************************************************************)
(* The buffers implement TextCursor.                                       *)
(***************************************************************************)

\* What a step of TextCursor is, of the cursor the buffers stand for.
LEMMA CursorMoves ==
    /\ (\E n \in 0 .. Len(Cursor.right) : Cursor' = Advanced(Cursor, n))
         => TC!Next
    /\ (\E n \in 0 .. Len(Cursor.left) : Cursor' = Retreated(Cursor, n))
         => TC!Next
    /\ (\E n \in 0 .. Len(Cursor.right) : Cursor' = Erased(Cursor, n))
         => TC!Next
    /\ Cursor' = Blank => TC!Next
<1>1. (\E n \in 0 .. Len(Cursor.right) : Cursor' = Advanced(Cursor, n))
        => TC!Next
  BY DEF TC!Next, TC!Move, TC!Advanced, Advanced
<1>2. (\E n \in 0 .. Len(Cursor.left) : Cursor' = Retreated(Cursor, n))
        => TC!Next
  BY DEF TC!Next, TC!Move, TC!Retreated, Retreated
<1>3. (\E n \in 0 .. Len(Cursor.right) : Cursor' = Erased(Cursor, n))
        => TC!Next
  BY DEF TC!Next, TC!Erase, TC!Erased, Erased
<1>4. Cursor' = Blank => TC!Next
  BY DEF TC!Next, TC!Wipe, TC!Blank, Blank
<1>5. QED
  BY <1>1, <1>2, <1>3, <1>4

\* Typing is a step of TextCursor.
LEMMA CursorTypes ==
    ASSUME NEW S, NEW str \in Seq(S),
           Cursor \in CursorsOver(S), Cursor' = Typed(Cursor, str)
    PROVE  TC!Next
<1>1. SubSeq(Cursor'.left, Len(Cursor.left) + 1, Len(Cursor'.left)) = str
  BY TypedGrowth
<1>2. Cursor' = TC!Typed(Cursor, SubSeq(Cursor'.left, Len(Cursor.left) + 1,
                                        Len(Cursor'.left)))
  BY <1>1 DEF TC!Typed, Typed
<1>3. QED
  BY <1>2 DEF TC!Next, TC!Type

\* Every step is one of TextCursor on it.
LEMMA CursorStep == IInv /\ [Next]_vars => [TC!Next]_Cursor
<1> SUFFICES ASSUME IInv, [Next]_vars
             PROVE  TC!Next \/ UNCHANGED Cursor
  OBVIOUS
<1> DEFINE pre == IF side = "before" THEN PeerText ELSE <<>>
           post == IF side = "after" THEN PeerText ELSE <<>>
           c == View(point)
<1>1. point \in Wellformed /\ c \in CursorsOver(Byte)
  BY DEF IInv
<1>2. pre \in Seq(Byte) /\ post \in Seq(Byte)
  <2>1. PeerText \in Seq(Byte)
    BY DEF IInv, PeerText, View, CursorsOver
  <2>2. QED
    BY <2>1
<1>3. Cursor = Framed(pre, c, post)
  BY DEF Cursor
<1>4. Cursor \in CursorsOver(Byte)
  BY <1>1, <1>2, <1>3 DEF Framed, CursorsOver
<1>5. c.left = Left(point) /\ c.right = Right(point)
  BY DEF View
<1>6. ASSUME UNCHANGED <<peer, side>>
      PROVE  Cursor' = Framed(pre, View(point'), post)
  BY <1>6 DEF Cursor, View, Left, Right, PeerText
<1>7. ASSUME UNCHANGED <<peer, side>>, point' = point
      PROVE  UNCHANGED Cursor
  BY <1>3, <1>6, <1>7
<1> HIDE DEF pre, post, c
<1>8. CASE Forward
  <2>1. PICK num \in 0 .. Limit : point' = gapbuf_forward(point, num)
    BY <1>8 DEF Forward
  <2>2. UNCHANGED <<peer, side>>
    BY <1>8 DEF Forward
  <2>3. CASE point' = point
    BY <2>2, <2>3, <1>7
  <2>4. CASE /\ num \in 0 .. Len(c.right)
             /\ View(point') = Advanced(c, num)
    <3>1. /\ num \in 0 .. Len(Cursor.right)
          /\ Cursor' = Advanced(Cursor, num)
      BY <1>1, <1>2, <1>3, <1>6, <2>2, <2>4, FramedAdvanced
    <3>2. QED
      BY <3>1, CursorMoves
  <2>5. QED
    BY <1>1, <1>5, <2>1, <2>3, <2>4, CallForward DEF c
<1>9. CASE Backward
  <2>1. PICK num \in 0 .. Limit : point' = gapbuf_backward(point, num)
    BY <1>9 DEF Backward
  <2>2. UNCHANGED <<peer, side>>
    BY <1>9 DEF Backward
  <2>3. CASE point' = point
    BY <2>2, <2>3, <1>7
  <2>4. CASE /\ num \in 0 .. Len(c.left)
             /\ View(point') = Retreated(c, num)
    <3>1. /\ num \in 0 .. Len(Cursor.left)
          /\ Cursor' = Retreated(Cursor, num)
      BY <1>1, <1>2, <1>3, <1>6, <2>2, <2>4, FramedRetreated
    <3>2. QED
      BY <3>1, CursorMoves
  <2>5. QED
    BY <1>1, <1>5, <2>1, <2>3, <2>4, CallBackward DEF c
<1>10. CASE Insert
  <2>1. PICK str \in Strings : point' = gapbuf_insert(point, str)
    BY <1>10 DEF Insert
  <2>2. UNCHANGED <<peer, side>> /\ str \in Seq(Byte)
    BY <1>10, StringsAssumption DEF Insert
  <2>3. CASE point' = point
    BY <2>2, <2>3, <1>7
  <2>4. CASE View(point') = Typed(c, str)
    <3>1. Cursor' = Typed(Cursor, str)
      BY <1>1, <1>2, <1>3, <1>6, <2>2, <2>4, FramedTyped
    <3>2. QED
      BY <1>4, <2>2, <3>1, CursorTypes
  <2>5. QED
    BY <1>1, <2>1, <2>3, <2>4, CallInsert DEF c
<1>11. CASE Delete
  <2>1. PICK length \in 0 .. Limit : point' = gapbuf_delete(point, length)
    BY <1>11 DEF Delete
  <2>2. UNCHANGED <<peer, side>>
    BY <1>11 DEF Delete
  <2>3. CASE point' = point
    BY <2>2, <2>3, <1>7
  <2>4. CASE /\ length \in 0 .. Len(c.right)
             /\ View(point') = Erased(c, length)
    <3>1. /\ length \in 0 .. Len(Cursor.right)
          /\ Cursor' = Erased(Cursor, length)
      BY <1>1, <1>2, <1>3, <1>6, <2>2, <2>4, FramedErased
    <3>2. QED
      BY <3>1, CursorMoves
  <2>5. QED
    BY <1>1, <1>5, <2>1, <2>3, <2>4, CallDelete DEF c
<1>12. CASE Clear
  <2>1. View(point') = Blank /\ side' = "none"
    BY <1>1, <1>12, ClearBuffer DEF Clear
  <2>2. Cursor' = Framed(<<>>, View(point'), <<>>)
    BY <2>1 DEF Cursor, View, Left, Right
  <2>3. Cursor' = Blank
    BY <2>1, <2>2 DEF Framed, Blank
  <2>4. QED
    BY <2>3, CursorMoves
<1>13. ASSUME side = "none"
       PROVE  Cursor = View(point)
  <2>1. c.left \in Seq(Byte) /\ c.right \in Seq(Byte)
    BY <1>1 DEF CursorsOver
  <2>2. <<>> \o c.left = c.left /\ c.right \o <<>> = c.right
    BY <2>1, ConcatNothing
  <2>3. pre = <<>> /\ post = <<>>
    BY <1>13 DEF pre, post
  <2>4. QED
    BY <1>3, <1>5, <2>2, <2>3 DEF Framed, View, c
<1>14. CASE SplitLow
  <2>1. /\ point' = KeepLower(point) /\ peer' = UpperHalf(point)
        /\ side' = "after" /\ side = "none"
        /\ gapbuf_full(point) /\ point.gap_start <= Half
    BY <1>14 DEF SplitLow
  <2>2. Cursor' = Framed(<<>>, View(KeepLower(point)),
                         Left(UpperHalf(point)) \o Right(UpperHalf(point)))
    BY <2>1 DEF Cursor, PeerText, View, Left, Right
  <2>3. QED
    BY <1>1, <1>13, <2>1, <2>2, SplitLowBuffer
<1>15. CASE SplitHigh
  <2>1. /\ point' = KeepUpper(point) /\ peer' = LowerHalf(point)
        /\ side' = "before" /\ side = "none"
        /\ gapbuf_full(point) /\ point.gap_start > Half
    BY <1>15 DEF SplitHigh
  <2>2. Cursor' = Framed(Left(LowerHalf(point)) \o Right(LowerHalf(point)),
                         View(KeepUpper(point)), <<>>)
    BY <2>1 DEF Cursor, PeerText, View, Left, Right
  <2>3. QED
    BY <1>1, <1>13, <2>1, <2>2, SplitHighBuffer
<1>16. CASE UNCHANGED vars
  BY <1>7, <1>16 DEF vars
<1>17. QED
  BY <1>8, <1>9, <1>10, <1>11, <1>12, <1>14, <1>15, <1>16 DEF Next

\* A gap buffer, split or not, behaves as a text with a cursor: the memory
\* moves of every operation, and of split_point, keep the bytes in order and
\* lose none, for every limit.
THEOREM GapBufferImplementsCursor == Spec => ImplementsCursor
<1>1. Init => TC!Init
  <2> SUFFICES ASSUME Init PROVE TC!Init
    OBVIOUS
  <2>1. View(point) = Blank /\ side = "none"
    BY InitBuffer DEF Init
  <2>2. Cursor = Blank
    BY <2>1 DEF Cursor, Framed, Blank
  <2>3. QED
    BY <2>2 DEF TC!Init, TC!Blank, Blank
<1>2. QED
  BY <1>1, IInvInit, IInvStep, CursorStep, PTL
     DEF Spec, ImplementsCursor, TC!Spec
=============================================================================
