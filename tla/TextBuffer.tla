---------------------------- MODULE TextBuffer ------------------------------
(***************************************************************************)
(* The text buffer of text_buffer.c: a doubly-linked list of gap buffers,  *)
(* the chunks, one of which is the point, and the position of the point.   *)
(* Its calls walk the list; each iteration of their loops is a step here,  *)
(* so a loop that never ends, or an assertion that fails between two       *)
(* iterations, is a behaviour of this module.                              *)
(*                                                                         *)
(* C                          here                                         *)
(* gapbuf_t                   a cursor [left, right] of Chunk bytes at     *)
(*                            most (GapBuffer shows that it is one)        *)
(* the list, tb->point        tb.lefts, tb.point, tb.rights: the chunks    *)
(*                            before the point in list order, the point,   *)
(*                            the chunks after it                          *)
(* &tb->end as the point      EndNode                                      *)
(* tb->point_position         tb.point_position                            *)
(* a call in progress         call: its name and its local variables       *)
(* assert(...) that fails     call.op = "abort", with the line             *)
(*                                                                         *)
(* A caller's contract, from text_buffer.h and the calls file_system.c     *)
(* makes: texts are UTF-8; text_buffer_delete comes after                  *)
(* text_buffer_set_point with a later position (its first assertion);      *)
(* delete_string takes whole codepoints, as many as there are.             *)
(***************************************************************************)
EXTENDS Utf8Text, SequencesExt

CONSTANTS
    Chunk,     \* chunk_size
    Inserts,   \* the texts a caller inserts
    MaxText,   \* bound on the bytes of a text
    MaxLine, MaxChar,  \* bounds on the positions a caller asks for
    MaxMove    \* bound on the codepoints a caller skips in one call

\* text_buffer_init asserts a power of two; a chunk of 1 has no half to split.
ASSUME ChunkAssumption == Chunk \in Nat \ {0} /\ Chunk = 2 * (Chunk \div 2)

ASSUME InsertsAssumption ==
    \A s \in Inserts : s \in Seq(0 .. 255) /\ s # <<>> /\ IsUtf8(s)

ASSUME BoundsAssumption == {MaxText, MaxLine, MaxChar, MaxMove} \subseteq Nat

VARIABLES
    tb,     \* the text_buffer_t
    call,   \* the call in progress
    doc,    \* the text and cursor the calls so far promise (a history
            \* variable, computed with Utf8Text at the start of each call)
    stale   \* what has been called since the position was last set

vars == <<tb, call, doc, stale>>

Positions == [line_num : 0 .. MaxLine, char_num : 0 .. MaxChar]

Half == Chunk \div 2

\* forward_char asserts that the rest of a codepoint is in the next chunk: half
\* a chunk has room for all the bytes after its first.  (The program has chunks
\* of 16384 bytes, and a codepoint six at most.)
ASSUME CodepointsAssumption ==
    \A s \in Inserts : \A i \in Starts(s) : CharSize(s[i]) <= Half + 1

EndNode == [sentinel |-> "end"]

-----------------------------------------------------------------------------
(***************************************************************************)
(* Chunks, and the invariants the code asserts.                            *)
(***************************************************************************)
gapbuf_empty(gb) == Size(gb) = 0
gapbuf_full(gb) == Size(gb) = Chunk
\* Mutant: takes what follows the gap for a part of it.
gapbuf_gap_size_to_limit(gb) == Chunk - Len(gb.left)
gapbuf_gap_size(gb) == Chunk - Size(gb)
gapbuf_at_left(gb) == gb.left = <<>>
gapbuf_at_right(gb) == gb.right = <<>>

Chunks(b) == b.lefts \o <<b.point>> \o b.rights

\* tb->point is not a sentinel, and occurs once in the list.
is_linked(b) == b.point # EndNode

is_tbuf_empty_or_nonempty(b) ==
    \/ b.lefts = <<>> /\ b.rights = <<>>
    \/ \A i \in DOMAIN Chunks(b) : ~gapbuf_empty(Chunks(b)[i])

is_tbuf_aligned(b) ==
    /\ \A i \in DOMAIN b.lefts : gapbuf_at_right(b.lefts[i])
    /\ \A i \in DOMAIN b.rights : gapbuf_at_left(b.rights[i])

\* The code looks at the byte ch = 0 when there is no byte after the gap, and
\* returns 1 when there is one.
is_tbuf_on_codepoint(b) == gapbuf_at_right(b.point) => ~IsContinuation(0)

is_tbuf(b) == /\ is_linked(b)
              /\ is_tbuf_empty_or_nonempty(b)
              /\ is_tbuf_aligned(b)
              /\ is_tbuf_on_codepoint(b)

tbuf_empty(b) == gapbuf_empty(b.point)

\* Mutant: stops at the gap of a chunk.
text_buffer_read_before_gap(b) ==
    FlattenSeq([i \in DOMAIN Chunks(b) |-> <<Chunks(b)[i].left>>])

\* The pieces text_buffer_read hands to its callback, in order: a full chunk
\* as one piece, of another what is before and what is after its gap.
text_buffer_read(b) ==
    LET some(part) == IF part = <<>> THEN <<>> ELSE <<part>>
        pieces(gb) == IF gapbuf_full(gb) THEN <<Text(gb)>>
                      ELSE some(gb.left) \o some(gb.right)
    IN  FlattenSeq([i \in DOMAIN Chunks(b) |-> pieces(Chunks(b)[i])])

-----------------------------------------------------------------------------
(***************************************************************************)
(* The static functions of text_buffer.c.                                  *)
(***************************************************************************)
text_buffer_init ==
    [lefts |-> <<>>, point |-> Blank, rights |-> <<>>,
     point_position |-> Origin]

\* Mutant: of the upper half of the point, keeps the place but not the bytes.
split_point_unshifted(b) ==
    LET point == b.point
        text == Text(point)
        start == Len(point.left)
    IN  IF start <= Half
        THEN [b EXCEPT
                !.point.right = SubSeq(text, start + 1, Half),
                !.rights = <<[left |-> <<>>,
                              right |-> SubSeq(text, Half + 1, Chunk)]>> \o @]
        ELSE [b EXCEPT
                !.point.left = SubSeq(text, 1, start - Half),
                !.lefts = Append(@, [left |-> SubSeq(text, 1, Half),
                                     right |-> <<>>])]

\* A full point gives half of its bytes to a new chunk, after or before it.
split_point(b) ==
    LET point == b.point
        text == Text(point)
        start == Len(point.left)
    IN  IF start <= Half
        THEN [b EXCEPT
                !.point.right = SubSeq(text, start + 1, Half),
                !.rights = <<[left |-> <<>>,
                              right |-> SubSeq(text, Half + 1, Chunk)]>> \o @]
        ELSE [b EXCEPT
                !.point.left = SubSeq(text, Half + 1, start),
                !.lefts = Append(@, [left |-> SubSeq(text, 1, Half),
                                     right |-> <<>>])]

\* Mutant: moves the gap of the point only.
textbuf_rewind_point(b) ==
    LET chunks == b.lefts \o <<Retreated(b.point, Len(b.point.left))>> \o b.rights
    IN  [lefts |-> <<>>, point |-> Head(chunks), rights |-> Tail(chunks),
         point_position |-> Origin]

\* Mutant: keeps the position.
textbuf_rewind_keeping_position(b) ==
    LET back(gb) == Retreated(gb, Len(gb.left))
        chunks == [i \in DOMAIN b.lefts |-> back(b.lefts[i])]
                    \o <<back(b.point)>> \o b.rights
    IN  [lefts |-> <<>>, point |-> Head(chunks), rights |-> Tail(chunks),
         point_position |-> b.point_position]

\* Every gap from the point back to the start moves to the left of its chunk.
textbuf_rewind(b) ==
    LET back(gb) == Retreated(gb, Len(gb.left))
        chunks == [i \in DOMAIN b.lefts |-> back(b.lefts[i])]
                    \o <<back(b.point)>> \o b.rights
    IN  [lefts |-> <<>>, point |-> Head(chunks), rights |-> Tail(chunks),
         point_position |-> Origin]

\* The gap is at the end of the last chunk: no text after the point.
AtEnd(b) == gapbuf_at_right(b.point) /\ b.rights = <<>>

\* point = point->next
NextChunk(b) == [b EXCEPT !.lefts = Append(@, b.point),
                          !.point = Head(b.rights),
                          !.rights = Tail(@)]

PrevChunk(b) == [b EXCEPT !.lefts = Front(@),
                          !.point = Last(b.lefts),
                          !.rights = <<b.point>> \o @]

\* The chunk that holds the byte after the point becomes the point.
Entered(b) == IF gapbuf_at_right(b.point) THEN NextChunk(b) ELSE b

NextByte(b) == Head(Entered(b).point.right)

\* The assertions of forward_char: a leading byte, and the rest of a
\* codepoint that starts in one chunk is in the next one.
forward_char_asserts(b) ==
    LET from == Entered(b)
        missing == CharSize(NextByte(b)) - Len(from.point.right)
    IN  /\ CharSize(NextByte(b)) > 0
        /\ missing > 0 => /\ from.rights # <<>>
                          /\ missing <= Len(Head(from.rights).right)

\* Mutant: of a codepoint in two chunks, skips what is in the first.
forward_char_to_next_chunk(b) ==
    LET from == Entered(b)
        size == CharSize(NextByte(b))
        have == Len(from.point.right)
        over == [from EXCEPT !.point = Advanced(@, have)]
        moved == IF size <= have
                 THEN [from EXCEPT !.point = Advanced(@, size)]
                 ELSE NextChunk(over)
    IN  [moved EXCEPT !.point_position = Stepped(@, NextByte(b))]

\* forward_char where it does not fail: the gap moves over one codepoint.
forward_char(b) ==
    LET from == Entered(b)
        size == CharSize(NextByte(b))
        have == Len(from.point.right)
        over == [from EXCEPT !.point = Advanced(@, have)]
        moved == IF size <= have
                 THEN [from EXCEPT !.point = Advanced(@, size)]
                 ELSE [NextChunk(over) EXCEPT !.point = Advanced(@, size - have)]
    IN  [moved EXCEPT !.point_position = Stepped(@, NextByte(b))]

OneLess(n) == IF n > 0 THEN n - 1 ELSE 0

\* The position after backward_char has come to the codepoint ch.
SteppedBack(pos, ch) ==
    IF ch = NewLine
    THEN [line_num |-> OneLess(pos.line_num), char_num |-> 0]
    ELSE [line_num |-> pos.line_num, char_num |-> OneLess(pos.char_num)]

-----------------------------------------------------------------------------
(***************************************************************************)
(* Calls.  A call ends with op = "returned" and its result; Receive is the *)
(* caller going on.                                                        *)
(***************************************************************************)
Idle == [op |-> "idle"]

\* want is the result the call promises.
Returned(ret, want) == [op |-> "returned", ret |-> ret, want |-> want]

Abort(line) == call' = [op |-> "abort", line |-> line, during |-> call]

Doing(op) == call.op = op

AtRest == call.op \in {"idle", "returned"}

\* assert(is_tbuf(tb)) at this line, before returning this result.
AssertAndReturn(line, ret, want) ==
    /\ IF is_tbuf(tb) THEN call' = Returned(ret, want) ELSE Abort(line)
    /\ UNCHANGED <<tb, doc, stale>>

Init == /\ tb = text_buffer_init
        /\ call = Idle
        /\ doc = Blank
        /\ stale = {}

Receive == /\ Doing("returned")
           /\ call' = Idle
           /\ UNCHANGED <<tb, doc, stale>>

-----------------------------------------------------------------------------
(***************************************************************************)
(* insert_string, which is text_buffer_insert.                             *)
(***************************************************************************)
CallInsert ==
    /\ Doing("idle")
    /\ \E str \in Inserts :
          /\ Size(doc) + Len(str) <= MaxText
          /\ call' = [op |-> "insert", str |-> str]
          /\ doc' = Typed(doc, str)
    /\ stale' = stale \cup {"insert"}
    /\ UNCHANGED tb

\* One iteration: split a full point, and assert that this made room in a
\* list with its invariants, then fill the gap.
InsertStep ==
    /\ Doing("insert")
    /\ call.str # <<>>
    /\ LET b == IF gapbuf_full(tb.point) THEN split_point(tb) ELSE tb
           gap == gapbuf_gap_size(b.point)
           len == IF gap > Len(call.str) THEN Len(call.str) ELSE gap
       IN  IF is_tbuf(b) /\ gap > 0
           THEN /\ tb' = [b EXCEPT !.point = Typed(@, SubSeq(call.str, 1, len))]
                /\ call' = [call EXCEPT !.str = SubSeq(@, len + 1, Len(@))]
           ELSE tb' = b /\ Abort(379)
    /\ UNCHANGED <<doc, stale>>

InsertReturn ==
    /\ Doing("insert")
    /\ call.str = <<>>
    /\ AssertAndReturn(603, 0, 0)

-----------------------------------------------------------------------------
(***************************************************************************)
(* text_buffer_set_point.                                                  *)
(***************************************************************************)
CallSetPoint ==
    /\ Doing("idle")
    /\ \E pos \in Positions :
          /\ call' = [op |-> "set_point", pos |-> pos,
                      want |-> IF HasPosition(Text(doc), pos) THEN 1 ELSE 0]
          /\ doc' = SetTo(doc, pos)
    /\ tb' = textbuf_rewind(tb)
    /\ stale' = {}

SetPointStep ==
    /\ Doing("set_point")
    /\ Before(tb.point_position, call.pos)
    /\ ~AtEnd(tb)
    /\ IF forward_char_asserts(tb)
       THEN tb' = forward_char(tb) /\ UNCHANGED call
       ELSE Abort(477) /\ UNCHANGED tb
    /\ UNCHANGED <<doc, stale>>

\* Mutant: reports success.
SetPointFails_unreported ==
    /\ Doing("set_point")
    /\ Before(tb.point_position, call.pos)
    /\ AtEnd(tb)
    /\ AssertAndReturn(645, 1, call.want)

\* The end of the text comes before the position.
SetPointFails ==
    /\ Doing("set_point")
    /\ Before(tb.point_position, call.pos)
    /\ AtEnd(tb)
    /\ AssertAndReturn(645, 0, call.want)

SetPointReturn ==
    /\ Doing("set_point")
    /\ ~Before(tb.point_position, call.pos)
    /\ IF tb.point_position = call.pos
       THEN AssertAndReturn(651, 1, call.want)
       ELSE Abort(649) /\ UNCHANGED <<tb, doc, stale>>

-----------------------------------------------------------------------------
(***************************************************************************)
(* delete_string, called by a user of the buffer or by text_buffer_delete  *)
(* for each codepoint.  call.bytes is its length, call.inside says that it *)
(* is running.                                                             *)
(***************************************************************************)
CallDelete ==
    /\ Doing("idle")
    /\ stale = {}
    /\ \E pos \in Positions :
          /\ Before(tb.point_position, pos)
          /\ call' = [op |-> "delete", pos |-> pos,
                      current_pos |-> tb.point_position,
                      inside |-> FALSE, bytes |-> 0]
          /\ doc' = ErasedTo(doc, pos)
    /\ UNCHANGED <<tb, stale>>

\* The loop of text_buffer_delete comes to the next codepoint.
DeleteStep ==
    /\ Doing("delete")
    /\ ~call.inside
    /\ Before(call.current_pos, call.pos)
    /\ ~AtEnd(tb)
    /\ tb' = Entered(tb)
    /\ IF CharSize(NextByte(tb)) > 0
       THEN call' = [call EXCEPT
                        !.current_pos = Stepped(@, NextByte(tb)),
                        !.inside = TRUE,
                        !.bytes = CharSize(NextByte(tb))]
       ELSE Abort(727)
    /\ UNCHANGED <<doc, stale>>

DeleteReturn ==
    /\ Doing("delete")
    /\ ~call.inside
    /\ ~Before(call.current_pos, call.pos) \/ AtEnd(tb)
    /\ call' = Returned(0, 0)
    /\ UNCHANGED <<tb, doc, stale>>

CallDeleteString ==
    /\ Doing("idle")
    /\ \E length \in Boundaries(doc.right) \ {0} :
          /\ call' = [op |-> "delete_string", inside |-> TRUE,
                      bytes |-> length]
          /\ doc' = Erased(doc, length)
    /\ UNCHANGED <<tb, stale>>

\* Mutant: the previous chunk is not linked to the next one.
Unlinked_one_way(b) ==
    IF b.rights = <<>> THEN [b EXCEPT !.point = EndNode]
    ELSE [b EXCEPT !.lefts = <<>>, !.point = Head(b.rights), !.rights = Tail(@)]

\* An emptied point that is not the only chunk is taken out of the list, and
\* the next node becomes the point.
Unlinked(b) ==
    IF b.rights = <<>> THEN [b EXCEPT !.point = EndNode]
    ELSE [b EXCEPT !.point = Head(b.rights), !.rights = Tail(@)]

\* One iteration of delete_string.
DeleteBytes ==
    /\ call.op \in {"delete", "delete_string"}
    /\ call.inside
    /\ call.bytes > 0
    /\ IF tb.point = EndNode
       THEN Abort(107) /\ UNCHANGED tb
       ELSE LET after == Len(tb.point.right)
                have == IF call.bytes < after THEN call.bytes ELSE after
                b == [tb EXCEPT !.point = Erased(@, have)]
                only == b.lefts = <<>> /\ b.rights = <<>>
            IN  /\ tb' = IF gapbuf_empty(b.point) /\ ~only
                         THEN Unlinked(b) ELSE b
                /\ call' = [call EXCEPT !.bytes = @ - have]
    /\ UNCHANGED <<doc, stale>>

DeleteStringReturn ==
    /\ call.op \in {"delete", "delete_string"}
    /\ call.inside
    /\ call.bytes = 0
    /\ IF ~is_tbuf(tb) THEN Abort(634)
       ELSE call' = IF Doing("delete") THEN [call EXCEPT !.inside = FALSE]
                                       ELSE Returned(0, 0)
    /\ UNCHANGED <<tb, doc, stale>>

-----------------------------------------------------------------------------
(***************************************************************************)
(* text_buffer_clear: the point is the only chunk left.                    *)
(***************************************************************************)
CallClear ==
    /\ Doing("idle")
    /\ tb' = [tb EXCEPT !.lefts = <<>>, !.point = Blank, !.rights = <<>>]
    /\ doc' = Blank
    /\ call' = Returned(0, 0)
    /\ stale' = stale \cup {"clear"}

-----------------------------------------------------------------------------
(***************************************************************************)
(* forward_chars and backward_chars.                                       *)
(***************************************************************************)
CallForward ==
    /\ Doing("idle")
    /\ \E n \in 1 .. MaxMove :
          /\ call' = [op |-> "forward", length |-> n, steps |-> 0,
                      want |-> Available(doc.right, n)]
          /\ doc' = SkippedForward(doc, n)
    /\ UNCHANGED <<tb, stale>>

ForwardStep ==
    /\ Doing("forward")
    /\ call.length > 0
    /\ ~AtEnd(tb)
    /\ IF forward_char_asserts(tb)
       THEN /\ tb' = forward_char(tb)
            /\ call' = [call EXCEPT !.length = @ - 1, !.steps = @ + 1]
       ELSE Abort(477) /\ UNCHANGED tb
    /\ UNCHANGED <<doc, stale>>

ForwardReturn ==
    /\ Doing("forward")
    /\ \/ /\ call.length > 0
          /\ AtEnd(tb)
          /\ call' = Returned(call.steps, call.want)
          /\ UNCHANGED <<tb, doc, stale>>
       \/ /\ call.length = 0
          /\ AssertAndReturn(558, call.steps, call.want)

CallBackward ==
    /\ Doing("idle")
    /\ \E n \in 1 .. MaxMove :
          /\ call' = [op |-> "backward", length |-> n, steps |-> 0,
                      want |-> Available(doc.left, n)]
          /\ doc' = SkippedBackward(doc, n)
    /\ stale' = stale \cup {"backward"}
    /\ UNCHANGED tb

\* One iteration of the loop of backward_char: to the previous chunk, or one
\* byte back and, on a byte that starts a codepoint, done with it.
BackwardStep ==
    /\ Doing("backward")
    /\ call.length > 0
    /\ \/ /\ gapbuf_at_left(tb.point)
          /\ tb.lefts # <<>>
          /\ tb' = PrevChunk(tb)
          /\ UNCHANGED call
       \/ /\ ~gapbuf_at_left(tb.point)
          /\ LET b == [tb EXCEPT !.point = Retreated(@, 1)]
                 ch == Head(b.point.right)
             IN  IF IsContinuation(ch)
                 THEN tb' = b /\ UNCHANGED call
                 ELSE /\ tb' = [b EXCEPT !.point_position = SteppedBack(@, ch)]
                      /\ call' = [call EXCEPT !.length = @ - 1,
                                              !.steps = @ + 1]
    /\ UNCHANGED <<doc, stale>>

\* Mutant: goes on at the start of the text.
BackwardReturn_when_done ==
    /\ Doing("backward")
    /\ call.length = 0
    /\ AssertAndReturn(578, call.steps, call.want)

BackwardReturn ==
    /\ Doing("backward")
    /\ \/ /\ call.length > 0
          /\ gapbuf_at_left(tb.point)
          /\ tb.lefts = <<>>
          /\ call' = Returned(call.steps, call.want)
          /\ UNCHANGED <<tb, doc, stale>>
       \/ /\ call.length = 0
          /\ AssertAndReturn(578, call.steps, call.want)

-----------------------------------------------------------------------------
\* A call, once made, goes on by itself.
Work == \/ InsertStep \/ InsertReturn
        \/ SetPointStep \/ SetPointFails \/ SetPointReturn
        \/ DeleteStep \/ DeleteReturn \/ DeleteBytes \/ DeleteStringReturn
        \/ ForwardStep \/ ForwardReturn
        \/ BackwardStep \/ BackwardReturn

Next == \/ Receive
        \/ CallInsert \/ CallSetPoint \/ CallDelete \/ CallDeleteString
        \/ CallClear \/ CallForward \/ CallBackward
        \/ Work

\* The program is sequential: nothing but the call itself can stop it.
Fairness == WF_vars(Work)

Spec == Init /\ [][Next]_vars /\ Fairness

-----------------------------------------------------------------------------
(***************************************************************************)
(* Properties.                                                             *)
(***************************************************************************)

\* The text and cursor the list of chunks stands for.
Join(chunks) == FlattenSeq([i \in DOMAIN chunks |-> Text(chunks[i])])

View(b) ==
    IF b.point = EndNode
    THEN [left |-> Join(b.lefts), right |-> <<>>]
    ELSE Framed(Join(b.lefts), b.point, Join(b.rights))

IsChunk(gb) == /\ DOMAIN gb = {"left", "right"}
               /\ Text(gb) \in Seq(0 .. 255)
               /\ Size(gb) <= Chunk

\* Type invariant: every node of the list is a gap buffer of the chunk size,
\* and only in the middle of a deletion may the point be the sentinel.
TypeOK ==
    /\ \A i \in DOMAIN tb.lefts : IsChunk(tb.lefts[i])
    /\ \A i \in DOMAIN tb.rights : IsChunk(tb.rights[i])
    /\ tb.point # EndNode => IsChunk(tb.point)
    /\ tb.point = EndNode => call.op \in {"delete", "delete_string", "abort"}
    /\ tb.point_position \in [line_num : Nat, char_num : Nat]
    /\ call.op \in {"idle", "returned", "abort", "insert", "set_point",
                    "delete", "delete_string", "forward", "backward"}

\* Between calls the list has the invariants is_tbuf documents (no empty
\* chunk but a sole one, every gap on the side of the point), and the byte
\* after the cursor starts a codepoint, which is_tbuf_on_codepoint is meant
\* to check and does not.
IsTbuf == AtRest => /\ is_tbuf(tb)
                    /\ 0 \in Boundaries(doc.right)
                    /\ View(tb).right # <<>>
                         => ~IsContinuation(Head(View(tb).right))

\* After every call that returns, the chunks hold the text, and the point
\* stands in it, where the calls so far say on a flat text: no loop over the
\* chunks loses, repeats or reorders a byte or stops at the wrong place.
HoldsDocument == AtRest => View(tb) = doc

\* The result of text_buffer_set_point says whether the text has the
\* position, and those of forward_chars and backward_chars how many
\* codepoints there were to skip.
ResultsRight == Doing("returned") => call.ret = call.want

\* What text_buffer_read hands out is the document, and tbuf_empty, which
\* looks at the point only, says whether there is any text.
QueriesRight == AtRest => /\ FlattenSeq(text_buffer_read(tb)) = Text(doc)
                          /\ tbuf_empty(tb) <=> Text(doc) = <<>>

\* As long as the caller only sets the point, moves it forward and deletes,
\* the stored position is the position of the point.
PositionRight ==
    AtRest /\ stale = {} => tb.point_position = PositionAfter(doc.left)

\* The assertions that fail for a caller that keeps the contract are those of
\* line 649, for a position past the end of a line, and of line 634, for a
\* deletion that empties the last chunk and leaves text in another.
AbortsExplained ==
    Doing("abort") =>
        \/ call.line = 649 /\ PositionAfter(doc.left) # call.during.pos
                           /\ PastEndOfLine(Text(doc), call.during.pos)
        \/ call.line = 634 /\ View(tb).right = <<>> /\ View(tb).left # <<>>

\* delete_string has bytes left to delete, none after the gap of the point,
\* and does not go on to the next chunk because the point is not empty.
Stuck == /\ call.op \in {"delete", "delete_string"}
         /\ call.inside /\ call.bytes > 0
         /\ tb.point # EndNode
         /\ gapbuf_at_right(tb.point) /\ ~gapbuf_empty(tb.point)

\* It gets stuck only in front of another chunk, which has the rest of what is
\* to be deleted; text_buffer_delete only within a codepoint of two chunks.
StuckExplained ==
    Stuck => /\ tb.rights # <<>>
             /\ Doing("delete") => IsContinuation(Head(View(tb).right))
             /\ Doing("delete_string") => Erased(View(tb), call.bytes) = doc

\* Every call returns or fails an assertion, but for a deletion that gets
\* stuck before the end of a chunk: no other loop over the chunks runs on.
CallsEnd == ~AtRest ~> (AtRest \/ Doing("abort") \/ Stuck)

\* What insert_string, text_buffer_delete and the moves do on the way is
\* typing before the point, erasing after it and moving it: a call stopped
\* anywhere has not corrupted the rest of the text.
TC == INSTANCE TextCursor WITH cursor <- View(tb)

ImplementsCursor == TC!Spec

-----------------------------------------------------------------------------
(***************************************************************************)
(* What text_buffer.h, a comment and an assertion say of the calls, and    *)
(* the code does not do.                                                   *)
(***************************************************************************)

\* "delete from point until the given position": the deletion comes to its
\* end.  Its inner loop runs on once the codepoint to delete begins at the
\* end of a chunk that has text before the gap too.
DeletionEnds == call.op \in {"delete", "delete_string"}
                    ~> (AtRest \/ Doing("abort"))

\* "delete the point if it becomes empty, unless it's the only gapbuffer we
\* have", and the assertion after it: a chunk of the list is the point when a
\* deletion ends.  After the last chunk only the sentinel is left.
DeletionLeavesAPoint == ~(Doing("abort") /\ call.line = 634)

\* "returns non-zero if succeeded": a position that is not in the text makes
\* text_buffer_set_point return 0.  One past the end of a line fails the
\* assertion after the loop instead.
SetPointReturns == ~(Doing("abort") /\ call.line = 649)
=============================================================================
