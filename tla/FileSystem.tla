----------------------------- MODULE FileSystem -----------------------------
(***************************************************************************)
(* The open files of file_system.c: file records on the heap, in a         *)
(* doubly-linked list of all of them and in the doubly-linked lists of     *)
(* the buckets of a hash table.  Each iteration of a lookup, of the loop   *)
(* over the edits of a change and of the loop of file_system_free is a     *)
(* step.                                                                   *)
(*                                                                         *)
(* C                          here                                         *)
(* file_t *                   a member of Node, or NULL                    *)
(* *file                      heap[file]; freed files are not in DOMAIN    *)
(*                            heap, and TLC stops at a use of one          *)
(* file->text                 the bytes of the text.  The point is not     *)
(*                            kept: every call that uses it sets it or     *)
(*                            clears the text first.                       *)
(* a call in progress         call: its name and its local variables       *)
(* assert(...) that fails     call.op = "abort", with the line             *)
(* chunks of file->text       file \in chunked: the text is, or has been   *)
(*                            since it was loaded, longer than a chunk     *)
(* a loop that runs for ever  Spinning, or call.op = "stuck"               *)
(*                                                                         *)
(* A text that fits into a chunk is one gap buffer, in which TextBuffer    *)
(* has no call that hangs and no assertion but the one of                  *)
(* text_buffer_set_point that fails.  Where the chunks of a longer one     *)
(* begin and end is not kept, so all that TextBuffer has a deletion do to  *)
(* such a text may happen.                                                 *)
(***************************************************************************)
EXTENDS Integers, Utf8Text

CONSTANTS
    Node, NULL,    \* the addresses malloc returns, and the null pointer
    Uri, Path,     \* what a client names a document by, and decoded paths
    NoPath,        \* for a URI that file_uri_parse rejects
    PathOf,        \* file_uri_parse: several URIs may have the same path
    Bucket, Hash,  \* the indices of the hash table, and hash_filename
    Versions, Contents,  \* of the documents a client opens
    Batches,       \* the sequences of edits of a change
    Chunk,         \* TEXT_BUFFER_CHUNK_SIZE
    MaxText        \* bound on the bytes of a text

ASSUME NamesAssumption ==
    /\ NULL \notin Node
    /\ NoPath \notin Path
    /\ PathOf \in [Uri -> Path \cup {NoPath}]
    /\ Hash \in [Path -> Bucket]

VARIABLES
    fs,       \* the file_system_t: the head of the list, and the hash table
    heap,     \* the file_t in use
    chunked,  \* those whose text has outgrown a chunk
    call,     \* the call in progress
    docs      \* the documents the calls so far promise, by path (a history
              \* variable)

vars == <<fs, heap, chunked, call, docs>>

\* The range of an edit without one.
NoPosition == [line_num |-> -1, char_num |-> -1]

\* Replaces the whole text: there is no number in the range that is one.
IsWhole(edit) == /\ edit.start.line_num < 0 /\ edit.start.char_num < 0
                 /\ edit.end.line_num < 0 /\ edit.end.char_num < 0

\* The bytes of a text.
ByteStrings == Seq(0 .. 255)

Positions == [line_num : Int, char_num : Int]

\* file_edit_t: "start < end; or if empty: start=end", or no range.
Edits == {edit \in [start : Positions, end : Positions, text : ByteStrings] :
             IsWhole(edit) \/ ~Before(edit.end, edit.start)}

ASSUME TextsAssumption ==
    /\ Contents \subseteq ByteStrings
    /\ Batches \subseteq Seq(Edits)
    /\ \A t \in Contents : IsUtf8(t)
    /\ \A edits \in Batches : \A i \in DOMAIN edits : IsUtf8(edits[i].text)

NoDocs == [p \in {} |-> {}]

\* f, and g where f is not defined.
Over(f, g) == [x \in DOMAIN f \cup DOMAIN g |-> IF x \in DOMAIN f THEN f[x] ELSE g[x]]

With(f, x, v) == Over([y \in {x} |-> v], f)

Without(f, x) == [y \in DOMAIN f \ {x} |-> f[y]]

-----------------------------------------------------------------------------
(***************************************************************************)
(* What an edit means: file_system.h.                                      *)
(***************************************************************************)

\* A position as text_buffer.c has it: its numbers are of type size_t, in which
\* a negative one is larger than any line or character of the text.
InSizeT(text, pos) ==
    LET size_t(n) == IF n < 0 THEN Len(text) + 1 ELSE n
    IN  [line_num |-> size_t(pos.line_num), char_num |-> size_t(pos.char_num)]

\* text_buffer_set_point fails its assertion: the walk to the position passes
\* it.
PassesEndOfLine(text, pos) == PastEndOfLine(text, InSizeT(text, pos))

\* "delete the range, and then insert the new text at the start of the
\* range".  An edit whose start is not in the text is skipped; a start with a
\* negative number never is in it.
Edited(text, edit) ==
    LET from == FirstPlace(text, edit.start)
        to == FirstPlace(text, InSizeT(text, edit.end))
    IN  CASE IsWhole(edit) -> edit.text
          [] ~IsWhole(edit) /\ ~HasPosition(text, edit.start) -> text
          [] OTHER -> SubSeq(text, 1, from) \o edit.text
                        \o SubSeq(text, to + 1, Len(text))

\* The text after each of the edits of a change.
EditedAll(text, edits) ==
    LET after[i \in 0 .. Len(edits)] ==
            IF i = 0 THEN text
            ELSE LET edited[t \in {after[i - 1]}] ==   \* for TLC: evaluates t once
                         Edited(t, edits[i])
                 IN  edited[after[i - 1]]
    IN  after[Len(edits)]

-----------------------------------------------------------------------------
(***************************************************************************)
(* The links.  Each of these is an assignment through a pointer, under the *)
(* condition that it is not NULL.                                          *)
(***************************************************************************)
SetNext(h, n, v) == IF n = NULL THEN h ELSE [h EXCEPT ![n].next = v]
SetPrev(h, n, v) == IF n = NULL THEN h ELSE [h EXCEPT ![n].prev = v]
SetHashNext(h, n, v) == IF n = NULL THEN h ELSE [h EXCEPT ![n].hash_next = v]
SetHashPrev(h, n, v) == IF n = NULL THEN h ELSE [h EXCEPT ![n].hash_prev = v]

\* Mutant: frees the next file too.
UnlinkedHeap_and_next(n) ==
    LET file == heap[n]
        listed == SetPrev(SetNext(heap, file.prev, file.next),
                          file.next, file.prev)
    IN  Without(Without(listed, n), file.next)

\* file_system_remove: out of both lists, and freed.
UnlinkedHeap(n) ==
    LET file == heap[n]
        listed == SetPrev(SetNext(heap, file.prev, file.next),
                          file.next, file.prev)
        hashed == SetHashPrev(SetHashNext(listed, file.hash_prev, file.hash_next),
                              file.hash_next, file.hash_prev)
    IN  Without(hashed, n)

\* Mutant: leaves the file in its bucket.
UnlinkedFs_keeping_bucket(n) ==
    LET file == heap[n]
    IN  [files |-> IF file.prev = NULL THEN file.next ELSE fs.files,
         table |-> fs.table]

UnlinkedFs(n) ==
    LET file == heap[n]
    IN  [files |-> IF file.prev = NULL THEN file.next ELSE fs.files,
         table |-> IF file.hash_prev = NULL
                   THEN [fs.table EXCEPT ![Hash[file.path]] = file.hash_next]
                   ELSE fs.table]

file_system_remove(n) == /\ heap' = UnlinkedHeap(n)
                         /\ fs' = UnlinkedFs(n)
                         /\ chunked' = chunked \ {n}

\* Mutant: does not link the old head of the list back to the new one.
LinkedHeap_one_way(n, path, version, text) ==
    With(heap, n, [path |-> path, version |-> version, open_count |-> 1,
                   text |-> text, next |-> fs.files, prev |-> NULL,
                   hash_next |-> fs.table[Hash[path]], hash_prev |-> NULL])

\* Mutant: does not count the opening.
LinkedHeap_uncounted(n, path, version, text) ==
    With(SetPrev(heap, fs.files, n), n,
         [path |-> path, version |-> version, open_count |-> 0,
          text |-> text, next |-> fs.files, prev |-> NULL,
          hash_next |-> fs.table[Hash[path]], hash_prev |-> NULL])

\* The end of file_system_open: a new file at the head of both lists.
LinkedHeap(n, path, version, text) ==
    LET hash_head == fs.table[Hash[path]]
        old == SetHashPrev(SetPrev(heap, fs.files, n), hash_head, n)
    IN  With(old, n, [path |-> path, version |-> version, open_count |-> 1,
                      text |-> text, next |-> fs.files, prev |-> NULL,
                      hash_next |-> hash_head, hash_prev |-> NULL])

\* Mutant: leaves the file out of the table.
LinkedFs_list_only(n, path) == [files |-> n, table |-> fs.table]

\* Mutant: takes the bucket before the hash is computed.
LinkedFs_bucket_zero(n, path) == [files |-> n, table |-> [fs.table EXCEPT ![0] = n]]

LinkedFs(n, path) == [files |-> n, table |-> [fs.table EXCEPT ![Hash[path]] = n]]

-----------------------------------------------------------------------------
(***************************************************************************)
(* Calls.                                                                  *)
(***************************************************************************)
Idle == [op |-> "idle"]

\* want is the result the call promises; skipped counts the edits a change
\* left out.
Returned(ret, want, skipped) ==
    [op |-> "returned", ret |-> ret, want |-> want, skipped |-> skipped]

Abort(line) == call' = [op |-> "abort", line |-> line, during |-> call]

\* The text of file n is now this one, loaded into an empty buffer or made of
\* what was there: a text that does not fit into a chunk is split.
Loaded(n, text) ==
    chunked' = IF Len(text) > Chunk THEN chunked \cup {n} ELSE chunked \ {n}

Grown(n, text) ==
    chunked' = IF Len(text) > Chunk THEN chunked \cup {n} ELSE chunked

Doing(op) == call.op = op

AtRest == call.op \in {"idle", "returned"}

\* file_system_init
file_system_init == [files |-> NULL, table |-> [b \in Bucket |-> NULL]]

Init == /\ fs = file_system_init
        /\ heap = [n \in {} |-> {}]
        /\ chunked = {}
        /\ call = Idle
        /\ docs = NoDocs

Receive == /\ Doing("returned")
           /\ call' = Idle
           /\ UNCHANGED <<fs, heap, chunked, docs>>

\* A call on a document, which begins with a search in its bucket; a URI that
\* does not parse ends it at once.  none is what it returns then, and when it
\* finds no file.
Search(name, uri, locals, want, none) ==
    /\ Doing("idle")
    /\ call' = IF PathOf[uri] = NoPath THEN Returned(none, none, 0)
               ELSE Over(locals, [op |-> name, path |-> PathOf[uri],
                                  rover |-> fs.table[Hash[PathOf[uri]]],
                                  found |-> FALSE, want |-> want, none |-> none])
    /\ UNCHANGED <<fs, heap, chunked>>

Searching == /\ call.op \in {"open", "change", "close", "save"}
             /\ ~call.found

Hit == call.rover # NULL /\ heap[call.rover].path = call.path

Miss == call.rover = NULL

IsOpen(uri) == PathOf[uri] \in DOMAIN docs

\* while (file != NULL): an iteration that finds the path ends the search, and
\* one that does not leaves file as it is.
LookupStep == /\ Searching
              /\ call.rover # NULL
              /\ call' = [call EXCEPT !.found = Hit]
              /\ UNCHANGED <<fs, heap, chunked, docs>>

\* if (file == NULL) return, in file_system_change and file_system_close.
LookupFails == /\ Searching
               /\ ~Doing("open")
               /\ Miss
               /\ call' = Returned(call.none, call.want, 0)
               /\ UNCHANGED <<fs, heap, chunked, docs>>

-----------------------------------------------------------------------------
(***************************************************************************)
(* file_system_open.                                                       *)
(***************************************************************************)
CallOpen(uri, version, contents) ==
    /\ Search("open", uri, [version |-> version, contents |-> contents], 0, 0)
    /\ docs' = IF PathOf[uri] = NoPath \/ IsOpen(uri) THEN docs
               ELSE With(docs, PathOf[uri],
                         [version |-> version, text |-> contents])

\* The file is there: its text is replaced, and only then does the assertion
\* say that it must not be open.
OpenFound ==
    /\ Doing("open")
    /\ call.found
    /\ IF heap[call.rover].open_count = 0
       THEN /\ heap' = [heap EXCEPT ![call.rover].text = call.contents,
                                    ![call.rover].open_count = 1,
                                    ![call.rover].version = call.version]
            /\ call' = Returned(0, 0, 0)
       ELSE /\ heap' = [heap EXCEPT ![call.rover].text = call.contents]
            /\ Abort(205)
    /\ Loaded(call.rover, call.contents)
    /\ UNCHANGED <<fs, docs>>

OpenNew ==
    /\ Doing("open")
    /\ ~call.found
    /\ Miss
    /\ \E n \in Node \ DOMAIN heap :
          /\ heap' = LinkedHeap(n, call.path, call.version, call.contents)
          /\ fs' = LinkedFs(n, call.path)
          /\ Loaded(n, call.contents)
    /\ call' = Returned(0, 0, 0)
    /\ UNCHANGED docs

-----------------------------------------------------------------------------
(***************************************************************************)
(* file_system_change.                                                     *)
(***************************************************************************)
CallChange(uri, version, edits) ==
    /\ Search("change", uri,
              [version |-> version, edits |-> edits, skipped |-> 0],
              IF IsOpen(uri) THEN 1 ELSE 0, 0)
    /\ docs' = IF IsOpen(uri)
               THEN [docs EXCEPT ![PathOf[uri]] =
                       [version |-> version, text |-> EditedAll(@.text, edits)]]
               ELSE docs

\* The bound on texts: a change is made only when its result is within.
Fits(uri, edits) ==
    IsOpen(uri) => Len(EditedAll(docs[PathOf[uri]].text, edits)) <= MaxText

\* Mutant: inserts first.
Rewrite_inserting_first(n, edit) ==
    \E at \in {SetTo(CursorAt(heap[n].text, 0), edit.start)} :
    \E typed \in {Typed(at, edit.text)} :
        heap' = [heap EXCEPT ![n].text =
                    IF IsWhole(edit) THEN edit.text
                    ELSE Text(IF Before(edit.start, edit.end)
                              THEN ErasedTo(typed, InSizeT(heap[n].text, edit.end))
                              ELSE typed)]

\* One edit: the text replaced or, from the point on, first erased and then
\* typed into.
Rewrite(n, edit) ==
    \E at \in {SetTo(CursorAt(heap[n].text, 0), edit.start)} :
    \E rest \in {IF Before(edit.start, edit.end)
                THEN ErasedTo(at, InSizeT(heap[n].text, edit.end)) ELSE at} :
        heap' = [heap EXCEPT ![n].text =
                    IF IsWhole(edit) THEN edit.text ELSE Text(Typed(rest, edit.text))]

\* Mutant: does not go on after an edit it skips.
ChangeEdit_again ==
    /\ Doing("change")
    /\ call.found
    /\ call.edits # <<>>
    /\ LET edit == Head(call.edits)
           text == heap[call.rover].text
       IN  /\ IsWhole(edit) \/ HasPosition(text, edit.start)
           /\ Rewrite(call.rover, edit)
           /\ call' = [call EXCEPT !.edits = Tail(@)]
    /\ UNCHANGED <<fs, chunked, docs>>

ChangeEdit ==
    /\ Doing("change")
    /\ call.found
    /\ call.edits # <<>>
    /\ LET edit == Head(call.edits)
           text == heap[call.rover].text
           located == IsWhole(edit) \/ HasPosition(text, edit.start)
           next == [call EXCEPT !.edits = Tail(@),
                                !.skipped = IF located THEN @ ELSE @ + 1]
       IN  IF located
           THEN /\ Rewrite(call.rover, edit)
                /\ IF IsWhole(edit) THEN Loaded(call.rover, edit.text)
                                    ELSE Grown(call.rover, heap'[call.rover].text)
                /\ call' = next
           ELSE /\ IF PassesEndOfLine(text, edit.start) THEN Abort(649)
                                                        ELSE call' = next
                /\ UNCHANGED <<heap, chunked>>
    /\ UNCHANGED <<fs, docs>>

\* text_buffer_delete may also not return, when the text has several chunks and
\* goes on before the range: see AbortsExplained and Stuck of TextBuffer.
From == FirstPlace(heap[call.rover].text, Head(call.edits).start)

To == LET text == heap[call.rover].text
      IN  FirstPlace(text, InSizeT(text, Head(call.edits).end))

DeletionMayFail ==
    /\ Doing("change")
    /\ call.found
    /\ call.edits # <<>>
    /\ call.rover \in chunked
    /\ LET edit == Head(call.edits)
       IN  /\ ~IsWhole(edit)
           /\ HasPosition(heap[call.rover].text, edit.start)
           /\ Before(edit.start, edit.end)
    /\ 0 < From /\ From < To

\* The bytes of the range up to n are gone.
ErasedUpTo(n) ==
    /\ heap' = [heap EXCEPT ![call.rover].text =
                  SubSeq(@, 1, From) \o SubSeq(@, n + 1, Len(@))]
    /\ UNCHANGED <<fs, chunked, docs>>

\* The last chunk of the text is empty.
DeletionAborts == /\ DeletionMayFail
                  /\ To = Len(heap[call.rover].text)
                  /\ ErasedUpTo(To)
                  /\ Abort(634)

\* The next chunk has the rest of a codepoint.
DeletionHangs ==
    /\ DeletionMayFail
    /\ \E n \in (From .. To) \ Boundaries(heap[call.rover].text) : ErasedUpTo(n)
    /\ call' = [op |-> "stuck", during |-> call]

\* Mutant: keeps the version of the file.
ChangeReturn_same_version ==
    /\ Doing("change")
    /\ call.found
    /\ call.edits = <<>>
    /\ call' = Returned(1, call.want, call.skipped)
    /\ UNCHANGED <<fs, heap, chunked, docs>>

ChangeReturn ==
    /\ Doing("change")
    /\ call.found
    /\ call.edits = <<>>
    /\ heap' = [heap EXCEPT ![call.rover].version = call.version]
    /\ call' = Returned(1, call.want, call.skipped)
    /\ UNCHANGED <<fs, chunked, docs>>

-----------------------------------------------------------------------------
(***************************************************************************)
(* file_system_close; file_system_lookup and the comparison of versions    *)
(* that server_textDocument_didSave makes with the file it finds;          *)
(* file_system_free, which server_shutdown calls.                          *)
(***************************************************************************)
CallClose(uri) == /\ Search("close", uri, <<>>, 0, 0)
                  /\ docs' = Without(docs, PathOf[uri])

CloseFound ==
    /\ Doing("close")
    /\ call.found
    /\ IF heap[call.rover].open_count = 1
       THEN file_system_remove(call.rover) /\ call' = Returned(0, 0, 0)
       ELSE Abort(300) /\ UNCHANGED <<fs, heap, chunked>>
    /\ UNCHANGED docs

CallSave(uri) ==
    /\ Search("save", uri, <<>>,
              IF IsOpen(uri) THEN docs[PathOf[uri]].version ELSE 0, 0)
    /\ UNCHANGED docs

SaveFound ==
    /\ Doing("save")
    /\ call.found
    /\ call' = Returned(heap[call.rover].version, call.want, 0)
    /\ UNCHANGED <<fs, heap, chunked, docs>>

CallFree == /\ Doing("idle")
            /\ call' = [op |-> "free", rover |-> fs.files]
            /\ docs' = NoDocs
            /\ UNCHANGED <<fs, heap, chunked>>

FreeStep == /\ Doing("free")
            /\ call.rover # NULL
            /\ file_system_remove(call.rover)
            /\ call' = [call EXCEPT !.rover = heap[call.rover].next]
            /\ UNCHANGED docs

FreeReturn == /\ Doing("free")
              /\ call.rover = NULL
              /\ fs' = file_system_init
              /\ call' = Returned(0, 0, 0)
              /\ UNCHANGED <<heap, chunked, docs>>

-----------------------------------------------------------------------------
\* A call, once made, goes on by itself.
Work == \/ LookupStep \/ LookupFails
        \/ OpenFound \/ OpenNew
        \/ ChangeEdit \/ DeletionAborts \/ DeletionHangs \/ ChangeReturn
        \/ CloseFound \/ SaveFound
        \/ FreeStep \/ FreeReturn

Next == \/ Receive
        \/ \E uri \in Uri, version \in Versions, contents \in Contents :
              CallOpen(uri, version, contents)
        \/ \E uri \in Uri, version \in Versions, edits \in Batches :
              Fits(uri, edits) /\ CallChange(uri, version, edits)
        \/ \E uri \in Uri : CallClose(uri) \/ CallSave(uri)
        \/ CallFree
        \/ Work

\* The program is sequential: nothing but the call itself can stop it.
Fairness == WF_vars(Work)

Spec == Init /\ [][Next]_vars /\ Fairness

-----------------------------------------------------------------------------
(***************************************************************************)
(* Properties.                                                             *)
(***************************************************************************)
Pointer == Node \cup {NULL}

\* The node the list fs.files has at place k, counted from 0.
Nth == [k \in 0 .. Cardinality(DOMAIN heap) |->
          LET nth[i \in Nat] == IF i = 0 THEN fs.files
                                ELSE IF nth[i - 1] = NULL THEN NULL
                                ELSE heap[nth[i - 1]].next
          IN  nth[k]]

\* The documents the files of the list stand for.
FileOf(path) == CHOOSE n \in DOMAIN heap : heap[n].path = path

View == [p \in {heap[n].path : n \in DOMAIN heap} |->
           [version |-> heap[FileOf(p)].version, text |-> heap[FileOf(p)].text]]

\* Type invariant, for the heap and the pointers into it.
TypeOK ==
    /\ DOMAIN heap \subseteq Node
    /\ \A n \in DOMAIN heap :
          /\ heap[n].path \in Path
          /\ heap[n].version \in Versions
          /\ heap[n].open_count \in {0, 1}
          /\ heap[n].text \in ByteStrings
          /\ {heap[n].next, heap[n].prev, heap[n].hash_next, heap[n].hash_prev}
                \subseteq DOMAIN heap \cup {NULL}
    /\ fs.files \in DOMAIN heap \cup {NULL}
    /\ fs.table \in [Bucket -> DOMAIN heap \cup {NULL}]
    /\ chunked \subseteq DOMAIN heap
    /\ call.op \in {"idle", "returned", "abort", "stuck", "open", "change",
                    "close", "save", "free"}

\* The list has every file in use, once: no file is leaked or lost when
\* another one is opened or closed, and prev is the inverse of next.
ListComplete ==
    /\ {Nth[k] : k \in DOMAIN Nth} = DOMAIN heap \cup {NULL}
    /\ \A k \in DOMAIN Nth \ {0} :
          Nth[k] # NULL => heap[Nth[k]].prev = Nth[k - 1]
    /\ fs.files # NULL => heap[fs.files].prev = NULL

\* A bucket has the file whose path has its hash, and there is but one: the
\* hash table and the list agree after every sequence of opens and closes.
BucketsAgree ==
    /\ \A n \in DOMAIN heap : fs.table[Hash[heap[n].path]] = n
    /\ \A b \in Bucket : fs.table[b] # NULL =>
          /\ Hash[heap[fs.table[b]].path] = b
          /\ heap[fs.table[b]].hash_next = NULL
          /\ heap[fs.table[b]].hash_prev = NULL

\* Between calls there is a file for every document that was opened and not
\* closed, with the version and the text that the calls on this path gave it.
HoldsDocuments ==
    AtRest => /\ View = docs
              /\ \A n \in DOMAIN heap : heap[n].open_count = 1

\* A change reports whether its document is open, and a save compares with
\* the version the last change gave.
ResultsRight == Doing("returned") => call.ret = call.want

\* The file that the call was about when it ended.
Rover == heap[call.during.rover]

\* A call goes on for ever in one of two places only: in a search for a
\* document that is not open while another one of the same bucket is, and in a
\* deletion in a document that has outgrown a chunk and has a codepoint of
\* several bytes.
Spinning == Searching /\ call.rover # NULL /\ ~Hit

Stuck == Doing("stuck")

HangsExplained ==
    /\ Spinning => /\ call.path \notin DOMAIN View
                   /\ \E p \in DOMAIN View : Hash[p] = Hash[call.path]
    /\ Stuck => /\ call.during.rover \in chunked
                /\ \E i \in 2 .. Len(Rover.text) : IsContinuation(Rover.text[i])

\* The assertions that fail are the one on a document that is opened again
\* (with its text lost by then), the one of text_buffer_set_point on a position
\* past the end of a line, and the one of delete_string in a document that has
\* outgrown a chunk, when all after the start of an edit is gone; that of
\* file_system_close never does.
AbortsExplained ==
    Doing("abort") =>
        \/ /\ call.line = 205
           /\ call.during.path \in DOMAIN docs
           /\ View[call.during.path].text = call.during.contents
        \/ /\ call.line = 649
           /\ PassesEndOfLine(View[call.during.path].text,
                              Head(call.during.edits).start)
        \/ /\ call.line = 634
           /\ call.during.rover \in chunked
           /\ Rover.text # <<>>
           /\ PositionAfter(Rover.text) = Head(call.during.edits).start

\* Every call returns, fails an assertion, searches for ever or is stuck in a
\* deletion.
CallsEnd == ~AtRest ~> (AtRest \/ Doing("abort") \/ Spinning \/ Stuck)

\* A step of a call changes one document at most, and its version only when
\* it leaves the text alone: the files implement FileMap.
FM == INSTANCE FileMap WITH docs <- View

ImplementsFileMap == FM!Spec

-----------------------------------------------------------------------------
(***************************************************************************)
(* What comments say of the calls, and the code does not do.               *)
(***************************************************************************)

\* "lookup file by document URI, returning a NULL if not found": a lookup
\* ends.  It does not when another file is in the bucket of the path.
LookupsEnd == Searching ~> ~Searching

\* "given range, and new text: delete the range, and then insert the new text
\* at the start of the range": a change that returns success has done this
\* for each of its edits.  One whose start is not in the text is left out.
ChangesAreComplete == Doing("returned") /\ call.ret = 1 => call.skipped = 0
=============================================================================
