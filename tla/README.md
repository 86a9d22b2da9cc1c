# xatslsp in TLA+

A model of [xatslsp](../src/README.md), the language server for Xanadu, in TLA+:
modules checked by TLC on small instances, and theorems about them that TLAPS
proves for every value of the constants. Paths below are relative to `src/`.

## The system

xatslsp is one sequential C program. It reads JSON-RPC messages from standard
input, handles each to the end before it reads the next, and keeps the text of
the documents the client has open. Nothing runs concurrently and nothing is
persisted; what is hard in it are long sequences of legal calls over a linked
data structure, boundaries (chunks, codepoints, lines), and loops and
assertions that end the service.

| part | code | state | operations |
|---|---|---|---|
| gap buffer | `src/text_buffer.c` 8-154 | `buffer`, `limit`, `gap_start`, `gap_end` | forward, backward, insert, delete, getc, strncmp, clear |
| text buffer | `src/text_buffer.c` 156-761 | the list of chunks between two sentinels, the point, `point_position` | set_point, insert, delete, forward_chars, backward_chars, clear, read, get_point |
| file system | `src/file_system.c` | the list `files`, the hash table, the file records | open, change, close, lookup, remove, free |
| json_rpc | `src/json_rpc.c` | the request being handled | parse a frame, validate the message, write one response |
| language server | `src/language_server.c` | `initialized`, `shutdown_requested`, the file system | initialize, shutdown, exit, didOpen, didChange, didSave, didClose |
| main | `src/xatsls_main.c` | none | the loop over messages |
| string slices | `src/strslice.h` | none | pure helpers, used nowhere |
| libraries | json.h, uriparse, uri_encode (not in the repository) | | |

The main loop calls `json_rpc_server_step`, which calls the handler of the
language server, which parses the parameters and calls the file system, which
finds the file and calls its text buffer, which calls the gap buffers. Every
interaction is a call; the only shared state is the file system of the server.

What makes each part correct, and what is hard about it:

- *gap buffer*: the text is what lies outside the gap, wherever the gap is; the
  stale bytes of the gap are never read. Moves overlap in memory.
- *text buffer*: a list of gap buffers is one text with one cursor. The chunks
  have an alignment and a non-emptiness invariant (`is_tbuf`), a codepoint may
  lie in two chunks, a position is known by walking only. Loops run over a list
  they change; assertions end the server.
- *file system*: each document has its own text, the list and the table agree,
  a change applies all its edits, in order. A search of the table has to end.
- *language server and json_rpc*: one response for each request, none for a
  notification; a document is handled between initialize and shutdown only; the
  frames written can be read.
- *client and server together*: both have the same text as long as they count
  lines and characters alike.

## Modules

| module | what it is |
|---|---|
| `Cursors` | a text with a cursor, as a record `[left, right]`, and the operations on it |
| `TextCursor` | the abstract specification of an editable text |
| `GapBuffer` | the gap buffer on its array of bytes, and the byte moves of `split_point` |
| `Cursors_proof`, `GapBuffer_proof` | lemmas and theorems about these; `Cursors_proof` also has induction and recursion over the natural numbers, for all the proofs |
| `Utf8Text` | codepoints and line/character positions of a flat text: what the words of `text_buffer.h` mean |
| `Utf8Text_proof` | lemmas about it |
| `TextBuffer` | the list of chunks, each loop iteration of each call a step |
| `TextBuffer_proof` | lemmas about its list (the cursor it stands for, and what the static functions do to it), and theorems about it |
| `FileMap` | the abstract specification of a set of open documents |
| `FileSystem` | file records on the heap, the list and the hash table, each loop iteration a step |
| `FileSystem_proof` | theorems about it |
| `JsonRpc` | JSON values, what makes one a request or a notification, replies |
| `LanguageServer` | the loop over messages, lifecycle, parameters, dispatch, and the calls of `FileSystem` that the handlers make |
| `LanguageServer_proof` | theorems about it |
| `Framing` | the bytes of the pipe, `parse_request` byte by byte, the frames of clients and of this program |
| `Framing_proof` | theorems about it |
| `Mirror` | the abstract specification of a document kept in step with a client |
| `TextSync` | a client that edits, the messages on their way, and the server of `LanguageServer` |
| `TextSync_proof` | theorems about it |
| `MC*` | the instances for TLC, with their `.cfg` files |

Where a layer uses the one below, it uses what the lower layer is shown to
implement. `GapBuffer` implements `TextCursor`, so `TextBuffer` takes a chunk
to be a cursor of at most `Chunk` bytes. `TextBuffer` implements `TextCursor`
and does to the text what `Utf8Text` says (`BufferHoldsDocument`), but for the
calls that do not return: a position past a line, and the two faults of
`delete_string` described below, which need a text of several chunks. So
`FileSystem` takes `file->text` to be a text edited with `Utf8Text`, and keeps in
`chunked` which files have a text that is, or has been since it was loaded,
longer than a chunk (`Chunk`). Where the chunks of such a text begin and end is
not kept: a deletion in it may do what `text_buffer_delete` should, and, when
there is text before the range, it may also empty the last chunk and fail the
assertion at line 634 (`DeletionAborts`) or get stuck in front of the rest of a
codepoint (`DeletionHangs`). These are the outcomes that `AbortsExplained` and
`StuckExplained` of `TextBuffer` leave; not each of them is possible for every
way a text may be cut into chunks, so what `FileSystem` and the modules above it
say of a text of several chunks is what may happen at worst. A text that has
always fitted into a chunk has neither outcome. `LanguageServer` makes the calls of
`FileSystem` on the same variables: a handler begins one, waits while its
iterations run, and goes on when it returns. `Framing` shows that the contents
of frames come out of `parse_request` whole and in order, so `LanguageServer`
takes a message in one step (`Take`), and `TextSync` keeps messages, not bytes,
in its queue. `TextSync` implements `Mirror`.

How state and steps correspond to the code is at the head of each module. Three
conventions hold in all of them:

- a call in progress is the record `call`: its `op` is the function, its other
  fields the local variables. A call ends as `"returned"`, with its result and
  the result it promised (`want`, computed on the flat text when it begins).
- an assertion that fails is `op = "abort"` with its source line; nothing
  happens after it, as after `abort()` in the program.
- a loop that does not change anything any more is a state without a next step
  of the call. The predicates `Stuck` and `Spinning` name these states; a
  deletion that is stuck is `op = "stuck"` in `FileSystem`, whose changes make
  one step of an edit.
- a number of a position is an int until `file_system_change` assigns it to a
  `size_t`. There a negative one becomes larger than any line or character
  (`InSizeT`), so an edit that starts at one is skipped or fails the assertion at
  line 649, and one that ends at one deletes to the end of a line or of the text.

The server of `LanguageServer` has `process` besides: waiting in a read,
handling a message, or ended (`"exited"` with a status, `"aborted"` at an
assertion of `language_server.c`, `"crashed"` at a use of NULL). While it waits,
`request` and `replies` are those of the last message, so that invariants can
say what a message has been answered.

`doc` and `docs` are history variables: what the calls so far promise, computed
from the definitions of `Utf8Text` and `Edited`, never read by a step.

An operator with a comment that begins with "Mutant" is a plausible slip in the
operator after it. `PROJECT.json` pairs each with a property that it breaks.

## Runs

| run | instance | what it shows |
|---|---|---|
| `gap_buffer` | limit 4, two letters and NUL, strings up to 3: 2309 states | well-formed buffers; `gapbuf_strncmp` and `gapbuf_getc` read the text; a split aligns the new buffer and halves the bytes; `TextCursor` is implemented, so no byte that was left in the gap is ever text again (a check that the text has bytes of callers only would not see this, for these are such bytes) |
| `text_buffer` | chunks of 2, texts up to 4 bytes of letters, newlines and two-byte codepoints, positions up to 2,2: 193385 states | after every call that returns the chunks hold the right text with the point in the right place (`HoldsDocument`), with the invariants of `is_tbuf` and the cursor between codepoints (`IsTbuf`); results, `text_buffer_read` and `tbuf_empty` are right; the position is right until an insertion, a clear or a backward move; only the assertions at lines 649 and 634 can fail, and when; calls end, but for `Stuck`, which is a deletion in front of another chunk, and in `text_buffer_delete` one within a codepoint (`StuckExplained`); even a call that is stopped half-way has only edited at the cursor (`ImplementsCursor`) |
| `file_system` | 3 records, 3 buckets, 4 paths of which 2 collide, 6 URIs, texts up to 3 bytes, chunks of 2, two versions, 3 changes of 1 or 2 edits: 275537 states | list and table agree with each other and with the heap; changes and saves give the right result; `FileMap` is implemented: a step of a call, even of one that does not return, changes one document at most |
| `file_system_calls` | 2 records, 2 buckets, 3 paths, 8 changes, with an insertion, deletions and a replacement, positions past a line, past the text and below zero, a two-byte codepoint: 96090 states | each document has the version and text its calls gave it (`HoldsDocuments`); a call only goes on for ever in a search for a document that is not open, or in a deletion in a text that has outgrown a chunk and has a codepoint of several bytes (`HangsExplained`); only lines 205, 649 and, in a text that has outgrown a chunk, 634 can fail (`AbortsExplained`); every other call returns (`CallsEnd`) |
| `language_server` | 76 messages, 2 records, 2 paths, 3 URIs, texts up to 3 bytes, chunks of 2: 54944 states | a request has one reply, with its id, and a notification none, but for the two requests below (`AnsweredOnce`); documents exist in an initialized server only, whatever order messages come in (`DocumentsNeedInitialize`); when texts are UTF-8, a server ends by a signal only for a message that lacks a member its interface requires, for a document opened twice, for a position past a line and for a deletion in a text that has outgrown a chunk (`DeathsExplained`); after a shutdown nothing is left (`ShutdownReleasesAll`); a message changes no document but its own (`OnlyItsDocument`); handlers end, but for a search and a deletion that do not (`HandlersEnd`) |
| `framing` | 2 frames with bodies of 0, 5 and 10 bytes, one of which looks like a frame; a second header line before or after the length; a writer that ends anywhere: 537109 states | frames are returned whole, once, in order, whatever their bytes (`InOrder`), and without waiting for the next (`FramesDelivered`); only a line end after a body makes the reader use an unassigned length, read a body as a header, or stop early (`KeepsInStep`); it ends when the input does (`ReaderEnds`) |
| `text_sync` | 1 URI, a text with a line end and one of two four-byte characters, deletions and typed CR, texts up to 2 codepoints, chunks of 4 bytes, 2 versions, 2 edits per change, 1 message on its way: 54950 states | as long as client and server count alike and no deletion in a text of several chunks fails, the server shows what the client had at each message, and it does not die (`ImplementsMirror`); the version of a save is right even after the texts drifted apart (`SaveAgrees`); no codepoint is ever split, but by a deletion that is stuck in it (`NeverSplits`); the server ends with the status the client is owed, or is stuck in a deletion (`ServerEnds`) |

Runs that TLC must find violated, each a disagreement of the code with what it
says of itself:

- `delete_hangs`: `delete_string` never ends when the bytes to delete go on in
  the next chunk and the point has text before the gap. A two-byte codepoint
  that an insertion has split over two chunks is enough.
- `delete_last_chunk`: a deletion that empties the last chunk, with text in the
  chunk before, makes the sentinel the point and fails the assertion at
  line 634. Both are reached from `file_system_change` (line 277), and so by a
  didChange: the server stays in the handler, or ends with every document.
- `set_point_past_line`: `text_buffer_set_point` fails the assertion at line
  649 for a position past the end of a line, where its header and its caller
  expect 0.
- `hash_collision`: the loops of `file_system_lookup` and `file_system_open` do
  not follow `hash_next`, so two paths with one hash make them run for ever.
- `skipped_edit`: `file_system_change` leaves out an edit whose start is not in
  the text, applies the others, takes the new version and returns success.

What `language_server`, `framing` and `text_sync` pass is stated with the
exceptions the code makes. They are behaviour a reader should know of:

- a shutdown before initialize gets two replies, an error and a success
  (`server_shutdown` does not return after the first); an initialize without a
  root URI, which the protocol allows to be null, gets none
  (`server_parse_initialize_request` returns 0 without an error). `Due` in
  `LanguageServer` names both;
- a change whose range has four negative numbers replaces the whole text, not only
  one with -1 everywhere, which is what the validation of the message lets
  through without a look at their order (`IsWhole`, `HasNoPosition`);
- `text_buffer.h:69` says that `insert_string` inserts after the cursor, and
  `text_buffer.c:582` that it does before; it does before, and the cursor is
  behind what was inserted;
- a didOpen with a URI and no text (or the reverse), a notification without
  `textDocument`, and a didSave or a didClose without a URI end the server: a
  failed assertion or a use of NULL (`DeathsExplained`);
- after a shutdown the server goes on as before, and `initialized` stays set;
- the length this program writes counts the NUL that `json_write_minified`
  adds, so a reader gets the CR after the body with the body and finds the LF
  before the next header. A reader like `parse_request` then takes this LF for an
  empty header, and an unassigned length for the length of a body;
- lines that end in CR and characters of four bytes are counted differently by
  the client: an edit after one goes elsewhere, or past a line and ends the
  server.

### Bounds, and why they are enough

- *A chunk of 2 bytes* (`Chunk`) is the smallest that can be split; texts of up
  to 4 bytes (`MaxText`) then make lists of up to four chunks, so that there
  are chunks before, between and after, and a two-byte codepoint can lie in
  one chunk or in two. A codepoint of three bytes or more could lie in three
  chunks of this size, which 16384 bytes exclude; there is none in the
  instance. `gap_buffer` has a limit of 4 for splits at, before and
  after the middle.
- *Positions up to 2,2* (`MaxLine`, `MaxChar`) include some past the end of
  every line and past the end of every text. Moves skip at most `MaxMove`
  codepoints at a time.
- *Three records* have a first, a middle and a last one in the list. Buckets
  never hold more than one file (`BucketsAgree`), so one colliding path shows
  all that collisions do. The addresses are symmetric in the safety run, since
  the code only compares them; the liveness run has no symmetry.
- *The batches* contain an insertion, a deletion, a replacement of a range and
  of everything, a line break, joins of lines, an edit that cannot be
  located, one that is past a line, and negative numbers in each place they can
  be. Two edits in a change show one seeing what the other did.
- *A chunk of 2 bytes and texts of up to 3* in `file_system`, `file_system_calls`
  and `language_server` (`Chunk`, `MaxText`; 4 bytes and two characters of four
  in `text_sync`): a letter and a two-byte codepoint outgrow a chunk, so the
  deletion of the codepoint aborts, hangs or is done. A text that was cut back
  stays in `chunked`, and one that is replaced leaves it.
- *The messages* of `language_server` have, for each handler, a right one for
  each URI (one of which does not parse), and for each member one that lacks it
  or has a wrong type, since handlers tell values apart by type only. Two
  documents show whether a message about one touches the other. Their paths have
  different hashes; `file_system` has the collisions. `MaxText` of 3 holds a
  letter, a line break and a letter, enough for each edit to have and to miss its
  place.
- *Two frames* (`MaxFrames`) show what the first does to the second; a body of
  10 has a length of two digits. `BufSize` is 5 in place of 1024: the field name
  is one byte here, and the header lines of the instance fit. `Leftover` has a
  length that leaves the rest of the input to the header and one that takes from
  it.
- *One document, one message on its way* in `text_sync` (`MaxQueue`): a second
  message is sent while the first is handled and the client has edits that
  are not told (`MaxUnsent` of 2), so the client is up to three steps ahead of
  the server. `MaxVersion` of 2 has an opening and a change; a document can be
  closed and opened again without bound.

Sizes and positions are natural numbers: `size_t` does not overflow below the
memory of the machine. Allocation does not fail (the code marks its failures as
TODO).

What a caller is assumed to do: texts are UTF-8, those of `FileSystem` and those
in the messages of `LanguageServer` too (`TextsAssumption` in each; JSON demands
it, and the program does not look: a walk over other bytes fails the assertions
of `codepoint_size`, line 471 and the like); `text_buffer_delete` comes
after `text_buffer_set_point` with a later position, which is how
`file_system_change` calls it and what its first assertion asks for;
`delete_string` takes whole codepoints, no more than there are.

What the environment is assumed to do: an object has no property twice; a
`Number` is what `atoi` makes of it, within an int; no header line
is a proper prefix of `content-length: ` (the `memcmp` compares with what an
earlier line left in `buf`), and none of a client is longer than `buf`
(`FramesAssumption`; the code has no test, see below). Whether the parent process runs, and what
`json_value_is_null` does with NULL (an answer, or a use of it), is either. In
`TextSync` a URI names one file and no two paths collide (`NamesAssumption`),
since otherwise a lookup does not end; the client waits for its initialize
to be answered, opens a document once and sends ranges, as the capabilities in
the reply say.

### Fairness

`WF_vars(Work)`: a call that can go on does. The program has one thread, and no
input or other process can stop a call between two iterations. A call that has
returned need not be followed by another one.

`WF_vars(Handle)` in `LanguageServer` and `WF_vars(Server)` in `TextSync` are the
same for handlers and for the loop: what has arrived is read and handled. No
fairness for messages (`Take`), for the client or for the writer: they need not
do anything. `WF_vars(parse_request)` in `Framing`: a read returns when there is a
byte, or the end of the input. The fairness of `Mirror` is that of its `Show`,
written out, because `TextSync` substitutes expressions for its variables.

Deadlock is not checked in the runs over calls and messages: a failed assertion,
a stuck deletion, a spinning search, a program that has ended and a pipe that is
closed are states without a next step, and properties of their own describe
them. The run `gap_buffer` checks it.

## Proofs

`GapBuffer_proof` proves for every limit that halves, every alphabet and every
set of strings, from `LimitAssumption` and `StringsAssumption`:

- `TypeCorrect`: `Spec => []TypeOK`. Each operation returns a well-formed buffer
  for well-formed arguments (one lemma each). The guards of the code are just
  what is needed.
- `GapBufferImplementsCursor`: `Spec => ImplementsCursor`. That a move keeps the
  text is so only for well-formed buffers, and a split reads a buffer that is
  full. Under `TypeOK`, with bytes of callers in the buffers (`IInv`), each
  operation on the array changes the cursor it stands for as its counterpart in
  `Cursors` does (one lemma each, from how slices of the array and of a copied
  array compare), and a split leaves the framed cursor as it is. That stale bytes
  of the gap are never read as text is a part of this.

- `TextRead`: `Spec => []ReadsText`. The text is two slices of the array, so
  `gapbuf_getc` reads one of them, by where its index is, and `gapbuf_strncmp`
  compares the string with both.
- `PeerStaysAligned`: `Spec => []PeerAligned`, and `SplitHalves`:
  `Spec => SplitMakesRoom`, from what a split leaves in both buffers.

`Cursors_proof` has the facts about sequences of bytes they rest on: lengths and
texts of cursors that move, are typed into and erased, and that framing a cursor
with text on both sides commutes with the operations.

The induction theorems of the library take an operator, which the provers cannot
instantiate. `Inductive` in `Cursors_proof` is about a set instead: a set that has
0, and the next number with each, has every number. A predicate P is shown for
every number with the set `{n \in Nat : P(n)}`. `Recursion` is about functions:
one that a step of a first value makes exists, and it is what a recursive function
of the modules is. With these two the proofs reason about flattened lists, the
edits of a change, the walk along the list of files and decimal numbers.

`TextBuffer_proof`, with the lemmas of `Utf8Text_proof`, proves for every chunk size, every set of texts to insert and every bound:

- `TextTyped`: `Spec => []TypeOK`, and `TextImplementsCursor`:
  `Spec => ImplementsCursor`, from `TextInv`. It says that the list is one that
  `is_tbuf` describes, or in a deletion one with the sentinel as the point
  (`ListInv`), and that a call has the local variables it can have (`CallInv`).
  One lemma for each static function says what it does to the cursor that the
  list stands for (`View`), and one for each iteration that it keeps `TextInv`
  and is a step of `TextCursor`.
- `BufferHoldsDocument`: `Spec => []HoldsDocument`, with `ResultsAreRight`,
  `PositionIsRight`, `QueriesAreRight` and `ListOnCodepoint`: all that the runs
  check of the text between calls. None is inductive, for they say nothing while
  a call runs. `DocInv` does: what the running call has done and what it has left
  to do make up what it promised. What is left of an insertion is to be typed at
  the cursor (`Inserting`); a walk to a position has not gone past the first
  place at it or beyond it (`Walk`, in `SettingPoint` and `Deleting`, where it
  walks over the text as it was before the deletion); what is left to skip ends
  where the whole skip does (`MovingForward`, `MovingBackward`, where the cursor
  may stand inside a codepoint).
- `OnlyTheseAborts`: `Spec => []AbortsExplained`. That needs a third invariant,
  for `forward_char` asserts (line 477) that the rest of a codepoint is in the
  next chunk. `TiedInv` says that no chunk lies strictly inside a codepoint: of
  two chunks in a row, the first has a byte that starts a codepoint or the second
  begins with one. What keeps it is that the text is `Loose` (of any `Half + 1`
  bytes in a row one starts a codepoint) and that `split_point` makes chunks of
  `Half` bytes at least. In a deletion it holds up to the point and after it, but
  not across the bytes to delete.
- `StuckOnlyInCodepoint`: `Spec => []StuckExplained`, from `BufferInv` and a
  fourth invariant: once the codepoint that `text_buffer_delete` deletes does not
  begin in the point, what it has still to delete is the rest of it (`RestInv`).

They rest on four assumptions: the chunk size is even and not 0
(`ChunkAssumption`; the program has 16384); the texts to insert are sequences of
whole codepoints (`InsertsAssumption`); the bounds of the model are numbers
(`BoundsAssumption`); half a chunk has room for all the bytes of a codepoint after
its first (`CodepointsAssumption`; a codepoint has six bytes at most). The last is
needed: with chunks of 2 bytes and a codepoint of three TLC finds the assertion of
line 477 failing. `BufferInv`, the conjunction of the three invariants, is in
`BufferInductive`.

`FileSystem_proof` proves for every set of addresses, URIs, paths and buckets,
every hash function and every set of edits, from `NamesAssumption` and
`TextsAssumption`:

- `TableAgrees`: `Spec => []BucketsAgree`. Not inductive by itself: that a bucket
  has one file rests on the searches, which do not end in a bucket that has
  another one, and that a closed file leaves nothing behind rests on the list.
  The inductive invariant `IInv` says that `prev` is the inverse of `next` and
  the head the only file without a `prev` (`ListInv`), that the table and the
  paths agree (`TableInv`), that every file is open once, and that a call in
  progress stands at the head of the bucket of its path (`CallInv`). That the
  list has no cycle is said without counting along it: every set of files has
  one whose `prev` is outside of the set. With it `file_system_free` ends with
  no file in use (`NoHeadNoFile`).
- `HangsOnlyAsExplained`: `Spec => []HangsExplained`, and
  `AbortsOnlyAsExplained`: `Spec => []AbortsExplained`, from the same invariant,
  from the texts being UTF-8, and from `DeletionsInv`: a deletion that did not
  return was in a text that had outgrown a chunk, behind some text, which is what
  there is when all after the range is gone (634) and is followed by the rest of
  a codepoint when it is stuck.
- `FilesImplementMap`: `Spec => ImplementsFileMap`. Under `IInv` no two files
  have the same path, so `View` has one document for each file, and a heap that
  differs in one file differs in one document (`LinkedView`, `UnlinkedView`,
  `ChangedView`).
- `DocumentsHeld`: `Spec => []HoldsDocuments`, `ResultsAreRight`:
  `Spec => []ResultsRight`, and `FilesTyped`: `Spec => []TypeOK`, from `Holding`,
  which adds to `IInv` that texts are sequences of bytes (`TextsInv`), what
  `DeletionsInv` says of a call that did not return, and what each
  call still owes: the version and text to open with, the edits left to apply to
  the text that the edits so far have made, the file to close (`DocsInv`). That an
  edit more at the front of a list of edits is applied first is shown by induction
  over the list, and for any number of edits.
- `ListIsComplete`: `Spec => []ListComplete`. `Nth` walks along `next`; by
  induction the walk meets no file twice, and if it ended before it had met all,
  the rest would have a file whose `prev` is not in the rest.

`LanguageServer_proof` proves for every set of messages (and of URIs, paths and
addresses), from `NamesAssumption`, `MessagesAssumption` and `TextsAssumption`:

- `DocumentsAfterInitialize`: `Spec => []DocumentsNeedInitialize`. Not inductive
  by itself: a file is linked many steps after the handler looked at
  `initialized`. The inductive invariant `IInv` adds that a call that is an
  opening is that of an initialized server, and that a call is a record with a
  name. One lemma for the iterations of `FileSystem` (`WorkAddsNone`), one for
  the handlers.
- `RequestsAnsweredOnce`: `Spec => []AnsweredOnce`, and `ServerTypeCorrect`:
  `Spec => []TypeOK`. The inductive invariant `RepliesInv` says what has been
  written while a message is handled (`Replying`: nothing, but for the error of a
  shutdown that waits for `file_system_free`) and when it has been (`Replied`).
- `OnlyTheseDeaths`: `Spec => []DeathsExplained`, and `ShutdownReleases`:
  `Spec => []ShutdownReleasesAll`. `ServerInductive` adds to `RepliesInv` that the
  invariant of `FileSystem_proof` holds under the handlers (`FilesInv`), whose
  steps are those of `FileSystem` or leave its variables alone. The list of deaths
  is complete for messages with UTF-8 texts, which is what `TextsAssumption` says.
- `ChangesOnlyItsDocument`: `Spec => OnlyItsDocument`. A call of the file system
  keeps the path it began with, which is that of the URI of the message
  (`CallsInv`).

`Framing_proof` proves for every set of bodies and other header lines and any
number of frames, from `FramesAssumption`:

- `BodiesInOrder`: `Spec => []InOrder`, `ReaderKeepsInStep`:
  `Spec => []KeepsInStep`, and `FramingTyped`: `Spec => []TypeOK`, which says of
  bodies that no byte is stored past what was allocated. Of header lines it says
  only that the state `"overrun"` is where one is longer than `buf`; that there is
  none while the reader is in step is in `KeepsInStep`. What was
  returned says nothing of what will be. The inductive invariant `ReaderInv` says
  where in the stream of frames the reader is, as long as nothing follows a body:
  from its local variables follows what is left of its frame, which with the
  frames after it is the pipe and what the writer has still to write of its last
  frame (`Follows`). That the reader takes the length which the writer wrote is
  shown by induction over the digits of a decimal number.

`TextSync_proof` proves for every set of URIs, paths, addresses and texts, any
codepoints to type and any bounds, from `NamesAssumption` and `TextsAssumption`
of `TextSync` (what is opened and typed is whole codepoints):

- `CodepointsStayWhole`: `Spec => []NeverSplits`. An edit that is done, or that
  aborts, is between two places of the text of the client, and puts whole codepoints between two boundaries of
  that of the server, wherever these are (`EditedUtf8`).
- `SavesAgree`: `Spec => []SaveAgrees`, and `SyncMirrors`: every step is a step of
  `Mirror`, which is `ImplementsMirror` without its fairness. What the server
  shows rests on what it was sent, and that on what the client did many steps
  before. The inductive invariant `Inv` (`SyncInductive`) is a chain. The edits
  that are not told lead from the text that was told to the text of the client
  (`ClientInv`). Each message on its way leads from the documents of the one before
  it to its own (`QueueInv`; `Linked` says what each kind of message does to
  them). The message that is handled leads from the documents of the server to
  its own, and when the call of its handler has begun, the call promises these
  (`ServerInv`). The call keeps its promise because the invariant of
  `FileSystem_proof` holds under it (`FilesInv`), and a message is handled at all
  because nothing but initialize reaches a server that is not initialized
  (`ReadyInv`). Texts are equal as long as every position is `Alike`; paths and
  versions always are, which is why a save is right even after a drift.
- `ServerSurvives`: `Spec => []Survives`. Such a client never brings the server to a
  use of NULL, a failed assertion on parameters or a lookup that does not end. The
  assertion of `text_buffer_set_point` can fail only after a drift, and until then
  no edit of a change is skipped. The assertion of `delete_string` can fail, and a
  deletion be stuck, only in a document that has outgrown a chunk. `ServingInv` adds to `Inv` that each edit starts
  at a place of the text it is made to (`Placed`), in what is not told, in what is
  on its way and in what a call has still to make (`PlacesInv`), that a document is
  opened only when its path has none and changed only when it has one, and that
  the process is not dead (`CallSafe`, `Alive`). It is stronger than what a run
  checks: `DeathsExplained` allows a death for each message that brings one; here no
  message of the client is one of these.
- What the bytes mean on both sides is proved, too: that a handler reads from a
  message the very edits it was made of (`EventsRead`, `ChangeBegins`), and that
  the first place at the position of a place is the place itself (`PlaceFound`),
  so that the server edits where the client did.

Only model-checked: the liveness properties (`CallsEnd`, `HandlersEnd`,
`FramesDelivered`, `ReaderEnds`, `ServerEnds`, the fairness of `Mirror`), which
TLAPS cannot prove. The disagreements above are counterexamples on the instances
given there.

## Not modelled

- `text_buffer_free`, `gapbuf_free`: they release memory and end the use of it.
  (`file_system_remove`, which calls them, is modelled with the record it
  frees.)
- URI parsing and decoding: the libraries are not in the repository. `PathOf`
  is any function from URIs to paths or to no path, `Hash` any function.
- json.h (`json_parse_ex` and `json_write_minified` are a message that parses or
  does not), the wording of replies and logs (`json_parse_error_reason`), string
  slices, the build.
- `json_rpc_internal_error` and `json_rpc_custom_error`: nothing the server does
  reaches them.
- Memory: allocations do not fail, and what a handler forgets to free is not
  counted.
- What is behind a buffer that is overrun (`parse_request`, a header line of
  more than 1024 bytes): the byte is stored, as in the code, and the run ends
  there, in the state `"overrun"`.
- The chunks of a text in `FileSystem` and above (see *Modules*): what may happen
  to a text of several chunks is a choice there, and derived in `TextBuffer`.
- Texts that are not UTF-8.

## What is left

Every component of the server is modelled, the components are composed, and every
invariant and action property that the passing runs check is proved. Liveness
stays with TLC. A model of the libraries would need their code.
