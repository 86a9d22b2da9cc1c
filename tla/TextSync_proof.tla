--------------------------- MODULE TextSync_proof ---------------------------
(***************************************************************************)
(* Proofs about TextSync, for every set of documents, texts and addresses. *)
(*                                                                         *)
(* Its invariant follows the documents of the client from where they are   *)
(* edited to where they are shown:                                         *)
(*   - the edits that are not told lead from the text that was told to the *)
(*     text of the client (ClientInv);                                     *)
(*   - each message on its way leads from the documents of the one before  *)
(*     it to its own (QueueInv);                                           *)
(*   - the message that is handled leads from the documents of the server  *)
(*     to its own, and the call of its handler, once made, promises these  *)
(*     (ServerInv, with the invariant of FileSystem_proof in FilesInv);    *)
(*   - nothing but initialize reaches a server that is not initialized     *)
(*     (ReadyInv).                                                         *)
(* Texts are equal as long as the positions mean the same to both; paths   *)
(* and versions always are.                                                *)
(*                                                                         *)
(* A second one, on top of it, follows the edits: each starts at a place   *)
(* of the text it is made to, where it is told, on its way and where it is *)
(* made (PlacesInv), and no call is one that the server does not survive   *)
(* (ServingInv).                                                           *)
(***************************************************************************)
EXTENDS TextSync, Utf8Text_proof

-----------------------------------------------------------------------------
(***************************************************************************)
(* The file system of the server, and its proofs.                          *)
(***************************************************************************)
Utf8Strings == {t \in Seq(Byte) : IsUtf8(t)}

\* The edits of a client: of places, and whole codepoints.
ClientEdits == {e \in [start : Place, end : Place, text : Utf8Strings] :
                  ~Before(e.end, e.start)}

\* The theorems of the file system, for what this client opens and edits.
FP == INSTANCE FileSystem_proof
         WITH Versions <- Int, Contents <- Utf8Strings, Batches <- Seq(ClientEdits),
              MaxText <- 4 * MaxChars

\* The definitions of both instances are the same.
LEMMA SamePlaces ==
    /\ \A t, pos : S!FS!HasPosition(t, pos) = FP!HasPosition(t, pos)
    /\ \A t, pos : S!FS!PastEndOfLine(t, pos) = FP!PastEndOfLine(t, pos)
    /\ \A t, pos : S!FS!PlacesFrom(t, pos) = FP!PlacesFrom(t, pos)
    /\ \A a, b : S!FS!Before(a, b) = FP!Before(a, b)
    /\ \A t : S!FS!Boundaries(t) = FP!Boundaries(t)
    /\ \A t, pos : S!FS!InSizeT(t, pos) = FP!InSizeT(t, pos)
    /\ \A t, pos : S!FS!PassesEndOfLine(t, pos) = FP!PassesEndOfLine(t, pos)
    /\ \A edit : S!FS!IsWhole(edit) = FP!IsWhole(edit)
<1>1. \A a, b : S!FS!Before(a, b) = FP!Before(a, b)
  BY DEF S!FS!Before, FP!Before
<1>2. \A t : S!FS!Boundaries(t) = FP!Boundaries(t)
  BY DEF S!FS!Boundaries, FP!Boundaries, S!FS!IsContinuation, FP!IsContinuation
<1>3. \A t : S!FS!PositionAfter(t) = FP!PositionAfter(t)
  <2>1. \A t : S!FS!Starts(t) = FP!Starts(t)
    BY DEF S!FS!Starts, FP!Starts, S!FS!IsContinuation, FP!IsContinuation
  <2>2. \A T : S!FS!Cardinality(T) = FP!Cardinality(T)
    BY DEF S!FS!Cardinality, FP!Cardinality
  <2>3. QED
    BY <2>1, <2>2 DEF S!FS!PositionAfter, FP!PositionAfter, S!FS!NewLine, FP!NewLine
<1>4. \A t, pos : S!FS!PlacesFrom(t, pos) = FP!PlacesFrom(t, pos)
  BY <1>1, <1>2, <1>3 DEF S!FS!PlacesFrom, FP!PlacesFrom
<1>5. \A t, pos : S!FS!HasPosition(t, pos) = FP!HasPosition(t, pos)
  BY <1>2, <1>3 DEF S!FS!HasPosition, FP!HasPosition
<1>6. \A t, pos : S!FS!PastEndOfLine(t, pos) = FP!PastEndOfLine(t, pos)
  BY <1>4, <1>5 DEF S!FS!PastEndOfLine, FP!PastEndOfLine
<1>7. \A t, pos : S!FS!InSizeT(t, pos) = FP!InSizeT(t, pos)
  BY DEF S!FS!InSizeT, FP!InSizeT
<1>8. \A t, pos : S!FS!PassesEndOfLine(t, pos) = FP!PassesEndOfLine(t, pos)
  BY <1>6, <1>7 DEF S!FS!PassesEndOfLine, FP!PassesEndOfLine
<1>9. \A edit : S!FS!IsWhole(edit) = FP!IsWhole(edit)
  BY DEF S!FS!IsWhole, FP!IsWhole
<1>10. QED
  BY <1>1, <1>2, <1>4, <1>5, <1>6, <1>7, <1>8, <1>9

\* The definitions of both instances of FileSystem are the same: places,
LEMMA SameFirstPlace ==
    ASSUME NEW t, NEW pos
    PROVE  S!FS!FirstPlace(t, pos) = FP!FirstPlace(t, pos)
<1> DEFINE Least(T) == CHOOSE n \in T : \A m \in T : n <= m
<1>1. /\ S!FS!FirstPlace(t, pos) = IF S!FS!PlacesFrom(t, pos) = {} THEN Len(t)
                                 ELSE Least(S!FS!PlacesFrom(t, pos))
      /\ FP!FirstPlace(t, pos) = IF FP!PlacesFrom(t, pos) = {} THEN Len(t)
                                 ELSE Least(FP!PlacesFrom(t, pos))
  BY DEF S!FS!FirstPlace, FP!FirstPlace
<1> HIDE DEF Least
<1>2. QED
  BY <1>1, SamePlaces

\* rewriting,
LEMMA SameRewrite ==
    ASSUME NEW n, NEW edit, S!FS!Rewrite(n, edit)
    PROVE  FP!Rewrite(n, edit)
<1>1. \A c, pos : S!FS!SetTo(c, pos) = FP!SetTo(c, pos)
  BY SameFirstPlace DEF S!FS!SetTo, FP!SetTo, S!FS!CursorAt, FP!CursorAt, S!FS!Text, FP!Text
<1>2. \A c, pos : S!FS!ErasedTo(c, pos) = FP!ErasedTo(c, pos)
  BY SameFirstPlace DEF S!FS!ErasedTo, FP!ErasedTo, S!FS!Erased, FP!Erased, S!FS!Text, FP!Text
<1>3. /\ \A t, k : S!FS!CursorAt(t, k) = FP!CursorAt(t, k)
      /\ \A c, s : S!FS!Typed(c, s) = FP!Typed(c, s)
      /\ \A c : S!FS!Text(c) = FP!Text(c)
  BY DEF S!FS!CursorAt, FP!CursorAt, S!FS!Typed, FP!Typed, S!FS!Text, FP!Text
<1>4. QED
  BY <1>1, <1>2, <1>3, SamePlaces DEF S!FS!Rewrite, FP!Rewrite

\* The assumption of FileSystem, for its instance.
LEMMA FileNames == FP!NamesAssumption
BY NamesAssumption DEF FP!NamesAssumption

\* the calls,
LEMMA SameCalls ==
    /\ \A op : S!FS!Doing(op) = FP!Doing(op)
    /\ \A ret, want, skipped : S!FS!Returned(ret, want, skipped) = FP!Returned(ret, want, skipped)
    /\ \A line : S!FS!Abort(line) = FP!Abort(line)
    /\ \A f, g : S!FS!Over(f, g) = FP!Over(f, g)
    /\ \A f, x, v : S!FS!With(f, x, v) = FP!With(f, x, v)
    /\ \A f, x : S!FS!Without(f, x) = FP!Without(f, x)
    /\ \A n, text : S!FS!Loaded(n, text) = FP!Loaded(n, text)
    /\ \A n, text : S!FS!Grown(n, text) = FP!Grown(n, text)
<1>1. \A f, g : S!FS!Over(f, g) = FP!Over(f, g)
  BY DEF S!FS!Over, FP!Over
<1>2. QED
  BY <1>1 DEF S!FS!Doing, FP!Doing, S!FS!Returned, FP!Returned, S!FS!Abort, FP!Abort,
              S!FS!With, FP!With, S!FS!Without, FP!Without, S!FS!Loaded, FP!Loaded,
              S!FS!Grown, FP!Grown

\* an edit,
LEMMA SameEdit == S!FS!ChangeEdit => FP!ChangeEdit
BY SamePlaces, SameRewrite, SameCalls DEF S!FS!ChangeEdit, FP!ChangeEdit

\* a deletion that does not return,
LEMMA SameDeletions ==
    /\ S!FS!DeletionAborts => FP!DeletionAborts
    /\ S!FS!DeletionHangs => FP!DeletionHangs
<1>1. S!FS!From = FP!From /\ S!FS!To = FP!To
  BY SameFirstPlace, SamePlaces DEF S!FS!From, FP!From, S!FS!To, FP!To
<1>2. S!FS!DeletionMayFail = FP!DeletionMayFail
  BY <1>1, SamePlaces, SameCalls DEF S!FS!DeletionMayFail, FP!DeletionMayFail
<1>3. \A n : S!FS!ErasedUpTo(n) = FP!ErasedUpTo(n)
  BY <1>1 DEF S!FS!ErasedUpTo, FP!ErasedUpTo
<1>4. QED
  BY <1>1, <1>2, <1>3, SameCalls, SamePlaces
     DEF S!FS!DeletionAborts, FP!DeletionAborts, S!FS!DeletionHangs, FP!DeletionHangs

\* removal,
LEMMA SameRemoval == \A n : S!FS!file_system_remove(n) = FP!file_system_remove(n)
<1>1. /\ \A h, n, v : S!FS!SetNext(h, n, v) = FP!SetNext(h, n, v)
      /\ \A h, n, v : S!FS!SetPrev(h, n, v) = FP!SetPrev(h, n, v)
      /\ \A h, n, v : S!FS!SetHashNext(h, n, v) = FP!SetHashNext(h, n, v)
      /\ \A h, n, v : S!FS!SetHashPrev(h, n, v) = FP!SetHashPrev(h, n, v)
  BY DEF S!FS!SetNext, FP!SetNext, S!FS!SetPrev, FP!SetPrev,
         S!FS!SetHashNext, FP!SetHashNext, S!FS!SetHashPrev, FP!SetHashPrev
<1>2. /\ \A n : S!FS!UnlinkedHeap(n) = FP!UnlinkedHeap(n)
      /\ \A n : S!FS!UnlinkedFs(n) = FP!UnlinkedFs(n)
  BY <1>1, SameCalls DEF S!FS!UnlinkedHeap, FP!UnlinkedHeap, S!FS!UnlinkedFs, FP!UnlinkedFs
<1>3. QED
  BY <1>2 DEF S!FS!file_system_remove, FP!file_system_remove

\* the search,
LEMMA SameSearch ==
    /\ S!FS!LookupStep => FP!LookupStep
    /\ S!FS!LookupFails => FP!LookupFails
    /\ \A name, uri, locals, want, none :
          S!FS!Search(name, uri, locals, want, none) => FP!Search(name, uri, locals, want, none)
<1>1. S!FS!Searching = FP!Searching /\ S!FS!Hit = FP!Hit /\ S!FS!Miss = FP!Miss
  BY DEF S!FS!Searching, FP!Searching, S!FS!Hit, FP!Hit, S!FS!Miss, FP!Miss
<1>2. QED
  BY <1>1, SameCalls DEF S!FS!LookupStep, FP!LookupStep, S!FS!LookupFails,
     FP!LookupFails, S!FS!Search, FP!Search

\* opening,
LEMMA SameOpening ==
    /\ S!FS!OpenFound => FP!OpenFound
    /\ S!FS!OpenNew => FP!OpenNew
<1>1. /\ \A n, path, version, text :
            S!FS!LinkedHeap(n, path, version, text) = FP!LinkedHeap(n, path, version, text)
      /\ \A n, path : S!FS!LinkedFs(n, path) = FP!LinkedFs(n, path)
      /\ S!FS!Miss = FP!Miss
  BY SameCalls DEF S!FS!LinkedHeap, FP!LinkedHeap, S!FS!LinkedFs, FP!LinkedFs,
     S!FS!Miss, FP!Miss, S!FS!SetPrev, FP!SetPrev, S!FS!SetHashPrev, FP!SetHashPrev
<1>2. QED
  BY <1>1, SameCalls DEF S!FS!OpenFound, FP!OpenFound, S!FS!OpenNew, FP!OpenNew

\* and the ends of calls.
LEMMA SameEnds ==
    /\ S!FS!ChangeReturn => FP!ChangeReturn
    /\ S!FS!CloseFound => FP!CloseFound
    /\ S!FS!SaveFound => FP!SaveFound
    /\ S!FS!CallFree => FP!CallFree
    /\ S!FS!FreeStep => FP!FreeStep
    /\ S!FS!FreeReturn => FP!FreeReturn
    /\ S!FS!Receive => FP!Receive
    /\ S!FS!Init => FP!Init
<1>1. S!FS!file_system_init = FP!file_system_init /\ S!FS!Idle = FP!Idle /\ S!FS!NoDocs = FP!NoDocs
  BY DEF S!FS!file_system_init, FP!file_system_init, S!FS!Idle, FP!Idle, S!FS!NoDocs, FP!NoDocs
<1>2. QED
  BY <1>1, SameCalls, SameRemoval
     DEF S!FS!ChangeReturn, FP!ChangeReturn, S!FS!CloseFound, FP!CloseFound,
         S!FS!SaveFound, FP!SaveFound, S!FS!CallFree, FP!CallFree, S!FS!FreeStep, FP!FreeStep,
         S!FS!FreeReturn, FP!FreeReturn, S!FS!Receive, FP!Receive, S!FS!Init, FP!Init

\* The words of text_buffer.h are those of the file system.
LEMMA SameText ==
    /\ \A t : IsUtf8(t) = FP!IsUtf8(t)
    /\ \A t : Boundaries(t) = FP!Boundaries(t)
    /\ \A t : PositionAfter(t) = FP!PositionAfter(t)
    /\ \A a, b : Before(a, b) = FP!Before(a, b)
    /\ \A t, pos : PlacesFrom(t, pos) = FP!PlacesFrom(t, pos)
    /\ \A t, pos : HasPosition(t, pos) = FP!HasPosition(t, pos)
<1>1. \A a, b : Before(a, b) = FP!Before(a, b)
  BY DEF Before, FP!Before
<1>2. \A t : Boundaries(t) = FP!Boundaries(t)
  BY DEF Boundaries, FP!Boundaries, IsContinuation, FP!IsContinuation
<1>3. \A t : Starts(t) = FP!Starts(t)
  BY DEF Starts, FP!Starts, IsContinuation, FP!IsContinuation
<1>4. \A t : PositionAfter(t) = FP!PositionAfter(t)
  <2>1. \A T : Cardinality(T) = FP!Cardinality(T)
    BY DEF Cardinality, FP!Cardinality
  <2>2. QED
    BY <1>3, <2>1 DEF PositionAfter, FP!PositionAfter, NewLine, FP!NewLine
<1>5. \A t : IsUtf8(t) = FP!IsUtf8(t)
  <2>1. \A ch : CharSize(ch) = FP!CharSize(ch)
    BY DEF CharSize, FP!CharSize, codepoint_size, FP!codepoint_size
  <2>2. QED
    BY <1>3, <2>1 DEF IsUtf8, FP!IsUtf8
<1>6. \A t, pos : PlacesFrom(t, pos) = FP!PlacesFrom(t, pos)
  BY <1>1, <1>2, <1>4 DEF PlacesFrom, FP!PlacesFrom
<1>7. \A t, pos : HasPosition(t, pos) = FP!HasPosition(t, pos)
  BY <1>2, <1>4 DEF HasPosition, FP!HasPosition
<1>8. QED
  BY <1>1, <1>2, <1>4, <1>5, <1>6, <1>7

\* The first place, too.
LEMMA SameFirst ==
    ASSUME NEW t, NEW pos
    PROVE  FirstPlace(t, pos) = FP!FirstPlace(t, pos)
<1> DEFINE Least(T) == CHOOSE n \in T : \A m \in T : n <= m
<1>1. /\ FirstPlace(t, pos) = IF PlacesFrom(t, pos) = {} THEN Len(t)
                              ELSE Least(PlacesFrom(t, pos))
      /\ FP!FirstPlace(t, pos) = IF FP!PlacesFrom(t, pos) = {} THEN Len(t)
                                 ELSE Least(FP!PlacesFrom(t, pos))
  BY DEF FirstPlace, FP!FirstPlace
<1> HIDE DEF Least
<1>2. QED
  BY <1>1, SameText

\* The edits of a client are edits of file_system.h, with a range.
LEMMA ClientEditsAre ==
    /\ \A e \in ClientEdits :
          /\ e \in FP!Edits /\ ~FP!IsWhole(e)
          /\ e.start \in Place /\ e.end \in Place /\ ~Before(e.end, e.start)
          /\ e.text \in Utf8Strings
    /\ Seq(ClientEdits) \subseteq Seq(FP!Edits)
    /\ Utf8Strings \subseteq FP!ByteStrings
<1>1. Utf8Strings \subseteq FP!ByteStrings
  BY DEF Utf8Strings, Byte, FP!ByteStrings
<1>2. ASSUME NEW e \in ClientEdits
      PROVE  /\ e \in FP!Edits /\ ~FP!IsWhole(e)
             /\ e.start \in Place /\ e.end \in Place /\ ~Before(e.end, e.start)
             /\ e.text \in Utf8Strings
  <2>1. /\ e \in [start : Place, end : Place, text : Utf8Strings]
        /\ ~Before(e.end, e.start)
    BY DEF ClientEdits
  <2>2. e \in [start : FP!Positions, end : FP!Positions, text : FP!ByteStrings]
    <3>1. Place \subseteq FP!Positions
      BY DEF Place, FP!Positions
    <3>2. QED  BY <2>1, <3>1, <1>1
  <2>3. ~FP!IsWhole(e)
    BY <2>1 DEF FP!IsWhole, Place
  <2>4. QED
    BY <2>1, <2>2, <2>3, SameText DEF FP!Edits
<1>3. Seq(ClientEdits) \subseteq Seq(FP!Edits)
  BY <1>2
<1>4. QED
  BY <1>1, <1>2, <1>3

\* The assumption of FileSystem about texts, for its instance.
LEMMA FileTexts == FP!TextsAssumption
<1>1. \A edits \in Seq(ClientEdits) : \A i \in DOMAIN edits : FP!IsUtf8(edits[i].text)
  <2>1. ASSUME NEW edits \in Seq(ClientEdits), NEW i \in DOMAIN edits
        PROVE  FP!IsUtf8(edits[i].text)
    <3>1. edits[i] \in ClientEdits
      OBVIOUS
    <3>2. QED  BY <3>1, ClientEditsAre, SameText DEF Utf8Strings
  <2>2. QED  BY <2>1
<1>2. \A t \in Utf8Strings : FP!IsUtf8(t)
  BY SameText DEF Utf8Strings
<1>3. QED
  BY <1>1, <1>2, ClientEditsAre DEF FP!TextsAssumption

-----------------------------------------------------------------------------
(***************************************************************************)
(* Whole codepoints.                                                       *)
(***************************************************************************)

\* Text between two places is replaced by whole codepoints.
LEMMA ReplacedUtf8 ==
    ASSUME NEW t \in Utf8Strings, NEW n \in Boundaries(t), NEW m \in Boundaries(t),
           NEW s \in Utf8Strings
    PROVE  SubSeq(t, 1, n) \o s \o SubSeq(t, m + 1, Len(t)) \in Utf8Strings
<1>1. t \in Seq(Byte) /\ IsUtf8(t) /\ s \in Seq(Byte) /\ IsUtf8(s)
  BY DEF Utf8Strings
<1> DEFINE a == SubSeq(t, 1, n)
           b == SubSeq(t, m + 1, Len(t))
<1>2. a \in Seq(Byte) /\ IsUtf8(a)
  BY <1>1, Utf8Cut
<1>3. b \in Seq(Byte) /\ IsUtf8(b)
  BY <1>1, Utf8Cut
<1> HIDE DEF a, b
<1>4. a \o s \in Seq(Byte) /\ IsUtf8(a \o s)
  BY <1>1, <1>2, Utf8Concat
<1>5. (a \o s) \o b \in Seq(Byte) /\ IsUtf8((a \o s) \o b)
  BY <1>3, <1>4, Utf8Concat
<1>6. QED
  BY <1>5 DEF a, b, Utf8Strings

\* A place is the same in size_t.
LEMMA PlaceInSizeT ==
    ASSUME NEW t, NEW pos \in Place
    PROVE  FP!InSizeT(t, pos) = pos
BY DEF FP!InSizeT, Place

\* An edit of a client makes whole codepoints of whole codepoints.
LEMMA EditedUtf8 ==
    ASSUME NEW t \in Utf8Strings, NEW e \in ClientEdits
    PROVE  /\ FP!Edited(t, e) \in Utf8Strings
           /\ FP!Edited(t, e) = IF ~HasPosition(t, e.start) THEN t
                                ELSE SubSeq(t, 1, FirstPlace(t, e.start)) \o e.text
                                       \o SubSeq(t, FirstPlace(t, e.end) + 1, Len(t))
<1>1. t \in Seq(Byte)
  BY DEF Utf8Strings
<1>2. /\ FirstPlace(t, e.start) \in Boundaries(t)
      /\ FirstPlace(t, e.end) \in Boundaries(t)
  BY <1>1, FirstPlaceIs
<1>3. ~FP!IsWhole(e) /\ e.text \in Utf8Strings
  BY ClientEditsAre
<1>4. FP!Edited(t, e) = IF ~HasPosition(t, e.start) THEN t
                        ELSE SubSeq(t, 1, FirstPlace(t, e.start)) \o e.text
                               \o SubSeq(t, FirstPlace(t, e.end) + 1, Len(t))
  <2>1. FP!InSizeT(t, e.end) = e.end
    BY ClientEditsAre, PlaceInSizeT
  <2>2. QED
    BY <1>3, <2>1, SameText, SameFirst DEF FP!Edited
<1>5. SubSeq(t, 1, FirstPlace(t, e.start)) \o e.text
        \o SubSeq(t, FirstPlace(t, e.end) + 1, Len(t)) \in Utf8Strings
  BY <1>2, <1>3, ReplacedUtf8
<1>6. QED
  BY <1>4, <1>5

-----------------------------------------------------------------------------
(***************************************************************************)
(* The files, and the calls that a handler makes.                          *)
(***************************************************************************)

\* What a call begins with.
CallBegins ==
    \/ \E uri \in Uri, version \in Int, contents \in Utf8Strings :
          FP!CallOpen(uri, version, contents)
    \/ \E uri \in Uri, version \in Int, edits \in Seq(ClientEdits) :
          FP!CallChange(uri, version, edits)
    \/ \E uri \in Uri : FP!CallClose(uri) \/ FP!CallSave(uri)
    \/ FP!CallFree

\* What a handler does with the files.
FileStep == \/ CallBegins
            \/ FP!Work
            \/ FP!Receive
            \/ UNCHANGED <<fs, heap, chunked, call, docs>>

\* A call that goes on is one of FileSystem.
LEMMA SameWork == S!FS!Work => FP!Work
BY SameSearch, SameOpening, SameEdit, SameDeletions, SameEnds DEF S!FS!Work, FP!Work

AllWhole == \A n \in DOMAIN heap : IsUtf8(heap[n].text)

\* Every text is one of whole codepoints, but one that a deletion is stuck in,
\* and so is every text that a call brings.
WholeCodepoints ==
    /\ NeverSplits
    /\ FP!Doing("open") => call.contents \in Utf8Strings
    /\ FP!Doing("change") => call.edits \in Seq(ClientEdits)

\* What is known of the files.
FilesInv == FP!Holding /\ WholeCodepoints

LEMMA WholeTexts ==
    /\ AllWhole => NeverSplits
    /\ NeverSplits /\ call.op # "stuck" => AllWhole
    /\ NeverSplits /\ ~FP!Doing("stuck") => AllWhole
    /\ AllWhole' => NeverSplits'
BY DEF AllWhole, NeverSplits, FM!Stuck, FM!Doing, FP!Doing

\* The lists, the table and the promises of the calls are kept.
LEMMA HoldingKept ==
    ASSUME FP!Holding, FileStep
    PROVE  FP!Holding'
<1> USE FileNames, FileTexts
<1>1. FP!IInv /\ FP!TextsInv /\ FP!DocsInv /\ FP!DeletionsInv
  BY DEF FP!Holding
<1>2. CASE FP!Next \/ UNCHANGED <<fs, heap, chunked, call, docs>>
  <2>1. [FP!Next]_(FP!vars)
    BY <1>2 DEF FP!vars
  <2>2. FP!IInv'
    BY <1>1, <2>1, FP!NextIInv
  <2>3. QED
    BY <1>1, <2>1, <2>2, FP!NextTexts, FP!NextDocs, FP!NextDeletions DEF FP!Holding
<1>3. CASE \E uri \in Uri, version \in Int, edits \in Seq(ClientEdits) :
              FP!CallChange(uri, version, edits)
  <2>1. FP!IInv'
    BY <1>1, <1>3, FP!CallChangeKeeps
  <2>2. FP!TextsInv'
    BY <1>1, <1>3, FP!SearchTexts
  <2>3. FP!DocsInv'
    BY <1>1, <1>3, FP!SearchDocs
  <2>4. call'.op \in {"returned", "change"} /\ UNCHANGED <<heap, chunked>>
    <3>1. PICK uri \in Uri, version \in Int, edits \in Seq(ClientEdits) :
                  FP!CallChange(uri, version, edits)
      BY <1>3
    <3> DEFINE locals == [version |-> version, edits |-> edits, skipped |-> 0]
               want == IF FP!IsOpen(uri) THEN 1 ELSE 0
    <3>2. "op" \notin DOMAIN locals /\ FP!Search("change", uri, locals, want, 0)
      BY <3>1 DEF FP!CallChange
    <3> HIDE DEF locals, want
    <3>3. QED
      BY <3>2, FP!SearchOps DEF FP!Search
  <2>5. FP!DeletionsInv'
    BY <1>1, <2>4 DEF FP!DeletionsInv, FP!Doing, FP!Stuck
  <2>6. QED
    BY <2>1, <2>2, <2>3, <2>5 DEF FP!Holding
<1>4. QED
  BY <1>2, <1>3 DEF FileStep, CallBegins, FP!Next

\* The call in progress is a record.
LEMMA CallRecord ==
    ASSUME FP!Holding
    PROVE  /\ call = [x \in DOMAIN call |-> call[x]] /\ "op" \in DOMAIN call
           /\ FP!Doing("open") => "contents" \in DOMAIN call
           /\ FP!Doing("change") => {"edits", "skipped"} \subseteq DOMAIN call
           /\ FP!Doing("save") => "want" \in DOMAIN call
BY DEF FP!Holding, FP!IInv, FP!CallInv, FP!TextsInv, FP!DocsInv, FP!Doing

\* Texts of whole codepoints that stay as they are.
LEMMA TextsKept ==
    ASSUME AllWhole,
           DOMAIN heap' \subseteq DOMAIN heap,
           \A n \in DOMAIN heap' : heap'[n].text = heap[n].text
    PROVE  AllWhole'
BY DEF AllWhole

\* A step of an opening keeps the codepoints of the texts whole.
LEMMA OpeningKeepsUtf8 ==
    ASSUME FilesInv, FP!OpenFound \/ FP!OpenNew
    PROVE  AllWhole'
<1> USE FileNames, FileTexts
<1>1. /\ FP!IInv /\ AllWhole /\ FP!IsHeap(heap) /\ FP!Doing("open")
      /\ IsUtf8(call.contents)
  BY WholeTexts DEF FilesInv, FP!Holding, FP!IInv, WholeCodepoints, FP!OpenFound,
         FP!OpenNew, Utf8Strings, FP!Doing
<1>2. CASE FP!OpenFound
  <2>1. /\ call.rover \in DOMAIN heap
        /\ heap[call.rover].open_count = 1
    BY <1>1, <1>2, FP!FoundFacts DEF FP!OpenFound, FP!Doing
  <2>2. heap' = [heap EXCEPT ![call.rover].text = call.contents]
    BY <1>2, <2>1 DEF FP!OpenFound
  <2>3. FP!IsWithText(heap', heap, call.rover, call.contents)
    BY <1>1, <2>1, <2>2, FP!WithTextFacts
  <2>4. QED
    BY <1>1, <2>3 DEF FP!IsWithText, AllWhole
<1>3. CASE FP!OpenNew
  <2>0. PICK path, version, text :
           path = call.path /\ version = call.version /\ text = call.contents
    OBVIOUS
  <2>1. PICK n \in Node \ DOMAIN heap : heap' = FP!LinkedHeap(n, path, version, text)
    BY <1>3, <2>0 DEF FP!OpenNew
  <2>2. PICK h : h = heap'
    OBVIOUS
  <2>3. /\ n \notin DOMAIN heap /\ n # NULL
        /\ fs.table[Hash[path]] = NULL
        /\ h = FP!LinkedHeap(n, path, version, text)
    BY <1>1, <1>3, <2>0, <2>1, <2>2
       DEF FP!OpenNew, FP!Miss, FP!Doing, FP!IInv, FP!CallInv, FP!NamesAssumption
  <2>4. FP!IsLinked(h, n, path, version, text)
    BY <1>1, <2>3, FP!LinkedFacts
  <2>5. /\ DOMAIN h = DOMAIN heap \cup {n}
        /\ \A k \in DOMAIN heap : h[k].text = heap[k].text
        /\ h[n].text = text
    BY <2>4 DEF FP!IsLinked, FP!SameFile
  <2>6. \A k \in DOMAIN h : IsUtf8(h[k].text)
    BY <1>1, <2>0, <2>5 DEF AllWhole
  <2>7. QED
    BY <2>2, <2>6 DEF AllWhole
<1>4. QED
  BY <1>2, <1>3

\* So does a step that removes a file.
LEMMA RemovingKeepsUtf8 ==
    ASSUME FilesInv, FP!CloseFound \/ FP!FreeStep
    PROVE  AllWhole'
<1> USE FileNames, FileTexts
<1>1. FP!IInv /\ AllWhole
  BY WholeTexts DEF FilesInv, FP!Holding, WholeCodepoints, FP!CloseFound, FP!FreeStep,
                    FP!Doing
<1>2. call.rover \in DOMAIN heap /\ FP!file_system_remove(call.rover)
  <2>1. CASE FP!CloseFound
    <3>1. /\ call.rover \in DOMAIN heap
          /\ heap[call.rover].open_count = 1
      BY <1>1, <2>1, FP!FoundFacts DEF FP!CloseFound, FP!Doing
    <3>2. QED
      BY <2>1, <3>1 DEF FP!CloseFound
  <2>2. CASE FP!FreeStep
    BY <1>1, <2>2 DEF FP!FreeStep, FP!IInv, FP!CallInv, FP!ListInv, FP!Doing
  <2>3. QED
    BY <2>1, <2>2
<1>3. /\ DOMAIN heap' = DOMAIN heap \ {call.rover}
      /\ \A n \in DOMAIN heap' : FP!SameFile(heap'[n], heap[n])
  BY <1>1, <1>2, FP!UnlinkedFacts DEF FP!file_system_remove, FP!IInv
<1>4. QED
  BY <1>1, <1>3, TextsKept DEF FP!SameFile

\* The call goes on to the next edit.
Advances(skipped) == call' = [call EXCEPT !.edits = Tail(@), !.skipped = skipped]

\* What an iteration over the edits does.
LEMMA EditSteps ==
    ASSUME FilesInv, FP!ChangeEdit
    PROVE  /\ call.op = "change" /\ call.rover \in DOMAIN heap
           /\ call.edits \in Seq(ClientEdits) /\ call.edits # <<>>
           /\ \/ FP!Abort(649) /\ heap' = heap
              \/ /\ \E skipped : Advances(skipped)
                 /\ \/ heap' = heap
                    \/ heap' = [heap EXCEPT ![call.rover].text =
                                  FP!Edited(heap[call.rover].text, Head(call.edits))]
<1> USE FileNames, FileTexts
<1> DEFINE n == call.rover
           edit == Head(call.edits)
<1>1. /\ FP!IInv /\ FP!TextsInv /\ WholeCodepoints
      /\ FP!Doing("change") /\ call.edits # <<>>
  BY DEF FilesInv, FP!Holding, FP!ChangeEdit
<1>2. n \in DOMAIN heap /\ heap[n].text \in FP!ByteStrings
  BY <1>1, FP!FoundFacts DEF FP!ChangeEdit, FP!Doing, FP!TextsInv
<1>3. call.edits \in Seq(ClientEdits)
  BY <1>1 DEF WholeCodepoints
<1>4. edit \in FP!Edits
  BY <1>1, <1>3, ClientEditsAre
<1> HIDE DEF n, edit
<1>5. \/ /\ FP!IsWhole(edit) \/ FP!HasPosition(heap[n].text, edit.start)
         /\ FP!Rewrite(n, edit) /\ \E skipped : Advances(skipped)
      \/ heap' = heap /\ \E skipped : Advances(skipped)
      \/ heap' = heap /\ FP!Abort(649)
  <2>1. call = [x \in DOMAIN call |-> call[x]]
    BY CallRecord DEF FilesInv
  <2>2. CASE FP!IsWhole(edit) \/ FP!HasPosition(heap[n].text, edit.start)
    <3>1. Advances(call.skipped) /\ FP!Rewrite(n, edit)
      BY <2>1, <2>2 DEF FP!ChangeEdit, Advances, n, edit
    <3>2. QED
      BY <2>2, <3>1
  <2>3. CASE ~(FP!IsWhole(edit) \/ FP!HasPosition(heap[n].text, edit.start))
    <3>1. heap' = heap /\ (Advances(call.skipped + 1) \/ FP!Abort(649))
      BY <2>1, <2>3 DEF FP!ChangeEdit, Advances, n, edit
    <3>2. QED
      BY <3>1
  <2>4. QED
    BY <2>2, <2>3
<1>6. FP!Rewrite(n, edit) /\ (FP!IsWhole(edit) \/ FP!HasPosition(heap[n].text, edit.start))
        => heap' = [heap EXCEPT ![n].text = FP!Edited(heap[n].text, edit)]
  BY <1>2, <1>4, FP!RewriteEdits
<1>7. QED
  BY <1>1, <1>2, <1>3, <1>5, <1>6 DEF n, edit, FP!Doing

\* So does an edit, wherever it is made.
LEMMA EditKeepsUtf8 ==
    ASSUME FilesInv, FP!ChangeEdit
    PROVE  AllWhole'
<1> DEFINE n == call.rover
           edit == Head(call.edits)
<1>1. /\ FP!IInv /\ FP!TextsInv /\ AllWhole /\ FP!IsHeap(heap)
  BY WholeTexts DEF FilesInv, FP!Holding, FP!IInv, WholeCodepoints, FP!ChangeEdit,
                    FP!Doing
<1>2. /\ n \in DOMAIN heap /\ edit \in ClientEdits
      /\ \/ heap' = [heap EXCEPT ![n].text = FP!Edited(heap[n].text, edit)]
         \/ heap' = heap
  <2>1. /\ n \in DOMAIN heap /\ call.edits \in Seq(ClientEdits) /\ call.edits # <<>>
        /\ \/ heap' = [heap EXCEPT ![n].text = FP!Edited(heap[n].text, edit)]
           \/ heap' = heap
    BY EditSteps
  <2>2. edit \in ClientEdits
    BY <2>1
  <2>3. QED
    BY <2>1, <2>2
<1> HIDE DEF n, edit
<1>3. CASE heap' = heap
  BY <1>1, <1>3 DEF AllWhole
<1>4. CASE heap' = [heap EXCEPT ![n].text = FP!Edited(heap[n].text, edit)]
  <2>1. heap[n].text \in Utf8Strings
    BY <1>1, <1>2 DEF FP!TextsInv, AllWhole, Utf8Strings, FP!ByteStrings, Byte
  <2>2. FP!Edited(heap[n].text, edit) \in Utf8Strings
    BY <1>2, <2>1, EditedUtf8
  <2> DEFINE edited == FP!Edited(heap[n].text, edit)
  <2> HIDE DEF edited
  <2>3. heap' = [heap EXCEPT ![n].text = edited]
    BY <1>4 DEF edited
  <2>4. FP!IsWithText(heap', heap, n, edited)
    BY <1>1, <1>2, <2>3, FP!WithTextFacts, FileNames, FileTexts
  <2>5. QED
    BY <1>1, <2>2, <2>4 DEF FP!IsWithText, AllWhole, Utf8Strings, edited
<1>5. QED
  BY <1>2, <1>3, <1>4

\* A deletion that aborts has erased between two places; one that hangs breaks
\* no other text than its own.
LEMMA DeletionKeepsUtf8 ==
    ASSUME FilesInv, FP!DeletionAborts \/ FP!DeletionHangs
    PROVE  NeverSplits'
<1> USE FileNames, FileTexts
<1>1. PICK n : n = call.rover
  OBVIOUS
<1>2. /\ FP!IInv /\ FP!TextsInv /\ AllWhole /\ FP!IsHeap(heap)
      /\ FP!DeletionMayFail /\ n \in DOMAIN heap
  <2>1. /\ FP!IInv /\ FP!TextsInv /\ NeverSplits /\ FP!IsHeap(heap)
        /\ FP!DeletionMayFail /\ call.op # "stuck"
    BY DEF FilesInv, FP!Holding, FP!IInv, WholeCodepoints, FP!DeletionAborts,
           FP!DeletionHangs, FP!DeletionMayFail, FP!Doing
  <2>2. QED
    BY <1>1, <2>1, WholeTexts, FP!FoundFacts DEF FP!DeletionMayFail, FP!Doing
<1>3. heap[n].text \in Utf8Strings
  BY <1>2 DEF FP!TextsInv, AllWhole, Utf8Strings, FP!ByteStrings, Byte
<1>4. CASE FP!DeletionAborts
  <2>1. PICK t : t = heap[n].text
    OBVIOUS
  <2>2. PICK from, to : from = FP!From /\ to = FP!To
    OBVIOUS
  <2>3. from \in Boundaries(t) /\ to \in Boundaries(t) /\ t \in Seq(Byte) /\ IsUtf8(t)
    BY <1>1, <1>3, <2>1, <2>2, FirstPlaceIs, SameFirst DEF FP!From, FP!To, Utf8Strings
  <2> DEFINE a == SubSeq(t, 1, from)
             b == SubSeq(t, to + 1, Len(t))
  <2>4. a \in Seq(Byte) /\ IsUtf8(a) /\ b \in Seq(Byte) /\ IsUtf8(b)
    BY <2>3, Utf8Cut
  <2>5. heap' = [heap EXCEPT ![n].text = a \o b]
    BY <1>1, <1>4, <2>1, <2>2 DEF FP!DeletionAborts, FP!ErasedUpTo
  <2> HIDE DEF a, b
  <2>6. IsUtf8(a \o b)
    BY <2>4, Utf8Concat
  <2>7. FP!IsWithText(heap', heap, n, a \o b)
    BY <1>2, <2>5, FP!WithTextFacts
  <2>8. AllWhole'
    BY <1>2, <2>6, <2>7 DEF FP!IsWithText, AllWhole
  <2>9. QED
    BY <2>8, WholeTexts
<1>5. CASE FP!DeletionHangs
  <2>1. call'.op = "stuck" /\ call'.during.rover = n
    BY <1>1, <1>5 DEF FP!DeletionHangs
  <2>2. PICK t : heap' = [heap EXCEPT ![n].text = t]
    BY <1>1, <1>5 DEF FP!DeletionHangs, FP!ErasedUpTo
  <2>3. FP!IsWithText(heap', heap, n, t)
    BY <1>2, <2>2, FP!WithTextFacts
  <2>4. \A k \in DOMAIN heap' : k # n => IsUtf8(heap'[k].text)
    BY <1>2, <2>3 DEF FP!IsWithText, AllWhole
  <2>5. QED
    BY <2>1, <2>4 DEF NeverSplits, FM!Stuck, FM!Doing
<1>6. QED
  BY <1>4, <1>5

\* A call that goes on is not at rest, keeps what it has brought, and keeps
\* what it promises when it is a save.
LEMMA WorkGoesOn ==
    ASSUME FilesInv, FP!Work
    PROVE  /\ docs' = docs
           /\ call.op \notin {"idle", "returned"} /\ call'.op # "idle"
           /\ call.op = "save" => call'.op \in {"save", "returned"} /\ call'.want = call.want
           /\ call'.op = "open" => call.op = "open" /\ call'.contents = call.contents
           /\ call'.op = "change" => /\ call.op = "change"
                                     /\ call'.edits \in {call.edits, Tail(call.edits)}
<1>1. /\ call = [x \in DOMAIN call |-> call[x]] /\ "op" \in DOMAIN call
      /\ call.op = "open" => "contents" \in DOMAIN call
      /\ call.op = "change" => {"edits", "skipped"} \subseteq DOMAIN call
      /\ call.op = "save" => "want" \in DOMAIN call
  BY CallRecord DEF FilesInv, FP!Doing
<1>2. CASE FP!LookupStep
  <2>1. /\ call' = [call EXCEPT !.found = FP!Hit]
        /\ call.op \in {"open", "change", "close", "save"} /\ docs' = docs
    BY <1>2 DEF FP!LookupStep, FP!Searching
  <2>2. QED
    BY <1>1, <2>1
<1>3. CASE FP!ChangeEdit
  <2>1. call.op = "change" /\ docs' = docs
    BY <1>3 DEF FP!ChangeEdit, FP!Doing
  <2>2. FP!Abort(649) \/ \E skipped : Advances(skipped)
    BY <1>3, EditSteps
  <2>3. CASE FP!Abort(649)
    BY <2>1, <2>3 DEF FP!Abort
  <2>4. ASSUME NEW skipped, Advances(skipped)
        PROVE  call'.op = "change" /\ call'.edits = Tail(call.edits)
    BY <1>1, <2>1, <2>4 DEF Advances
  <2>5. QED
    BY <2>1, <2>2, <2>3, <2>4
<1>4. CASE FP!FreeStep
  <2>1. /\ call.op = "free" /\ docs' = docs
        /\ call' = [call EXCEPT !.rover = heap[call.rover].next]
    BY <1>4 DEF FP!FreeStep, FP!Doing
  <2>2. QED
    BY <1>1, <2>1
<1>5. CASE FP!LookupFails \/ FP!SaveFound
  BY <1>5 DEF FP!LookupFails, FP!SaveFound, FP!Searching, FP!Doing, FP!Returned
<1>6. CASE \/ FP!OpenFound \/ FP!OpenNew \/ FP!ChangeReturn
           \/ FP!CloseFound \/ FP!FreeReturn
  BY <1>6 DEF FP!OpenFound, FP!OpenNew, FP!ChangeReturn, FP!CloseFound,
              FP!FreeReturn, FP!Returned, FP!Abort, FP!Doing
<1>7. CASE FP!DeletionAborts \/ FP!DeletionHangs
  <2>1. call.op = "change" /\ docs' = docs
    BY <1>7 DEF FP!DeletionAborts, FP!DeletionHangs, FP!DeletionMayFail, FP!ErasedUpTo,
                FP!Doing
  <2>2. call'.op \in {"abort", "stuck"}
    BY <1>7 DEF FP!DeletionAborts, FP!DeletionHangs, FP!Abort
  <2>3. QED
    BY <2>1, <2>2
<1>8. QED
  BY <1>2, <1>3, <1>4, <1>5, <1>6, <1>7 DEF FP!Work

\* No step of a handler splits a codepoint.
LEMMA FilesKept ==
    ASSUME FilesInv, FileStep
    PROVE  FilesInv'
<1> USE FileNames, FileTexts
<1>1. FP!Holding' /\ FP!Holding /\ WholeCodepoints
  BY HoldingKept DEF FilesInv
<1>2. CASE FP!Work
  <2>1. NeverSplits'
    <3>1. CASE \/ FP!LookupStep \/ FP!LookupFails \/ FP!SaveFound \/ FP!FreeReturn
      <4>1. heap' = heap /\ call.op # "stuck"
        BY <3>1 DEF FP!LookupStep, FP!LookupFails, FP!SaveFound, FP!FreeReturn,
                    FP!Searching, FP!Doing
      <4>2. QED
        BY <1>1, <4>1, WholeTexts DEF WholeCodepoints, AllWhole
    <3>2. CASE FP!ChangeReturn
      <4>1. FP!IsHeap(heap) /\ call.rover \in DOMAIN heap
        BY <1>1, <3>2, FP!FoundFacts
           DEF FP!ChangeReturn, FP!Doing, FP!Holding, FP!IInv
      <4>2. FP!IsWithVersion(heap', heap, call.rover, call.version)
        BY <3>2, <4>1, FP!WithVersionFacts DEF FP!ChangeReturn
      <4>3. AllWhole
        BY <1>1, <3>2, WholeTexts DEF FP!ChangeReturn, FP!Doing, WholeCodepoints
      <4>4. QED
        BY <4>2, <4>3, TextsKept, WholeTexts DEF FP!IsWithVersion
    <3>3. CASE FP!OpenFound \/ FP!OpenNew
      BY <3>3, OpeningKeepsUtf8, WholeTexts
    <3>4. CASE FP!CloseFound \/ FP!FreeStep
      BY <3>4, RemovingKeepsUtf8, WholeTexts
    <3>5. CASE FP!ChangeEdit
      BY <3>5, EditKeepsUtf8, WholeTexts
    <3>6. CASE FP!DeletionAborts \/ FP!DeletionHangs
      BY <3>6, DeletionKeepsUtf8
    <3>7. QED
      BY <1>2, <3>1, <3>2, <3>3, <3>4, <3>5, <3>6 DEF FP!Work
  <2>2. /\ call'.op = "open" => call'.contents \in Utf8Strings
        /\ call'.op = "change" => call'.edits \in Seq(ClientEdits)
    <3>1. /\ call'.op = "open" => call.op = "open" /\ call'.contents = call.contents
          /\ call'.op = "change" => /\ call.op = "change"
                                    /\ call'.edits \in {call.edits, Tail(call.edits)}
      BY <1>2, WorkGoesOn
    <3>2. CASE FP!ChangeEdit
      <4>1. /\ call.edits \in Seq(ClientEdits) /\ call.edits # <<>>
            /\ call.op = "change"
        BY <3>2, EditSteps
      <4>2. Tail(call.edits) \in Seq(ClientEdits)
        BY <4>1
      <4>3. QED
        BY <3>1, <4>1, <4>2
    <3>3. CASE ~FP!ChangeEdit
      <4>1. call'.op = "change" => call'.edits = call.edits
        <5>1. CASE FP!LookupStep
          <6>1. call' = [call EXCEPT !.found = FP!Hit]
            BY <5>1 DEF FP!LookupStep
          <6>2. call = [x \in DOMAIN call |-> call[x]]
            BY <1>1, CallRecord
          <6>3. QED  BY <6>1, <6>2
        <5>2. CASE FP!FreeStep
          <6>1. call.op = "free"
            BY <5>2 DEF FP!FreeStep, FP!Doing
          <6>2. QED  BY <3>1, <6>1
        <5>3. CASE \/ FP!LookupFails \/ FP!SaveFound \/ FP!OpenFound \/ FP!OpenNew
                   \/ FP!ChangeReturn \/ FP!CloseFound \/ FP!FreeReturn
          BY <5>3 DEF FP!LookupFails, FP!SaveFound, FP!OpenFound, FP!OpenNew,
                      FP!ChangeReturn, FP!CloseFound, FP!FreeReturn,
                      FP!Returned, FP!Abort
        <5>4. CASE FP!DeletionAborts \/ FP!DeletionHangs
          BY <5>4 DEF FP!DeletionAborts, FP!DeletionHangs, FP!Abort
        <5>5. QED
          BY <1>2, <3>3, <5>1, <5>2, <5>3, <5>4 DEF FP!Work
      <4>2. QED
        BY <1>1, <3>1, <4>1 DEF WholeCodepoints, FP!Doing
    <3>4. QED
      BY <3>2, <3>3
  <2>3. QED
    BY <1>1, <2>1, <2>2 DEF FilesInv, WholeCodepoints, FP!Doing
<1>3. CASE FP!Receive \/ FP!CallFree
  <2>1. NeverSplits' /\ call'.op \in {"idle", "free"}
    <3>1. heap' = heap /\ call.op # "stuck" /\ call'.op \in {"idle", "free"}
      BY <1>3 DEF FP!Receive, FP!CallFree, FP!Idle, FP!Doing
    <3>2. QED
      BY <1>1, <3>1, WholeTexts DEF WholeCodepoints, AllWhole
  <2>2. QED
    BY <1>1, <2>1 DEF FilesInv, WholeCodepoints, FP!Doing
<1>4. CASE UNCHANGED <<fs, heap, chunked, call, docs>>
  BY <1>1, <1>4
     DEF FilesInv, WholeCodepoints, NeverSplits, FM!Stuck, FM!Doing, FP!Doing
<1>5. ASSUME NEW uri \in Uri, NEW version \in Int, NEW contents \in Utf8Strings,
             FP!CallOpen(uri, version, contents)
      PROVE  FilesInv'
  <2>1. NeverSplits'
    <3>1. heap' = heap /\ call.op # "stuck"
      BY <1>5 DEF FP!CallOpen, FP!Search, FP!Doing
    <3>2. QED
      BY <1>1, <3>1, WholeTexts DEF WholeCodepoints, AllWhole
  <2>2. CASE PathOf[uri] = NoPath
    <3>1. call'.op = "returned"
      BY <1>5, <2>2 DEF FP!CallOpen, FP!Search, FP!Returned
    <3>2. QED
      BY <1>1, <2>1, <3>1 DEF FilesInv, WholeCodepoints, FP!Doing
  <2>3. CASE PathOf[uri] # NoPath
    <3>1. call'.op = "open" /\ call'.contents = contents
      BY <1>5, <2>3, FP!CallOpenFacts
    <3>2. QED
      BY <1>1, <2>1, <3>1 DEF FilesInv, WholeCodepoints, FP!Doing
  <2>4. QED
    BY <2>2, <2>3
<1>6. ASSUME NEW uri \in Uri, NEW version \in Int, NEW edits \in Seq(ClientEdits),
             FP!CallChange(uri, version, edits)
      PROVE  FilesInv'
  <2>1. NeverSplits'
    <3>1. heap' = heap /\ call.op # "stuck"
      BY <1>6 DEF FP!CallChange, FP!Search, FP!Doing
    <3>2. QED
      BY <1>1, <3>1, WholeTexts DEF WholeCodepoints, AllWhole
  <2>2. CASE PathOf[uri] = NoPath
    <3>1. call'.op = "returned"
      BY <1>6, <2>2 DEF FP!CallChange, FP!Search, FP!Returned
    <3>2. QED
      BY <1>1, <2>1, <3>1 DEF FilesInv, WholeCodepoints, FP!Doing
  <2>3. CASE PathOf[uri] # NoPath
    <3>1. call'.op = "change" /\ call'.edits = edits
      BY <1>6, <2>3, FP!CallChangeFacts
    <3>2. QED
      BY <1>1, <2>1, <3>1 DEF FilesInv, WholeCodepoints, FP!Doing
  <2>4. QED
    BY <2>2, <2>3
<1>7. ASSUME NEW uri \in Uri, FP!CallClose(uri) \/ FP!CallSave(uri)
      PROVE  FilesInv'
  <2>1. NeverSplits'
    <3>1. heap' = heap /\ call.op # "stuck"
      BY <1>7 DEF FP!CallClose, FP!CallSave, FP!Search, FP!Doing
    <3>2. QED
      BY <1>1, <3>1, WholeTexts DEF WholeCodepoints, AllWhole
  <2>2. CASE PathOf[uri] = NoPath
    <3>1. call'.op = "returned"
      BY <1>7, <2>2 DEF FP!CallClose, FP!CallSave, FP!Search, FP!Returned
    <3>2. QED
      BY <1>1, <2>1, <3>1 DEF FilesInv, WholeCodepoints, FP!Doing
  <2>3. CASE PathOf[uri] # NoPath
    <3>1. call'.op \in {"close", "save"}
      BY <1>7, <2>3, FP!CallCloseFacts, FP!CallSaveFacts
    <3>2. QED
      BY <1>1, <2>1, <3>1 DEF FilesInv, WholeCodepoints, FP!Doing
  <2>4. QED
    BY <2>2, <2>3
<1>8. QED
  BY <1>2, <1>3, <1>4, <1>5, <1>6, <1>7 DEF FileStep, CallBegins

-----------------------------------------------------------------------------
(***************************************************************************)
(* The messages of the client, and what the server makes of them.          *)
(***************************************************************************)
Request(method, params, id) ==
    [valid |-> TRUE, method |-> String(method), params |-> params, id |-> id]

Parsed(message) == S!json_rpc_parse_request_notification(message)

InitializeParams == Object([rootUri |-> String("root")])

OpenParams(uri, text) ==
    [textDocument |-> Object([uri |-> String(uri), version |-> Number(1),
                              text |-> String(text)])]

ChangeParams(uri, version, events) ==
    [textDocument |-> Object([uri |-> String(uri), version |-> Number(version)]),
     contentChanges |-> Array(events)]

SaveParams(uri, version) ==
    [textDocument |-> Object([uri |-> String(uri), version |-> Number(version)])]

CloseParams(uri) == [textDocument |-> Object([uri |-> String(uri)])]

InitializeMessage == RequestOf("initialize", InitializeParams, 1)
ShutdownMessage == RequestOf("shutdown", Object(NoDocuments), 1)
ExitMessage == Object(Message("exit", Object(NoDocuments)))
OpenMessage(uri, text) ==
    Notification("textDocument/didOpen", OpenParams(uri, text))
ChangeMessage(uri, version, events) ==
    Notification("textDocument/didChange", ChangeParams(uri, version, events))
SaveMessage(uri, version) ==
    Notification("textDocument/didSave", SaveParams(uri, version))
CloseMessage(uri) == Notification("textDocument/didClose", CloseParams(uri))

\* The values are the same for the server.
LEMMA SameValues ==
    /\ S!Absent = Absent
    /\ \A s : S!String(s) = String(s)
    /\ \A n : S!Number(n) = Number(n)
    /\ \A value, name : S!Property(value, name) = Property(value, name)
BY DEF S!Absent, Absent, S!String, String, S!Number, Number, S!Property, Property

\* What is read of a request.
LEMMA RequestParsed ==
    ASSUME NEW method, NEW members
    PROVE  /\ Parsed(RequestOf(method, Object(members), 1))
                = Request(method, Object(members), Number(1))
           /\ RequestOf(method, Object(members), 1) # S!Garbage
<1> DEFINE o == [name \in {"jsonrpc", "method", "params", "id"} |->
                   IF name = "id" THEN Number(1)
                   ELSE Message(method, Object(members))[name]]
           root == RequestOf(method, Object(members), 1)
<1>1. /\ DOMAIN o = {"jsonrpc", "method", "params", "id"}
      /\ o["jsonrpc"] = String("2.0") /\ o["method"] = String(method)
      /\ o["params"] = Object(members) /\ o["id"] = Number(1)
  BY DEF Message
<1>2. root.type = "object" /\ root.properties = o
  BY DEF RequestOf, Object
<1> HIDE DEF o, root
<1>3. /\ S!Property(root, "jsonrpc") = String("2.0")
      /\ S!Property(root, "method") = String(method)
      /\ S!Property(root, "params") = Object(members)
      /\ S!Property(root, "id") = Number(1)
  BY <1>1, <1>2 DEF S!Property
<1>4. Parsed(root) = Request(method, Object(members), Number(1))
  <2>1. /\ String(method).type = "string" /\ Object(members).type = "object"
        /\ Number(1).type \in {"absent", "string", "number"}
        /\ S!String("2.0") = String("2.0")
    BY DEF S!String, String, Number, Absent, Object
  <2>2. QED
    BY <1>2, <1>3, <2>1
       DEF Parsed, S!json_rpc_parse_request_notification, Request
<1>5. root # S!Garbage
  BY <1>2 DEF S!Garbage
<1>6. QED
  BY <1>4, <1>5 DEF root

\* And of a notification.
LEMMA NotificationParsed ==
    ASSUME NEW method, NEW members
    PROVE  /\ Parsed(Notification(method, members))
                = Request(method, Object(members), Absent)
           /\ Notification(method, members) # S!Garbage
<1> DEFINE o == Message(method, Object(members))
           root == Notification(method, members)
<1>1. /\ DOMAIN o = {"jsonrpc", "method", "params"}
      /\ o["jsonrpc"] = String("2.0") /\ o["method"] = String(method)
      /\ o["params"] = Object(members)
  BY DEF Message
<1>2. root.type = "object" /\ root.properties = o
  BY DEF Notification, Object
<1> HIDE DEF o, root
<1>3. /\ S!Property(root, "jsonrpc") = String("2.0")
      /\ S!Property(root, "method") = String(method)
      /\ S!Property(root, "params") = Object(members)
      /\ S!Property(root, "id") = Absent
  BY <1>1, <1>2 DEF S!Property, S!Absent, Absent
<1>4. Parsed(root) = Request(method, Object(members), Absent)
  <2>1. /\ String(method).type = "string" /\ Object(members).type = "object"
        /\ Absent.type \in {"absent", "string", "number"}
        /\ S!String("2.0") = String("2.0")
    BY DEF S!String, String, Number, Absent, Object
  <2>2. QED
    BY <1>2, <1>3, <2>1
       DEF Parsed, S!json_rpc_parse_request_notification, Request
<1>5. root # S!Garbage
  BY <1>2 DEF S!Garbage
<1>6. QED
  BY <1>4, <1>5 DEF root

\* All of them.
LEMMA MessagesParsed ==
    /\ Parsed(InitializeMessage) = Request("initialize", InitializeParams, Number(1))
    /\ Parsed(ShutdownMessage) = Request("shutdown", Object(NoDocuments), Number(1))
    /\ Parsed(ExitMessage) = Request("exit", Object(NoDocuments), Absent)
    /\ \A uri, text : Parsed(OpenMessage(uri, text))
          = Request("textDocument/didOpen", Object(OpenParams(uri, text)), Absent)
    /\ \A uri, version, events : Parsed(ChangeMessage(uri, version, events))
          = Request("textDocument/didChange",
                    Object(ChangeParams(uri, version, events)), Absent)
    /\ \A uri, version : Parsed(SaveMessage(uri, version))
          = Request("textDocument/didSave", Object(SaveParams(uri, version)), Absent)
    /\ \A uri : Parsed(CloseMessage(uri))
          = Request("textDocument/didClose", Object(CloseParams(uri)), Absent)
<1>1. Parsed(InitializeMessage) = Request("initialize", InitializeParams, Number(1))
  BY RequestParsed DEF InitializeMessage, InitializeParams
<1>2. Parsed(ShutdownMessage) = Request("shutdown", Object(NoDocuments), Number(1))
  BY RequestParsed DEF ShutdownMessage
<1>3. Parsed(ExitMessage) = Request("exit", Object(NoDocuments), Absent)
  BY NotificationParsed DEF ExitMessage, Notification
<1>4. QED
  BY <1>1, <1>2, <1>3, NotificationParsed
     DEF OpenMessage, ChangeMessage, SaveMessage, CloseMessage

-----------------------------------------------------------------------------
(***************************************************************************)
(* The events of a change.                                                 *)
(***************************************************************************)
EventOf(e) ==
    Object([range |-> Object([start |-> PositionValue(e.start),
                              end |-> PositionValue(e.end)]),
            text |-> String(e.text)])

ClientEvents == {EventOf(e) : e \in ClientEdits}

EditsOf(events) == [i \in DOMAIN events |-> S!EditOf(events[i])]

\* A position is read as it was written.
LEMMA PositionRead ==
    ASSUME NEW pos \in Place
    PROVE  S!IsPosition(PositionValue(pos)) /\ S!PositionOf(PositionValue(pos)) = pos
<1> DEFINE o == [line |-> Number(pos.line_num), character |-> Number(pos.char_num)]
           value == PositionValue(pos)
<1>1. value.type = "object" /\ value.properties = o
  BY DEF PositionValue, Object
<1>2. /\ DOMAIN o = {"line", "character"}
      /\ o["line"] = Number(pos.line_num) /\ o["character"] = Number(pos.char_num)
  OBVIOUS
<1> HIDE DEF o, value
<1>3. /\ S!Property(value, "line") = Number(pos.line_num)
      /\ S!Property(value, "character") = Number(pos.char_num)
  BY <1>1, <1>2 DEF S!Property
<1>4. S!HasTypes(value, [line |-> "number", character |-> "number"])
  BY <1>1, <1>3 DEF S!HasTypes, Number
<1>5. S!IsPosition(value)
  BY <1>1, <1>2, <1>4 DEF S!IsPosition
<1>6. S!PositionOf(value) = pos
  BY <1>3 DEF S!PositionOf, Number, Place
<1>7. QED
  BY <1>5, <1>6 DEF value

\* An event is read as the edit that it was made of.
LEMMA EventRead ==
    ASSUME NEW e \in ClientEdits
    PROVE  S!IsEvent(EventOf(e)) /\ S!EditOf(EventOf(e)) = e
<1> DEFINE r == [start |-> PositionValue(e.start), end |-> PositionValue(e.end)]
           o == [range |-> Object(r), text |-> String(e.text)]
           event == EventOf(e)
<1>1. /\ event.type = "object" /\ event.properties = o
      /\ Object(r).type = "object" /\ Object(r).properties = r
  BY DEF EventOf, Object
<1>2. /\ DOMAIN o = {"range", "text"} /\ DOMAIN r = {"start", "end"}
      /\ o["range"] = Object(r) /\ o["text"] = String(e.text)
      /\ r["start"] = PositionValue(e.start) /\ r["end"] = PositionValue(e.end)
  OBVIOUS
<1>3. /\ e \in FP!Edits /\ e.start \in Place /\ e.end \in Place
      /\ ~Before(e.end, e.start)
      /\ e = [start |-> e.start, end |-> e.end, text |-> e.text]
  BY ClientEditsAre DEF ClientEdits
<1> HIDE DEF o, event, r
<1>4. /\ S!Property(event, "range") = Object(r)
      /\ S!Property(event, "text") = String(e.text)
      /\ S!Property(Object(r), "start") = PositionValue(e.start)
      /\ S!Property(Object(r), "end") = PositionValue(e.end)
  BY <1>1, <1>2 DEF S!Property
<1>5. Object(r) # S!Absent /\ String(e.text) # S!Absent
      /\ String(e.text).type = "string" /\ String(e.text).string = e.text
  BY <1>1 DEF S!Absent, String
<1>6. S!EditOf(event) = e
  <2>1. /\ S!PositionOf(PositionValue(e.start)) = e.start
        /\ S!PositionOf(PositionValue(e.end)) = e.end
    BY <1>3, PositionRead
  <2>2. S!EditOf(event) = [start |-> e.start, end |-> e.end, text |-> e.text]
    BY <1>4, <1>5, <2>1 DEF S!EditOf
  <2>3. QED
    BY <1>3, <2>2
<1>7. S!HasTypes(event, [text |-> "string"])
  BY <1>1, <1>4, <1>5 DEF S!HasTypes
<1>8. S!IsRange(Object(r))
  BY <1>1, <1>3, <1>4, PositionRead DEF S!IsRange
<1>9. ~S!FS!Before(e.end, e.start)
  BY <1>3 DEF S!FS!Before, Before
<1>10. S!IsEvent(event)
  BY <1>4, <1>6, <1>7, <1>8, <1>9 DEF S!IsEvent
<1>11. QED
  BY <1>6, <1>10 DEF event

\* So are all events of a change.
LEMMA EventsRead ==
    ASSUME NEW events \in Seq(ClientEvents)
    PROVE  /\ EditsOf(events) \in Seq(ClientEdits)
           /\ Len(EditsOf(events)) = Len(events)
           /\ events # <<>> => EditsOf(events) # <<>>
           /\ events = <<>> => EditsOf(events) = <<>>
           /\ \A i \in DOMAIN events : S!IsEvent(events[i])
           /\ \A e \in ClientEdits :
                 EditsOf(Append(events, EventOf(e))) = Append(EditsOf(events), e)
<1>1. ASSUME NEW i \in DOMAIN events
      PROVE  S!IsEvent(events[i]) /\ S!EditOf(events[i]) \in ClientEdits
  <2>1. events[i] \in ClientEvents
    OBVIOUS
  <2>2. PICK e \in ClientEdits : events[i] = EventOf(e)
    BY <2>1 DEF ClientEvents
  <2>3. QED  BY <2>2, EventRead
<1>2. DOMAIN events = 1 .. Len(events) /\ Len(events) \in Nat
  OBVIOUS
<1>3. /\ EditsOf(events) \in [1 .. Len(events) -> ClientEdits]
      /\ \A i \in 1 .. Len(events) : EditsOf(events)[i] = S!EditOf(events[i])
  BY <1>1, <1>2 DEF EditsOf
<1>4. EditsOf(events) \in Seq(ClientEdits) /\ Len(EditsOf(events)) = Len(events)
  BY <1>2, <1>3
<1>5. ASSUME NEW e \in ClientEdits
      PROVE  EditsOf(Append(events, EventOf(e))) = Append(EditsOf(events), e)
  <2> DEFINE more == Append(events, EventOf(e))
             edits == EditsOf(events)
  <2>1. EventOf(e) \in ClientEvents
    BY DEF ClientEvents
  <2>2. /\ more \in Seq(ClientEvents) /\ Len(more) = Len(events) + 1
        /\ \A i \in 1 .. Len(events) : more[i] = events[i]
        /\ more[Len(events) + 1] = EventOf(e)
    BY <2>1
  <2>3. /\ Append(edits, e) \in Seq(ClientEdits)
        /\ Len(Append(edits, e)) = Len(events) + 1
        /\ \A i \in 1 .. Len(events) : Append(edits, e)[i] = edits[i]
        /\ Append(edits, e)[Len(events) + 1] = e
    BY <1>4
  <2> DEFINE longer == Append(edits, e)
  <2> HIDE DEF more, edits, longer
  <2>4. /\ EditsOf(more) = [i \in 1 .. Len(events) + 1 |-> S!EditOf(more[i])]
        /\ longer = [i \in 1 .. Len(events) + 1 |-> longer[i]]
    <3>1. DOMAIN more = 1 .. Len(events) + 1
      BY <2>2
    <3>2. longer \in Seq(ClientEdits) /\ Len(longer) = Len(events) + 1
      BY <2>3 DEF longer
    <3>3. QED
      BY <3>1, <3>2 DEF EditsOf
  <2>5. ASSUME NEW i \in 1 .. Len(events) + 1
        PROVE  S!EditOf(more[i]) = longer[i]
    <3>1. CASE i \in 1 .. Len(events)
      BY <1>3, <2>2, <2>3, <3>1 DEF edits, longer
    <3>2. CASE i = Len(events) + 1
      BY <2>2, <2>3, <3>2, EventRead DEF longer
    <3>3. Len(events) \in Nat
      BY <1>2
    <3>4. QED
      BY <3>1, <3>2, <3>3
  <2>6. EditsOf(more) = longer
    BY <2>4, <2>5
  <2>7. QED
    BY <2>6 DEF more, edits, longer
<1>6. events = <<>> => EditsOf(events) = <<>>
  BY <1>3, <1>4
<1>7. events # <<>> => EditsOf(events) # <<>>
  BY <1>4
<1>8. QED
  BY <1>1, <1>4, <1>5, <1>6, <1>7

-----------------------------------------------------------------------------
(***************************************************************************)
(* What a handler does with a message of the client.                       *)
(***************************************************************************)

\* The call that the handler waits for goes on.
GoesOn == FP!Work /\ UNCHANGED <<server, process, request, replies>>

\* It has returned, and so does the handler.
Returns == /\ FP!Receive
           /\ process' = S!Waiting
           /\ UNCHANGED request
           /\ server.initialized => server'.initialized

\* A handler begins.
Begins ==
    \/ S!Exit \/ S!InitializeFails \/ S!Initialize \/ S!Shutdown
    \/ S!UnknownRequest \/ S!SkipNotification \/ S!LeaveNotification
    \/ S!DidOpen \/ S!DidChange \/ S!DidSave \/ S!DidClose

\* One of these it is.
LEMMA HandleIs ==
    ASSUME S!Handle,
           server \in [initialized : BOOLEAN, shutdown_requested : BOOLEAN]
    PROVE  Busy /\ (GoesOn \/ Returns \/ (FP!Doing("idle") /\ Begins))
<1>1. CASE S!FileSystemStep
  BY <1>1, SameWork DEF S!FileSystemStep, GoesOn, S!own, Busy
<1>2. CASE S!ShutdownReturn \/ S!NotificationReturn
  BY <1>2, SameEnds DEF S!ShutdownReturn, S!NotificationReturn, S!Finish, Returns, Busy
<1>3. CASE Begins
  <2>1. Busy /\ S!FS!Doing("idle")
    <3>1. CASE S!Exit \/ S!InitializeFails \/ S!Initialize \/ S!Shutdown \/ S!UnknownRequest
      BY <3>1 DEF S!Exit, S!InitializeFails, S!Initialize, S!Shutdown,
                  S!UnknownRequest, S!Evaluates, Busy
    <3>2. CASE \/ S!SkipNotification \/ S!LeaveNotification
               \/ S!DidOpen \/ S!DidChange \/ S!DidSave \/ S!DidClose
      BY <3>2 DEF S!SkipNotification, S!LeaveNotification, S!DidOpen, S!DidChange,
                  S!DidSave, S!DidClose, S!Handles, S!Notified, Busy
    <3>3. QED
      BY <1>3, <3>1, <3>2 DEF Begins
  <2>2. QED
    BY <1>3, <2>1, SameCalls
<1>4. QED
  BY <1>1, <1>2, <1>3 DEF S!Handle, Begins

\* A request of some method, and a notification of another.
LEMMA IsOfMethod ==
    ASSUME NEW method, NEW params, NEW id, request = Request(method, params, id)
    PROVE  /\ request.method = String(method) /\ request.method.string = method
           /\ request.params = params /\ request.id = id
           /\ id = Absent => S!IsNotification
           /\ id = Number(1) => ~S!IsNotification
BY DEF Request, String, S!IsNotification, S!json_rpc_request_is_notification,
       S!Absent, Absent, Number

\* initialize: the handler begins and ends in one step.  That it answers with
\* a success is how the client knows that it is initialized.
LEMMA InitializeBegins ==
    ASSUME request = Parsed(InitializeMessage), Begins,
           server \in [initialized : BOOLEAN, shutdown_requested : BOOLEAN]
    PROVE  /\ UNCHANGED <<request, fs, heap, chunked, call, docs>> /\ ~Busy'
           /\ server.initialized => server'.initialized
           /\ replies = <<>> /\ replies' = <<json_rpc_success(Number(1))>>
                => server'.initialized \/ process' # S!Waiting
<1>1. /\ request.method.string = "initialize" /\ ~S!IsNotification
  BY IsOfMethod, MessagesParsed
<1>2. S!InitializeFails \/ S!Initialize
  <2>1. /\ ~S!Exit /\ ~S!Shutdown /\ ~S!UnknownRequest
    BY <1>1 DEF S!Exit, S!Shutdown, S!UnknownRequest, S!Evaluates
  <2>2. /\ ~S!SkipNotification /\ ~S!LeaveNotification
        /\ ~S!DidOpen /\ ~S!DidChange /\ ~S!DidSave /\ ~S!DidClose
    BY <1>1 DEF S!SkipNotification, S!LeaveNotification, S!DidOpen, S!DidChange,
                S!DidSave, S!DidClose, S!Handles, S!Notified
  <2>3. QED
    BY <2>1, <2>2 DEF Begins
<1>3. CASE S!InitializeFails
  <2>1. /\ UNCHANGED <<server, request, fs, heap, chunked, call, docs>>
        /\ \/ process' = S!Crashed
           \/ /\ process' = S!Waiting
              /\ replies' = replies \o <<S!json_rpc_error(request.id, S!InvalidParams)>>
    BY <1>3 DEF S!InitializeFails, S!Finish, S!Die, S!fsvars
  <2>2. replies = <<>> /\ process' = S!Waiting => replies' # <<json_rpc_success(Number(1))>>
    <3>1. ASSUME replies = <<>>, process' = S!Waiting
          PROVE  replies'[1].error = -32602
      <4>1. replies' = replies \o <<S!json_rpc_error(request.id, S!InvalidParams)>>
        BY <2>1, <3>1 DEF S!Waiting, S!Crashed
      <4>2. replies' = <<S!json_rpc_error(request.id, S!InvalidParams)>>
        BY <3>1, <4>1
      <4>3. QED
        BY <4>2 DEF S!json_rpc_error, S!InvalidParams
    <3>2. <<json_rpc_success(Number(1))>>[1].error = 0
      BY DEF json_rpc_success
    <3>3. QED
      BY <3>1, <3>2
  <2>3. ~Busy'
    BY <2>1 DEF Busy, S!Crashed, S!Waiting, S!Handling
  <2>4. QED
    BY <2>1, <2>2, <2>3
<1>4. CASE S!Initialize
  <2>1. /\ UNCHANGED <<request, fs, heap, chunked, call, docs>>
        /\ \/ process' = S!Waiting /\ replies' = replies \o <<>> /\ UNCHANGED server
           \/ /\ UNCHANGED server
              /\ process' = S!Exited(IF server.shutdown_requested THEN 0 ELSE 1, "parent")
           \/ /\ process' = S!Waiting
              /\ server' = [server EXCEPT !.initialized = TRUE]
    BY <1>4 DEF S!Initialize, S!Finish, S!server_exit, S!Die, S!fsvars
  <2>2. ~Busy'
    BY <2>1 DEF Busy, S!Exited, S!Waiting, S!Handling
  <2>3. server'.initialized \/ ~(replies = <<>> /\ replies' = <<json_rpc_success(Number(1))>>)
          \/ process' # S!Waiting
    <3>1. <<>> \o <<>> = <<>>
      OBVIOUS
    <3>2. S!Exited(IF server.shutdown_requested THEN 0 ELSE 1, "parent") # S!Waiting
      BY DEF S!Exited, S!Waiting
    <3>3. CASE replies' = replies \o <<>>
      BY <3>1, <3>3
    <3>4. CASE server' = [server EXCEPT !.initialized = TRUE]
      BY <3>4
    <3>5. QED
      BY <2>1, <3>2, <3>3, <3>4
  <2>4. server.initialized => server'.initialized
    BY <1>4 DEF S!Initialize
  <2>5. QED
    BY <2>1, <2>2, <2>3, <2>4
<1>5. QED
  BY <1>2, <1>3, <1>4

\* exit: the program ends.
LEMMA ExitBegins ==
    ASSUME request = Parsed(ExitMessage), Begins
    PROVE  UNCHANGED <<server, request, fs, heap, chunked, call, docs>> /\ ~Busy' /\ process' # S!Waiting
<1>1. request.method.string = "exit" /\ S!IsNotification
  BY IsOfMethod, MessagesParsed
<1>2. S!Exit
  BY <1>1 DEF Begins, S!InitializeFails, S!Initialize, S!Shutdown, S!UnknownRequest,
              S!SkipNotification, S!LeaveNotification, S!DidOpen, S!DidChange,
              S!DidSave, S!DidClose, S!Handles, S!Notified, S!Evaluates, S!Methods
<1>3. QED
  BY <1>2 DEF S!Exit, S!server_exit, S!Die, S!Exited, S!Handling, S!Waiting, S!fsvars, Busy

\* shutdown: the release of the files.
LEMMA ShutdownBegins ==
    ASSUME request = Parsed(ShutdownMessage), Begins
    PROVE  FP!CallFree /\ UNCHANGED <<server, process, request>>
<1>1. request.method.string = "shutdown" /\ ~S!IsNotification
  BY IsOfMethod, MessagesParsed
<1>2. S!Shutdown
  BY <1>1 DEF Begins, S!InitializeFails, S!Initialize, S!Exit, S!UnknownRequest,
              S!SkipNotification, S!LeaveNotification, S!DidOpen, S!DidChange,
              S!DidSave, S!DidClose, S!Handles, S!Notified, S!Evaluates, S!Methods
<1>3. QED
  BY <1>2, SameEnds DEF S!Shutdown

\* A notification about a document whose parameters are in order.
LEMMA DocumentBegins ==
    ASSUME NEW method, NEW params,
           request = Request(method, params, Absent), method \in S!Methods,
           server.initialized, S!Parameters.outcome = "parsed", Begins
    PROVE  \/ method = "textDocument/didOpen" /\ S!DidOpen
           \/ method = "textDocument/didChange" /\ S!DidChange
           \/ method = "textDocument/didSave" /\ S!DidSave
           \/ method = "textDocument/didClose" /\ S!DidClose
<1>1. request.method.string = method /\ S!IsNotification
  BY IsOfMethod
<1>2. /\ ~S!Exit /\ ~S!InitializeFails /\ ~S!Initialize /\ ~S!Shutdown
      /\ ~S!UnknownRequest /\ ~S!SkipNotification /\ ~S!LeaveNotification
  BY <1>1 DEF S!Exit, S!InitializeFails, S!Initialize, S!Shutdown, S!UnknownRequest,
              S!SkipNotification, S!LeaveNotification, S!Notified, S!Evaluates, S!Methods
<1>3. QED
  BY <1>1, <1>2 DEF Begins, S!DidOpen, S!DidChange, S!DidSave, S!DidClose, S!Handles

\* The parameters of the notifications about documents.
LEMMA ParametersRead ==
    /\ \A uri, text :
          S!parse_textDocument_didOpen(Object(OpenParams(uri, text)))
             = [outcome |-> "parsed", uri |-> String(uri), contents |-> String(text),
                version |-> 1]
    /\ \A uri, version : \A events \in Seq(ClientEvents) :
          events # <<>> =>
          S!parse_textDocument_didChange(Object(ChangeParams(uri, version, events)))
             = [outcome |-> "parsed", uri |-> String(uri), version |-> version,
                edits |-> EditsOf(events)]
    /\ \A uri, version :
          S!parse_textDocument_didSave(Object(SaveParams(uri, version)))
             = [outcome |-> "parsed", uri |-> String(uri)]
    /\ \A uri :
          S!parse_textDocument_didClose(Object(CloseParams(uri)))
             = [outcome |-> "parsed", uri |-> String(uri)]
<1> DEFINE opened(uri, text) == [uri |-> String(uri), version |-> Number(1),
                                 text |-> String(text)]
           numbered(uri, version) == [uri |-> String(uri), version |-> Number(version)]
           named(uri) == [uri |-> String(uri)]
<1>0. /\ \A f : Object(f).type = "object" /\ Object(f).properties = f
      /\ \A f : Object(f) # S!Absent
      /\ \A s : String(s).type = "string" /\ String(s).string = s /\ String(s) # S!Absent
      /\ \A n : Number(n).type = "number" /\ Number(n).number = n /\ Number(n) # S!Absent
      /\ \A x : Array(x).type = "array" /\ Array(x).elements = x /\ Array(x) # S!Absent
  BY DEF Object, String, Number, Array, S!Absent
<1>1. ASSUME NEW uri, NEW text
      PROVE  S!parse_textDocument_didOpen(Object(OpenParams(uri, text)))
             = [outcome |-> "parsed", uri |-> String(uri), contents |-> String(text),
                version |-> 1]
  <2> DEFINE item == Object(opened(uri, text))
             params == Object(OpenParams(uri, text))
  <2>1. /\ S!Property(params, "textDocument") = item
        /\ params.type = "object" /\ item.type = "object" /\ item # S!Absent
    BY <1>0 DEF S!Property, OpenParams
  <2>2. /\ S!Property(item, "uri") = String(uri)
        /\ S!Property(item, "version") = Number(1)
        /\ S!Property(item, "text") = String(text)
    BY <1>0 DEF S!Property
  <2> HIDE DEF item, params
  <2>3. S!HasTypes(params, [textDocument |-> "object"])
    BY <2>1 DEF S!HasTypes
  <2>4. S!HasTypes(item, [uri |-> "string", version |-> "number", text |-> "string"])
    BY <2>1, <2>2, <1>0 DEF S!HasTypes
  <2>5. S!VersionOf(item) = 1
    BY <2>2, <1>0 DEF S!VersionOf
  <2>6. S!parse_textDocument_didOpen(params)
          = [outcome |-> "parsed", uri |-> String(uri), contents |-> String(text),
             version |-> 1]
    BY <2>1, <2>2, <2>3, <2>4, <2>5, <1>0 DEF S!parse_textDocument_didOpen
  <2>7. QED
    BY <2>6 DEF params
<1>2. ASSUME NEW uri, NEW version, NEW events \in Seq(ClientEvents), events # <<>>
      PROVE  S!parse_textDocument_didChange(Object(ChangeParams(uri, version, events)))
             = [outcome |-> "parsed", uri |-> String(uri), version |-> version,
                edits |-> EditsOf(events)]
  <2> DEFINE item == Object(numbered(uri, version))
             params == Object(ChangeParams(uri, version, events))
  <2>1. /\ S!Property(params, "textDocument") = item
        /\ S!Property(params, "contentChanges") = Array(events)
        /\ params.type = "object" /\ item.type = "object" /\ item # S!Absent
    BY <1>0 DEF S!Property, ChangeParams
  <2>2. /\ S!Property(item, "uri") = String(uri)
        /\ S!Property(item, "version") = Number(version)
    BY <1>0 DEF S!Property
  <2> HIDE DEF item, params
  <2>3. S!HasTypes(params, [textDocument |-> "object", contentChanges |-> "array"])
    BY <2>1, <1>0 DEF S!HasTypes
  <2>4. S!HasTypes(item, [uri |-> "string", version |-> "number"])
    BY <2>1, <2>2, <1>0 DEF S!HasTypes
  <2>5. S!VersionOf(item) = version
    BY <2>2, <1>0 DEF S!VersionOf
  <2>6. \A i \in DOMAIN events : S!IsEvent(events[i])
    BY EventsRead
  <2>7. S!parse_textDocument_didChange(params)
          = [outcome |-> "parsed", uri |-> String(uri), version |-> version,
             edits |-> [i \in DOMAIN events |-> S!EditOf(events[i])]]
    BY <2>1, <2>2, <2>3, <2>4, <2>5, <2>6, <1>0, <1>2 DEF S!parse_textDocument_didChange
  <2>8. QED
    BY <2>7 DEF params, EditsOf
<1>3. ASSUME NEW uri, NEW version
      PROVE  S!parse_textDocument_didSave(Object(SaveParams(uri, version)))
             = [outcome |-> "parsed", uri |-> String(uri)]
  <2> DEFINE item == Object(numbered(uri, version))
             params == Object(SaveParams(uri, version))
  <2>1. /\ S!Property(params, "textDocument") = item
        /\ params.type = "object" /\ item.type = "object" /\ item # S!Absent
    BY <1>0 DEF S!Property, SaveParams
  <2>2. /\ S!Property(item, "uri") = String(uri)
        /\ S!Property(item, "version") = Number(version)
    BY <1>0 DEF S!Property
  <2> HIDE DEF item, params
  <2>3. S!HasTypes(params, [textDocument |-> "object"])
    BY <2>1 DEF S!HasTypes
  <2>4. S!HasTypes(item, [uri |-> "string", version |-> "number"])
    BY <2>1, <2>2, <1>0 DEF S!HasTypes
  <2>5. S!parse_textDocument_didSave(params) = [outcome |-> "parsed", uri |-> String(uri)]
    BY <2>1, <2>2, <2>3, <2>4 DEF S!parse_textDocument_didSave, S!parse_identifier
  <2>6. QED
    BY <2>5 DEF params
<1>4. ASSUME NEW uri
      PROVE  S!parse_textDocument_didClose(Object(CloseParams(uri)))
             = [outcome |-> "parsed", uri |-> String(uri)]
  <2> DEFINE item == Object(named(uri))
             params == Object(CloseParams(uri))
  <2>1. /\ S!Property(params, "textDocument") = item
        /\ params.type = "object" /\ item.type = "object" /\ item # S!Absent
    BY <1>0 DEF S!Property, CloseParams
  <2>2. S!Property(item, "uri") = String(uri)
    BY <1>0 DEF S!Property
  <2> HIDE DEF item, params
  <2>3. S!HasTypes(params, [textDocument |-> "object"])
    BY <2>1 DEF S!HasTypes
  <2>4. S!HasTypes(item, [uri |-> "string"])
    BY <2>1, <2>2, <1>0 DEF S!HasTypes
  <2>5. S!parse_textDocument_didClose(params) = [outcome |-> "parsed", uri |-> String(uri)]
    BY <2>1, <2>2, <2>3, <2>4 DEF S!parse_textDocument_didClose, S!parse_identifier
  <2>6. QED
    BY <2>5 DEF params
<1>5. QED
  BY <1>1, <1>2, <1>3, <1>4

\* What the handlers of these call.
LEMMA OpenBegins ==
    ASSUME NEW uri, NEW text, request = Parsed(OpenMessage(uri, text)),
           server.initialized, Begins
    PROVE  FP!CallOpen(uri, 1, text) /\ UNCHANGED <<server, process, request, replies>>
<1>1. request = Request("textDocument/didOpen", Object(OpenParams(uri, text)), Absent)
  BY MessagesParsed
<1>2. S!Parameters = [outcome |-> "parsed", uri |-> String(uri),
                      contents |-> String(text), version |-> 1]
  BY <1>1, IsOfMethod, ParametersRead DEF S!Parameters
<1>3. S!DidOpen
  BY <1>1, <1>2, DocumentBegins DEF S!Methods
<1>4. S!FS!CallOpen(uri, 1, text) /\ UNCHANGED <<server, process, request, replies>>
  BY <1>2, <1>3 DEF S!DidOpen, S!Absent, String, S!own
<1>5. QED
  BY <1>4, SameSearch, SameCalls DEF S!FS!CallOpen, FP!CallOpen, S!FS!IsOpen, FP!IsOpen

\* The edits mean the same for the file system of the server.
LEMMA SameChange ==
    ASSUME NEW uri, NEW version, NEW edits, S!FS!CallChange(uri, version, edits)
    PROVE  FP!CallChange(uri, version, edits)
<1>1. ASSUME NEW t, NEW e
      PROVE  S!FS!Edited(t, e) = FP!Edited(t, e)
  <2>1. S!FS!IsWhole(e) = FP!IsWhole(e) /\ S!FS!InSizeT(t, e.end) = FP!InSizeT(t, e.end)
    BY SamePlaces
  <2>2. /\ S!FS!FirstPlace(t, e.start) = FP!FirstPlace(t, e.start)
        /\ S!FS!FirstPlace(t, S!FS!InSizeT(t, e.end))
              = FP!FirstPlace(t, S!FS!InSizeT(t, e.end))
        /\ S!FS!HasPosition(t, e.start) = FP!HasPosition(t, e.start)
    BY SameFirstPlace, SamePlaces
  <2>3. QED
    BY <2>1, <2>2 DEF S!FS!Edited, FP!Edited
<1>2. ASSUME NEW t
      PROVE  S!FS!EditedAll(t, edits) = FP!EditedAll(t, edits)
  BY <1>1 DEF S!FS!EditedAll, FP!EditedAll
<1>3. S!FS!IsOpen(uri) = FP!IsOpen(uri)
  BY DEF S!FS!IsOpen, FP!IsOpen
<1>4. FP!Search("change", uri, [version |-> version, edits |-> edits, skipped |-> 0],
                IF FP!IsOpen(uri) THEN 1 ELSE 0, 0)
  BY <1>3, SameSearch DEF S!FS!CallChange
<1>5. docs' = IF FP!IsOpen(uri)
              THEN [docs EXCEPT ![PathOf[uri]] =
                      [version |-> version,
                       text |-> FP!EditedAll(docs[PathOf[uri]].text, edits)]]
              ELSE docs
  <2>1. S!FS!EditedAll(docs[PathOf[uri]].text, edits) = FP!EditedAll(docs[PathOf[uri]].text, edits)
    BY <1>2
  <2>2. docs' = IF FP!IsOpen(uri)
              THEN [docs EXCEPT ![PathOf[uri]] =
                      [version |-> version,
                       text |-> S!FS!EditedAll(docs[PathOf[uri]].text, edits)]]
              ELSE docs
    BY <1>3 DEF S!FS!CallChange
  <2>3. QED  BY <2>1, <2>2
<1>6. QED
  BY <1>4, <1>5 DEF FP!CallChange

\* file_system_change,
LEMMA ChangeBegins ==
    ASSUME NEW uri, NEW version, NEW events \in Seq(ClientEvents), events # <<>>,
           request = Parsed(ChangeMessage(uri, version, events)),
           server.initialized, Begins
    PROVE  /\ FP!CallChange(uri, version, EditsOf(events))
           /\ UNCHANGED <<server, process, request, replies>>
<1>1. request = Request("textDocument/didChange",
                        Object(ChangeParams(uri, version, events)), Absent)
  BY MessagesParsed
<1>2. S!Parameters = [outcome |-> "parsed", uri |-> String(uri), version |-> version,
                      edits |-> EditsOf(events)]
  BY <1>1, IsOfMethod, ParametersRead DEF S!Parameters
<1>3. S!DidChange
  BY <1>1, <1>2, DocumentBegins DEF S!Methods
<1>4. /\ S!FS!CallChange(uri, version, EditsOf(events))
      /\ UNCHANGED <<server, process, request, replies>>
  BY <1>2, <1>3 DEF S!DidChange, String, S!own
<1>5. QED
  BY <1>4, SameChange

\* file_system_lookup,
LEMMA SaveBegins ==
    ASSUME NEW uri, NEW version, request = Parsed(SaveMessage(uri, version)),
           server.initialized, Begins
    PROVE  FP!CallSave(uri) /\ UNCHANGED <<server, process, request, replies>>
<1>1. request = Request("textDocument/didSave", Object(SaveParams(uri, version)), Absent)
  BY MessagesParsed
<1>2. S!Parameters = [outcome |-> "parsed", uri |-> String(uri)]
  BY <1>1, IsOfMethod, ParametersRead DEF S!Parameters
<1>3. S!DidSave
  BY <1>1, <1>2, DocumentBegins DEF S!Methods
<1>4. S!FS!CallSave(uri) /\ UNCHANGED <<server, process, request, replies>>
  BY <1>2, <1>3 DEF S!DidSave, S!Absent, String, S!own
<1>5. QED
  BY <1>4, SameSearch DEF S!FS!CallSave, FP!CallSave, S!FS!IsOpen, FP!IsOpen

\* and file_system_close.
LEMMA CloseBegins ==
    ASSUME NEW uri, request = Parsed(CloseMessage(uri)),
           server.initialized, Begins
    PROVE  FP!CallClose(uri) /\ UNCHANGED <<server, process, request, replies>>
<1>1. request = Request("textDocument/didClose", Object(CloseParams(uri)), Absent)
  BY MessagesParsed
<1>2. S!Parameters = [outcome |-> "parsed", uri |-> String(uri)]
  BY <1>1, IsOfMethod, ParametersRead DEF S!Parameters
<1>3. S!DidClose
  BY <1>1, <1>2, DocumentBegins DEF S!Methods
<1>4. S!FS!CallClose(uri) /\ UNCHANGED <<server, process, request, replies>>
  BY <1>2, <1>3 DEF S!DidClose, S!Absent, String, S!own
<1>5. QED
  BY <1>4, SameSearch, SameCalls DEF S!FS!CallClose, FP!CallClose


-----------------------------------------------------------------------------
(***************************************************************************)
(* What the client types, and what the server makes of it.                 *)
(***************************************************************************)

\* A later place has a later position.
LEMMA LaterPlace ==
    ASSUME NEW t \in Utf8Strings, NEW k \in Boundaries(t), NEW n \in Boundaries(t),
           k < n
    PROVE  Before(PositionAfter(SubSeq(t, 1, k)), PositionAfter(SubSeq(t, 1, n)))
<1> DEFINE w == SubSeq(t, 1, n)
           end == SubSeq(t, n + 1, Len(t))
<1>1. /\ t \in Seq(Byte) /\ IsUtf8(t)
      /\ k \in Nat /\ n \in 0 .. Len(t) /\ k \in 0 .. n - 1
  BY BoundaryBytes DEF Utf8Strings
<1>2. /\ w \in Seq(Byte) /\ end \in Seq(Byte) /\ Len(w) = n /\ IsUtf8(w)
      /\ w \o end = t
  BY <1>1, Utf8Cut, PartsJoin
<1> HIDE DEF w, end
<1>3. k \in Boundaries(w)
  BY <1>1, <1>2, BoundariesJoined
<1>4. SubSeq(t, 1, k) = SubSeq(w, 1, k)
  <2>1. 1 \in 1 .. Len(w) + 1 /\ k \in 0 .. Len(w)
    BY <1>1, <1>2
  <2>2. QED
    BY <1>2, <2>1, SubSeqFirst
<1> DEFINE s == SubSeq(w, 1, k)
           rest == SubSeq(w, k + 1, Len(w))
<1>5. /\ s \in Seq(Byte) /\ rest \in Seq(Byte) /\ Len(rest) = n - k
      /\ IsUtf8(rest) /\ s \o rest = w
  <2>1. k \in 0 .. Len(w)
    BY <1>1, <1>2
  <2>2. QED
    BY <1>2, <1>3, <2>1, Utf8Cut, PartsJoin
<1> HIDE DEF s, rest
<1>6. rest # <<>>
  <2>1. Len(rest) # 0
    BY <1>1, <1>5
  <2>2. QED
    BY <2>1
<1> DEFINE c == CharSize(rest[1])
           p == SubSeq(rest, 1, c)
           q == SubSeq(rest, c + 1, Len(rest))
<1>7. c \in 1 .. Len(rest) /\ c \in Boundaries(rest) /\ IsCodepoint(p)
  BY <1>5, <1>6, FirstCodepoint
<1>8. p \in Seq(Byte) /\ q \in Seq(Byte)
  BY <1>5, <1>7, Utf8Cut
<1>9. p \o q = rest
  <2>1. c \in 0 .. Len(rest)
    BY <1>5, <1>7
  <2> HIDE DEF c
  <2>2. QED
    BY <1>5, <2>1, PartsJoin
<1> HIDE DEF c, p, q
<1>10. (s \o p) \o q = w /\ s \o p \in Seq(Byte)
  <2>1. s \o p \in Seq(Byte)
    BY <1>5, <1>8, ConcatBytes
  <2>2. (s \o p) \o q = s \o (p \o q)
    BY <1>5, <1>8, ConcatBytes
  <2>3. QED
    BY <1>5, <1>9, <2>1, <2>2
<1> DEFINE before == PositionAfter(s)
           one == PositionAfter(s \o p)
           after == PositionAfter((s \o p) \o q)
<1>11. one = Stepped(before, p[1])
  BY <1>5, <1>7, PositionStep
<1>12. ~Before(after, one)
  BY <1>8, <1>10, PositionGoesOn
<1>13. /\ before = [line_num |-> before.line_num, char_num |-> before.char_num]
       /\ before.line_num \in Nat /\ before.char_num \in Nat
       /\ after.line_num \in Nat /\ after.char_num \in Nat
  BY <1>2, <1>5, <1>10, PositionCounts
<1>14. /\ one = [line_num |-> before.line_num + 1, char_num |-> 0]
         \/ one = [line_num |-> before.line_num, char_num |-> before.char_num + 1]
  BY <1>11 DEF Stepped
<1> HIDE DEF before, one, after
<1>15. Before(before, after)
  <2>1. CASE one = [line_num |-> before.line_num + 1, char_num |-> 0]
    BY <1>12, <1>13, <2>1 DEF Before
  <2>2. CASE one = [line_num |-> before.line_num, char_num |-> before.char_num + 1]
    BY <1>12, <1>13, <2>2 DEF Before
  <2>3. QED
    BY <1>14, <2>1, <2>2
<1>16. before = PositionAfter(SubSeq(t, 1, k)) /\ after = PositionAfter(SubSeq(t, 1, n))
  BY <1>4, <1>10 DEF before, after, s, w
<1>17. QED
  BY <1>15, <1>16

\* The first place of its position is the place itself.
LEMMA PlaceFound ==
    ASSUME NEW t \in Utf8Strings, NEW n \in Boundaries(t)
    PROVE  /\ HasPosition(t, PositionAfter(SubSeq(t, 1, n)))
           /\ FirstPlace(t, PositionAfter(SubSeq(t, 1, n))) = n
<1> DEFINE pos == PositionAfter(SubSeq(t, 1, n))
<1>1. t \in Seq(Byte) /\ IsUtf8(t)
  BY DEF Utf8Strings
<1>2. HasPosition(t, pos)
  BY DEF HasPosition
<1>3. pos \in Place
  BY <1>1, Utf8Cut, PositionCounts DEF Place
<1>4. n \in PlacesFrom(t, pos)
  BY <1>3, BeforeOrders DEF PlacesFrom
<1>5. ASSUME NEW m \in PlacesFrom(t, pos)
      PROVE  n <= m
  <2>1. m \in Boundaries(t) /\ ~Before(PositionAfter(SubSeq(t, 1, m)), pos)
    BY DEF PlacesFrom
  <2>2. ~(m < n)
    BY <2>1, LaterPlace
  <2>3. m \in Nat /\ n \in Nat
    BY <1>1, <2>1, BoundaryBytes
  <2>4. QED
    BY <2>2, <2>3
<1> HIDE DEF pos
<1>6. FirstPlace(t, pos) = n
  BY <1>1, <1>4, <1>5, FirstPlaceIs
<1>7. QED
  BY <1>2, <1>6 DEF pos

\* The client counts, too, and never backwards.
LEMMA ClientCounts ==
    ASSUME NEW t \in Seq(Byte), NEW n \in 0 .. Len(t), NEW m \in n .. Len(t)
    PROVE  /\ ClientPosition(t, n) \in Place
           /\ ~Before(ClientPosition(t, m), ClientPosition(t, n))
<1> DEFINE ends(k) == {i \in 1 .. k : EndsLine(t, i)}
           line(k) == {i \in Starts(t) : i <= k /\ \A j \in ends(k) : j < i}
           wide(k) == {i \in line(k) : CharSize(t[i]) = 4}
<1>1. ASSUME NEW k \in 0 .. Len(t)
      PROVE  /\ IsFiniteSet(ends(k)) /\ IsFiniteSet(line(k)) /\ IsFiniteSet(wide(k))
             /\ ClientPosition(t, k) = [line_num |-> Cardinality(ends(k)),
                                        char_num |-> Cardinality(line(k)) + Cardinality(wide(k))]
  <2>1. k \in Int /\ Len(t) \in Int
    OBVIOUS
  <2>2. IsFiniteSet(1 .. k) /\ IsFiniteSet(1 .. Len(t))
    BY <2>1, FS_Interval
  <2>3. ends(k) \in SUBSET (1 .. k) /\ line(k) \in SUBSET (1 .. Len(t))
    BY DEF Starts
  <2>4. IsFiniteSet(ends(k)) /\ IsFiniteSet(line(k))
    BY <2>2, <2>3, FS_Subset
  <2>5. wide(k) \in SUBSET line(k)
    OBVIOUS
  <2>6. IsFiniteSet(wide(k))
    BY <2>4, <2>5, FS_Subset
  <2>7. QED
    BY <2>4, <2>6 DEF ClientPosition
<1>2. n \in 0 .. Len(t) /\ m \in 0 .. Len(t) /\ n <= m
  OBVIOUS
<1>3. ends(n) \in SUBSET ends(m)
  BY <1>2
<1>4. Cardinality(ends(n)) <= Cardinality(ends(m))
  BY <1>1, <1>2, <1>3, FS_Subset
<1>5. ASSUME Cardinality(ends(n)) = Cardinality(ends(m))
      PROVE  /\ Cardinality(line(n)) <= Cardinality(line(m))
             /\ Cardinality(wide(n)) <= Cardinality(wide(m))
  <2>1. ends(n) = ends(m)
    BY <1>1, <1>2, <1>3, <1>5, FS_Subset
  <2>2. line(n) \in SUBSET line(m)
    BY <1>2, <2>1 DEF Starts
  <2>3. wide(n) \in SUBSET wide(m)
    BY <2>2
  <2>4. QED
    BY <1>1, <1>2, <2>2, <2>3, FS_Subset
<1>6. /\ Cardinality(ends(n)) \in Nat /\ Cardinality(ends(m)) \in Nat
      /\ Cardinality(line(n)) \in Nat /\ Cardinality(line(m)) \in Nat
      /\ Cardinality(wide(n)) \in Nat /\ Cardinality(wide(m)) \in Nat
  BY <1>1, <1>2, FS_CardinalityType
<1>7. /\ ClientPosition(t, n) = [line_num |-> Cardinality(ends(n)),
                                 char_num |-> Cardinality(line(n)) + Cardinality(wide(n))]
      /\ ClientPosition(t, m) = [line_num |-> Cardinality(ends(m)),
                                 char_num |-> Cardinality(line(m)) + Cardinality(wide(m))]
  BY <1>1, <1>2
<1> HIDE DEF ends, line, wide
<1>8. QED
  BY <1>4, <1>5, <1>6, <1>7 DEF Before, Place

\* An edit of the client is told as an event, and means the same for the
\* server where both places do.
LEMMA EditTold ==
    ASSUME NEW t \in Utf8Strings, NEW n \in Places(t), NEW m \in Places(t), n <= m,
           NEW s \in Utf8Strings
    PROVE  LET e == [start |-> ClientPosition(t, n), end |-> ClientPosition(t, m),
                     text |-> s]
               after == SubSeq(t, 1, n) \o s \o SubSeq(t, m + 1, Len(t))
           IN  /\ e \in ClientEdits /\ Event(t, n, m, s) = EventOf(e)
               /\ after \in Utf8Strings
               /\ Alike(t, n) /\ Alike(t, m) => /\ FP!Edited(t, e) = after
                                                /\ HasPosition(t, e.start)
<1> DEFINE e == [start |-> ClientPosition(t, n), end |-> ClientPosition(t, m), text |-> s]
           after == SubSeq(t, 1, n) \o s \o SubSeq(t, m + 1, Len(t))
<1>1. n \in Boundaries(t) /\ m \in Boundaries(t) /\ t \in Seq(Byte)
  BY DEF Places, Utf8Strings
<1>2. n \in 0 .. Len(t) /\ m \in n .. Len(t) /\ m \in m .. Len(t) /\ m \in 0 .. Len(t)
  BY <1>1, BoundaryBytes
<1>3. /\ ClientPosition(t, n) \in Place /\ ClientPosition(t, m) \in Place
      /\ ~Before(ClientPosition(t, m), ClientPosition(t, n))
  BY <1>1, <1>2, ClientCounts
<1>4. e \in ClientEdits
  BY <1>3 DEF ClientEdits
<1>5. Event(t, n, m, s) = EventOf(e)
  BY DEF Event, EventOf
<1>6. after \in Utf8Strings
  BY <1>1, ReplacedUtf8
<1>7. ASSUME Alike(t, n), Alike(t, m)
      PROVE  FP!Edited(t, e) = after /\ HasPosition(t, e.start)
  <2>1. /\ e.start = PositionAfter(SubSeq(t, 1, n)) /\ e.end = PositionAfter(SubSeq(t, 1, m))
        /\ e.text = s
    BY <1>7 DEF Alike
  <2>2. HasPosition(t, e.start) /\ FirstPlace(t, e.start) = n /\ FirstPlace(t, e.end) = m
    BY <1>1, <2>1, PlaceFound
  <2> HIDE DEF e
  <2>3. QED
    BY <1>4, <2>1, <2>2, EditedUtf8
<1>8. QED
  BY <1>4, <1>5, <1>6, <1>7

\* One edit more.
LEMMA EditedOnce ==
    ASSUME NEW t \in FP!ByteStrings, NEW edits \in Seq(FP!Edits), NEW e \in FP!Edits
    PROVE  /\ FP!EditedAll(t, <<>>) = t
           /\ FP!EditedAll(t, Append(edits, e)) = FP!Edited(FP!EditedAll(t, edits), e)
<1> DEFINE more == Append(edits, e)
           n == Len(edits)
<1>1. /\ more \in Seq(FP!Edits) /\ Len(more) = n + 1 /\ n \in Nat
      /\ more[n + 1] = e /\ \A i \in 1 .. n : more[i] = edits[i]
  OBVIOUS
<1>2. PICK a : FP!Stages(t, more, a) /\ FP!EditedAll(t, more) = a[Len(more)]
  BY <1>1, FP!EditsBetween, FileNames, FileTexts
<1>3. PICK b : FP!Stages(t, edits, b) /\ FP!EditedAll(t, edits) = b[Len(edits)]
  BY FP!EditsBetween, FileNames, FileTexts
<1> DEFINE c == [i \in 0 .. n |-> a[i]]
<1> HIDE DEF more
<1>4. FP!Stages(t, edits, c)
  <2>1. c \in [0 .. n -> FP!ByteStrings]
    BY <1>1, <1>2 DEF FP!Stages
  <2>2. c[0] = t
    BY <1>1, <1>2 DEF FP!Stages
  <2>3. ASSUME NEW i \in 1 .. n
        PROVE  c[i] = FP!Edited(c[i - 1], edits[i])
    <3>1. i \in 1 .. Len(more) /\ c[i] = a[i] /\ c[i - 1] = a[i - 1] /\ more[i] = edits[i]
      BY <1>1
    <3>2. QED
      BY <1>2, <3>1 DEF FP!Stages
  <2> HIDE DEF c
  <2>4. QED
    BY <2>1, <2>2, <2>3 DEF FP!Stages
<1>5. c[n] = a[n]
  BY <1>1
<1> HIDE DEF c
<1>6. b[n] = a[n]
  BY <1>3, <1>4, <1>5, FP!BetweenUnique, FileNames, FileTexts
<1>7. a[n + 1] = FP!Edited(a[n], e)
  <2>1. n + 1 \in 1 .. Len(more) /\ (n + 1) - 1 = n
    BY <1>1
  <2>2. QED
    BY <1>1, <1>2, <2>1 DEF FP!Stages
<1>8. FP!EditedAll(t, <<>>) = t
  <2>1. <<>> \in Seq(FP!Edits)
    OBVIOUS
  <2>2. QED
    BY <2>1, FP!EditedAllFacts, FileNames, FileTexts
<1>9. QED
  BY <1>1, <1>2, <1>3, <1>6, <1>7, <1>8 DEF more

-----------------------------------------------------------------------------
(***************************************************************************)
(* What a message says of the documents: they were b when the one before   *)
(* it was sent, and are a.  A change says what the server must make of it  *)
(* only if alike.                                                          *)
(***************************************************************************)
Opens(m, b, a) ==
    \E uri \in Uri, text \in Utf8Strings :
        /\ m = OpenMessage(uri, text)
        /\ PathOf[uri] \notin DOMAIN b
        /\ a = FP!With(b, PathOf[uri], [version |-> 1, text |-> text])

Changes(m, alike, b, a) ==
    \E uri \in Uri, version \in Int, events \in Seq(ClientEvents),
        text \in Utf8Strings :
        /\ m = ChangeMessage(uri, version, events)
        /\ events # <<>>
        /\ PathOf[uri] \in DOMAIN b
        /\ a = [b EXCEPT ![PathOf[uri]] = [version |-> version, text |-> text]]
        /\ alike => text = FP!EditedAll(b[PathOf[uri]].text, EditsOf(events))

Saves(m, b, a) ==
    \E uri \in Uri, version \in Int :
        /\ m = SaveMessage(uri, version)
        /\ PathOf[uri] \in DOMAIN b
        /\ b[PathOf[uri]].version = version
        /\ a = b

Closes(m, b, a) ==
    \E uri \in Uri : /\ m = CloseMessage(uri)
                     /\ a = FP!Without(b, PathOf[uri])

Linked(m, alike, b, a) ==
    \/ m \in {InitializeMessage, ExitMessage} /\ a = b
    \/ m = ShutdownMessage /\ a = NoDocuments
    \/ Opens(m, b, a) \/ Changes(m, alike, b, a) \/ Saves(m, b, a) \/ Closes(m, b, a)

\* Each message of a queue goes on from the one before it.
Chained(q, from, to) ==
    /\ \E E : q \in Seq(E)
    /\ \A i \in 1 .. Len(q) :
          Linked(q[i].message, q[i].alike,
                 IF i = 1 THEN from ELSE q[i - 1].after, q[i].after)
    /\ to = IF q = <<>> THEN from ELSE q[Len(q)].after

\* Two sets of documents with the same paths and versions, and the same
\* texts if the positions could be trusted so far.
Agrees(d, b, trusted) ==
    /\ DOMAIN d = DOMAIN b
    /\ \A path \in DOMAIN d : d[path].version = b[path].version
    /\ trusted => d = b

\* Less is said where less is alike.
LEMMA LinkedLess ==
    ASSUME NEW m, NEW b, NEW a, NEW alike, NEW trusted, trusted => alike,
           Linked(m, alike, b, a)
    PROVE  Linked(m, trusted, b, a)
<1>1. CASE Changes(m, alike, b, a)
  BY <1>1 DEF Changes, Linked
<1>2. QED
  BY <1>1 DEF Linked

\* One message more.
LEMMA ChainAppend ==
    ASSUME NEW q, NEW from, NEW to, NEW x, Chained(q, from, to),
           Linked(x.message, x.alike, to, x.after)
    PROVE  Chained(Append(q, x), from, x.after)
<1>1. PICK E : q \in Seq(E)
  BY DEF Chained
<1> DEFINE more == Append(q, x)
           n == Len(q)
           F == E \cup {x}
<1>2. q \in Seq(F) /\ x \in F /\ n \in Nat
  BY <1>1
<1> HIDE DEF F
<1>3. /\ more \in Seq(F) /\ Len(more) = n + 1 /\ more # <<>>
      /\ \A i \in 1 .. n : more[i] = q[i]
      /\ more[n + 1] = x
  BY <1>2
<1> HIDE DEF more
<1>4. ASSUME NEW i \in 1 .. n + 1
      PROVE  Linked(more[i].message, more[i].alike,
                    IF i = 1 THEN from ELSE more[i - 1].after, more[i].after)
  <2>1. CASE i \in 1 .. n
    <3>1. i = 1 \/ i - 1 \in 1 .. n
      BY <1>2, <2>1
    <3>2. more[i] = q[i] /\ (i # 1 => more[i - 1] = q[i - 1])
      BY <1>3, <2>1, <3>1
    <3>3. QED
      BY <2>1, <3>2 DEF Chained
  <2>2. CASE i = n + 1
    <3>1. to = IF i = 1 THEN from ELSE more[i - 1].after
      <4>1. CASE n = 0
        <5>1. q = <<>>
          BY <1>2, <4>1
        <5>2. QED
          BY <2>2, <4>1, <5>1 DEF Chained
      <4>2. CASE n # 0
        <5>1. q # <<>> /\ n \in 1 .. n /\ i - 1 = n /\ i # 1
          BY <1>2, <2>2, <4>2
        <5>2. QED
          BY <1>3, <5>1 DEF Chained
      <4>3. QED
        BY <4>1, <4>2
    <3>2. QED
      BY <1>3, <2>2, <3>1
  <2>3. QED
    BY <1>2, <2>1, <2>2
<1>5. \E G : more \in Seq(G)
  BY <1>3
<1>6. QED
  BY <1>3, <1>4, <1>5 DEF Chained, more

\* One message less.
LEMMA ChainTail ==
    ASSUME NEW q, NEW from, NEW to, Chained(q, from, to), q # <<>>
    PROVE  /\ Linked(Head(q).message, Head(q).alike, from, Head(q).after)
           /\ Chained(Tail(q), Head(q).after, to)
<1>1. PICK E : q \in Seq(E)
  BY DEF Chained
<1> DEFINE n == Len(q)
           rest == Tail(q)
<1>2. /\ n \in Nat /\ n >= 1 /\ Head(q) = q[1]
      /\ rest \in Seq(E) /\ Len(rest) = n - 1
      /\ \A i \in 1 .. n - 1 : rest[i] = q[i + 1]
  BY <1>1
<1> HIDE DEF rest
<1>8. rest = <<>> <=> n = 1
  BY <1>2
<1>3. \A i \in 1 .. n : Linked(q[i].message, q[i].alike,
                               IF i = 1 THEN from ELSE q[i - 1].after, q[i].after)
  BY DEF Chained
<1>4. Linked(q[1].message, q[1].alike, from, q[1].after)
  <2>1. 1 \in 1 .. n
    BY <1>2
  <2>2. QED
    BY <1>3, <2>1
<1>5. ASSUME NEW i \in 1 .. n - 1
      PROVE  Linked(rest[i].message, rest[i].alike,
                    IF i = 1 THEN q[1].after ELSE rest[i - 1].after, rest[i].after)
  <2>1. /\ i + 1 \in 1 .. n /\ i + 1 # 1 /\ (i + 1) - 1 = i
        /\ i = 1 \/ (i - 1 \in 1 .. n - 1 /\ (i - 1) + 1 = i)
    BY <1>2
  <2>2. rest[i] = q[i + 1] /\ (i # 1 => rest[i - 1] = q[i])
    BY <1>2, <2>1
  <2>3. q[i].after = IF i = 1 THEN q[1].after ELSE rest[i - 1].after
    BY <2>2
  <2>4. Linked(q[i + 1].message, q[i + 1].alike, q[i].after, q[i + 1].after)
    BY <1>3, <2>1
  <2>5. QED
    BY <2>2, <2>3, <2>4
<1>6. to = IF rest = <<>> THEN q[1].after ELSE rest[n - 1].after
  <2>1. to = q[n].after
    BY DEF Chained
  <2>2. n = 1 \/ rest[n - 1] = q[n]
    BY <1>2
  <2>3. QED
    BY <1>2, <1>8, <2>1, <2>2
<1>7. QED
  BY <1>2, <1>4, <1>5, <1>6 DEF Chained, rest

\* No message.
LEMMA ChainNothing == \A from : Chained(<<>>, from, from)
<1>1. <<>> \in Seq({})
  OBVIOUS
<1>2. Len(<<>>) = 0
  OBVIOUS
<1>3. QED
  BY <1>1, <1>2 DEF Chained

-----------------------------------------------------------------------------
(***************************************************************************)
(* The documents of the client, as the server should have them.            *)
(***************************************************************************)
IsDocument(d) ==
    /\ d = [version |-> d.version, text |-> d.text, told |-> d.told,
            unsent |-> d.unsent, alike |-> d.alike]
    /\ d.version \in Int
    /\ d.text \in Utf8Strings /\ d.told \in Utf8Strings
    /\ d.unsent \in Seq(ClientEvents)
    /\ d.alike \in BOOLEAN
    /\ d.alike => FP!EditedAll(d.told, EditsOf(d.unsent)) = d.text

AreDocuments(f) == /\ DOMAIN f \subseteq Uri
                   /\ f = [u \in DOMAIN f |-> f[u]]
                   /\ \A u \in DOMAIN f : IsDocument(f[u])

\* The paths of the documents, with their versions and what was told of them.
IsSnapshot(s, f) ==
    /\ s = [path \in DOMAIN s |-> s[path]]
    /\ \A path \in DOMAIN s : \E u \in DOMAIN f : path = PathOf[u]
    /\ \A u \in DOMAIN f : /\ PathOf[u] \in DOMAIN s
                           /\ s[PathOf[u]] = [version |-> f[u].version, text |-> f[u].told]

\* A URI is the one URI of its path.
LEMMA SnapshotIs ==
    ASSUME NEW f, DOMAIN f \subseteq Uri
    PROVE  /\ IsSnapshot(Snapshot(f), f)
           /\ \A u \in Uri : PathOf[u] \in DOMAIN Snapshot(f) <=> u \in DOMAIN f
<1>1. ASSUME NEW u \in Uri
      PROVE  (CHOOSE v \in Uri : PathOf[v] = PathOf[u]) = u
  BY NamesAssumption
<1> DEFINE s == Snapshot(f)
           of(path) == LET document == f[CHOOSE u \in Uri : PathOf[u] = path]
                       IN  [version |-> document.version, text |-> document.told]
<1>2. s = [path \in {PathOf[u] : u \in DOMAIN f} |-> of(path)]
  BY DEF Snapshot
<1>3. \A u \in DOMAIN f : of(PathOf[u]) = [version |-> f[u].version, text |-> f[u].told]
  BY <1>1
<1> HIDE DEF of, s
<1>4. IsSnapshot(s, f)
  BY <1>2, <1>3 DEF IsSnapshot
<1>5. \A u \in Uri : PathOf[u] \in DOMAIN s <=> u \in DOMAIN f
  BY <1>2, NamesAssumption
<1>6. QED
  BY <1>4, <1>5 DEF s

\* There is one.
LEMMA SnapshotUnique ==
    ASSUME NEW f, NEW s, NEW r, IsSnapshot(s, f), IsSnapshot(r, f)
    PROVE  s = r
<1>1. DOMAIN s = DOMAIN r
  <2>1. /\ \A path \in DOMAIN s : \E u \in DOMAIN f : path = PathOf[u]
        /\ \A path \in DOMAIN r : \E u \in DOMAIN f : path = PathOf[u]
        /\ \A u \in DOMAIN f : PathOf[u] \in DOMAIN s /\ PathOf[u] \in DOMAIN r
    BY DEF IsSnapshot
  <2>2. QED
    BY <2>1
<1>2. ASSUME NEW path \in DOMAIN s
      PROVE  s[path] = r[path]
  <2>1. PICK u \in DOMAIN f : path = PathOf[u]
    BY DEF IsSnapshot
  <2>2. QED
    BY <2>1 DEF IsSnapshot
<1>3. QED
  BY <1>1, <1>2 DEF IsSnapshot

\* The same versions and texts that were told.
LEMMA SnapshotSame ==
    ASSUME NEW f, NEW g, DOMAIN f \subseteq Uri, DOMAIN g = DOMAIN f,
           \A u \in DOMAIN f : g[u].version = f[u].version /\ g[u].told = f[u].told
    PROVE  Snapshot(g) = Snapshot(f)
<1>1. IsSnapshot(Snapshot(f), f) /\ IsSnapshot(Snapshot(g), g)
  BY SnapshotIs
<1>2. IsSnapshot(Snapshot(f), g)
  BY <1>1 DEF IsSnapshot
<1>3. QED
  BY <1>1, <1>2, SnapshotUnique

\* One document more,
LEMMA SnapshotWith ==
    ASSUME NEW f, DOMAIN f \subseteq Uri, NEW u \in Uri, u \notin DOMAIN f, NEW d
    PROVE  Snapshot(FP!With(f, u, d))
             = FP!With(Snapshot(f), PathOf[u], [version |-> d.version, text |-> d.told])
<1> DEFINE g == FP!With(f, u, d)
           s == Snapshot(f)
           v == [version |-> d.version, text |-> d.told]
           r == FP!With(s, PathOf[u], v)
<1>1. /\ DOMAIN g = DOMAIN f \cup {u} /\ DOMAIN g \subseteq Uri
      /\ g[u] = d /\ \A w \in DOMAIN f : g[w] = f[w]
  BY DEF FP!With, FP!Over
<1>2. /\ r = [path \in DOMAIN r |-> r[path]]
      /\ DOMAIN r = DOMAIN s \cup {PathOf[u]}
      /\ r[PathOf[u]] = v /\ \A path \in DOMAIN s \ {PathOf[u]} : r[path] = s[path]
  BY DEF FP!With, FP!Over
<1>3. IsSnapshot(s, f) /\ IsSnapshot(Snapshot(g), g) /\ PathOf[u] \notin DOMAIN s
  BY <1>1, SnapshotIs
<1> HIDE DEF g, r, s
<1>4. IsSnapshot(r, g)
  BY <1>1, <1>2, <1>3 DEF IsSnapshot
<1>5. QED
  BY <1>3, <1>4, SnapshotUnique DEF g, r, s

\* another one in its place,
LEMMA SnapshotExcept ==
    ASSUME NEW f, DOMAIN f \subseteq Uri, NEW u \in DOMAIN f, NEW d
    PROVE  Snapshot([f EXCEPT ![u] = d])
             = [Snapshot(f) EXCEPT ![PathOf[u]] = [version |-> d.version, text |-> d.told]]
<1> DEFINE g == [f EXCEPT ![u] = d]
           s == Snapshot(f)
           v == [version |-> d.version, text |-> d.told]
           r == [s EXCEPT ![PathOf[u]] = v]
<1>1. /\ DOMAIN g = DOMAIN f /\ DOMAIN g \subseteq Uri
      /\ g[u] = d /\ \A w \in DOMAIN f \ {u} : g[w] = f[w]
  OBVIOUS
<1>2. IsSnapshot(s, f) /\ IsSnapshot(Snapshot(g), g) /\ PathOf[u] \in DOMAIN s
  BY <1>1, SnapshotIs
<1> HIDE DEF s
<1>3. /\ r = [path \in DOMAIN r |-> r[path]] /\ DOMAIN r = DOMAIN s
      /\ r[PathOf[u]] = v /\ \A path \in DOMAIN s \ {PathOf[u]} : r[path] = s[path]
  BY <1>2
<1> HIDE DEF g, r
<1>4. \A w \in DOMAIN f : w # u => PathOf[w] # PathOf[u]
  BY NamesAssumption
<1>5. IsSnapshot(r, g)
  BY <1>1, <1>2, <1>3, <1>4 DEF IsSnapshot
<1>6. QED
  BY <1>2, <1>5, SnapshotUnique DEF g, r, s

\* and one less.
LEMMA SnapshotWithout ==
    ASSUME NEW f, DOMAIN f \subseteq Uri, NEW u \in Uri
    PROVE  Snapshot(FP!Without(f, u)) = FP!Without(Snapshot(f), PathOf[u])
<1> DEFINE g == FP!Without(f, u)
           s == Snapshot(f)
           r == FP!Without(s, PathOf[u])
<1>1. /\ DOMAIN g = DOMAIN f \ {u} /\ DOMAIN g \subseteq Uri
      /\ \A w \in DOMAIN g : g[w] = f[w]
  BY DEF FP!Without
<1>2. /\ r = [path \in DOMAIN r |-> r[path]] /\ DOMAIN r = DOMAIN s \ {PathOf[u]}
      /\ \A path \in DOMAIN r : r[path] = s[path]
  BY DEF FP!Without
<1>3. IsSnapshot(s, f) /\ IsSnapshot(Snapshot(g), g)
  BY <1>1, SnapshotIs
<1> HIDE DEF g, r, s
<1>4. \A w \in DOMAIN f : w # u => PathOf[w] # PathOf[u]
  BY NamesAssumption
<1>5. IsSnapshot(r, g)
  BY <1>1, <1>2, <1>3, <1>4 DEF IsSnapshot
<1>6. QED
  BY <1>3, <1>5, SnapshotUnique DEF g, r, s

\* None at all.
LEMMA SnapshotOfNone == Snapshot(NoDocuments) = NoDocuments
<1>1. DOMAIN NoDocuments = {} /\ NoDocuments = [x \in DOMAIN NoDocuments |-> NoDocuments[x]]
  BY DEF NoDocuments
<1>2. IsSnapshot(NoDocuments, NoDocuments)
  BY <1>1 DEF IsSnapshot
<1>3. IsSnapshot(Snapshot(NoDocuments), NoDocuments)
  BY <1>1, SnapshotIs
<1>4. QED
  BY <1>2, <1>3, SnapshotUnique

-----------------------------------------------------------------------------
(***************************************************************************)
(* The invariant.                                                          *)
(***************************************************************************)
\* The messages on their way lead from what the server has been sent to what
\* the client has told.
QueueInv == Chained(queue, copy.after, Snapshot(client.documents))

\* The edits that are not told yet lead from the text that was told to the
\* text of the client, as long as the positions mean the same to both.
ClientInv ==
    /\ client = [phase |-> client.phase, documents |-> client.documents,
                 shutdown |-> client.shutdown]
    /\ AreDocuments(client.documents)
    /\ Phase("begun") => client.documents = NoDocuments

\* The version that a save brings.
SavedVersion == Property(Property(request.params, "textDocument"), "version").number

SaveRight == request.method = String("textDocument/didSave") =>
                call.op \in {"save", "returned"} /\ call.want = SavedVersion

\* The message that is handled leads from the documents of the server to those
\* that the client had; the call of the handler, once made, promises them.
ServerInv ==
    /\ copy.trusted \in BOOLEAN
    /\ ~Busy => FP!Doing("idle")
    /\ ~Busy \/ ~FP!Doing("idle") => Agrees(docs, copy.after, copy.trusted)
    /\ Busy => \E m, b : /\ request = Parsed(m)
                         /\ Linked(m, copy.trusted, b, copy.after)
                         /\ FP!Doing("idle") => Agrees(docs, b, copy.trusted)
    /\ Busy /\ ~FP!Doing("idle") => SaveRight

ServerTyped == server \in [initialized : BOOLEAN, shutdown_requested : BOOLEAN]

\* The client is told that it is initialized.
Welcomed == /\ process = S!Waiting
            /\ request.method = String("initialize")
            /\ replies = <<json_rpc_success(Number(1))>>

\* Nothing but the request to initialize is sent to a server that is not, nor
\* does it handle anything else.
ReadyInv ==
    /\ ServerTyped
    /\ client.phase \in {"editing", "ending", "ended", "left"} => server.initialized
    /\ \A i \in 1 .. Len(queue) :
          server.initialized \/ queue[i].message = InitializeMessage
    /\ Busy => \/ server.initialized
               \/ request.method = String("initialize") /\ replies = <<>> /\ FP!Doing("idle")
    /\ Welcomed => server.initialized

Inv == FilesInv /\ QueueInv /\ ClientInv /\ ServerInv /\ ReadyInv

\* It holds at the start.
LEMMA InitInv == ASSUME Init PROVE Inv
<1> USE FileNames, FileTexts
<1>1. /\ client = [phase |-> "begun", documents |-> NoDocuments, shutdown |-> FALSE]
      /\ queue = <<>>
      /\ copy = [trusted |-> TRUE, before |-> NoDocuments, after |-> NoDocuments]
      /\ S!Init
  BY DEF Init
<1>2. FP!Init
  BY <1>1, SameEnds DEF S!Init
<1>3. DOMAIN heap = {} /\ call.op = "idle" /\ docs = NoDocuments
  BY <1>2 DEF FP!Init, FP!Idle, FP!NoDocs, NoDocuments
<1>4. FilesInv
  <2>1. FP!Holding
    BY <1>2, FP!InitHolding
  <2>2. WholeCodepoints
    BY <1>3 DEF WholeCodepoints, NeverSplits, FP!Doing
  <2>3. QED
    BY <2>1, <2>2 DEF FilesInv
<1>5. QueueInv
  BY <1>1, SnapshotOfNone, ChainNothing DEF QueueInv
<1>6. ClientInv
  BY <1>1 DEF ClientInv, AreDocuments, NoDocuments
<1>7. /\ ~Busy /\ process = S!Waiting
      /\ server = [initialized |-> FALSE, shutdown_requested |-> FALSE]
      /\ replies = <<>>
  BY <1>1 DEF S!Init, Busy, S!Waiting, S!Handling
<1>8. ServerInv
  <2>1. Agrees(docs, copy.after, copy.trusted)
    BY <1>1, <1>3 DEF Agrees
  <2>2. QED
    BY <1>1, <1>3, <1>7, <2>1 DEF ServerInv, FP!Doing
<1>9. ReadyInv
  <2>1. Len(queue) = 0
    BY <1>1
  <2>2. ~Welcomed
    BY <1>7 DEF Welcomed
  <2>3. QED
    BY <1>1, <1>7, <2>1, <2>2 DEF ReadyInv, ServerTyped
<1>10. QED
  BY <1>4, <1>5, <1>6, <1>8, <1>9 DEF Inv

-----------------------------------------------------------------------------
(***************************************************************************)
(* The server.                                                             *)
(***************************************************************************)

\* What is known when a handler has begun.
Handled(a, trusted) ==
    /\ FileStep
    /\ UNCHANGED request
    /\ Agrees(docs', a, trusted)
    /\ server.initialized => server'.initialized
    /\ \/ ~Busy' /\ FP!Doing("idle")' /\ (Welcomed' => server'.initialized)
       \/ /\ UNCHANGED <<server, process>>
          /\ server.initialized
          /\ ~FP!Doing("idle")'
          /\ SaveRight'

\* The methods are different.
LEMMA OtherMethods ==
    \A x, y : String(x) = String(y) <=> x = y
BY DEF String

\* initialize and exit.
LEMMA LifecycleHandled ==
    ASSUME ServerTyped, NEW m \in {InitializeMessage, ExitMessage}, NEW a, NEW trusted,
           request = Parsed(m), Agrees(docs, a, trusted), FP!Doing("idle"),
           \/ server.initialized
           \/ request.method = String("initialize") /\ replies = <<>>,
           Begins
    PROVE  Handled(a, trusted)
<1>1. /\ UNCHANGED <<request, fs, heap, chunked, call, docs>> /\ ~Busy'
      /\ server.initialized => server'.initialized
      /\ Welcomed' => server'.initialized
  <2>1. CASE m = InitializeMessage
    BY <2>1, InitializeBegins DEF ServerTyped, Welcomed
  <2>2. CASE m = ExitMessage
    BY <2>2, ExitBegins DEF Welcomed
  <2>3. QED
    BY <2>1, <2>2
<1>2. QED
  BY <1>1 DEF Handled, FileStep, FP!Doing

\* shutdown: the documents go.
LEMMA ShutdownHandled ==
    ASSUME NEW trusted, request = Parsed(ShutdownMessage), server.initialized, Begins
    PROVE  Handled(NoDocuments, trusted)
<1>1. FP!CallFree /\ UNCHANGED <<server, process, request>>
  BY ShutdownBegins
<1>2. docs' = NoDocuments /\ call'.op = "free"
  BY <1>1 DEF FP!CallFree, FP!NoDocs, NoDocuments
<1>3. request.method # String("textDocument/didSave")
  BY MessagesParsed, OtherMethods DEF Request
<1>4. QED
  BY <1>1, <1>2, <1>3 DEF Handled, FileStep, CallBegins, Agrees, SaveRight, FP!Doing

\* didOpen,
LEMMA OpenHandled ==
    ASSUME NEW uri \in Uri, NEW text \in Utf8Strings, NEW b, NEW trusted,
           request = Parsed(OpenMessage(uri, text)), PathOf[uri] \notin DOMAIN b,
           Agrees(docs, b, trusted), server.initialized, Begins
    PROVE  Handled(FP!With(b, PathOf[uri], [version |-> 1, text |-> text]), trusted)
<1> USE FileNames, FileTexts
<1> DEFINE d == [version |-> 1, text |-> text]
           a == FP!With(b, PathOf[uri], d)
<1>1. FP!CallOpen(uri, 1, text) /\ UNCHANGED <<server, process, request, replies>>
  BY OpenBegins
<1>2. PathOf[uri] # NoPath
  BY NamesAssumption
<1>3. call'.op = "open"
  BY <1>1, <1>2, FP!CallOpenFacts
<1>4. docs' = FP!With(docs, PathOf[uri], d)
  BY <1>1, <1>2 DEF FP!CallOpen, FP!IsOpen, Agrees
<1>5. Agrees(docs', a, trusted)
  BY <1>4 DEF Agrees, FP!With, FP!Over
<1>6. request.method # String("textDocument/didSave")
  BY MessagesParsed, OtherMethods DEF Request
<1>7. FileStep
  BY <1>1 DEF FileStep, CallBegins
<1> HIDE DEF a
<1>8. Handled(a, trusted)
  BY <1>1, <1>3, <1>5, <1>6, <1>7 DEF Handled, SaveRight, FP!Doing
<1>9. QED
  BY <1>8 DEF a

\* didChange,
LEMMA ChangeHandled ==
    ASSUME NEW uri \in Uri, NEW version \in Int, NEW events \in Seq(ClientEvents),
           NEW text, NEW b, NEW trusted, events # <<>>,
           request = Parsed(ChangeMessage(uri, version, events)),
           PathOf[uri] \in DOMAIN b,
           trusted => text = FP!EditedAll(b[PathOf[uri]].text, EditsOf(events)),
           Agrees(docs, b, trusted), server.initialized, Begins
    PROVE  Handled([b EXCEPT ![PathOf[uri]] = [version |-> version, text |-> text]], trusted)
<1> USE FileNames, FileTexts
<1> DEFINE p == PathOf[uri]
           edited == FP!EditedAll(docs[p].text, EditsOf(events))
           a == [b EXCEPT ![p] = [version |-> version, text |-> text]]
<1>1. /\ FP!CallChange(uri, version, EditsOf(events))
      /\ UNCHANGED <<server, process, request, replies>>
  BY ChangeBegins
<1>2. PathOf[uri] # NoPath /\ EditsOf(events) \in Seq(ClientEdits)
  BY NamesAssumption, EventsRead
<1>3. call'.op = "change"
  BY <1>1, <1>2, FP!CallChangeFacts
<1>4. docs' = [docs EXCEPT ![p] = [version |-> version, text |-> edited]] /\ p \in DOMAIN docs
  BY <1>1 DEF FP!CallChange, FP!IsOpen, Agrees
<1>5. /\ DOMAIN docs = DOMAIN b /\ \A path \in DOMAIN docs : docs[path].version = b[path].version
      /\ trusted => docs = b
  BY DEF Agrees
<1>6. trusted => edited = text
  BY <1>5
<1> HIDE DEF edited, p
<1>7. Agrees(docs', a, trusted)
  <2>1. DOMAIN docs' = DOMAIN a
    BY <1>4, <1>5
  <2>2. ASSUME NEW path \in DOMAIN docs'
        PROVE  docs'[path].version = a[path].version
    BY <1>4, <1>5
  <2>3. trusted => docs' = a
    BY <1>4, <1>5, <1>6
  <2>4. QED
    BY <2>1, <2>2, <2>3 DEF Agrees
<1>8. request.method # String("textDocument/didSave")
  BY MessagesParsed, OtherMethods DEF Request
<1>9. FileStep
  BY <1>1, <1>2 DEF FileStep, CallBegins
<1> HIDE DEF a
<1>10. Handled(a, trusted)
  BY <1>1, <1>3, <1>7, <1>8, <1>9 DEF Handled, SaveRight, FP!Doing
<1>11. QED
  BY <1>10 DEF a, p

\* didSave, which compares with the version that it brings,
LEMMA SaveHandled ==
    ASSUME NEW uri \in Uri, NEW version \in Int, NEW b, NEW trusted,
           request = Parsed(SaveMessage(uri, version)), PathOf[uri] \in DOMAIN b,
           b[PathOf[uri]].version = version,
           Agrees(docs, b, trusted), server.initialized, Begins
    PROVE  Handled(b, trusted)
<1> USE FileNames, FileTexts
<1>1. FP!CallSave(uri) /\ UNCHANGED <<server, process, request, replies>>
  BY SaveBegins
<1>2. PathOf[uri] # NoPath
  BY NamesAssumption
<1>3. call'.op = "save" /\ call'.want = version
  BY <1>1, <1>2, FP!CallSaveFacts DEF FP!IsOpen, Agrees
<1>4. docs' = docs
  BY <1>1 DEF FP!CallSave
<1>5. SavedVersion = version
  <2>1. request.params = Object(SaveParams(uri, version))
    BY MessagesParsed DEF Request
  <2> DEFINE item == Object([uri |-> String(uri), version |-> Number(version)])
  <2>2. Property(Object(SaveParams(uri, version)), "textDocument") = item
    BY DEF Property, Object, SaveParams
  <2>3. Property(item, "version").number = version
    BY DEF Property, Object, Number
  <2> HIDE DEF item
  <2>4. QED
    BY <2>1, <2>2, <2>3 DEF SavedVersion
<1>6. SavedVersion' = version
  BY <1>1, <1>5 DEF SavedVersion
<1>7. FileStep
  BY <1>1 DEF FileStep, CallBegins
<1>8. QED
  BY <1>1, <1>3, <1>4, <1>6, <1>7 DEF Handled, SaveRight, FP!Doing

\* and didClose.
LEMMA CloseHandled ==
    ASSUME NEW uri \in Uri, NEW b, NEW trusted,
           request = Parsed(CloseMessage(uri)),
           Agrees(docs, b, trusted), server.initialized, Begins
    PROVE  Handled(FP!Without(b, PathOf[uri]), trusted)
<1> USE FileNames, FileTexts
<1> DEFINE a == FP!Without(b, PathOf[uri])
<1>1. FP!CallClose(uri) /\ UNCHANGED <<server, process, request, replies>>
  BY CloseBegins
<1>2. PathOf[uri] # NoPath
  BY NamesAssumption
<1>3. call'.op = "close"
  BY <1>1, <1>2, FP!CallCloseFacts
<1>4. docs' = FP!Without(docs, PathOf[uri])
  BY <1>1 DEF FP!CallClose
<1>5. Agrees(docs', a, trusted)
  BY <1>4 DEF Agrees, FP!Without
<1>6. request.method # String("textDocument/didSave")
  BY MessagesParsed, OtherMethods DEF Request
<1>7. FileStep
  BY <1>1 DEF FileStep, CallBegins
<1> HIDE DEF a
<1>8. Handled(a, trusted)
  BY <1>1, <1>3, <1>5, <1>6, <1>7 DEF Handled, SaveRight, FP!Doing
<1>9. QED
  BY <1>8 DEF a

\* All of them.
LEMMA AllHandled ==
    ASSUME ServerTyped, NEW m, NEW b, NEW a, NEW trusted,
           request = Parsed(m), Linked(m, trusted, b, a), Agrees(docs, b, trusted),
           FP!Doing("idle"),
           \/ server.initialized
           \/ request.method = String("initialize") /\ replies = <<>>,
           Begins
    PROVE  Handled(a, trusted)
<1>1. CASE m \in {InitializeMessage, ExitMessage} /\ a = b
  BY <1>1, LifecycleHandled
<1>2. CASE m = ShutdownMessage /\ a = NoDocuments
  <2>1. request.method # String("initialize")
    BY <1>2, MessagesParsed, OtherMethods DEF Request
  <2>2. QED
    BY <1>2, <2>1, ShutdownHandled
<1>3. CASE Opens(m, b, a)
  <2>1. PICK uri \in Uri, text \in Utf8Strings :
           /\ m = OpenMessage(uri, text)
           /\ PathOf[uri] \notin DOMAIN b
           /\ a = FP!With(b, PathOf[uri], [version |-> 1, text |-> text])
    BY <1>3 DEF Opens
  <2>2. request.method # String("initialize")
    BY <2>1, MessagesParsed, OtherMethods DEF Request
  <2>3. QED
    BY <2>1, <2>2, OpenHandled
<1>4. CASE Changes(m, trusted, b, a)
  <2>1. PICK uri \in Uri, version \in Int, events \in Seq(ClientEvents),
        text \in Utf8Strings :
           /\ m = ChangeMessage(uri, version, events)
           /\ events # <<>>
           /\ PathOf[uri] \in DOMAIN b
           /\ a = [b EXCEPT ![PathOf[uri]] = [version |-> version, text |-> text]]
           /\ trusted => text = FP!EditedAll(b[PathOf[uri]].text, EditsOf(events))
    BY <1>4 DEF Changes
  <2>2. request.method # String("initialize")
    BY <2>1, MessagesParsed, OtherMethods DEF Request
  <2>3. QED
    BY <2>1, <2>2, ChangeHandled
<1>5. CASE Saves(m, b, a)
  <2>1. PICK uri \in Uri, version \in Int :
           /\ m = SaveMessage(uri, version)
           /\ PathOf[uri] \in DOMAIN b
           /\ b[PathOf[uri]].version = version
           /\ a = b
    BY <1>5 DEF Saves
  <2>2. request.method # String("initialize")
    BY <2>1, MessagesParsed, OtherMethods DEF Request
  <2>3. QED
    BY <2>1, <2>2, SaveHandled
<1>6. CASE Closes(m, b, a)
  <2>1. PICK uri \in Uri : m = CloseMessage(uri) /\ a = FP!Without(b, PathOf[uri])
    BY <1>6 DEF Closes
  <2>2. request.method # String("initialize")
    BY <2>1, MessagesParsed, OtherMethods DEF Request
  <2>3. QED
    BY <2>1, <2>2, CloseHandled
<1>7. QED
  BY <1>1, <1>2, <1>3, <1>4, <1>5, <1>6 DEF Linked

\* What the server knows of its phase.
LEMMA HandleTyped ==
    ASSUME ServerTyped, S!Handle
    PROVE  ServerTyped'
<1>1. \/ UNCHANGED server
      \/ server' = [server EXCEPT !.initialized = TRUE]
      \/ server' = [server EXCEPT !.shutdown_requested = TRUE]
  <2>1. CASE S!Initialize
    BY <2>1 DEF S!Initialize, S!Finish, S!server_exit, S!Die
  <2>2. CASE S!ShutdownReturn
    BY <2>2 DEF S!ShutdownReturn
  <2>3. CASE S!Exit \/ S!InitializeFails \/ S!Shutdown \/ S!UnknownRequest
    BY <2>3 DEF S!Exit, S!InitializeFails, S!Shutdown, S!UnknownRequest, S!Finish,
                S!server_exit, S!Die
  <2>4. CASE \/ S!SkipNotification \/ S!LeaveNotification
             \/ S!NotificationReturn \/ S!FileSystemStep
    BY <2>4 DEF S!SkipNotification, S!LeaveNotification, S!NotificationReturn,
                S!FileSystemStep, S!Finish, S!Die, S!own
  <2>5. CASE S!DidOpen \/ S!DidChange \/ S!DidSave \/ S!DidClose
    BY <2>5 DEF S!DidOpen, S!DidChange, S!DidSave, S!DidClose, S!Die, S!own
  <2>6. QED
    BY <2>1, <2>2, <2>3, <2>4, <2>5 DEF S!Handle
<1>2. QED
  BY <1>1 DEF ServerTyped

\* A step of a handler keeps the invariant.
LEMMA HandleKeeps ==
    ASSUME Inv, S!Handle, UNCHANGED <<client, queue, copy>>
    PROVE  Inv'
<1>1. FilesInv /\ QueueInv /\ ClientInv /\ ServerInv /\ ReadyInv
  BY DEF Inv
<1>2. ServerTyped /\ ServerTyped'
  BY <1>1, HandleTyped DEF ReadyInv
<1>3. Busy /\ (GoesOn \/ Returns \/ (FP!Doing("idle") /\ Begins))
  BY <1>2, HandleIs DEF ServerTyped
<1>4. QueueInv' /\ ClientInv'
  BY <1>1 DEF QueueInv, ClientInv, Phase
<1>5. PICK m, b : /\ request = Parsed(m)
                  /\ Linked(m, copy.trusted, b, copy.after)
                  /\ FP!Doing("idle") => Agrees(docs, b, copy.trusted)
  BY <1>1, <1>3 DEF ServerInv
<1>6. /\ copy.trusted \in BOOLEAN
      /\ ~FP!Doing("idle") => Agrees(docs, copy.after, copy.trusted) /\ SaveRight
      /\ \/ server.initialized
         \/ request.method = String("initialize") /\ replies = <<>> /\ FP!Doing("idle")
  BY <1>1, <1>3 DEF ServerInv, ReadyInv
<1>7. CASE GoesOn
  <2>1. /\ FP!Work /\ UNCHANGED <<server, process, request, replies>>
        /\ docs' = docs /\ ~FP!Doing("idle") /\ ~FP!Doing("idle")'
        /\ call.op # "returned"
        /\ call.op = "save" => call'.op \in {"save", "returned"} /\ call'.want = call.want
    BY <1>1, <1>7, WorkGoesOn DEF GoesOn, FP!Doing
  <2>2. FilesInv'
    BY <1>1, <2>1, FilesKept DEF FileStep
  <2>3. SaveRight'
    BY <1>6, <2>1 DEF SaveRight, SavedVersion
  <2>4. Agrees(docs', copy'.after, copy'.trusted)
    BY <1>6, <2>1
  <2>5. ServerInv'
    BY <1>3, <1>5, <1>6, <2>1, <2>3, <2>4 DEF ServerInv, Busy
  <2>6. ReadyInv'
    BY <1>1, <1>2, <1>6, <2>1 DEF ReadyInv, Welcomed
  <2>7. QED
    BY <1>4, <2>2, <2>5, <2>6 DEF Inv
<1>8. CASE Returns
  <2>1. /\ FP!Receive /\ process' = S!Waiting /\ UNCHANGED request
        /\ server.initialized => server'.initialized
        /\ docs' = docs /\ ~FP!Doing("idle") /\ FP!Doing("idle")'
    BY <1>8 DEF Returns, FP!Receive, FP!Doing, FP!Idle
  <2>2. FilesInv'
    BY <1>1, <2>1, FilesKept DEF FileStep
  <2>3. ~Busy' /\ server'.initialized
    BY <1>6, <2>1 DEF Busy, S!Waiting, S!Handling
  <2>4. ServerInv'
    BY <1>6, <2>1, <2>3 DEF ServerInv
  <2>5. ReadyInv'
    BY <1>2, <2>3 DEF ReadyInv
  <2>6. QED
    BY <1>4, <2>2, <2>4, <2>5 DEF Inv
<1>9. CASE FP!Doing("idle") /\ Begins
  <2>1. Handled(copy.after, copy.trusted)
    BY <1>2, <1>5, <1>6, <1>9, AllHandled
  <2>2. /\ FileStep /\ UNCHANGED request
        /\ Agrees(docs', copy.after, copy.trusted)
        /\ server.initialized => server'.initialized
        /\ \/ ~Busy' /\ FP!Doing("idle")' /\ (Welcomed' => server'.initialized)
           \/ /\ UNCHANGED <<server, process>> /\ server.initialized
              /\ ~FP!Doing("idle")' /\ SaveRight'
    BY <2>1 DEF Handled
  <2>3. FilesInv'
    BY <1>1, <2>2, FilesKept
  <2>4. ServerInv'
    BY <1>3, <1>5, <1>6, <2>2 DEF ServerInv, Busy
  <2>5. ReadyInv'
    <3>1. /\ client'.phase \in {"editing", "ending", "ended", "left"} => server'.initialized
          /\ \A i \in 1 .. Len(queue') :
                server'.initialized \/ queue'[i].message = InitializeMessage
      BY <1>1, <2>2 DEF ReadyInv
    <3>2. CASE ~Busy' /\ FP!Doing("idle")' /\ (Welcomed' => server'.initialized)
      BY <1>2, <3>1, <3>2 DEF ReadyInv
    <3>3. CASE UNCHANGED <<server, process>> /\ server.initialized
      BY <1>2, <2>2, <3>1, <3>3 DEF ReadyInv
    <3>4. QED
      BY <2>2, <3>2, <3>3
  <2>6. QED
    BY <1>4, <2>3, <2>4, <2>5 DEF Inv
<1>10. QED
  BY <1>3, <1>7, <1>8, <1>9

\* Each message of a client is a request or a notification.
LEMMA LinkedParsed ==
    ASSUME NEW m, NEW alike, NEW b, NEW a, Linked(m, alike, b, a)
    PROVE  m # S!Garbage /\ Parsed(m).valid
<1>1. CASE m \in {InitializeMessage, ShutdownMessage}
  BY <1>1, RequestParsed, MessagesParsed
     DEF InitializeMessage, InitializeParams, ShutdownMessage, Request
<1>2. CASE m = ExitMessage
  BY <1>2, NotificationParsed DEF ExitMessage, Notification, Request
<1>3. CASE Opens(m, b, a)
  BY <1>3, NotificationParsed DEF Opens, OpenMessage, Request
<1>4. CASE Changes(m, alike, b, a)
  BY <1>4, NotificationParsed DEF Changes, ChangeMessage, Request
<1>5. CASE Saves(m, b, a)
  BY <1>5, NotificationParsed DEF Saves, SaveMessage, Request
<1>6. CASE Closes(m, b, a)
  BY <1>6, NotificationParsed DEF Closes, CloseMessage, Request
<1>7. QED
  BY <1>1, <1>2, <1>3, <1>4, <1>5, <1>6 DEF Linked

\* A message arrives.
LEMMA Arrives ==
    ASSUME Inv, Arrive
    PROVE  /\ Linked(Head(queue).message, Head(queue).alike, copy.after, Head(queue).after)
           /\ request' = Parsed(Head(queue).message)
           /\ process = S!Waiting /\ process' = S!Handling /\ replies' = <<>>
           /\ UNCHANGED <<client, server, fs, heap, chunked, call, docs>>
           /\ queue # <<>> /\ queue' = Tail(queue)
           /\ copy'.trusted = (copy.trusted /\ Head(queue).alike)
           /\ copy'.before = FM!View
           /\ copy'.after = Head(queue).after
<1> DEFINE x == Head(queue)
<1>1. /\ queue # <<>> /\ queue' = Tail(queue) /\ S!Take(x.message)
      /\ copy' = [trusted |-> copy.trusted /\ x.alike,
                  before |-> FM!View, after |-> x.after]
      /\ UNCHANGED client
  BY DEF Arrive
<1>2. Linked(x.message, x.alike, copy.after, x.after)
  BY <1>1, ChainTail DEF Inv, QueueInv
<1>3. x.message # S!Garbage /\ Parsed(x.message).valid
  BY <1>2, LinkedParsed
<1>4. /\ process = S!Waiting /\ request' = Parsed(x.message)
      /\ process' = S!Handling /\ replies' = <<>>
      /\ UNCHANGED <<server, fs, heap, chunked, call, docs>>
  BY <1>1, <1>3 DEF S!Take, Parsed, S!fsvars
<1> HIDE DEF x
<1>5. /\ copy'.trusted = (copy.trusted /\ x.alike)
      /\ copy'.before = FM!View /\ copy'.after = x.after
  BY <1>1
<1>6. QED
  BY <1>1, <1>2, <1>4, <1>5 DEF x

\* It keeps the invariant.
LEMMA ArriveKeeps == ASSUME Inv, Arrive PROVE Inv'
<1> DEFINE x == Head(queue)
<1>1. FilesInv /\ QueueInv /\ ClientInv /\ ServerInv /\ ReadyInv
  BY DEF Inv
<1>2. /\ Linked(x.message, x.alike, copy.after, x.after)
      /\ request' = Parsed(x.message)
      /\ process = S!Waiting /\ process' = S!Handling /\ replies' = <<>>
      /\ UNCHANGED <<client, server, fs, heap, chunked, call, docs>>
      /\ queue # <<>> /\ queue' = Tail(queue)
      /\ copy'.trusted = (copy.trusted /\ x.alike)
      /\ copy'.after = x.after
  BY Arrives
<1>3. FilesInv'
  BY <1>1, <1>2, FilesKept DEF FileStep
<1>4. QueueInv' /\ ClientInv'
  <2>1. Chained(Tail(queue), x.after, Snapshot(client.documents))
    BY <1>1, <1>2, ChainTail DEF QueueInv
  <2>2. QED
    BY <1>1, <1>2, <2>1 DEF QueueInv, ClientInv, Phase
<1>5. ~Busy /\ Busy'
  BY <1>2 DEF Busy, S!Waiting, S!Handling
<1>6. FP!Doing("idle") /\ FP!Doing("idle")' /\ Agrees(docs, copy.after, copy.trusted)
  BY <1>1, <1>2, <1>5 DEF ServerInv, FP!Doing
<1> HIDE DEF x
<1>7. copy'.trusted \in BOOLEAN /\ (copy'.trusted => copy.trusted /\ x.alike)
  BY <1>2
<1>8. Linked(x.message, copy'.trusted, copy.after, copy'.after)
  BY <1>2, <1>7, LinkedLess
<1>9. Agrees(docs', copy.after, copy'.trusted)
  BY <1>2, <1>6, <1>7 DEF Agrees
<1>10. ServerInv'
  BY <1>2, <1>5, <1>6, <1>7, <1>8, <1>9 DEF ServerInv
<1>11. ReadyInv'
  <2>1. PICK E : queue \in Seq(E)
    BY <1>1 DEF QueueInv, Chained
  <2>2. /\ Len(queue) >= 1 /\ x = queue[1]
        /\ \A i \in 1 .. Len(queue') : i + 1 \in 1 .. Len(queue) /\ queue'[i] = queue[i + 1]
    BY <1>2, <2>1 DEF x
  <2>3. 1 \in 1 .. Len(queue)
    BY <2>1, <2>2
  <2>4. server.initialized \/ x.message = InitializeMessage
    BY <1>1, <2>2, <2>3 DEF ReadyInv
  <2>5. \A i \in 1 .. Len(queue') :
           server'.initialized \/ queue'[i].message = InitializeMessage
    BY <1>1, <1>2, <2>2 DEF ReadyInv
  <2>6. server'.initialized \/ request'.method = String("initialize")
    BY <1>2, <2>4, MessagesParsed DEF Request
  <2>7. /\ ServerTyped'
        /\ client'.phase \in {"editing", "ending", "ended", "left"} => server'.initialized
    BY <1>1, <1>2 DEF ReadyInv, ServerTyped
  <2>8. ~Welcomed'
    BY <1>5 DEF Welcomed, Busy, S!Waiting, S!Handling
  <2>9. QED
    BY <1>2, <1>6, <2>5, <2>6, <2>7, <2>8 DEF ReadyInv
<1>12. QED
  BY <1>3, <1>4, <1>10, <1>11 DEF Inv

\* There is nothing more to read.
LEMMA PipeEndsKeeps == ASSUME Inv, PipeEnds PROVE Inv'
<1>1. /\ process = S!Waiting /\ process' = S!Exited(0, "input")
      /\ UNCHANGED <<client, queue, copy, server, request, replies, fs, heap, chunked, call, docs>>
  BY DEF PipeEnds, S!EndOfInput, S!Die, S!fsvars
<1>2. FilesInv /\ QueueInv /\ ClientInv /\ ServerInv /\ ReadyInv
  BY DEF Inv
<1>3. ~Busy /\ ~Busy' /\ process' # S!Waiting
  BY <1>1 DEF Busy, S!Waiting, S!Handling, S!Exited
<1>4. FilesInv'
  BY <1>1, <1>2, FilesKept DEF FileStep
<1>5. QueueInv' /\ ClientInv'
  BY <1>1, <1>2 DEF QueueInv, ClientInv, Phase
<1>6. ServerInv'
  BY <1>1, <1>2, <1>3 DEF ServerInv, FP!Doing
<1>7. ReadyInv'
  BY <1>1, <1>2, <1>3 DEF ReadyInv, ServerTyped, Welcomed
<1>8. QED
  BY <1>4, <1>5, <1>6, <1>7 DEF Inv

-----------------------------------------------------------------------------
(***************************************************************************)
(* The client.                                                             *)
(***************************************************************************)

\* What the client does leaves the server alone.
LEMMA ClientKeeps ==
    ASSUME Inv, UNCHANGED copy, UNCHANGED servervars, QueueInv', ClientInv',
           client'.phase \in {"editing", "ending", "ended", "left"} => server.initialized,
           \A i \in 1 .. Len(queue') :
              server.initialized \/ queue'[i].message = InitializeMessage
    PROVE  Inv'
<1>1. FilesInv /\ ServerInv /\ ReadyInv
  BY DEF Inv
<1>2. UNCHANGED <<copy, server, process, request, replies, fs, heap, chunked, call, docs>>
  BY DEF servervars
<1>3. FilesInv'
  BY <1>1, <1>2, FilesKept DEF FileStep
<1>4. ServerInv'
  BY <1>1, <1>2 DEF ServerInv, Busy, FP!Doing, SaveRight, SavedVersion
<1>5. ReadyInv'
  BY <1>1, <1>2 DEF ReadyInv, ServerTyped, Busy, FP!Doing, Welcomed
<1>6. QED
  BY <1>3, <1>4, <1>5 DEF Inv

\* A message more, from a client that is initialized or asks to be.
LEMMA QueueGrows ==
    ASSUME Inv, NEW x, queue' = Append(queue, x),
           server.initialized \/ x.message = InitializeMessage
    PROVE  \A i \in 1 .. Len(queue') :
              server.initialized \/ queue'[i].message = InitializeMessage
<1>1. PICK E : queue \in Seq(E)
  BY DEF Inv, QueueInv, Chained
<1> DEFINE F == E \cup {x}
<1>2. queue \in Seq(F) /\ x \in F
  BY <1>1
<1> HIDE DEF F
<1>3. /\ Len(queue') = Len(queue) + 1 /\ Len(queue) \in Nat
      /\ \A i \in 1 .. Len(queue) : queue'[i] = queue[i]
      /\ queue'[Len(queue) + 1] = x
  BY <1>2
<1>4. \A i \in 1 .. Len(queue) : server.initialized \/ queue[i].message = InitializeMessage
  BY DEF Inv, ReadyInv
<1>5. QED
  BY <1>3, <1>4

\* A document with another one in its place.
LEMMA DocumentsExcept ==
    ASSUME NEW f, AreDocuments(f), NEW u \in DOMAIN f, NEW d, IsDocument(d)
    PROVE  AreDocuments([f EXCEPT ![u] = d])
<1> DEFINE g == [f EXCEPT ![u] = d]
<1>1. /\ DOMAIN f \subseteq Uri /\ f = [w \in DOMAIN f |-> f[w]]
      /\ \A w \in DOMAIN f : IsDocument(f[w])
  BY DEF AreDocuments
<1>2. /\ DOMAIN g = DOMAIN f /\ g = [w \in DOMAIN g |-> g[w]]
      /\ g[u] = d /\ \A w \in DOMAIN f : w # u => g[w] = f[w]
  BY <1>1
<1> HIDE DEF g
<1>3. \A w \in DOMAIN g : IsDocument(g[w])
  BY <1>1, <1>2
<1>4. AreDocuments(g)
  BY <1>1, <1>2, <1>3 DEF AreDocuments
<1>5. QED
  BY <1>4 DEF g

\* A notification is sent.
LEMMA SendKeeps ==
    ASSUME Inv, NEW message, NEW documents, NEW alike, Phase("editing"),
           Send(message, documents, alike),
           Linked(message, alike, Snapshot(client.documents), Snapshot(documents)),
           AreDocuments(documents)
    PROVE  Inv'
<1> DEFINE x == [message |-> message, after |-> Snapshot(documents), alike |-> alike]
<1>1. /\ queue' = Append(queue, x) /\ client' = [client EXCEPT !.documents = documents]
      /\ UNCHANGED copy /\ UNCHANGED servervars
  BY DEF Send
<1>2. QueueInv /\ ClientInv /\ ReadyInv
  BY DEF Inv
<1>3. /\ client'.documents = documents /\ client'.phase = "editing"
      /\ client' = [phase |-> client'.phase, documents |-> client'.documents,
                    shutdown |-> client'.shutdown]
  BY <1>1, <1>2 DEF ClientInv, Phase
<1>4. /\ x.message = message /\ x.after = Snapshot(documents) /\ x.alike = alike
  OBVIOUS
<1> HIDE DEF x
<1>5. QueueInv'
  <2>1. Chained(Append(queue, x), copy.after, x.after)
    BY <1>2, <1>4, ChainAppend DEF QueueInv
  <2>2. QED
    BY <1>1, <1>3, <1>4, <2>1 DEF QueueInv
<1>6. ClientInv'
  BY <1>3 DEF ClientInv, Phase
<1>7. server.initialized
  BY <1>2 DEF ReadyInv, Phase
<1>8. QED
  BY <1>1, <1>5, <1>6, <1>7, ClientKeeps, QueueGrows

\* The instances have their functions in common, too.
LEMMA SameWith ==
    /\ \A op : FM!Doing(op) = FP!Doing(op)
    /\ \A f, x, v : FM!With(f, x, v) = FP!With(f, x, v)
    /\ \A f, x : FM!Without(f, x) = FP!Without(f, x)
<1>1. \A f, g : FM!Over(f, g) = FP!Over(f, g)
  BY DEF FM!Over, FP!Over
<1>2. QED
  BY <1>1 DEF FM!Doing, FP!Doing, FM!With, FP!With, FM!Without, FP!Without

\* A text that nothing was done to.
LEMMA NothingEdited ==
    ASSUME NEW t \in Utf8Strings
    PROVE  FP!EditedAll(t, EditsOf(<<>>)) = t
<1>1. <<>> \in Seq(ClientEvents) /\ <<>> \in Seq(FP!Edits)
  OBVIOUS
<1>2. EditsOf(<<>>) = <<>>
  BY <1>1, EventsRead
<1>3. t \in FP!ByteStrings
  BY ClientEditsAre
<1>4. FP!EditedAll(t, <<>>) = t
  BY <1>1, <1>3, FP!EditedAllFacts, FileNames, FileTexts
<1>5. QED
  BY <1>2, <1>4

\* A document is opened,
LEMMA OpenKeeps ==
    ASSUME Inv, NEW uri \in Uri, NEW text \in Texts, Open(uri, text)
    PROVE  Inv'
<1> USE FileNames, FileTexts
<1> DEFINE document == [version |-> 1, text |-> text, told |-> text,
                        unsent |-> <<>>, alike |-> TRUE]
           documents == FP!With(client.documents, uri, document)
<1>1. /\ Phase("editing") /\ uri \notin DOMAIN client.documents
      /\ Send(OpenMessage(uri, text), documents, TRUE)
  BY SameWith DEF Open, OpenMessage, OpenParams
<1>2. AreDocuments(client.documents)
  BY DEF Inv, ClientInv
<1>3. text \in Utf8Strings
  BY TextsAssumption DEF Utf8Strings, Byte
<1>4. IsDocument(document)
  <2>1. <<>> \in Seq(ClientEvents)
    OBVIOUS
  <2>2. FP!EditedAll(text, EditsOf(<<>>)) = text
    BY <1>3, NothingEdited
  <2>3. QED
    BY <1>3, <2>1, <2>2 DEF IsDocument
<1>5. document.version = 1 /\ document.told = text
  OBVIOUS
<1> HIDE DEF document
<1>6. AreDocuments(documents)
  BY <1>2, <1>4 DEF AreDocuments, FP!With, FP!Over
<1>7. DOMAIN client.documents \subseteq Uri
  BY <1>2 DEF AreDocuments
<1>8. Snapshot(documents) = FP!With(Snapshot(client.documents), PathOf[uri],
                                    [version |-> 1, text |-> text])
  BY <1>1, <1>5, <1>7, SnapshotWith
<1>9. PathOf[uri] \notin DOMAIN Snapshot(client.documents)
  BY <1>1, <1>7, SnapshotIs
<1> HIDE DEF documents
<1>10. Opens(OpenMessage(uri, text), Snapshot(client.documents), Snapshot(documents))
  BY <1>3, <1>8, <1>9 DEF Opens
<1>11. Linked(OpenMessage(uri, text), TRUE, Snapshot(client.documents), Snapshot(documents))
  BY <1>10 DEF Linked
<1>12. QED
  BY <1>1, <1>6, <1>11, SendKeeps

\* A document, by its fields.
Doc(version, text, told, unsent, alike) ==
    [version |-> version, text |-> text, told |-> told, unsent |-> unsent, alike |-> alike]

\* What an edit makes of a document.
LEMMA TypeMakes ==
    ASSUME Inv, NEW uri \in Uri, NEW inserted \in Chars \cup {<<>>}, Type(uri, inserted)
    PROVE  LET doc == client.documents[uri]
           IN  /\ Phase("editing") /\ uri \in DOMAIN client.documents
               /\ UNCHANGED <<queue, copy>> /\ UNCHANGED servervars
               /\ \E e \in ClientEdits, later \in Utf8Strings, alike \in BOOLEAN :
                     /\ alike => /\ doc.alike /\ HasPosition(doc.text, e.start)
                                 /\ FP!Edited(doc.text, e) = later
                     /\ client' = [client EXCEPT !.documents =
                                     [client.documents EXCEPT ![uri] =
                                        Doc(doc.version, later, doc.told,
                                            Append(doc.unsent, EventOf(e)), alike)]]
<1> USE FileNames, FileTexts
<1> DEFINE doc == client.documents[uri]
           text == doc.text
           after(n, m) == SubSeq(text, 1, n) \o inserted \o SubSeq(text, m + 1, Len(text))
           new(n, m) == [doc EXCEPT !.text = after(n, m),
                                    !.unsent = Append(@, Event(text, n, m, inserted)),
                                    !.alike = @ /\ Alike(text, n) /\ Alike(text, m)]
<1>1. /\ Phase("editing") /\ uri \in DOMAIN client.documents
      /\ UNCHANGED <<queue, copy>> /\ UNCHANGED servervars
  BY DEF Type
<1>2. PICK n \in Places(text), m \in Places(text) :
         /\ n <= m
         /\ client' = [client EXCEPT !.documents[uri] = new(n, m)]
  BY DEF Type, Document
<1>3. FilesInv /\ QueueInv /\ ClientInv /\ ReadyInv
  BY DEF Inv
<1>4. AreDocuments(client.documents) /\ IsDocument(doc)
  BY <1>1, <1>3 DEF ClientInv, AreDocuments
<1>5. inserted \in Utf8Strings
  <2>1. CASE inserted \in Chars
    BY <2>1, TextsAssumption DEF Utf8Strings, Byte
  <2>2. CASE inserted = <<>>
    BY <2>2, Utf8Nothing DEF Utf8Strings
  <2>3. QED
    BY <2>1, <2>2
<1> DEFINE e == [start |-> ClientPosition(text, n), end |-> ClientPosition(text, m),
                 text |-> inserted]
<1>6. /\ e \in ClientEdits /\ Event(text, n, m, inserted) = EventOf(e)
      /\ after(n, m) \in Utf8Strings
      /\ Alike(text, n) /\ Alike(text, m) => /\ FP!Edited(text, e) = after(n, m)
                                             /\ HasPosition(text, e.start)
  <2>1. text \in Utf8Strings
    BY <1>4 DEF IsDocument
  <2> HIDE DEF doc, text
  <2>2. QED
    BY <1>2, <1>5, <2>1, EditTold
<1> DEFINE d == new(n, m)
           known == doc.alike /\ Alike(text, n) /\ Alike(text, m)
           later == after(n, m)
<1>7. d = Doc(doc.version, later, doc.told, Append(doc.unsent, EventOf(e)), known)
  <2>1. doc = [version |-> doc.version, text |-> doc.text, told |-> doc.told,
               unsent |-> doc.unsent, alike |-> doc.alike]
    BY <1>4 DEF IsDocument
  <2>2. doc.alike \in BOOLEAN /\ known \in BOOLEAN
    BY <1>4 DEF IsDocument
  <2> DEFINE v == doc.version
             o == doc.told
             u == doc.unsent
             a == doc.alike
             unsent == Append(u, EventOf(e))
  <2>3. doc = Doc(v, text, o, u, a)
    BY <2>1 DEF Doc
  <2>4. d = [[doc EXCEPT !.text = later, !.unsent = unsent] EXCEPT !.alike = known]
    BY <1>6
  <2> HIDE DEF d, doc, text, v, o, u, a, unsent, later, known
  <2>5. [doc EXCEPT !.text = later, !.unsent = unsent] = Doc(v, later, o, unsent, a)
    <3>1. [doc EXCEPT !.text = later] = Doc(v, later, o, u, a)
      BY <2>3 DEF Doc
    <3>2. [Doc(v, later, o, u, a) EXCEPT !.unsent = unsent] = Doc(v, later, o, unsent, a)
      BY DEF Doc
    <3>3. QED
      BY <3>1, <3>2
  <2>6. d = [Doc(v, later, o, unsent, a) EXCEPT !.alike = known]
    BY <2>4, <2>5
  <2>7. d = Doc(v, later, o, unsent, known)
    BY <2>6 DEF Doc
  <2>8. QED
    BY <2>7 DEF v, o, u, unsent
<1> HIDE DEF e, after, new
<1>8. client' = [client EXCEPT !.documents = [client.documents EXCEPT ![uri] = d]]
  BY <1>2
<1>9. known \in BOOLEAN /\ later \in Utf8Strings
  BY <1>4, <1>6 DEF IsDocument
<1>10. known => /\ doc.alike /\ HasPosition(text, e.start)
                /\ FP!Edited(text, e) = later
  BY <1>6
<1> HIDE DEF d, known, later, e, text, doc
<1>11. \E edit \in ClientEdits, next \in Utf8Strings, same \in BOOLEAN :
         /\ same => /\ doc.alike /\ HasPosition(text, edit.start)
                      /\ FP!Edited(text, edit) = next
         /\ client' = [client EXCEPT !.documents =
                         [client.documents EXCEPT ![uri] =
                            Doc(doc.version, next, doc.told,
                                Append(doc.unsent, EventOf(edit)), same)]]
  <2>1. /\ client' = [client EXCEPT !.documents =
                        [client.documents EXCEPT ![uri] =
                           Doc(doc.version, later, doc.told,
                               Append(doc.unsent, EventOf(e)), known)]]
    BY <1>7, <1>8
  <2>2. e \in ClientEdits
    BY <1>6
  <2>3. QED
    BY <1>9, <1>10, <2>1, <2>2
<1>12. QED
  BY <1>1, <1>11 DEF doc, text

\* edited,
LEMMA TypeKeeps ==
    ASSUME Inv, NEW uri \in Uri, NEW inserted \in Chars \cup {<<>>}, Type(uri, inserted)
    PROVE  Inv'
<1> USE FileNames, FileTexts
<1> DEFINE doc == client.documents[uri]
           text == doc.text
<1>1. /\ Phase("editing") /\ uri \in DOMAIN client.documents
      /\ UNCHANGED <<queue, copy>> /\ UNCHANGED servervars
  BY TypeMakes
<1>2. PICK e \in ClientEdits, later \in Utf8Strings, known \in BOOLEAN :
         /\ known => /\ doc.alike /\ HasPosition(doc.text, e.start)
                     /\ FP!Edited(doc.text, e) = later
         /\ client' = [client EXCEPT !.documents =
                         [client.documents EXCEPT ![uri] =
                            Doc(doc.version, later, doc.told,
                                Append(doc.unsent, EventOf(e)), known)]]
  BY TypeMakes
<1>3. FilesInv /\ QueueInv /\ ClientInv /\ ReadyInv
  BY DEF Inv
<1>4. AreDocuments(client.documents) /\ IsDocument(doc)
  BY <1>1, <1>3 DEF ClientInv, AreDocuments
<1> DEFINE d == Doc(doc.version, later, doc.told, Append(doc.unsent, EventOf(e)), known)
<1>8. known => FP!EditedAll(doc.told, EditsOf(Append(doc.unsent, EventOf(e)))) = later
  <2> SUFFICES ASSUME known
               PROVE  FP!EditedAll(doc.told, EditsOf(Append(doc.unsent, EventOf(e)))) = later
    OBVIOUS
  <2>1. /\ doc.unsent \in Seq(ClientEvents) /\ doc.told \in Utf8Strings
        /\ FP!EditedAll(doc.told, EditsOf(doc.unsent)) = text
    BY <1>2, <1>4 DEF IsDocument
  <2>2. /\ EditsOf(doc.unsent) \in Seq(ClientEdits)
        /\ EditsOf(Append(doc.unsent, EventOf(e))) = Append(EditsOf(doc.unsent), e)
    BY <2>1, EventsRead
  <2>3. /\ EditsOf(doc.unsent) \in Seq(FP!Edits) /\ e \in FP!Edits
        /\ doc.told \in FP!ByteStrings
    BY <2>1, <2>2, ClientEditsAre
  <2>4. FP!EditedAll(doc.told, Append(EditsOf(doc.unsent), e)) = FP!Edited(text, e)
    BY <2>1, <2>3, EditedOnce
  <2>5. QED
    BY <1>2, <2>2, <2>4
<1>9. IsDocument(d)
  <2>1. EventOf(e) \in ClientEvents
    BY DEF ClientEvents
  <2>2. /\ doc.version \in Int /\ doc.told \in Utf8Strings
        /\ doc.unsent \in Seq(ClientEvents) /\ doc.alike \in BOOLEAN
    BY <1>4 DEF IsDocument
  <2>3. Append(doc.unsent, EventOf(e)) \in Seq(ClientEvents)
    BY <2>1, <2>2
  <2> DEFINE unsent == Append(doc.unsent, EventOf(e))
  <2>6. /\ d.version = doc.version /\ d.text = later /\ d.told = doc.told
        /\ d.unsent = unsent /\ d.alike = known
        /\ d = [version |-> d.version, text |-> d.text, told |-> d.told,
                unsent |-> d.unsent, alike |-> d.alike]
    BY DEF Doc
  <2> HIDE DEF d, unsent
  <2>7. QED
    BY <1>8, <2>2, <2>3, <2>6 DEF IsDocument, unsent
<1>10. d.version = doc.version /\ d.told = doc.told
  BY DEF Doc
<1> HIDE DEF d
<1>11. /\ client'.documents = [client.documents EXCEPT ![uri] = d]
       /\ client'.phase = client.phase
       /\ client' = [phase |-> client'.phase, documents |-> client'.documents,
                     shutdown |-> client'.shutdown]
  <2>1. client = [phase |-> client.phase, documents |-> client.documents,
                  shutdown |-> client.shutdown]
    BY <1>3 DEF ClientInv
  <2>2. client' = [client EXCEPT !.documents = [client.documents EXCEPT ![uri] = d]]
    BY <1>2 DEF d
  <2>3. QED
    BY <2>1, <2>2
<1>12. AreDocuments(client'.documents)
  BY <1>1, <1>4, <1>9, <1>11, DocumentsExcept
<1>13. Snapshot(client'.documents) = Snapshot(client.documents)
  <2>1. DOMAIN client.documents \subseteq Uri
    BY <1>4 DEF AreDocuments
  <2>2. DOMAIN client'.documents = DOMAIN client.documents
    BY <1>11
  <2>3. \A u \in DOMAIN client.documents :
           /\ client'.documents[u].version = client.documents[u].version
           /\ client'.documents[u].told = client.documents[u].told
    BY <1>1, <1>10, <1>11
  <2>4. QED
    BY <2>1, <2>2, <2>3, SnapshotSame
<1>14. QueueInv'
  BY <1>1, <1>3, <1>13 DEF QueueInv
<1>15. ClientInv'
  BY <1>1, <1>11, <1>12 DEF ClientInv, Phase
<1>16. QED
  BY <1>1, <1>3, <1>11, <1>14, <1>15, ClientKeeps DEF ReadyInv

\* What telling makes of it.
LEMMA TellMakes ==
    ASSUME Inv, NEW uri \in Uri, Tell(uri)
    PROVE  LET doc == client.documents[uri]
               version == doc.version + 1
           IN  /\ Phase("editing") /\ uri \in DOMAIN client.documents
               /\ doc.unsent # <<>>
               /\ Send(ChangeMessage(uri, version, doc.unsent),
                       [client.documents EXCEPT ![uri] =
                          Doc(version, doc.text, doc.text, <<>>, TRUE)],
                       doc.alike)
<1> DEFINE doc == client.documents[uri]
           version == doc.version + 1
           new == [doc EXCEPT !.version = version, !.told = doc.text,
                              !.unsent = <<>>, !.alike = TRUE]
           documents == [client.documents EXCEPT ![uri] = new]
<1>1. /\ Phase("editing") /\ uri \in DOMAIN client.documents /\ doc.unsent # <<>>
      /\ Send(ChangeMessage(uri, version, doc.unsent), documents, doc.alike)
  BY DEF Tell, Document, ChangeMessage, ChangeParams
<1>2. AreDocuments(client.documents) /\ IsDocument(doc)
  BY <1>1 DEF Inv, ClientInv, AreDocuments
<1>3. /\ doc = [version |-> doc.version, text |-> doc.text, told |-> doc.told,
                unsent |-> doc.unsent, alike |-> doc.alike]
      /\ doc.version \in Int /\ version \in Int
  BY <1>2 DEF IsDocument
<1> HIDE DEF doc
<1>4. new = Doc(version, doc.text, doc.text, <<>>, TRUE)
  <2> DEFINE v == doc.version
             t == doc.text
             o == doc.told
             u == doc.unsent
             a == doc.alike
  <2>1. doc = Doc(v, t, o, u, a)
    BY <1>3 DEF Doc
  <2>2. new = [[doc EXCEPT !.version = version, !.told = t, !.unsent = <<>>]
                 EXCEPT !.alike = TRUE]
    OBVIOUS
  <2> HIDE DEF new, version, v, t, o, u, a
  <2>3. [doc EXCEPT !.version = version, !.told = t, !.unsent = <<>>]
          = Doc(version, t, t, <<>>, a)
    <3>1. [doc EXCEPT !.version = version] = Doc(version, t, o, u, a)
      BY <2>1 DEF Doc
    <3>2. [Doc(version, t, o, u, a) EXCEPT !.told = t] = Doc(version, t, t, u, a)
      BY DEF Doc
    <3>3. [Doc(version, t, t, u, a) EXCEPT !.unsent = <<>>] = Doc(version, t, t, <<>>, a)
      BY DEF Doc
    <3>4. QED
      BY <3>1, <3>2, <3>3
  <2>4. new = [Doc(version, t, t, <<>>, a) EXCEPT !.alike = TRUE]
    BY <2>2, <2>3
  <2>5. new = Doc(version, t, t, <<>>, TRUE)
    BY <2>4 DEF Doc
  <2>6. QED
    BY <2>5 DEF t
<1> HIDE DEF new, version
<1>5. QED
  BY <1>1, <1>4 DEF version, doc

\* told of,
LEMMA TellKeeps == ASSUME Inv, NEW uri \in Uri, Tell(uri) PROVE Inv'
<1> DEFINE doc == client.documents[uri]
           version == doc.version + 1
           new == Doc(version, doc.text, doc.text, <<>>, TRUE)
           documents == [client.documents EXCEPT ![uri] = new]
           message == ChangeMessage(uri, version, doc.unsent)
<1>1. /\ Phase("editing") /\ uri \in DOMAIN client.documents /\ doc.unsent # <<>>
      /\ Send(message, documents, doc.alike)
  BY TellMakes
<1>2. AreDocuments(client.documents) /\ IsDocument(doc)
  BY <1>1 DEF Inv, ClientInv, AreDocuments
<1>3. /\ doc.version \in Int /\ version \in Int
      /\ doc.text \in Utf8Strings /\ doc.unsent \in Seq(ClientEvents)
      /\ doc.alike => FP!EditedAll(doc.told, EditsOf(doc.unsent)) = doc.text
  BY <1>2 DEF IsDocument
<1> HIDE DEF doc
<1>5. IsDocument(new)
  <2>1. <<>> \in Seq(ClientEvents)
    OBVIOUS
  <2>2. FP!EditedAll(doc.text, EditsOf(<<>>)) = doc.text
    BY <1>3, NothingEdited
  <2>4. /\ new.version = version /\ new.text = doc.text /\ new.told = doc.text
        /\ new.unsent = <<>> /\ new.alike = TRUE
        /\ new = [version |-> new.version, text |-> new.text, told |-> new.told,
                  unsent |-> new.unsent, alike |-> new.alike]
    BY DEF Doc
  <2> HIDE DEF version, new
  <2>5. QED
    BY <1>3, <2>1, <2>2, <2>4 DEF IsDocument
<1>6. new.version = version /\ new.told = doc.text
  BY DEF Doc
<1> HIDE DEF new, version
<1>7. AreDocuments(documents)
  BY <1>1, <1>2, <1>5, DocumentsExcept
<1>8. DOMAIN client.documents \subseteq Uri
  BY <1>2 DEF AreDocuments
<1> DEFINE b == Snapshot(client.documents)
           a == Snapshot(documents)
<1>9. a = [b EXCEPT ![PathOf[uri]] = [version |-> version, text |-> doc.text]]
  BY <1>1, <1>6, <1>8, SnapshotExcept
<1>10. /\ PathOf[uri] \in DOMAIN b
       /\ b[PathOf[uri]].text = doc.told
  <2>1. b[PathOf[uri]] = [version |-> doc.version, text |-> doc.told]
    BY <1>1, <1>8, SnapshotIs DEF IsSnapshot, doc
  <2>2. QED
    BY <1>1, <1>8, <2>1, SnapshotIs
<1>11. Changes(message, doc.alike, b, a)
  <2> HIDE DEF a, b, documents
  <2>1. doc.alike => doc.text = FP!EditedAll(b[PathOf[uri]].text, EditsOf(doc.unsent))
    BY <1>3, <1>10
  <2>2. QED
    BY <1>1, <1>3, <1>9, <1>10, <2>1 DEF Changes
<1>12. Linked(message, doc.alike, b, a)
  BY <1>11 DEF Linked
<1> HIDE DEF message, documents
<1>13. QED
  BY <1>1, <1>7, <1>12, SendKeeps

\* saved
LEMMA SaveKeeps == ASSUME Inv, NEW uri \in Uri, Save(uri) PROVE Inv'
<1> DEFINE doc == client.documents[uri]
           message == SaveMessage(uri, doc.version)
           b == Snapshot(client.documents)
<1>1. /\ Phase("editing") /\ uri \in DOMAIN client.documents
      /\ Send(message, client.documents, TRUE)
  BY DEF Save, Document, SaveMessage, SaveParams
<1>2. AreDocuments(client.documents) /\ IsDocument(doc)
  BY <1>1 DEF Inv, ClientInv, AreDocuments
<1>3. doc.version \in Int /\ DOMAIN client.documents \subseteq Uri
  BY <1>2 DEF AreDocuments, IsDocument
<1>4. PathOf[uri] \in DOMAIN b /\ b[PathOf[uri]].version = doc.version
  <2>1. b[PathOf[uri]] = [version |-> doc.version, text |-> doc.told]
    BY <1>1, <1>3, SnapshotIs DEF IsSnapshot
  <2>2. QED
    BY <1>1, <1>3, <2>1, SnapshotIs
<1> HIDE DEF doc, b
<1>5. Saves(message, b, b)
  BY <1>3, <1>4 DEF Saves
<1>6. Linked(message, TRUE, b, b)
  BY <1>5 DEF Linked
<1> HIDE DEF message
<1>7. QED
  BY <1>1, <1>2, <1>6, SendKeeps DEF b

\* and closed.
LEMMA CloseKeeps == ASSUME Inv, NEW uri \in Uri, Close(uri) PROVE Inv'
<1> DEFINE documents == FP!Without(client.documents, uri)
           message == CloseMessage(uri)
<1>1. /\ Phase("editing") /\ Send(message, documents, TRUE)
  BY SameWith DEF Close, CloseMessage, CloseParams
<1>2. AreDocuments(client.documents)
  BY DEF Inv, ClientInv
<1>3. AreDocuments(documents)
  BY <1>2 DEF AreDocuments, FP!Without
<1>4. Snapshot(documents) = FP!Without(Snapshot(client.documents), PathOf[uri])
  BY <1>2, SnapshotWithout DEF AreDocuments
<1> HIDE DEF documents
<1>5. Linked(message, TRUE, Snapshot(client.documents), Snapshot(documents))
  BY <1>4 DEF Closes, Linked
<1> HIDE DEF message
<1>6. QED
  BY <1>1, <1>3, <1>5, SendKeeps

\* A client without documents asks to initialize or to shut down.
LEMMA AskKeeps ==
    ASSUME Inv, AskInitialize \/ AskShutdown
    PROVE  Inv'
<1>1. QueueInv /\ ClientInv /\ ReadyInv
  BY DEF Inv
<1>2. PICK message, next :
         /\ queue' = Append(queue, [message |-> message, after |-> NoDocuments,
                                    alike |-> TRUE])
         /\ client' = [client EXCEPT !.phase = next, !.documents = NoDocuments]
         /\ UNCHANGED copy /\ UNCHANGED servervars
         /\ \/ Phase("begun") /\ message = InitializeMessage /\ next = "initializing"
            \/ Phase("editing") /\ message = ShutdownMessage /\ next = "ending"
  BY DEF AskInitialize, AskShutdown, Ask, InitializeMessage, InitializeParams, ShutdownMessage
<1>3. /\ client'.documents = NoDocuments /\ client'.phase = next
      /\ client' = [phase |-> client'.phase, documents |-> client'.documents,
                    shutdown |-> client'.shutdown]
  <2>1. client = [phase |-> client.phase, documents |-> client.documents,
                  shutdown |-> client.shutdown]
    BY <1>1 DEF ClientInv
  <2>2. QED
    BY <1>2, <2>1
<1> DEFINE x == [message |-> message, after |-> NoDocuments, alike |-> TRUE]
           b == Snapshot(client.documents)
<1>4. x.message = message /\ x.after = NoDocuments /\ x.alike = TRUE
  OBVIOUS
<1>5. queue' = Append(queue, x)
  BY <1>2
<1> HIDE DEF x
<1>6. Linked(x.message, x.alike, b, x.after)
  <2>1. CASE Phase("begun") /\ message = InitializeMessage
    BY <1>1, <1>4, <2>1, SnapshotOfNone DEF ClientInv, Linked
  <2>2. CASE message = ShutdownMessage
    BY <1>4, <2>2 DEF Linked
  <2>3. QED
    BY <1>2, <2>1, <2>2
<1>7. QueueInv'
  <2>1. Chained(Append(queue, x), copy.after, x.after)
    BY <1>1, <1>6, ChainAppend DEF QueueInv
  <2>2. QED
    BY <1>2, <1>3, <1>4, <1>5, <2>1, SnapshotOfNone DEF QueueInv
<1>8. ClientInv'
  <2>1. AreDocuments(NoDocuments)
    BY DEF AreDocuments, NoDocuments
  <2>2. QED
    BY <1>3, <2>1 DEF ClientInv
<1>9. server.initialized \/ x.message = InitializeMessage
  BY <1>1, <1>2, <1>4 DEF ReadyInv, Phase
<1>10. client'.phase \in {"editing", "ending", "ended", "left"} => server.initialized
  BY <1>1, <1>2, <1>3 DEF ReadyInv, Phase
<1>11. QED
  BY <1>2, <1>5, <1>7, <1>8, <1>9, <1>10, ClientKeeps, QueueGrows

\* It leaves.
LEMMA ExitKeeps == ASSUME Inv, Exit PROVE Inv'
<1> DEFINE b == Snapshot(client.documents)
           x == [message |-> ExitMessage, after |-> b, alike |-> TRUE]
<1>1. /\ Phase("editing") \/ Phase("ended")
      /\ queue' = Append(queue, x)
      /\ client' = [client EXCEPT !.phase = "left"]
      /\ UNCHANGED copy /\ UNCHANGED servervars
  BY DEF Exit, ExitMessage
<1>2. QueueInv /\ ClientInv /\ ReadyInv
  BY DEF Inv
<1>3. /\ client'.documents = client.documents /\ client'.phase = "left"
      /\ client' = [phase |-> client'.phase, documents |-> client'.documents,
                    shutdown |-> client'.shutdown]
  BY <1>1, <1>2 DEF ClientInv
<1>4. x.message = ExitMessage /\ x.after = b /\ x.alike = TRUE
  OBVIOUS
<1> HIDE DEF x
<1>5. QueueInv'
  <2>1. Linked(x.message, x.alike, b, x.after)
    BY <1>4 DEF Linked
  <2>2. Chained(Append(queue, x), copy.after, x.after)
    BY <1>2, <2>1, ChainAppend DEF QueueInv
  <2>3. QED
    BY <1>1, <1>3, <1>4, <2>2 DEF QueueInv
<1>6. ClientInv'
  BY <1>2, <1>3 DEF ClientInv, Phase
<1>7. server.initialized
  BY <1>1, <1>2 DEF ReadyInv, Phase
<1>8. QED
  BY <1>1, <1>5, <1>6, <1>7, ClientKeeps, QueueGrows

\* It learns that it is initialized or that the server is shut down, or it
\* vanishes.
LEMMA WaitKeeps ==
    ASSUME Inv, Initialized \/ ShutdownAnswered \/ Vanish
    PROVE  Inv'
<1>1. QueueInv /\ ClientInv /\ ReadyInv
  BY DEF Inv
<1>2. /\ UNCHANGED <<queue, copy>> /\ UNCHANGED servervars
      /\ \E phase, shutdown :
            /\ client' = [client EXCEPT !.phase = phase, !.shutdown = shutdown]
            /\ phase # "begun"
            /\ phase \in {"editing", "ending", "ended", "left"} => server.initialized
  <2>1. client = [client EXCEPT !.shutdown = client.shutdown]
    BY <1>1 DEF ClientInv
  <2>2. CASE Initialized
    <3>1. Welcomed
      BY <2>2 DEF Initialized, Answered, Welcomed
    <3>2. client' = [client EXCEPT !.phase = "editing", !.shutdown = client.shutdown]
      BY <1>1, <2>2 DEF Initialized, ClientInv
    <3>3. QED
      BY <1>1, <2>2, <3>1, <3>2 DEF Initialized, ReadyInv
  <2>3. CASE ShutdownAnswered
    <3>1. client' = [client EXCEPT !.phase = "ended", !.shutdown = TRUE]
      BY <2>3 DEF ShutdownAnswered
    <3>2. server.initialized
      BY <1>1, <2>3 DEF ShutdownAnswered, Answered, Phase, ReadyInv
    <3>3. QED
      BY <2>3, <3>1, <3>2 DEF ShutdownAnswered
  <2>4. CASE Vanish
    <3>1. client' = [client EXCEPT !.phase = "gone", !.shutdown = client.shutdown]
      BY <1>1, <2>4 DEF Vanish, ClientInv
    <3>2. /\ "gone" # "begun" /\ "gone" \notin {"editing", "ending", "ended", "left"}
          /\ UNCHANGED <<queue, copy>> /\ UNCHANGED servervars
      BY <2>4 DEF Vanish
    <3>3. QED
      BY <3>1, <3>2
  <2>5. QED
    BY <2>2, <2>3, <2>4
<1>3. PICK phase, shutdown :
         /\ client' = [client EXCEPT !.phase = phase, !.shutdown = shutdown]
         /\ phase # "begun"
         /\ phase \in {"editing", "ending", "ended", "left"} => server.initialized
  BY <1>2
<1>4. /\ client'.documents = client.documents /\ client'.phase = phase
      /\ client' = [phase |-> client'.phase, documents |-> client'.documents,
                    shutdown |-> client'.shutdown]
  <2>1. client = [phase |-> client.phase, documents |-> client.documents,
                  shutdown |-> client.shutdown]
    BY <1>1 DEF ClientInv
  <2>2. QED
    BY <1>3, <2>1
<1>5. QueueInv' /\ ClientInv'
  BY <1>1, <1>2, <1>3, <1>4 DEF QueueInv, ClientInv, Phase
<1>6. \A i \in 1 .. Len(queue') :
         server.initialized \/ queue'[i].message = InitializeMessage
  BY <1>1, <1>2 DEF ReadyInv
<1>7. client'.phase \in {"editing", "ending", "ended", "left"} => server.initialized
  BY <1>3, <1>4
<1>8. QED
  BY <1>2, <1>5, <1>6, <1>7, ClientKeeps

\* Every step keeps the invariant.
LEMMA NextInv == ASSUME Inv, [Next]_vars PROVE Inv'
<1>1. CASE UNCHANGED vars
  <2>1. UNCHANGED <<client, queue, copy>> /\ UNCHANGED servervars
    BY <1>1 DEF vars, servervars
  <2>2. QueueInv' /\ ClientInv'
    BY <2>1 DEF Inv, QueueInv, ClientInv, Phase
  <2>3. QED
    BY <2>1, <2>2, ClientKeeps DEF Inv, ReadyInv
<1>2. CASE Client
  BY <1>2, AskKeeps, WaitKeeps, ExitKeeps, OpenKeeps, TypeKeeps, TellKeeps, SaveKeeps,
     CloseKeeps DEF Client
<1>3. CASE Server
  BY <1>3, ArriveKeeps, PipeEndsKeeps, HandleKeeps DEF Server
<1>4. QED
  BY <1>1, <1>2, <1>3 DEF Next

-----------------------------------------------------------------------------
(***************************************************************************)
(* The theorems.                                                           *)
(***************************************************************************)

\* The invariant of the client, the pipe and the server.
THEOREM SyncInductive == Spec => []Inv
<1>1. Init => Inv
  BY InitInv
<1>2. Inv /\ [Next]_vars => Inv'
  BY NextInv
<1>3. QED
  BY <1>1, <1>2, PTL DEF Spec

\* No edit splits a codepoint: text_buffer_insert_at_point and
\* text_buffer_delete only stop between two, but for a deletion that goes on
\* for ever.
THEOREM CodepointsStayWhole == Spec => []NeverSplits
<1>1. Inv => NeverSplits
  BY DEF Inv, FilesInv, WholeCodepoints
<1>2. QED
  BY <1>1, SyncInductive, PTL

\* The version that server_textDocument_didSave compares with is the one that
\* the save brings.
THEOREM SavesAgree == Spec => []SaveAgrees
<1>1. ASSUME Inv, Busy, request.method = String("textDocument/didSave"),
             FM!Doing("returned")
      PROVE  call.ret = SavedVersion
  <2>1. FP!Doing("returned") /\ ~FP!Doing("idle")
    BY <1>1, SameWith DEF FP!Doing
  <2>2. call.want = SavedVersion
    BY <1>1, <2>1 DEF Inv, ServerInv, SaveRight
  <2>3. call.ret = call.want
    BY <1>1, <2>1 DEF Inv, FilesInv, FP!Holding, FP!DocsInv
  <2>4. QED
    BY <2>2, <2>3
<1>2. Inv => SaveAgrees
  BY <1>1 DEF SaveAgrees, SavedVersion
<1>3. QED
  BY <1>2, SyncInductive, PTL

-----------------------------------------------------------------------------
(***************************************************************************)
(* The steps of Mirror.                                                    *)
(***************************************************************************)
Shown == IF Busy THEN copy.before ELSE FM!View

Afters == [i \in DOMAIN queue |-> queue[i].after]

Pending == (IF Busy THEN <<copy.after>> ELSE <<>>) \o Afters

\* The view is that of the proofs about the files; at rest it is promised.
LEMMA SameView == FM!View = FP!View
<1>1. \A path : FM!FileOf(path) = FP!FileOf(path)
  BY DEF FM!FileOf, FP!FileOf
<1>2. QED
  BY <1>1 DEF FM!View, FP!View

\* After a step, too.
LEMMA RestingView ==
    ASSUME Inv', ~Busy'
    PROVE  FM!View' = docs' /\ (copy'.trusted => docs' = copy'.after)
<1>1. FP!Doing("idle")' /\ Agrees(docs', copy'.after, copy'.trusted)
  BY DEF Inv, ServerInv
<1>2. docs' = FP!View'
  BY <1>1 DEF Inv, FilesInv, FP!Holding, FP!DocsInv, FP!AtRest, FP!Doing
<1>3. FM!View' = FP!View'
  <2>1. \A path : FM!FileOf(path)' = FP!FileOf(path)'
    BY DEF FM!FileOf, FP!FileOf
  <2>2. QED
    BY <2>1 DEF FM!View, FP!View
<1>4. QED
  BY <1>1, <1>2, <1>3 DEF Agrees

\* One more at the end.
LEMMA OneMore ==
    ASSUME NEW F, NEW a \in Seq(F), NEW q \in Seq(F), NEW y \in F
    PROVE  /\ Len(a \o Append(q, y)) = Len(a \o q) + 1
           /\ SubSeq(a \o Append(q, y), 1, Len(a \o q)) = a \o q
<1> DEFINE p == a \o q
           r == a \o Append(q, y)
           s == SubSeq(r, 1, Len(p))
<1>1. /\ p \in Seq(F) /\ r \in Seq(F) /\ Len(p) \in Nat
      /\ Len(r) = Len(p) + 1 /\ Len(p) = Len(a) + Len(q)
  OBVIOUS
<1>2. \A i \in 1 .. Len(p) : r[i] = p[i]
  OBVIOUS
<1>3. /\ s \in Seq(F) /\ Len(s) = Len(p)
      /\ \A i \in 1 .. Len(p) : s[i] = r[i]
  <2> HIDE DEF r, p
  <2>1. QED
    BY <1>1
<1> HIDE DEF p, r, s
<1>4. \A i \in 1 .. Len(s) : s[i] = p[i]
  <2>1. Len(s) = Len(p) /\ \A i \in 1 .. Len(p) : s[i] = r[i]
    BY <1>3
  <2>2. QED
    BY <1>2, <2>1
<1>5. s = p
  BY <1>1, <1>3, <1>4, SeqEqual
<1>6. QED
  BY <1>1, <1>5 DEF p, r, s

\* What a queue says of the documents, by its messages.
LEMMA AftersAre ==
    ASSUME NEW E, NEW q \in Seq(E)
    PROVE  LET afters == [i \in DOMAIN q |-> q[i].after]
               F == {x.after : x \in E}
           IN  /\ afters \in Seq(F) /\ Len(afters) = Len(q)
               /\ \A i \in 1 .. Len(q) : afters[i] = q[i].after
<1> DEFINE afters == [i \in DOMAIN q |-> q[i].after]
           F == {x.after : x \in E}
<1>1. DOMAIN q = 1 .. Len(q) /\ Len(q) \in Nat /\ \A i \in 1 .. Len(q) : q[i] \in E
  OBVIOUS
<1>2. \A i \in 1 .. Len(q) : q[i].after \in F
  BY <1>1
<1> HIDE DEF F
<1>3. afters \in [1 .. Len(q) -> F]
  BY <1>1, <1>2
<1>4. afters \in Seq(F) /\ Len(afters) = Len(q)
  BY <1>1, <1>3
<1>5. \A i \in 1 .. Len(q) : afters[i] = q[i].after
  BY <1>1
<1>6. QED
  BY <1>4, <1>5 DEF F

\* A client that sends a message is Send.
LEMMA SendIsSend ==
    ASSUME Inv, NEW x, queue' = Append(queue, x), UNCHANGED copy, UNCHANGED servervars
    PROVE  M!Send
<1>1. PICK E : queue \in Seq(E)
  BY DEF Inv, QueueInv, Chained
<1> DEFINE G == E \cup {x}
           F == {y.after : y \in G} \cup {copy.after}
           a == IF Busy THEN <<copy.after>> ELSE <<>>
<1>2. queue \in Seq(G) /\ x \in G
  BY <1>1
<1> HIDE DEF G
<1>3. /\ queue' \in Seq(G) /\ Len(queue') = Len(queue) + 1 /\ Len(queue) \in Nat
      /\ \A i \in 1 .. Len(queue) : queue'[i] = queue[i]
      /\ queue'[Len(queue) + 1] = x
  BY <1>2
<1>4. /\ Afters \in Seq(F) /\ Len(Afters) = Len(queue)
      /\ \A i \in 1 .. Len(queue) : Afters[i] = queue[i].after
  BY <1>2, AftersAre DEF Afters
<1>5. /\ Afters' \in Seq(F) /\ Len(Afters') = Len(queue')
      /\ \A i \in 1 .. Len(queue') : Afters'[i] = queue'[i].after
  BY <1>3, AftersAre DEF Afters
<1>6. a \in Seq(F) /\ x.after \in F
  <2>1. copy.after \in F /\ x.after \in F
    BY <1>2
  <2> HIDE DEF F
  <2>2. <<>> \in Seq(F) /\ <<copy.after>> \in Seq(F)
    BY <2>1
  <2>3. QED
    BY <2>1, <2>2
<1> HIDE DEF F
<1>7. Afters' = Append(Afters, x.after)
  BY <1>3, <1>4, <1>5, <1>6
<1>8. /\ Pending = a \o Afters /\ Pending' = a \o Afters'
      /\ Shown' = Shown /\ Trusted' = Trusted
  BY DEF Pending, Shown, Busy, FM!View, FM!FileOf, servervars, Trusted, Broken, FM!Stuck,
         FM!Doing
<1> HIDE DEF a
<1>9. /\ Len(Pending') = Len(Pending) + 1
      /\ SubSeq(Pending', 1, Len(Pending)) = Pending
  BY <1>4, <1>6, <1>7, <1>8, OneMore
<1>10. QED
  BY <1>8, <1>9 DEF M!Send, Pending, Shown, Afters

\* Nothing of Mirror changes.
LEMMA SameMirror ==
    ASSUME Shown' = Shown, Pending' = Pending, Trusted' = Trusted
    PROVE  UNCHANGED M!vars
BY DEF M!vars, Shown, Pending, Afters

\* No deletion has broken a server whose call goes on, or has none.
LEMMA Unbroken ==
    /\ Broken => call.op \in {"abort", "stuck"}
    /\ Broken' => call'.op \in {"abort", "stuck"}
BY DEF Broken, FM!Stuck, FM!Doing

\* Neither does a queue with a message less, which is handled.
LEMMA ArriveMirrors ==
    ASSUME Inv, Arrive
    PROVE  M!Drift \/ UNCHANGED M!vars
<1> DEFINE x == Head(queue)
<1>1. /\ process = S!Waiting /\ process' = S!Handling
      /\ UNCHANGED <<client, server, fs, heap, chunked, call, docs>>
      /\ queue # <<>> /\ queue' = Tail(queue)
      /\ copy'.trusted = (copy.trusted /\ x.alike)
      /\ copy'.before = FM!View
      /\ copy'.after = x.after
  BY Arrives
<1>2. ~Busy /\ Busy'
  BY <1>1 DEF Busy, S!Waiting, S!Handling
<1>3. /\ copy.trusted \in BOOLEAN /\ copy'.trusted \in BOOLEAN
      /\ Trusted = copy.trusted /\ Trusted' = copy'.trusted
  <2>1. /\ copy.trusted \in BOOLEAN /\ copy'.trusted \in BOOLEAN
        /\ FP!Doing("idle") /\ call' = call
    BY <1>1, <1>2, ArriveKeeps DEF Inv, ServerInv
  <2>2. ~Broken /\ ~Broken'
    BY <2>1, Unbroken DEF FP!Doing
  <2>3. QED
    BY <2>1, <2>2 DEF Trusted
<1>4. Shown' = Shown
  BY <1>1, <1>2 DEF Shown
<1>5. Pending' = Pending
  <2>1. PICK E : queue \in Seq(E)
    BY DEF Inv, QueueInv, Chained
  <2> DEFINE F == {y.after : y \in E}
             n == Len(queue)
  <2>2. /\ n \in Nat /\ n >= 1 /\ x = queue[1] /\ x \in E
        /\ queue' \in Seq(E) /\ Len(queue') = n - 1
        /\ \A i \in 1 .. n - 1 : queue'[i] = queue[i + 1]
    BY <1>1, <2>1
  <2>3. /\ Afters \in Seq(F) /\ Len(Afters) = n
        /\ \A i \in 1 .. n : Afters[i] = queue[i].after
    BY <2>1, AftersAre DEF Afters
  <2>4. /\ Afters' \in Seq(F) /\ Len(Afters') = n - 1
        /\ \A i \in 1 .. n - 1 : Afters'[i] = queue'[i].after
    BY <2>2, AftersAre DEF Afters
  <2>5. x.after \in F
    BY <2>2
  <2> HIDE DEF F, x, n
  <2>6. <<x.after>> \o Afters' = Afters
    <3> DEFINE r == <<x.after>> \o Afters'
    <3>1. r \in Seq(F) /\ Len(r) = n
      BY <2>2, <2>4, <2>5
    <3>2. ASSUME NEW i \in 1 .. n
          PROVE  r[i] = Afters[i]
      <4>1. CASE i = 1
        BY <2>2, <2>3, <2>4, <2>5, <4>1
      <4>2. CASE i # 1
        <5>1. i - 1 \in 1 .. n - 1 /\ (i - 1) + 1 = i
          BY <2>2, <4>2
        <5>2. r[i] = Afters'[i - 1]
          BY <2>2, <2>4, <2>5, <5>1
        <5>3. QED
          BY <2>2, <2>3, <2>4, <5>1, <5>2
      <4>3. QED
        BY <4>1, <4>2
    <3> HIDE DEF r
    <3>3. r = Afters
      BY <2>2, <2>3, <3>1, <3>2
    <3>4. QED
      BY <3>3 DEF r
  <2>7. Pending' = <<x.after>> \o Afters'
    BY <1>1, <1>2 DEF Pending, x
  <2>8. Pending = Afters
    BY <1>2, <2>3 DEF Pending
  <2>9. QED
    BY <2>6, <2>7, <2>8
<1>6. CASE copy'.trusted = copy.trusted
  BY <1>3, <1>4, <1>5, <1>6, SameMirror
<1>7. CASE copy'.trusted = FALSE
  BY <1>3, <1>4, <1>5, <1>7 DEF M!Drift, Shown, Pending, Afters
<1> HIDE DEF x
<1>8. QED
  BY <1>1, <1>3, <1>6, <1>7

\* The handler that ends shows what the client had; one that a deletion breaks
\* shows nothing more.
LEMMA HandleMirrors ==
    ASSUME Inv, S!Handle, UNCHANGED <<client, queue, copy>>
    PROVE  M!Next \/ UNCHANGED M!vars
<1>1. Inv' /\ ServerTyped
  BY HandleKeeps DEF Inv, ReadyInv
<1>2. Busy
  BY <1>1, HandleIs DEF ServerTyped
<1>3. Afters' = Afters
  BY DEF Afters
<1>4. ~Broken
  <2>1. GoesOn \/ Returns \/ FP!Doing("idle")
    BY <1>1, HandleIs DEF ServerTyped
  <2>2. FP!Work => call.op \notin {"abort", "stuck"}
    BY DEF FP!Work, FP!LookupStep, FP!LookupFails, FP!OpenFound, FP!OpenNew,
           FP!ChangeEdit, FP!DeletionAborts, FP!DeletionHangs, FP!DeletionMayFail,
           FP!ChangeReturn, FP!CloseFound, FP!SaveFound, FP!FreeStep, FP!FreeReturn,
           FP!Searching, FP!Doing
  <2>3. call.op \notin {"abort", "stuck"}
    BY <2>1, <2>2 DEF GoesOn, Returns, FP!Receive, FP!Doing
  <2>4. QED
    BY <2>3, Unbroken
<1>5. CASE Busy'
  <2>1. Shown' = Shown /\ Pending' = Pending
    BY <1>2, <1>3, <1>5 DEF Shown, Pending
  <2>2. CASE Broken'
    <3>1. Trusted' = FALSE
      BY <2>2 DEF Trusted
    <3>2. QED
      BY <2>1, <3>1 DEF M!Next, M!Drift, Shown, Pending, Afters
  <2>3. CASE ~Broken'
    <3>1. Trusted' = Trusted
      BY <1>4, <2>3 DEF Trusted
    <3>2. QED
      BY <2>1, <3>1, SameMirror
  <2>4. QED
    BY <2>2, <2>3
<1>6. CASE ~Busy' /\ ~copy.trusted
  BY <1>6 DEF M!Next, M!Astray, Trusted
<1>7. CASE ~Busy' /\ copy.trusted
  <2>0. Trusted /\ Trusted'
    <3>1. call'.op = "idle"
      BY <1>1, <1>7 DEF Inv, ServerInv, FP!Doing
    <3>2. QED
      BY <1>4, <1>7, <3>1, Unbroken DEF Trusted
  <2>1. Shown' = copy.after
    BY <1>1, <1>7, RestingView DEF Shown
  <2>2. PICK E : queue \in Seq(E)
    BY DEF Inv, QueueInv, Chained
  <2> DEFINE F == {y.after : y \in E} \cup {copy.after}
  <2>3. Afters \in Seq(F) /\ copy.after \in F
    BY <2>2, AftersAre DEF Afters
  <2> HIDE DEF F
  <2>4. Pending = <<copy.after>> \o Afters /\ Pending' = Afters
    BY <1>2, <1>3, <1>7, <2>3 DEF Pending
  <2> DEFINE p == <<copy.after>> \o Afters
  <2>5. /\ p \in Seq(F) /\ Len(p) = Len(Afters) + 1 /\ p[1] = copy.after
        /\ \A i \in 1 .. Len(Afters) : p[i + 1] = Afters[i]
    BY <2>3
  <2> HIDE DEF p
  <2>6. p # <<>> /\ Head(p) = copy.after
    BY <2>3, <2>5
  <2>7. Tail(p) = Afters
    <3>1. /\ Tail(p) \in Seq(F) /\ Len(Tail(p)) = Len(Afters)
          /\ \A i \in 1 .. Len(Afters) : Tail(p)[i] = p[i + 1]
      BY <2>3, <2>5, <2>6
    <3>2. QED
      BY <2>3, <2>5, <3>1
  <2>8. Pending # <<>> /\ Shown' = Head(Pending) /\ Pending' = Tail(Pending)
    BY <2>1, <2>4, <2>6, <2>7 DEF p
  <2>9. M!Show
    BY <2>0, <2>8 DEF M!Show, M!Due, Shown, Pending, Afters
  <2>10. QED
    BY <2>9 DEF M!Next
<1>8. QED
  BY <1>1, <1>5, <1>6, <1>7 DEF Inv, ServerInv

\* A step of the client that sends nothing.
LEMMA SilentMirrors ==
    ASSUME UNCHANGED <<queue, copy>>, UNCHANGED servervars
    PROVE  UNCHANGED M!vars
<1>1. Shown' = Shown /\ Pending' = Pending /\ Trusted' = Trusted
  BY DEF Shown, Pending, Afters, Busy, FM!View, FM!FileOf, servervars, Trusted, Broken,
         FM!Stuck, FM!Doing
<1>2. QED
  BY <1>1, SameMirror

\* Every step of the client, the pipe and the server is one of Mirror.
LEMMA StepMirrors ==
    ASSUME Inv, [Next]_vars
    PROVE  [M!Next]_(M!vars)
<1>1. CASE UNCHANGED vars
  BY <1>1, SilentMirrors DEF vars, servervars
<1>2. CASE Initialized \/ ShutdownAnswered \/ Vanish
          \/ \E uri \in Uri, inserted \in Chars \cup {<<>>} : Type(uri, inserted)
  BY <1>2, SilentMirrors DEF Initialized, ShutdownAnswered, Vanish, Type
<1>3. CASE AskInitialize \/ AskShutdown \/ Exit
          \/ \E uri \in Uri : \/ \E text \in Texts : Open(uri, text)
                              \/ Tell(uri) \/ Save(uri) \/ Close(uri)
  <2>1. PICK x : queue' = Append(queue, x) /\ UNCHANGED copy /\ UNCHANGED servervars
    BY <1>3 DEF AskInitialize, AskShutdown, Ask, Exit, Open, Tell, Save, Close, Send
  <2>2. QED
    BY <2>1, SendIsSend DEF M!Next
<1>4. CASE Arrive
  BY <1>4, ArriveMirrors DEF M!Next
<1>5. CASE PipeEnds
  <2>1. /\ ~Busy /\ ~Busy' /\ UNCHANGED <<queue, copy, heap, call>>
    BY <1>5 DEF PipeEnds, S!EndOfInput, S!Die, S!fsvars, Busy, S!Waiting, S!Handling, S!Exited
  <2>2. Shown' = Shown /\ Pending' = Pending /\ Trusted' = Trusted
    BY <2>1 DEF Shown, Pending, Afters, FM!View, FM!FileOf, Trusted, Broken, FM!Stuck,
                FM!Doing
  <2>3. QED
    BY <2>1, <2>2, SameMirror
<1>6. CASE S!Handle /\ UNCHANGED <<client, queue, copy>>
  BY <1>6, HandleMirrors
<1>7. QED
  BY <1>1, <1>2, <1>3, <1>4, <1>5, <1>6 DEF Next, Client, Server

\* The server shows what its client had, message by message, until a position
\* means different places to both or a deletion of file_system_change does not
\* return: the safety of ImplementsMirror.
THEOREM SyncMirrors == Spec => M!Init /\ [][M!Next]_(M!vars)
<1>1. ASSUME Init PROVE M!Init
  <2>1. /\ queue = <<>> /\ copy.trusted = TRUE /\ S!Init
    BY <1>1 DEF Init
  <2>2. DOMAIN heap = {} /\ ~Busy
    BY <2>1, SameEnds DEF S!Init, FP!Init, Busy, S!Waiting, S!Handling
  <2>3. FM!View = [path \in {} |-> {}]
    BY <2>2 DEF FM!View
  <2>4. [i \in DOMAIN queue |-> queue[i].after] = <<>>
    BY <2>1
  <2>5. Shown = [path \in {} |-> {}] /\ Pending = <<>> /\ Trusted = TRUE
    <3>1. call.op = "idle"
      BY <2>1, SameEnds DEF S!Init, FP!Init, FP!Idle
    <3>2. Trusted = TRUE
      BY <2>1, <3>1, Unbroken DEF Trusted
    <3>3. QED
      BY <2>2, <2>3, <2>4, <3>2 DEF Shown, Pending, Afters
  <2>6. QED
    BY <2>1, <2>5 DEF M!Init, Shown, Pending, Afters
<1>2. Init => M!Init
  BY <1>1
<1>3. Inv /\ [Next]_vars => [M!Next]_(M!vars)
  BY StepMirrors
<1>4. QED
  BY <1>2, <1>3, SyncInductive, PTL DEF Spec

-----------------------------------------------------------------------------
(***************************************************************************)
(* Edits at places of the text.                                            *)
(***************************************************************************)

\* Each edit starts at a place of the text that those before it have left.
Placed(t, edits) ==
    \A texts : FP!Stages(t, edits, texts) =>
        \A i \in 1 .. Len(edits) : FP!HasPosition(texts[i - 1], edits[i].start)

\* No edit at all is one.
LEMMA PlacedNothing == \A t : Placed(t, <<>>)
<1>1. Len(<<>>) = 0
  OBVIOUS
<1>2. QED
  BY <1>1 DEF Placed

\* One edit more.
LEMMA PlacedMore ==
    ASSUME NEW t \in FP!ByteStrings, NEW edits \in Seq(FP!Edits), NEW e \in FP!Edits,
           Placed(t, edits), FP!HasPosition(FP!EditedAll(t, edits), e.start)
    PROVE  Placed(t, Append(edits, e))
<1> USE FileNames, FileTexts
<1> DEFINE more == Append(edits, e)
           n == Len(edits)
<1>1. /\ more \in Seq(FP!Edits) /\ Len(more) = n + 1 /\ n \in Nat
      /\ more[n + 1] = e /\ \A i \in 1 .. n : more[i] = edits[i]
  OBVIOUS
<1>2. PICK b : FP!Stages(t, edits, b) /\ FP!EditedAll(t, edits) = b[n]
  BY FP!EditsBetween
<1> HIDE DEF more
<1>3. ASSUME NEW a, FP!Stages(t, more, a), NEW i \in 1 .. Len(more)
      PROVE  FP!HasPosition(a[i - 1], more[i].start)
  <2> DEFINE c == [k \in 0 .. n |-> a[k]]
  <2>1. FP!Stages(t, edits, c)
    <3>1. c \in [0 .. n -> FP!ByteStrings]
      BY <1>1, <1>3 DEF FP!Stages
    <3>2. c[0] = t
      BY <1>1, <1>3 DEF FP!Stages
    <3>3. ASSUME NEW k \in 1 .. n
          PROVE  c[k] = FP!Edited(c[k - 1], edits[k])
      <4>1. k \in 1 .. Len(more) /\ c[k] = a[k] /\ c[k - 1] = a[k - 1] /\ more[k] = edits[k]
        BY <1>1
      <4>2. QED
        BY <1>3, <4>1 DEF FP!Stages
    <3> HIDE DEF c
    <3>4. QED
      BY <3>1, <3>2, <3>3 DEF FP!Stages
  <2>2. c[i - 1] = a[i - 1]
    BY <1>1
  <2> HIDE DEF c
  <2>3. CASE i \in 1 .. n
    <3>1. FP!HasPosition(c[i - 1], edits[i].start)
      BY <2>1, <2>3 DEF Placed
    <3>2. QED
      BY <1>1, <2>2, <2>3, <3>1
  <2>4. CASE i = n + 1
    <3>1. b[n] = c[n]
      BY <1>2, <2>1, FP!BetweenUnique
    <3>2. more[i] = e /\ c[i - 1] = c[n]
      BY <1>1, <2>4
    <3>3. QED
      BY <1>2, <2>2, <3>1, <3>2
  <2>5. QED
    BY <1>1, <2>3, <2>4
<1>4. QED
  BY <1>3 DEF Placed, more

\* One edit less.
LEMMA PlacedRest ==
    ASSUME NEW t \in FP!ByteStrings, NEW edits \in Seq(FP!Edits), edits # <<>>,
           Placed(t, edits)
    PROVE  /\ FP!HasPosition(t, Head(edits).start)
           /\ Placed(FP!Edited(t, Head(edits)), Tail(edits))
<1> USE FileNames, FileTexts
<1> DEFINE u == FP!Edited(t, Head(edits))
           rest == Tail(edits)
           n == Len(rest)
<1>1. /\ Head(edits) \in FP!Edits /\ Head(edits) = edits[1]
      /\ rest \in Seq(FP!Edits) /\ Len(edits) = n + 1 /\ n \in Nat
      /\ \A i \in 1 .. n : rest[i] = edits[i + 1]
  OBVIOUS
<1>2. FP!HasPosition(t, Head(edits).start)
  <2>1. PICK a : FP!Stages(t, edits, a)
    BY FP!EditsBetween
  <2>2. 1 \in 1 .. Len(edits) /\ 1 - 1 = 0
    BY <1>1
  <2>3. FP!HasPosition(a[1 - 1], edits[1].start)
    BY <2>1, <2>2 DEF Placed
  <2>4. a[0] = t
    BY <2>1 DEF FP!Stages
  <2>5. QED
    BY <1>1, <2>2, <2>3, <2>4
<1> HIDE DEF rest
<1>3. ASSUME NEW b, FP!Stages(u, rest, b), NEW i \in 1 .. n
      PROVE  FP!HasPosition(b[i - 1], rest[i].start)
  <2> DEFINE a == [k \in 0 .. n + 1 |-> IF k = 0 THEN t ELSE b[k - 1]]
  <2>1. /\ b \in [0 .. n -> FP!ByteStrings] /\ b[0] = u
        /\ \A k \in 1 .. n : b[k] = FP!Edited(b[k - 1], rest[k])
    BY <1>3 DEF FP!Stages
  <2>2. a \in [0 .. Len(edits) -> FP!ByteStrings] /\ a[0] = t
    <3>1. ASSUME NEW k \in 0 .. n + 1
          PROVE  (IF k = 0 THEN t ELSE b[k - 1]) \in FP!ByteStrings
      <4>1. k = 0 \/ k - 1 \in 0 .. n
        BY <1>1
      <4>2. QED
        BY <2>1, <4>1
    <3>2. QED
      BY <1>1, <3>1
  <2>3. \A k \in 1 .. n + 1 : a[k] = b[k - 1]
    BY <1>1
  <2> HIDE DEF a, u
  <2>4. ASSUME NEW k \in 1 .. Len(edits)
        PROVE  a[k] = FP!Edited(a[k - 1], edits[k])
    <3>1. CASE k = 1
      <4>1. a[k] = b[0] /\ a[k - 1] = t
        BY <1>1, <2>2, <2>3, <3>1
      <4>2. QED
        BY <1>1, <2>1, <3>1, <4>1 DEF u
    <3>2. CASE k # 1
      <4>1. k - 1 \in 1 .. n /\ k - 1 \in 1 .. n + 1 /\ k \in 1 .. n + 1 /\ (k - 1) + 1 = k
        BY <1>1, <3>2
      <4>2. a[k] = b[k - 1] /\ a[k - 1] = b[(k - 1) - 1] /\ rest[k - 1] = edits[k]
        BY <1>1, <2>3, <4>1
      <4>3. QED
        BY <2>1, <4>1, <4>2
    <3>3. QED
      BY <3>1, <3>2
  <2>5. FP!Stages(t, edits, a)
    BY <2>2, <2>4 DEF FP!Stages
  <2>6. i + 1 \in 1 .. Len(edits) /\ (i + 1) - 1 = i /\ i \in 1 .. n + 1
    BY <1>1
  <2>7. FP!HasPosition(a[i], edits[i + 1].start)
    BY <2>5, <2>6 DEF Placed
  <2>8. QED
    BY <1>1, <2>3, <2>6, <2>7
<1>4. Placed(u, rest)
  BY <1>3 DEF Placed
<1>5. QED
  BY <1>2, <1>4 DEF rest


\* The edits of a change that the server is asked to make.
AtPlaces(r, b) ==
    r.method = String("textDocument/didChange") =>
        LET change == S!parse_textDocument_didChange(r.params)
        IN  Placed(b[PathOf[change.uri.string]].text, change.edits)

\* Those that are told,
ToldAtPlaces ==
    \A u \in DOMAIN client.documents :
        client.documents[u].alike =>
            Placed(client.documents[u].told, EditsOf(client.documents[u].unsent))

\* those on their way
SentAtPlaces(q, from) ==
    \A i \in 1 .. Len(q) :
        q[i].alike => AtPlaces(Parsed(q[i].message),
                               IF i = 1 THEN from ELSE q[i - 1].after)

\* and those that a handler is about to make.
PlacesInv ==
    /\ ToldAtPlaces
    /\ SentAtPlaces(queue, copy.after)
    /\ Busy /\ FP!Doing("idle") /\ copy.trusted => AtPlaces(request, docs)

\* What a change asks for.
LEMMA ChangeAtPlaces ==
    ASSUME NEW uri, NEW version, NEW events \in Seq(ClientEvents), events # <<>>, NEW b
    PROVE  AtPlaces(Parsed(ChangeMessage(uri, version, events)), b)
             <=> Placed(b[PathOf[uri]].text, EditsOf(events))
<1> DEFINE r == Parsed(ChangeMessage(uri, version, events))
<1>1. /\ r.method = String("textDocument/didChange")
      /\ r.params = Object(ChangeParams(uri, version, events))
  BY MessagesParsed DEF Request
<1>2. S!parse_textDocument_didChange(r.params)
        = [outcome |-> "parsed", uri |-> String(uri), version |-> version,
           edits |-> EditsOf(events)]
  BY <1>1, ParametersRead
<1>3. String(uri).string = uri
  BY DEF String
<1> HIDE DEF r
<1>4. AtPlaces(r, b) <=> Placed(b[PathOf[uri]].text, EditsOf(events))
  BY <1>1, <1>2, <1>3 DEF AtPlaces
<1>5. QED
  BY <1>4 DEF r

\* Every other message asks for no edit.
LEMMA OthersAtPlaces ==
    ASSUME NEW m,
           \/ m \in {InitializeMessage, ShutdownMessage, ExitMessage}
           \/ \E uri : \E text : m = OpenMessage(uri, text)
           \/ \E uri : \E version : m = SaveMessage(uri, version)
           \/ \E uri : m = CloseMessage(uri)
    PROVE  \A b : AtPlaces(Parsed(m), b)
<1>1. \E name : /\ Parsed(m).method = String(name)
                /\ name \in {"initialize", "shutdown", "exit", "textDocument/didOpen",
                             "textDocument/didSave", "textDocument/didClose"}
  BY MessagesParsed DEF Request
<1>2. Parsed(m).method # String("textDocument/didChange")
  BY <1>1, OtherMethods
<1>3. QED
  BY <1>2 DEF AtPlaces

\* One message more.
LEMMA SentMore ==
    ASSUME NEW q, NEW from, NEW to, NEW x, Chained(q, from, to), SentAtPlaces(q, from),
           x.alike => AtPlaces(Parsed(x.message), to)
    PROVE  SentAtPlaces(Append(q, x), from)
<1>1. PICK E : q \in Seq(E)
  BY DEF Chained
<1> DEFINE more == Append(q, x)
           n == Len(q)
           F == E \cup {x}
<1>2. q \in Seq(F) /\ x \in F /\ n \in Nat
  BY <1>1
<1> HIDE DEF F
<1>3. /\ more \in Seq(F) /\ Len(more) = n + 1
      /\ \A i \in 1 .. n : more[i] = q[i]
      /\ more[n + 1] = x
  BY <1>2
<1> HIDE DEF more
<1>4. ASSUME NEW i \in 1 .. n + 1, more[i].alike
      PROVE  AtPlaces(Parsed(more[i].message),
                      IF i = 1 THEN from ELSE more[i - 1].after)
  <2>1. CASE i \in 1 .. n
    <3>1. i = 1 \/ i - 1 \in 1 .. n
      BY <1>2, <2>1
    <3>2. more[i] = q[i] /\ (i # 1 => more[i - 1] = q[i - 1])
      BY <1>3, <2>1, <3>1
    <3>3. QED
      BY <1>4, <2>1, <3>2 DEF SentAtPlaces
  <2>2. CASE i = n + 1
    <3>1. to = IF i = 1 THEN from ELSE more[i - 1].after
      <4>1. CASE n = 0
        <5>1. q = <<>>
          BY <1>2, <4>1
        <5>2. QED
          BY <2>2, <4>1, <5>1 DEF Chained
      <4>2. CASE n # 0
        <5>1. q # <<>> /\ n \in 1 .. n /\ i - 1 = n /\ i # 1
          BY <1>2, <2>2, <4>2
        <5>2. QED
          BY <1>3, <5>1 DEF Chained
      <4>3. QED
        BY <4>1, <4>2
    <3>2. QED
      BY <1>3, <1>4, <2>2, <3>1
  <2>3. QED
    BY <1>2, <2>1, <2>2
<1>5. QED
  BY <1>3, <1>4 DEF SentAtPlaces, more

\* One message less.
LEMMA SentRest ==
    ASSUME NEW q, NEW from, NEW to, Chained(q, from, to), q # <<>>,
           SentAtPlaces(q, from)
    PROVE  /\ Head(q).alike => AtPlaces(Parsed(Head(q).message), from)
           /\ SentAtPlaces(Tail(q), Head(q).after)
<1>1. PICK E : q \in Seq(E)
  BY DEF Chained
<1> DEFINE n == Len(q)
           rest == Tail(q)
<1>2. /\ n \in Nat /\ n >= 1 /\ Head(q) = q[1]
      /\ Len(rest) = n - 1
      /\ \A i \in 1 .. n - 1 : rest[i] = q[i + 1]
  BY <1>1
<1> HIDE DEF rest
<1>3. Head(q).alike => AtPlaces(Parsed(Head(q).message), from)
  BY <1>2 DEF SentAtPlaces
<1>4. ASSUME NEW i \in 1 .. n - 1, rest[i].alike
      PROVE  AtPlaces(Parsed(rest[i].message),
                      IF i = 1 THEN Head(q).after ELSE rest[i - 1].after)
  <2>1. i + 1 \in 1 .. n /\ i + 1 # 1 /\ (i + 1) - 1 = i
    BY <1>2
  <2>2. AtPlaces(Parsed(q[i + 1].message), q[i].after)
    BY <1>2, <1>4, <2>1 DEF SentAtPlaces
  <2>3. q[i] = IF i = 1 THEN Head(q) ELSE rest[i - 1]
    <3>1. i = 1 \/ (i - 1 \in 1 .. n - 1 /\ (i - 1) + 1 = i)
      BY <1>2
    <3>2. QED
      BY <1>2, <3>1
  <2>4. QED
    BY <1>2, <2>2, <2>3
<1>5. SentAtPlaces(rest, Head(q).after)
  BY <1>2, <1>4 DEF SentAtPlaces
<1>6. QED
  BY <1>3, <1>5 DEF rest

\* At the start nothing is told or sent.
LEMMA InitPlaces == ASSUME Init PROVE PlacesInv
<1>1. /\ client.documents = NoDocuments /\ queue = <<>> /\ S!Init
  BY DEF Init
<1>2. DOMAIN client.documents = {} /\ Len(queue) = 0
  BY <1>1 DEF NoDocuments
<1>3. ~Busy
  BY <1>1 DEF S!Init, Busy, S!Waiting, S!Handling
<1>4. QED
  BY <1>2, <1>3 DEF PlacesInv, ToldAtPlaces, SentAtPlaces

\* What the client does leaves the handler alone.
LEMMA ClientPlaces ==
    ASSUME PlacesInv, UNCHANGED copy, UNCHANGED servervars, ToldAtPlaces',
           SentAtPlaces(queue', copy.after)
    PROVE  PlacesInv'
<1>1. UNCHANGED <<process, request, call, docs>>
  BY DEF servervars
<1>2. ~Busy' \/ ~FP!Doing("idle")' \/ ~copy'.trusted \/ AtPlaces(request', docs')
  BY <1>1 DEF PlacesInv, Busy, FP!Doing
<1>3. AtPlaces(request, docs)' <=> AtPlaces(request', docs')
  BY DEF AtPlaces
<1>4. SentAtPlaces(queue, copy.after)' <=> SentAtPlaces(queue', copy'.after)
  BY DEF SentAtPlaces
<1>5. QED
  BY <1>2, <1>3, <1>4 DEF PlacesInv

\* A message more.
LEMMA QueuePlaces ==
    ASSUME Inv, PlacesInv, NEW x, queue' = Append(queue, x),
           x.alike => AtPlaces(Parsed(x.message), Snapshot(client.documents))
    PROVE  SentAtPlaces(queue', copy.after)
BY SentMore DEF Inv, QueueInv, PlacesInv

\* A notification that asks for no edit out of place.
LEMMA SendPlaces ==
    ASSUME Inv, PlacesInv, NEW message, NEW documents, NEW alike,
           Send(message, documents, alike),
           alike => AtPlaces(Parsed(message), Snapshot(client.documents)),
           \A u \in DOMAIN documents : documents[u].alike =>
               Placed(documents[u].told, EditsOf(documents[u].unsent))
    PROVE  PlacesInv'
<1> DEFINE x == [message |-> message, after |-> Snapshot(documents), alike |-> alike]
<1>1. /\ queue' = Append(queue, x) /\ client' = [client EXCEPT !.documents = documents]
      /\ UNCHANGED copy /\ UNCHANGED servervars
  BY DEF Send
<1>2. client'.documents = documents
  BY <1>1 DEF Inv, ClientInv
<1>3. x.message = message /\ x.alike = alike
  OBVIOUS
<1> HIDE DEF x
<1>4. ToldAtPlaces'
  BY <1>2 DEF ToldAtPlaces
<1>5. SentAtPlaces(queue', copy.after)
  BY <1>1, <1>3, QueuePlaces
<1>6. QED
  BY <1>1, <1>4, <1>5, ClientPlaces

\* A message that asks for no edit.
LEMMA NothingPlaced == \A t : Placed(t, EditsOf(<<>>))
<1>1. <<>> \in Seq(ClientEvents)
  OBVIOUS
<1>2. EditsOf(<<>>) = <<>>
  BY <1>1, EventsRead
<1>3. QED
  BY <1>2, PlacedNothing

\* A document is opened,
LEMMA OpenPlaces ==
    ASSUME Inv, PlacesInv, NEW uri \in Uri, NEW text \in Texts, Open(uri, text)
    PROVE  PlacesInv'
<1> DEFINE document == [version |-> 1, text |-> text, told |-> text,
                        unsent |-> <<>>, alike |-> TRUE]
           documents == FP!With(client.documents, uri, document)
           message == OpenMessage(uri, text)
<1>1. Send(message, documents, TRUE) /\ uri \notin DOMAIN client.documents
  BY SameWith DEF Open, OpenMessage, OpenParams
<1>2. AtPlaces(Parsed(message), Snapshot(client.documents))
  BY OthersAtPlaces
<1>3. document.told = text /\ document.unsent = <<>>
  OBVIOUS
<1> HIDE DEF document, message
<1>4. /\ DOMAIN documents = DOMAIN client.documents \cup {uri}
      /\ documents[uri] = document
      /\ \A u \in DOMAIN client.documents : documents[u] = client.documents[u]
  BY <1>1 DEF FP!With, FP!Over
<1> HIDE DEF documents
<1>5. \A u \in DOMAIN documents : documents[u].alike =>
          Placed(documents[u].told, EditsOf(documents[u].unsent))
  BY <1>3, <1>4, NothingPlaced DEF PlacesInv, ToldAtPlaces
<1>6. QED
  BY <1>1, <1>2, <1>5, SendPlaces

\* edited: at a place of the text that the edits before have left,
LEMMA TypePlaces ==
    ASSUME Inv, PlacesInv, NEW uri \in Uri, NEW inserted \in Chars \cup {<<>>},
           Type(uri, inserted)
    PROVE  PlacesInv'
<1> USE FileNames, FileTexts
<1> DEFINE doc == client.documents[uri]
<1>1. /\ uri \in DOMAIN client.documents
      /\ UNCHANGED <<queue, copy>> /\ UNCHANGED servervars
  BY TypeMakes
<1>2. PICK e \in ClientEdits, later \in Utf8Strings, known \in BOOLEAN :
         /\ known => /\ doc.alike /\ HasPosition(doc.text, e.start)
                     /\ FP!Edited(doc.text, e) = later
         /\ client' = [client EXCEPT !.documents =
                         [client.documents EXCEPT ![uri] =
                            Doc(doc.version, later, doc.told,
                                Append(doc.unsent, EventOf(e)), known)]]
  BY TypeMakes
<1>3. AreDocuments(client.documents) /\ IsDocument(doc)
  BY <1>1 DEF Inv, ClientInv, AreDocuments
<1> DEFINE more == Append(doc.unsent, EventOf(e))
           d == Doc(doc.version, later, doc.told, more, known)
<1>4. known => Placed(doc.told, EditsOf(more))
  <2> SUFFICES ASSUME known
               PROVE  Placed(doc.told, EditsOf(more))
    OBVIOUS
  <2>1. /\ doc.unsent \in Seq(ClientEvents) /\ doc.told \in Utf8Strings
        /\ FP!EditedAll(doc.told, EditsOf(doc.unsent)) = doc.text
    BY <1>2, <1>3 DEF IsDocument
  <2>2. /\ EditsOf(doc.unsent) \in Seq(ClientEdits)
        /\ EditsOf(more) = Append(EditsOf(doc.unsent), e)
    BY <2>1, EventsRead
  <2>3. /\ EditsOf(doc.unsent) \in Seq(FP!Edits) /\ e \in FP!Edits
        /\ doc.told \in FP!ByteStrings
    BY <2>1, <2>2, ClientEditsAre
  <2>4. Placed(doc.told, EditsOf(doc.unsent))
    BY <1>1, <1>2 DEF PlacesInv, ToldAtPlaces
  <2>5. FP!HasPosition(FP!EditedAll(doc.told, EditsOf(doc.unsent)), e.start)
    BY <1>2, <2>1, SameText
  <2>6. Placed(doc.told, Append(EditsOf(doc.unsent), e))
    BY <2>3, <2>4, <2>5, PlacedMore
  <2>7. QED
    BY <2>2, <2>6
<1> HIDE DEF more
<1>5. d.told = doc.told /\ d.unsent = more /\ d.alike = known
  BY DEF Doc
<1> HIDE DEF d
<1>6. client'.documents = [client.documents EXCEPT ![uri] = d]
  BY <1>2 DEF Inv, ClientInv, d, more
<1>7. /\ DOMAIN client'.documents = DOMAIN client.documents
      /\ client'.documents[uri] = d
      /\ \A u \in DOMAIN client.documents :
            u # uri => client'.documents[u] = client.documents[u]
  BY <1>1, <1>3, <1>6 DEF AreDocuments
<1>8. ToldAtPlaces'
  BY <1>4, <1>5, <1>7 DEF PlacesInv, ToldAtPlaces
<1>9. SentAtPlaces(queue', copy.after)
  BY <1>1 DEF PlacesInv
<1>10. QED
  BY <1>1, <1>8, <1>9, ClientPlaces

\* told of,
LEMMA TellPlaces ==
    ASSUME Inv, PlacesInv, NEW uri \in Uri, Tell(uri)
    PROVE  PlacesInv'
<1> DEFINE doc == client.documents[uri]
           version == doc.version + 1
           new == Doc(version, doc.text, doc.text, <<>>, TRUE)
           documents == [client.documents EXCEPT ![uri] = new]
           message == ChangeMessage(uri, version, doc.unsent)
           b == Snapshot(client.documents)
<1>1. /\ uri \in DOMAIN client.documents /\ doc.unsent # <<>>
      /\ Send(message, documents, doc.alike)
  BY TellMakes
<1>2. AreDocuments(client.documents) /\ IsDocument(doc)
  BY <1>1 DEF Inv, ClientInv, AreDocuments
<1>3. doc.unsent \in Seq(ClientEvents) /\ DOMAIN client.documents \subseteq Uri
  BY <1>2 DEF IsDocument, AreDocuments
<1>4. doc.alike => AtPlaces(Parsed(message), b)
  <2>1. b[PathOf[uri]] = [version |-> doc.version, text |-> doc.told]
    BY <1>1, <1>3, SnapshotIs DEF IsSnapshot
  <2>2. b[PathOf[uri]].text = doc.told
    BY <2>1
  <2>3. doc.alike => Placed(doc.told, EditsOf(doc.unsent))
    BY <1>1 DEF PlacesInv, ToldAtPlaces
  <2> HIDE DEF b, doc, version
  <2>4. AtPlaces(Parsed(message), b) <=> Placed(b[PathOf[uri]].text, EditsOf(doc.unsent))
    BY <1>1, <1>3, ChangeAtPlaces
  <2>5. QED
    BY <2>2, <2>3, <2>4
<1>5. new.told = doc.text /\ new.unsent = <<>>
  BY DEF Doc
<1> HIDE DEF new, message, doc
<1>6. /\ DOMAIN documents = DOMAIN client.documents /\ documents[uri] = new
      /\ \A u \in DOMAIN client.documents : u # uri => documents[u] = client.documents[u]
  BY <1>1, <1>2 DEF AreDocuments
<1> HIDE DEF documents
<1>7. \A u \in DOMAIN documents : documents[u].alike =>
          Placed(documents[u].told, EditsOf(documents[u].unsent))
  BY <1>5, <1>6, NothingPlaced DEF PlacesInv, ToldAtPlaces
<1>8. QED
  BY <1>1, <1>4, <1>7, SendPlaces

\* saved and closed.
LEMMA SaveClosePlaces ==
    ASSUME Inv, PlacesInv, NEW uri \in Uri, Save(uri) \/ Close(uri)
    PROVE  PlacesInv'
<1>1. PICK message, documents :
         /\ Send(message, documents, TRUE)
         /\ \/ \E version : message = SaveMessage(uri, version)
            \/ message = CloseMessage(uri)
         /\ documents \in {client.documents, FP!Without(client.documents, uri)}
  BY SameWith DEF Save, Close, Document, SaveMessage, SaveParams, CloseMessage, CloseParams
<1>2. AtPlaces(Parsed(message), Snapshot(client.documents))
  BY <1>1, OthersAtPlaces
<1>3. \A u \in DOMAIN documents :
         u \in DOMAIN client.documents /\ documents[u] = client.documents[u]
  BY <1>1 DEF FP!Without
<1>4. \A u \in DOMAIN documents : documents[u].alike =>
          Placed(documents[u].told, EditsOf(documents[u].unsent))
  BY <1>3 DEF PlacesInv, ToldAtPlaces
<1>5. QED
  BY <1>1, <1>2, <1>4, SendPlaces

\* The client asks to initialize or to shut down, or it leaves.
LEMMA AskPlaces ==
    ASSUME Inv, PlacesInv, AskInitialize \/ AskShutdown \/ Exit
    PROVE  PlacesInv'
<1>1. PICK m, after, next, documents :
         /\ queue' = Append(queue, [message |-> m, after |-> after, alike |-> TRUE])
         /\ client' = [client EXCEPT !.phase = next, !.documents = documents]
         /\ UNCHANGED copy /\ UNCHANGED servervars
         /\ m \in {InitializeMessage, ShutdownMessage, ExitMessage}
         /\ documents \in {NoDocuments, client.documents}
  <2>1. CASE AskInitialize \/ AskShutdown
    BY <2>1 DEF AskInitialize, AskShutdown, Ask, InitializeMessage, InitializeParams,
                ShutdownMessage
  <2>2. CASE Exit
    <3>1. client' = [client EXCEPT !.phase = "left", !.documents = client.documents]
      BY <2>2 DEF Exit, Inv, ClientInv
    <3>2. QED
      BY <2>2, <3>1 DEF Exit, ExitMessage
  <2>3. QED
    BY <2>1, <2>2
<1> DEFINE x == [message |-> m, after |-> after, alike |-> TRUE]
<1>2. queue' = Append(queue, x) /\ x.message = m
  BY <1>1
<1> HIDE DEF x
<1>3. SentAtPlaces(queue', copy.after)
  BY <1>1, <1>2, OthersAtPlaces, QueuePlaces
<1>4. client'.documents = documents
  BY <1>1 DEF Inv, ClientInv
<1>5. ToldAtPlaces'
  BY <1>1, <1>4 DEF PlacesInv, ToldAtPlaces, NoDocuments
<1>6. QED
  BY <1>1, <1>3, <1>5, ClientPlaces

\* The documents stay as they are.
LEMMA WaitPlaces ==
    ASSUME Inv, PlacesInv, Initialized \/ ShutdownAnswered \/ Vanish
    PROVE  PlacesInv'
<1>1. UNCHANGED <<queue, copy>> /\ UNCHANGED servervars
  BY DEF Initialized, ShutdownAnswered, Vanish
<1>2. client'.documents = client.documents
  BY DEF Initialized, ShutdownAnswered, Vanish, Inv, ClientInv
<1>3. ToldAtPlaces' /\ SentAtPlaces(queue', copy.after)
  BY <1>1, <1>2 DEF PlacesInv, ToldAtPlaces
<1>4. QED
  BY <1>1, <1>3, ClientPlaces

\* A message arrives, with edits at places of the documents of the server if
\* both have agreed so far.
LEMMA ArrivePlaces == ASSUME Inv, PlacesInv, Arrive PROVE PlacesInv'
<1> DEFINE x == Head(queue)
<1>1. /\ request' = Parsed(x.message)
      /\ process = S!Waiting
      /\ UNCHANGED <<client, docs>>
      /\ queue # <<>> /\ queue' = Tail(queue)
      /\ copy'.trusted = (copy.trusted /\ x.alike)
      /\ copy'.after = x.after
  BY Arrives
<1>2. Chained(queue, copy.after, Snapshot(client.documents))
  BY DEF Inv, QueueInv
<1>3. /\ x.alike => AtPlaces(Parsed(x.message), copy.after)
      /\ SentAtPlaces(Tail(queue), x.after)
  BY <1>1, <1>2, SentRest DEF PlacesInv
<1>4. ~Busy
  BY <1>1 DEF Busy, S!Waiting, S!Handling
<1>5. Agrees(docs, copy.after, copy.trusted)
  BY <1>4 DEF Inv, ServerInv
<1> HIDE DEF x
<1>6. copy'.trusted => AtPlaces(request', docs')
  BY <1>1, <1>3, <1>5 DEF Agrees
<1>7. ToldAtPlaces' /\ SentAtPlaces(queue', copy'.after)
  BY <1>1, <1>3 DEF PlacesInv, ToldAtPlaces
<1>8. /\ AtPlaces(request, docs)' <=> AtPlaces(request', docs')
      /\ SentAtPlaces(queue, copy.after)' <=> SentAtPlaces(queue', copy'.after)
  BY DEF AtPlaces, SentAtPlaces
<1>9. QED
  BY <1>6, <1>7, <1>8 DEF PlacesInv

-----------------------------------------------------------------------------
(***************************************************************************)
(* The server survives.                                                    *)
(***************************************************************************)

\* What a call needs that it may return: a document that is opened is not
\* there, one that is changed is, and the edits are at places of its text as
\* long as positions mean the same to both.
CallSafe ==
    /\ FP!Doing("open") => call.path \notin DOMAIN FP!View
    /\ FP!Doing("change") => call.path \in DOMAIN FP!View
    /\ FP!Doing("abort") => call.line = 634 \/ (call.line = 649 /\ ~copy.trusted)
    /\ copy.trusted =>
          /\ FP!Doing("change") => /\ call.skipped = 0
                                   /\ Placed(FP!View[call.path].text, call.edits)
          /\ FP!Doing("returned") => call.skipped = 0

Alive == process.state \notin {"crashed", "aborted"}

ServingInv == PlacesInv /\ CallSafe /\ Alive

\* A call that ends with every edit made.
LEMMA ReturnedSafe ==
    ASSUME NEW ret, NEW want, call' = FP!Returned(ret, want, 0)
    PROVE  CallSafe'
<1>1. call'.op = "returned" /\ call'.skipped = 0
  BY DEF FP!Returned
<1>2. QED
  BY <1>1 DEF CallSafe, FP!Doing

\* An edit that is made leaves the rest of them at places.
LEMMA EditSafe ==
    ASSUME FilesInv, CallSafe, copy.trusted \in BOOLEAN, copy' = copy, FP!ChangeEdit
    PROVE  CallSafe'
<1> USE FileNames, FileTexts
<1> DEFINE n == call.rover
           edit == Head(call.edits)
           rest == Tail(call.edits)
           t == heap[n].text
           located == FP!IsWhole(edit) \/ FP!HasPosition(t, edit.start)
<1>1. /\ FP!IInv /\ FP!TextsInv /\ FP!IsHeap(heap) /\ WholeCodepoints
      /\ FP!Doing("change") /\ call.found /\ call.edits # <<>>
  BY DEF FilesInv, FP!Holding, FP!IInv, FP!ChangeEdit
<1>2. /\ n \in DOMAIN heap /\ heap[n].path = call.path
      /\ t \in FP!ByteStrings
      /\ call.path \in DOMAIN FP!View /\ FP!View[call.path].text = t
  BY <1>1, FP!FoundFacts, FP!FoundInView DEF FP!Doing, FP!TextsInv
<1>3. /\ call = [x \in DOMAIN call |-> call[x]]
      /\ {"op", "path", "edits", "skipped"} \subseteq DOMAIN call
  BY <1>1 DEF FP!IInv, FP!CallInv, FP!TextsInv, FP!Doing
<1>4. call.edits \in Seq(FP!Edits) /\ edit \in FP!Edits
  <2>1. call.edits \in Seq(ClientEdits)
    BY <1>1 DEF WholeCodepoints
  <2>2. call.edits \in Seq(FP!Edits)
    BY <2>1, ClientEditsAre
  <2>3. QED
    BY <1>1, <2>2
<1>5. copy.trusted => /\ call.skipped = 0 /\ located
                      /\ Placed(FP!Edited(t, edit), rest)
  <2>1. copy.trusted => call.skipped = 0 /\ Placed(t, call.edits)
    BY <1>1, <1>2 DEF CallSafe
  <2>2. copy.trusted => /\ FP!HasPosition(t, edit.start)
                        /\ Placed(FP!Edited(t, edit), rest)
    BY <1>1, <1>2, <1>4, <2>1, PlacedRest
  <2>3. QED
    BY <2>1, <2>2
<1>6. \/ /\ located /\ FP!Rewrite(n, edit)
         /\ call' = [call EXCEPT !.edits = rest, !.skipped = call.skipped]
      \/ /\ ~located /\ heap' = heap
         /\ \/ FP!Abort(649)
            \/ \E skipped : call' = [call EXCEPT !.edits = rest, !.skipped = skipped]
  BY <1>3 DEF FP!ChangeEdit
<1> HIDE DEF edit, rest, t, located
<1>7. ASSUME located, FP!Rewrite(n, edit),
             call' = [call EXCEPT !.edits = rest, !.skipped = call.skipped]
      PROVE  CallSafe'
  <2>1. heap' = [heap EXCEPT ![n].text = FP!Edited(t, edit)]
    BY <1>2, <1>4, <1>7, FP!RewriteEdits DEF t, located
  <2>2. /\ FP!SameLinks(heap', heap)
        /\ FP!IsWithText(heap', heap, n, FP!Edited(t, edit))
    BY <1>1, <1>2, <2>1, FP!TextSameLinks, FP!WithTextFacts
  <2>3. PICK h, p : h = heap' /\ p = heap[n].path
    OBVIOUS
  <2>4. /\ h[n].text = FP!Edited(t, edit)
        /\ FP!SameLinks(h, heap) /\ FP!OthersKept(h, heap, n)
    BY <1>2, <2>2, <2>3 DEF FP!IsWithText, FP!OthersKept
  <2>5. /\ p \in DOMAIN FP!View'
        /\ FP!View'[p] = [version |-> h[n].version, text |-> h[n].text]
    BY <1>1, <1>2, <2>3, <2>4, FP!ChangedDocs
  <2>6. /\ call.path \in DOMAIN FP!View'
        /\ FP!View'[call.path].text = FP!Edited(t, edit)
    BY <1>2, <2>3, <2>4, <2>5
  <2>7. /\ call'.op = call.op /\ call'.path = call.path
        /\ call'.edits = rest /\ call'.skipped = call.skipped
    BY <1>3, <1>7
  <2>8. QED
    BY <1>1, <1>5, <2>6, <2>7 DEF CallSafe, FP!Doing
<1>8. ASSUME ~located, heap' = heap, FP!Abort(649)
      PROVE  CallSafe'
  <2>1. call'.op = "abort" /\ call'.line = 649
    BY <1>8 DEF FP!Abort
  <2>2. QED
    BY <1>5, <1>8, <2>1 DEF CallSafe, FP!Doing
<1>9. ASSUME ~located, heap' = heap, NEW skipped,
             call' = [call EXCEPT !.edits = rest, !.skipped = skipped]
      PROVE  CallSafe'
  <2>1. FP!View' = FP!View
    BY <1>9, FP!ViewKeptWhole
  <2>2. call'.op = call.op /\ call'.path = call.path
    BY <1>3, <1>9
  <2>3. QED
    BY <1>1, <1>2, <1>5, <1>9, <2>1, <2>2 DEF CallSafe, FP!Doing
<1>10. QED
  BY <1>6, <1>7, <1>8, <1>9

\* So does every step of a call.
LEMMA WorkSafe ==
    ASSUME FilesInv, CallSafe, copy.trusted \in BOOLEAN, copy' = copy, FP!Work
    PROVE  CallSafe'
<1> USE FileNames, FileTexts
<1>1. FP!IInv /\ FP!TextsInv
  BY DEF FilesInv, FP!Holding
<1>2. /\ call = [x \in DOMAIN call |-> call[x]] /\ "op" \in DOMAIN call
      /\ call.op \in {"open", "change", "close", "save"} =>
            {"path", "rover", "found"} \subseteq DOMAIN call
      /\ FP!Doing("change") => {"edits", "skipped"} \subseteq DOMAIN call
  BY <1>1 DEF FP!IInv, FP!CallInv, FP!TextsInv
<1>3. CASE FP!LookupStep
  <2>1. /\ call.op \in {"open", "change", "close", "save"}
        /\ call' = [call EXCEPT !.found = FP!Hit] /\ heap' = heap
    BY <1>3 DEF FP!LookupStep, FP!Searching
  <2>2. /\ call'.op = call.op /\ call'.path = call.path
        /\ FP!Doing("change") => call'.edits = call.edits /\ call'.skipped = call.skipped
    BY <1>2, <2>1
  <2>3. FP!View' = FP!View
    BY <2>1, FP!ViewKeptWhole
  <2>4. QED
    BY <2>1, <2>2, <2>3 DEF CallSafe, FP!Doing
<1>4. CASE FP!LookupFails \/ FP!SaveFound \/ FP!OpenNew \/ FP!FreeReturn
  <2>1. \E ret, want : call' = FP!Returned(ret, want, 0)
    BY <1>4 DEF FP!LookupFails, FP!SaveFound, FP!OpenNew, FP!FreeReturn
  <2>2. QED
    BY <2>1, ReturnedSafe
<1>5. CASE FP!CloseFound
  <2>1. heap[call.rover].open_count = 1
    BY <1>1, <1>5, FP!FoundFacts DEF FP!CloseFound, FP!Doing
  <2>2. call' = FP!Returned(0, 0, 0)
    BY <1>5, <2>1 DEF FP!CloseFound
  <2>3. QED
    BY <2>2, ReturnedSafe
<1>6. CASE FP!OpenFound
  <2>1. FP!Doing("open") /\ call.found
    BY <1>6 DEF FP!OpenFound
  <2>2. call.path \in DOMAIN FP!View
    BY <1>1, <2>1, FP!FoundInView DEF FP!Doing
  <2>3. QED
    BY <2>1, <2>2 DEF CallSafe
<1>7. CASE FP!ChangeEdit
  BY <1>7, EditSafe
<1>8. CASE FP!ChangeReturn
  <2>1. FP!Doing("change") /\ call' = FP!Returned(1, call.want, call.skipped)
    BY <1>8 DEF FP!ChangeReturn
  <2>2. call'.op = "returned" /\ call'.skipped = call.skipped
    BY <2>1 DEF FP!Returned
  <2>3. QED
    BY <2>1, <2>2 DEF CallSafe, FP!Doing
<1>9. CASE FP!FreeStep
  <2>1. call'.op = "free"
    BY <1>2, <1>9 DEF FP!FreeStep, FP!Doing
  <2>2. QED
    BY <2>1 DEF CallSafe, FP!Doing
<1>10. CASE FP!DeletionAborts
  <2>1. call'.op = "abort" /\ call'.line = 634
    BY <1>10 DEF FP!DeletionAborts, FP!Abort
  <2>2. QED
    BY <2>1 DEF CallSafe, FP!Doing
<1>11. CASE FP!DeletionHangs
  <2>1. call'.op = "stuck"
    BY <1>11 DEF FP!DeletionHangs
  <2>2. QED
    BY <2>1 DEF CallSafe, FP!Doing
<1>12. QED
  BY <1>3, <1>4, <1>5, <1>6, <1>7, <1>8, <1>9, <1>10, <1>11 DEF FP!Work

\* No search goes on for ever: no two paths have a hash in common.
LEMMA SearchesEnd ==
    ASSUME FilesInv
    PROVE  ~FP!Spinning
<1>1. FP!IInv
  BY DEF FilesInv, FP!Holding
<1>2. SUFFICES ASSUME FP!Spinning PROVE FALSE
  OBVIOUS
<1>3. /\ call.path \in Path
      /\ call.rover = fs.table[Hash[call.path]]
      /\ call.rover # NULL
      /\ heap[call.rover].path # call.path
  BY <1>1, <1>2 DEF FP!Spinning, FP!Searching, FP!Hit, FP!IInv, FP!CallInv
<1>4. Hash[call.path] \in Bucket
  BY <1>3, NamesAssumption
<1>5. /\ heap[call.rover].path \in Path
      /\ Hash[heap[call.rover].path] = Hash[call.path]
  BY <1>1, <1>3, <1>4 DEF FP!IInv, FP!TableInv
<1>6. QED
  BY <1>3, <1>5, NamesAssumption

\* initialize and exit do not end in a signal.
LEMMA LifecycleLives ==
    ASSUME NEW m \in {InitializeMessage, ExitMessage}, request = Parsed(m), Begins,
           ServerTyped
    PROVE  Alive' /\ UNCHANGED call
<1>1. CASE m = InitializeMessage
  <2>1. /\ request.method.string = "initialize" /\ ~S!IsNotification
        /\ request.params = InitializeParams
    BY <1>1, IsOfMethod, MessagesParsed
  <2>2. ~S!WithoutParams
    BY <2>1 DEF S!WithoutParams, S!Absent, InitializeParams, Object
  <2>3. S!InitializeFails \/ S!Initialize
    <3>1. /\ ~S!Exit /\ ~S!Shutdown /\ ~S!UnknownRequest
      BY <2>1 DEF S!Exit, S!Shutdown, S!UnknownRequest, S!Evaluates
    <3>2. /\ ~S!SkipNotification /\ ~S!LeaveNotification
          /\ ~S!DidOpen /\ ~S!DidChange /\ ~S!DidSave /\ ~S!DidClose
      BY <2>1 DEF S!SkipNotification, S!LeaveNotification, S!DidOpen, S!DidChange,
                  S!DidSave, S!DidClose, S!Handles, S!Notified
    <3>3. QED
      BY <3>1, <3>2 DEF Begins
  <2>4. /\ process' = S!Waiting \/ \E code, cause : process' = S!Exited(code, cause)
        /\ UNCHANGED call
    BY <2>2, <2>3 DEF S!InitializeFails, S!Initialize, S!Finish, S!server_exit, S!Die,
                      S!fsvars
  <2>5. QED
    BY <2>4 DEF Alive, S!Waiting, S!Exited
<1>2. CASE m = ExitMessage
  <2>1. request.method.string = "exit" /\ S!IsNotification
    BY <1>2, IsOfMethod, MessagesParsed
  <2>2. S!Exit
    BY <2>1 DEF Begins, S!InitializeFails, S!Initialize, S!Shutdown, S!UnknownRequest,
                S!SkipNotification, S!LeaveNotification, S!DidOpen, S!DidChange,
                S!DidSave, S!DidClose, S!Handles, S!Notified, S!Evaluates, S!Methods
  <2>3. QED
    BY <2>2 DEF S!Exit, S!server_exit, S!Die, S!Exited, S!fsvars, Alive
<1>3. QED
  BY <1>1, <1>2

\* A handler of the client's messages begins with what its call needs.
LEMMA BeginsSafe ==
    ASSUME Inv, ServingInv, copy' = copy, Busy, FP!Doing("idle"), Begins
    PROVE  CallSafe' /\ Alive'
<1> USE FileNames, FileTexts
<1>1. FilesInv /\ ServerInv /\ ReadyInv /\ PlacesInv /\ Alive /\ ServerTyped
  BY DEF Inv, ServingInv, ReadyInv
<1>2. PICK m, b : /\ request = Parsed(m)
                  /\ Linked(m, copy.trusted, b, copy.after)
                  /\ Agrees(docs, b, copy.trusted)
  BY <1>1 DEF ServerInv
<1>3. server.initialized \/ request.method = String("initialize")
  BY <1>1 DEF ReadyInv
<1>4. docs = FP!View
  BY <1>1 DEF FilesInv, FP!Holding, FP!DocsInv, FP!AtRest, FP!Doing
<1>5. ASSUME call'.op \in {"idle", "free", "save", "close"}
      PROVE  CallSafe'
  BY <1>5 DEF CallSafe, FP!Doing
<1>6. CASE m \in {InitializeMessage, ExitMessage}
  <2>1. Alive' /\ call' = call
    BY <1>1, <1>2, <1>6, LifecycleLives
  <2>2. QED
    BY <1>5, <2>1 DEF FP!Doing
<1>7. CASE m = ShutdownMessage
  <2>1. FP!CallFree /\ process' = process
    BY <1>2, <1>7, ShutdownBegins
  <2>2. QED
    BY <1>1, <1>5, <2>1 DEF FP!CallFree, Alive
<1>8. CASE Opens(m, b, copy.after)
  <2>1. PICK uri \in Uri, text \in Utf8Strings :
           m = OpenMessage(uri, text) /\ PathOf[uri] \notin DOMAIN b
    BY <1>8 DEF Opens
  <2>2. server.initialized
    BY <1>2, <1>3, <2>1, MessagesParsed, OtherMethods DEF Request
  <2>3. FP!CallOpen(uri, 1, text) /\ process' = process
    BY <1>2, <2>1, <2>2, OpenBegins
  <2>4. PathOf[uri] # NoPath
    BY NamesAssumption
  <2>5. call'.op = "open" /\ call'.path = PathOf[uri] /\ heap' = heap
    BY <2>3, <2>4, FP!CallOpenFacts DEF FP!CallOpen, FP!Search
  <2>6. call'.path \notin DOMAIN FP!View'
    BY <1>2, <1>4, <2>1, <2>5, FP!ViewKeptWhole DEF Agrees
  <2>7. QED
    BY <1>1, <2>3, <2>5, <2>6 DEF CallSafe, FP!Doing, Alive
<1>9. CASE Changes(m, copy.trusted, b, copy.after)
  <2>1. PICK uri \in Uri, version \in Int, events \in Seq(ClientEvents) :
           /\ m = ChangeMessage(uri, version, events) /\ events # <<>>
           /\ PathOf[uri] \in DOMAIN b
    BY <1>9 DEF Changes
  <2>2. server.initialized
    BY <1>2, <1>3, <2>1, MessagesParsed, OtherMethods DEF Request
  <2>3. FP!CallChange(uri, version, EditsOf(events)) /\ process' = process
    BY <1>2, <2>1, <2>2, ChangeBegins
  <2>4. PathOf[uri] # NoPath
    BY NamesAssumption
  <2>5. /\ call'.op = "change" /\ call'.path = PathOf[uri]
        /\ call'.edits = EditsOf(events) /\ call'.skipped = 0 /\ heap' = heap
    BY <2>3, <2>4, FP!CallChangeFacts DEF FP!CallChange, FP!Search
  <2>6. call'.path \in DOMAIN FP!View' /\ FP!View' = docs
    BY <1>2, <1>4, <2>1, <2>5, FP!ViewKeptWhole DEF Agrees
  <2>7. copy.trusted => Placed(docs[PathOf[uri]].text, EditsOf(events))
    <3>1. copy.trusted => AtPlaces(request, docs)
      BY <1>1 DEF PlacesInv
    <3>2. QED
      BY <1>2, <2>1, <3>1, ChangeAtPlaces
  <2>8. QED
    BY <1>1, <2>3, <2>5, <2>6, <2>7 DEF CallSafe, FP!Doing, Alive
<1>10. CASE Saves(m, b, copy.after)
  <2>1. PICK uri \in Uri, version \in Int : m = SaveMessage(uri, version)
    BY <1>10 DEF Saves
  <2>2. server.initialized
    BY <1>2, <1>3, <2>1, MessagesParsed, OtherMethods DEF Request
  <2>3. FP!CallSave(uri) /\ process' = process
    BY <1>2, <2>1, <2>2, SaveBegins
  <2>4. PathOf[uri] # NoPath
    BY NamesAssumption
  <2>5. call'.op = "save"
    BY <2>3, <2>4, FP!CallSaveFacts
  <2>6. QED
    BY <1>1, <1>5, <2>3, <2>5 DEF Alive
<1>11. CASE Closes(m, b, copy.after)
  <2>1. PICK uri \in Uri : m = CloseMessage(uri)
    BY <1>11 DEF Closes
  <2>2. server.initialized
    BY <1>2, <1>3, <2>1, MessagesParsed, OtherMethods DEF Request
  <2>3. FP!CallClose(uri) /\ process' = process
    BY <1>2, <2>1, <2>2, CloseBegins
  <2>4. PathOf[uri] # NoPath
    BY NamesAssumption
  <2>5. call'.op = "close"
    BY <2>3, <2>4, FP!CallCloseFacts
  <2>6. QED
    BY <1>1, <1>5, <2>3, <2>5 DEF Alive
<1>12. QED
  BY <1>2, <1>6, <1>7, <1>8, <1>9, <1>10, <1>11 DEF Linked

\* A step of a handler keeps the server serving.
LEMMA HandleServes ==
    ASSUME Inv, ServingInv, S!Handle, UNCHANGED <<client, queue, copy>>
    PROVE  ServingInv'
<1>1. FilesInv /\ ServerTyped /\ copy.trusted \in BOOLEAN /\ copy' = copy
  BY DEF Inv, ServerInv, ReadyInv
<1>2. Busy /\ (GoesOn \/ Returns \/ (FP!Doing("idle") /\ Begins))
  BY <1>1, HandleIs DEF ServerTyped
<1>3. PlacesInv /\ CallSafe /\ Alive
  BY DEF ServingInv
<1>4. /\ ToldAtPlaces'
      /\ SentAtPlaces(queue', copy'.after)
      /\ SentAtPlaces(queue, copy.after)' <=> SentAtPlaces(queue', copy'.after)
  BY <1>3 DEF PlacesInv, ToldAtPlaces, SentAtPlaces
<1>5. ASSUME ~Busy' \/ ~FP!Doing("idle")'
      PROVE  PlacesInv'
  BY <1>4, <1>5 DEF PlacesInv
<1>6. CASE GoesOn
  <2>1. FP!Work /\ process' = process
    BY <1>6 DEF GoesOn
  <2>2. ~FP!Doing("idle")'
    BY <1>1, <2>1, WorkGoesOn DEF FP!Doing
  <2>3. QED
    BY <1>1, <1>3, <1>5, <2>1, <2>2, WorkSafe DEF ServingInv, Alive
<1>7. CASE Returns
  <2>1. process' = S!Waiting /\ call'.op = "idle"
    BY <1>7 DEF Returns, FP!Receive, FP!Idle
  <2>2. ~Busy' /\ Alive'
    BY <2>1 DEF Busy, S!Waiting, S!Handling, Alive
  <2>3. CallSafe'
    BY <2>1 DEF CallSafe, FP!Doing
  <2>4. QED
    BY <1>5, <2>2, <2>3 DEF ServingInv
<1>8. CASE FP!Doing("idle") /\ Begins
  <2>1. CallSafe' /\ Alive'
    BY <1>1, <1>2, <1>8, BeginsSafe
  <2>2. ~Busy' \/ ~FP!Doing("idle")'
    <3>1. PICK m, b : /\ request = Parsed(m)
                      /\ Linked(m, copy.trusted, b, copy.after)
                      /\ Agrees(docs, b, copy.trusted)
      BY <1>2, <1>8 DEF Inv, ServerInv
    <3>2. \/ server.initialized
          \/ request.method = String("initialize") /\ replies = <<>>
      BY <1>2 DEF Inv, ReadyInv
    <3>3. Handled(copy.after, copy.trusted)
      BY <1>1, <1>8, <3>1, <3>2, AllHandled
    <3>4. QED
      BY <3>3 DEF Handled
  <2>3. QED
    BY <1>5, <2>1, <2>2 DEF ServingInv
<1>9. QED
  BY <1>2, <1>6, <1>7, <1>8

\* Nothing but the server itself changes whether it serves.
LEMMA OthersServe ==
    ASSUME ServingInv, PlacesInv', UNCHANGED <<heap, call>>,
           copy'.trusted => copy.trusted,
           FP!Doing("abort") /\ call.line # 634 => ~copy'.trusted,
           Alive'
    PROVE  ServingInv'
<1>1. FP!View' = FP!View
  BY FP!ViewKeptWhole, FileNames, FileTexts
<1>2. CallSafe'
  BY <1>1 DEF ServingInv, CallSafe, FP!Doing
<1>3. QED
  BY <1>2 DEF ServingInv

\* Every step keeps it serving.
LEMMA NextServes == ASSUME Inv, ServingInv, [Next]_vars PROVE ServingInv'
<1>1. PlacesInv /\ CallSafe /\ Alive
  BY DEF ServingInv
<1>2. ASSUME UNCHANGED copy, UNCHANGED servervars, PlacesInv'
      PROVE  ServingInv'
  <2>1. UNCHANGED <<process, heap, call>>
    BY <1>2 DEF servervars
  <2>2. FP!Doing("abort") /\ call.line # 634 => ~copy.trusted
    BY <1>1 DEF CallSafe
  <2>3. Alive'
    BY <1>1, <2>1 DEF Alive
  <2>4. QED
    BY <1>2, <2>1, <2>2, <2>3, OthersServe
<1>3. CASE UNCHANGED vars
  <2>1. UNCHANGED <<client, queue, copy>> /\ UNCHANGED servervars
    BY <1>3 DEF vars, servervars
  <2>2. ToldAtPlaces' /\ SentAtPlaces(queue', copy.after)
    BY <1>1, <2>1 DEF PlacesInv, ToldAtPlaces
  <2>3. QED
    BY <1>1, <1>2, <2>1, <2>2, ClientPlaces
<1>4. CASE Client
  <2>1. PlacesInv'
    BY <1>1, <1>4, AskPlaces, WaitPlaces, OpenPlaces, TypePlaces, TellPlaces,
       SaveClosePlaces DEF Client
  <2>2. UNCHANGED copy /\ UNCHANGED servervars
    BY <1>4 DEF Client, AskInitialize, AskShutdown, Ask, Initialized, ShutdownAnswered,
                Vanish, Exit, Open, Type, Tell, Save, Close, Send
  <2>3. QED
    BY <1>2, <2>1, <2>2
<1>5. CASE Arrive
  <2>1. /\ process = S!Waiting /\ process' = S!Handling /\ UNCHANGED <<heap, call>>
        /\ copy'.trusted = (copy.trusted /\ Head(queue).alike)
    BY <1>5, Arrives
  <2>2. Alive' /\ ~FP!Doing("abort")
    <3>1. ~Busy
      BY <2>1 DEF Busy, S!Waiting, S!Handling
    <3>2. FP!Doing("idle")
      BY <3>1 DEF Inv, ServerInv
    <3>3. QED
      BY <2>1, <3>2 DEF Alive, S!Handling, FP!Doing
  <2>3. QED
    BY <1>1, <1>5, <2>1, <2>2, ArrivePlaces, OthersServe
<1>6. CASE PipeEnds
  <2>1. /\ process = S!Waiting /\ process' = S!Exited(0, "input")
        /\ UNCHANGED <<client, queue, copy, request, heap, call, docs>>
    BY <1>6 DEF PipeEnds, S!EndOfInput, S!Die, S!fsvars
  <2>2. ~Busy' /\ Alive'
    BY <2>1 DEF Busy, S!Exited, S!Handling, Alive
  <2>3. PlacesInv'
    <3>1. /\ ToldAtPlaces' /\ SentAtPlaces(queue', copy'.after)
          /\ SentAtPlaces(queue, copy.after)' <=> SentAtPlaces(queue', copy'.after)
      BY <1>1, <2>1 DEF PlacesInv, ToldAtPlaces, SentAtPlaces
    <3>2. QED
      BY <2>2, <3>1 DEF PlacesInv
  <2>4. FP!Doing("abort") /\ call.line # 634 => ~copy'.trusted
    BY <1>1, <2>1 DEF CallSafe
  <2>5. QED
    BY <2>1, <2>2, <2>3, <2>4, OthersServe
<1>7. CASE S!Handle /\ UNCHANGED <<client, queue, copy>>
  BY <1>7, HandleServes
<1>8. QED
  BY <1>3, <1>4, <1>5, <1>6, <1>7 DEF Next, Server

\* What a client that follows the protocol can do to the server: it never uses
\* NULL, no parameter fails an assertion, and no lookup in the hash table goes on
\* for ever.  Two assertions can fail: the last of text_buffer_set_point
\* (text_buffer.c, 649), only after a position has meant different places to both
\* sides, and that of delete_string (634), only in a document that has outgrown a
\* chunk.  Such a document is also the only one that a deletion can hang in.  Until
\* a position has meant different places no edit of a change is skipped.
Survives ==
    /\ process.state \notin {"crashed", "aborted"}
    /\ ~FM!Spinning
    /\ FM!Doing("abort") => \/ call.line = 649 /\ ~copy.trusted
                            \/ call.line = 634 /\ call.during.rover \in chunked
    /\ FM!Stuck => call.during.rover \in chunked
    /\ FM!Doing("returned") /\ copy.trusted => call.skipped = 0

\* Whatever a client that follows the protocol does, in any order and with any
\* number of messages on their way, it brings language_server_evaluate and the
\* calls of its handlers into none of the deaths that DeathsExplained names, but
\* for these two assertions, and into none of the hangs but that of a deletion.
THEOREM ServerSurvives == Spec => []Survives
<1>1. Init => ServingInv
  <2>1. ASSUME Init PROVE ServingInv
    <3>1. PlacesInv /\ S!Init
      BY <2>1, InitPlaces DEF Init
    <3>2. call.op = "idle" /\ process = S!Waiting
      BY <3>1, SameEnds DEF S!Init, FP!Init, FP!Idle
    <3>3. QED
      BY <3>1, <3>2 DEF ServingInv, CallSafe, Alive, FP!Doing, S!Waiting
  <2>2. QED
    BY <2>1
<1>2. ServingInv /\ Inv /\ [Next]_vars => ServingInv'
  BY NextServes
<1>3. Inv /\ ServingInv => Survives
  <2>1. FM!Spinning = FP!Spinning
    BY DEF FM!Spinning, FP!Spinning, FM!Searching, FP!Searching, FM!Hit, FP!Hit
  <2>2. Inv => ~FP!Spinning
    BY SearchesEnd DEF Inv
  <2>3. ServingInv => /\ process.state \notin {"crashed", "aborted"}
                      /\ FM!Doing("abort") =>
                            call.line = 634 \/ (call.line = 649 /\ ~copy.trusted)
                      /\ FM!Doing("returned") /\ copy.trusted => call.skipped = 0
    BY SameWith DEF ServingInv, CallSafe, Alive
  <2>4. Inv => /\ FM!Doing("abort") /\ call.line = 634 => call.during.rover \in chunked
               /\ FM!Stuck => call.during.rover \in chunked
    BY DEF Inv, FilesInv, FP!Holding, FP!DeletionsInv, FP!Doing, FP!Stuck, FM!Doing,
           FM!Stuck
  <2>5. QED
    BY <2>1, <2>2, <2>3, <2>4 DEF Survives
<1>4. QED
  BY <1>1, <1>2, <1>3, SyncInductive, PTL DEF Spec
=============================================================================
