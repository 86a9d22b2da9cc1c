-------------------------- MODULE FileSystem_proof --------------------------
(***************************************************************************)
(* Proofs about FileSystem, for every set of addresses, URIs and paths,    *)
(* every hash function, and every text: the list of files and the hash     *)
(* table agree, which searches go on for ever, which assertions fail, that *)
(* the files implement FileMap, that the list has every file, and that the *)
(* files are the documents the calls promise.                              *)
(*                                                                         *)
(* The first part says what each assignment through a pointer does to the  *)
(* heap, and from it what linking and unlinking a file do.  The last parts *)
(* are about the edits of a change and about the walk along the list, by   *)
(* induction.                                                              *)
(***************************************************************************)
EXTENDS FileSystem, Utf8Text_proof

\* A record with the fields of a file_t.
IsFile(f) ==
    f = [path |-> f.path, version |-> f.version, open_count |-> f.open_count,
         text |-> f.text, next |-> f.next, prev |-> f.prev,
         hash_next |-> f.hash_next, hash_prev |-> f.hash_prev]

IsHeap(h) == /\ h = [n \in DOMAIN h |-> h[n]]
             /\ NULL \notin DOMAIN h
             /\ \A n \in DOMAIN h : IsFile(h[n])

\* The same file in two heaps, but for its links.
SameFile(f, g) == /\ f.path = g.path
                  /\ f.version = g.version
                  /\ f.open_count = g.open_count
                  /\ f.text = g.text

-----------------------------------------------------------------------------
(***************************************************************************)
(* Assignments.                                                            *)
(***************************************************************************)
\* What assigning next of a node changes.
LEMMA SetNextFacts ==
    ASSUME NEW h, IsHeap(h), NEW m, NEW v
    PROVE  /\ IsHeap(SetNext(h, m, v))
           /\ DOMAIN SetNext(h, m, v) = DOMAIN h
           /\ \A n \in DOMAIN h :
                 /\ SameFile(SetNext(h, m, v)[n], h[n])
                 /\ SetNext(h, m, v)[n].next = IF n = m THEN v ELSE h[n].next
                 /\ SetNext(h, m, v)[n].prev = h[n].prev
                 /\ SetNext(h, m, v)[n].hash_next = h[n].hash_next
                 /\ SetNext(h, m, v)[n].hash_prev = h[n].hash_prev
BY DEF IsHeap, IsFile, SetNext, SameFile

\* What assigning prev does.
LEMMA SetPrevFacts ==
    ASSUME NEW h, IsHeap(h), NEW m, NEW v
    PROVE  /\ IsHeap(SetPrev(h, m, v))
           /\ DOMAIN SetPrev(h, m, v) = DOMAIN h
           /\ \A n \in DOMAIN h :
                 /\ SameFile(SetPrev(h, m, v)[n], h[n])
                 /\ SetPrev(h, m, v)[n].next = h[n].next
                 /\ SetPrev(h, m, v)[n].prev = IF n = m THEN v ELSE h[n].prev
                 /\ SetPrev(h, m, v)[n].hash_next = h[n].hash_next
                 /\ SetPrev(h, m, v)[n].hash_prev = h[n].hash_prev
BY DEF IsHeap, IsFile, SetPrev, SameFile

\* What assigning the text does.
LEMMA SetTextFacts ==
    ASSUME NEW h, IsHeap(h), NEW m \in DOMAIN h, NEW v
    PROVE  LET g == [h EXCEPT ![m].text = v]
           IN  /\ IsHeap(g)
               /\ DOMAIN g = DOMAIN h
               /\ \A n \in DOMAIN h : g[n] = IF n = m THEN [h[n] EXCEPT !.text = v]
                                                     ELSE h[n]
BY DEF IsHeap, IsFile

\* What assigning the version does.
LEMMA SetVersionFacts ==
    ASSUME NEW h, IsHeap(h), NEW m \in DOMAIN h, NEW v
    PROVE  LET g == [h EXCEPT ![m].version = v]
           IN  /\ IsHeap(g)
               /\ DOMAIN g = DOMAIN h
               /\ \A n \in DOMAIN h : g[n] = IF n = m THEN [h[n] EXCEPT !.version = v]
                                                     ELSE h[n]
BY DEF IsHeap, IsFile

\* A field keeps its value when another one is assigned.
LEMMA OtherFields ==
    ASSUME NEW f, IsFile(f), NEW v
    PROVE  /\ LET g == [f EXCEPT !.text = v]
              IN  /\ g.path = f.path /\ g.open_count = f.open_count
                  /\ g.next = f.next /\ g.prev = f.prev
                  /\ g.hash_next = f.hash_next /\ g.hash_prev = f.hash_prev
                  /\ g.version = f.version /\ g.text = v
           /\ LET g == [f EXCEPT !.version = v]
              IN  /\ g.path = f.path /\ g.open_count = f.open_count
                  /\ g.next = f.next /\ g.prev = f.prev
                  /\ g.hash_next = f.hash_next /\ g.hash_prev = f.hash_prev
                  /\ g.text = f.text /\ g.version = v
BY DEF IsFile

-----------------------------------------------------------------------------
(***************************************************************************)
(* The inductive invariant.                                                *)
(***************************************************************************)

\* The list of all files: prev is the inverse of next, the head is the only
\* file without a previous one, and there is no cycle.
ListInv ==
    /\ fs.files \in DOMAIN heap \cup {NULL}
    /\ fs.files # NULL => heap[fs.files].prev = NULL
    /\ \A n \in DOMAIN heap :
          /\ heap[n].next \in DOMAIN heap \cup {NULL}
          /\ heap[n].prev \in DOMAIN heap \cup {NULL}
          /\ heap[n].next # NULL => heap[heap[n].next].prev = n
          /\ heap[n].prev # NULL => heap[heap[n].prev].next = n
          /\ heap[n].prev = NULL => fs.files = n
    /\ \A T \in SUBSET DOMAIN heap :
          T # {} => \E n \in T : heap[n].prev \notin T

\* The hash table: a bucket has the one file that there is with this hash.
TableInv ==
    /\ fs = [files |-> fs.files, table |-> fs.table]
    /\ fs.table \in [Bucket -> DOMAIN heap \cup {NULL}]
    /\ \A n \in DOMAIN heap :
          /\ heap[n].path \in Path
          /\ fs.table[Hash[heap[n].path]] = n
          /\ heap[n].hash_next = NULL
          /\ heap[n].hash_prev = NULL
    /\ \A b \in Bucket :
          fs.table[b] # NULL => Hash[heap[fs.table[b]].path] = b

Opened == \A n \in DOMAIN heap : heap[n].open_count = 1

\* The call in progress: a search has the head of its bucket, and the file
\* it finds has its path.
CallInv ==
    /\ call = [x \in DOMAIN call |-> call[x]]
    /\ "op" \in DOMAIN call
    /\ call.op \in {"idle", "returned", "abort", "stuck", "open", "change",
                    "close", "save", "free"}
    /\ call.op \in {"open", "change", "close", "save"} =>
          /\ {"path", "rover", "found"} \subseteq DOMAIN call
          /\ call.path \in Path
          /\ call.rover = fs.table[Hash[call.path]]
          /\ call.found \in BOOLEAN
          /\ call.found => call.rover # NULL /\ heap[call.rover].path = call.path
    /\ Doing("open") => call.path \in DOMAIN docs
    /\ Doing("free") => "rover" \in DOMAIN call /\ call.rover = fs.files

\* What AbortsExplained says of the assertions that fail where no text is
\* erased.
EarlyAborts ==
    Doing("abort") /\ call.line # 634 =>
        \/ /\ call.line = 205
           /\ call.during.path \in DOMAIN docs
           /\ View[call.during.path].text = call.during.contents
        \/ /\ call.line = 649
           /\ PassesEndOfLine(View[call.during.path].text,
                              Head(call.during.edits).start)

IInv == /\ IsHeap(heap)
        /\ ListInv
        /\ TableInv
        /\ Opened
        /\ CallInv
        /\ EarlyAborts

-----------------------------------------------------------------------------
(***************************************************************************)
(* Linking and unlinking.                                                  *)
(***************************************************************************)

\* What unlinking leaves: the neighbours of the file are linked to each
\* other, and nothing else changes.
LEMMA UnlinkedFacts ==
    ASSUME IsHeap(heap), TableInv, NEW m \in DOMAIN heap
    PROVE  LET h == UnlinkedHeap(m)
           IN  /\ IsHeap(h)
               /\ DOMAIN h = DOMAIN heap \ {m}
               /\ \A n \in DOMAIN h :
                     /\ SameFile(h[n], heap[n])
                     /\ h[n].next = IF n = heap[m].prev THEN heap[m].next
                                                      ELSE heap[n].next
                     /\ h[n].prev = IF n = heap[m].next THEN heap[m].prev
                                                      ELSE heap[n].prev
                     /\ h[n].hash_next = NULL
                     /\ h[n].hash_prev = NULL
<1> DEFINE file == heap[m]
           half == SetNext(heap, file.prev, file.next)
           listed == SetPrev(half, file.next, file.prev)
<1>1. UnlinkedHeap(m) = Without(listed, m)
  BY DEF UnlinkedHeap, SetHashNext, SetHashPrev, TableInv
<1>2. /\ IsHeap(half) /\ DOMAIN half = DOMAIN heap
      /\ \A n \in DOMAIN heap :
            /\ SameFile(half[n], heap[n])
            /\ half[n].next = IF n = file.prev THEN file.next ELSE heap[n].next
            /\ half[n].prev = heap[n].prev
            /\ half[n].hash_next = heap[n].hash_next
            /\ half[n].hash_prev = heap[n].hash_prev
  BY SetNextFacts
<1>3. /\ IsHeap(listed) /\ DOMAIN listed = DOMAIN half
      /\ \A n \in DOMAIN half :
            /\ SameFile(listed[n], half[n])
            /\ listed[n].next = half[n].next
            /\ listed[n].prev = IF n = file.next THEN file.prev ELSE half[n].prev
            /\ listed[n].hash_next = half[n].hash_next
            /\ listed[n].hash_prev = half[n].hash_prev
  BY <1>2, SetPrevFacts
<1> HIDE DEF file, half, listed
<1>4. /\ IsHeap(Without(listed, m)) /\ DOMAIN Without(listed, m) = DOMAIN listed \ {m}
      /\ \A n \in DOMAIN listed \ {m} : Without(listed, m)[n] = listed[n]
  BY <1>3 DEF Without, IsHeap
<1>5. QED
  BY <1>1, <1>2, <1>3, <1>4 DEF SameFile, TableInv, file

\* What linking leaves: the old head of the list has the new file before it.
IsLinked(h, m, path, version, text) ==
    /\ IsHeap(h)
    /\ DOMAIN h = DOMAIN heap \cup {m}
    /\ \A n \in DOMAIN heap :
          /\ SameFile(h[n], heap[n])
          /\ h[n].next = heap[n].next
          /\ h[n].prev = IF n = fs.files THEN m ELSE heap[n].prev
          /\ h[n].hash_next = heap[n].hash_next
          /\ h[n].hash_prev = heap[n].hash_prev
    /\ h[m] = [path |-> path, version |-> version, open_count |-> 1,
               text |-> text, next |-> fs.files, prev |-> NULL,
               hash_next |-> NULL, hash_prev |-> NULL]

\* Linking a new node whose path has no other in its hash slot.
LEMMA LinkedFacts ==
    ASSUME IsHeap(heap), NEW m, m \notin DOMAIN heap, m # NULL,
           NEW path, NEW version, NEW text, fs.table[Hash[path]] = NULL,
           NEW h, h = LinkedHeap(m, path, version, text)
    PROVE  IsLinked(h, m, path, version, text)
<1> DEFINE old == SetPrev(heap, fs.files, m)
           new == [path |-> path, version |-> version, open_count |-> 1,
                   text |-> text, next |-> fs.files, prev |-> NULL,
                   hash_next |-> NULL, hash_prev |-> NULL]
<1>1. h = With(old, m, new)
  BY DEF LinkedHeap, SetHashPrev
<1>2. /\ IsHeap(old) /\ DOMAIN old = DOMAIN heap
      /\ \A n \in DOMAIN heap :
            /\ SameFile(old[n], heap[n])
            /\ old[n].next = heap[n].next
            /\ old[n].prev = IF n = fs.files THEN m ELSE heap[n].prev
            /\ old[n].hash_next = heap[n].hash_next
            /\ old[n].hash_prev = heap[n].hash_prev
  BY SetPrevFacts
<1>3. IsFile(new)
  BY DEF IsFile
<1> HIDE DEF old, new
<1>4. /\ DOMAIN With(old, m, new) = DOMAIN old \cup {m}
      /\ With(old, m, new) = [n \in DOMAIN old \cup {m} |-> With(old, m, new)[n]]
      /\ With(old, m, new)[m] = new
      /\ \A n \in DOMAIN old : With(old, m, new)[n] = old[n]
  BY <1>2 DEF With, Over
<1>5. IsHeap(With(old, m, new))
  BY <1>2, <1>3, <1>4 DEF IsHeap
<1>6. QED
  BY <1>1, <1>2, <1>4, <1>5 DEF new, IsLinked

\* file_system_remove and the list: a set of files that has no first one after
\* the removal would have had none before, with or without the removed file.
LEMMA ListUnlinked ==
    ASSUME IsHeap(heap), TableInv, ListInv, NEW m \in DOMAIN heap,
           file_system_remove(m)
    PROVE  ListInv'
<1> DEFINE p == heap[m].prev
           q == heap[m].next
<1>1. /\ IsHeap(heap')
      /\ DOMAIN heap' = DOMAIN heap \ {m}
      /\ \A n \in DOMAIN heap' :
            /\ heap'[n].next = IF n = p THEN q ELSE heap[n].next
            /\ heap'[n].prev = IF n = q THEN p ELSE heap[n].prev
  BY UnlinkedFacts DEF file_system_remove
<1>2. fs'.files = IF p = NULL THEN q ELSE fs.files
  BY DEF file_system_remove, UnlinkedFs
<1>3. NULL \notin DOMAIN heap
  BY DEF IsHeap
<1>4. /\ p \in DOMAIN heap \cup {NULL} /\ q \in DOMAIN heap \cup {NULL}
      /\ q # NULL => heap[q].prev = m
      /\ p # NULL => heap[p].next = m
      /\ p = NULL => fs.files = m
  BY DEF ListInv
<1>5. p # m /\ q # m
  <2>1. \E n \in {m} : heap[n].prev \notin {m}
    <3>1. {m} \in SUBSET DOMAIN heap /\ {m} # {}
      OBVIOUS
    <3>2. QED
      BY <3>1 DEF ListInv
  <2>2. QED
    BY <2>1, <1>3, <1>4
<1> HIDE DEF p, q
<1>6. /\ fs'.files \in DOMAIN heap' \cup {NULL}
      /\ fs'.files # NULL => heap'[fs'.files].prev = NULL
  BY <1>1, <1>2, <1>3, <1>4, <1>5 DEF ListInv, p, q
<1>7. ASSUME NEW n \in DOMAIN heap'
      PROVE  /\ heap'[n].next \in DOMAIN heap' \cup {NULL}
             /\ heap'[n].prev \in DOMAIN heap' \cup {NULL}
             /\ heap'[n].next # NULL => heap'[heap'[n].next].prev = n
             /\ heap'[n].prev # NULL => heap'[heap'[n].prev].next = n
             /\ heap'[n].prev = NULL => fs'.files = n
  <2>1. /\ n \in DOMAIN heap /\ n # m
        /\ heap[n].next \in DOMAIN heap \cup {NULL}
        /\ heap[n].prev \in DOMAIN heap \cup {NULL}
        /\ heap[n].next # NULL => heap[heap[n].next].prev = n
        /\ heap[n].prev # NULL => heap[heap[n].prev].next = n
        /\ heap[n].prev = NULL => fs.files = n
    BY <1>1, <1>7 DEF ListInv
  <2>2. heap[n].next = m => n = p
    BY <2>1, <1>3 DEF p
  <2>3. heap[n].prev = m => n = q
    BY <2>1, <1>3 DEF q
  <2>4. /\ heap'[n].next \in DOMAIN heap' \cup {NULL}
        /\ heap'[n].prev \in DOMAIN heap' \cup {NULL}
    BY <1>1, <1>4, <1>5, <2>1, <2>2, <2>3
  <2>5. heap'[n].next # NULL => heap'[heap'[n].next].prev = n
    <3>1. CASE n = p
      BY <1>1, <1>3, <1>4, <1>5, <2>1, <2>4, <3>1
    <3>2. CASE n # p
      BY <1>1, <1>3, <1>4, <1>5, <2>1, <2>2, <2>4, <3>2
    <3>3. QED
      BY <3>1, <3>2
  <2>6. heap'[n].prev # NULL => heap'[heap'[n].prev].next = n
    <3>1. CASE n = q
      BY <1>1, <1>3, <1>4, <1>5, <2>1, <2>4, <3>1
    <3>2. CASE n # q
      BY <1>1, <1>3, <1>4, <1>5, <2>1, <2>3, <2>4, <3>2
    <3>3. QED
      BY <3>1, <3>2
  <2>7. heap'[n].prev = NULL => fs'.files = n
    BY <1>1, <1>2, <1>4, <2>1
  <2>8. QED
    BY <2>4, <2>5, <2>6, <2>7
<1>8. ASSUME NEW T \in SUBSET DOMAIN heap', T # {}
      PROVE  \E n \in T : heap'[n].prev \notin T
  <2>1. T \in SUBSET DOMAIN heap /\ m \notin T
    BY <1>1
  <2>2. CASE q \in T /\ p \notin T
    BY <1>1, <1>8, <2>2
  <2>3. CASE q \in T /\ p \in T
    <3>1. T \cup {m} \in SUBSET DOMAIN heap /\ T \cup {m} # {}
      BY <2>1
    <3>2. PICK n \in T \cup {m} : heap[n].prev \notin T \cup {m}
      BY <3>1 DEF ListInv
    <3>3. n \in T
      BY <3>2, <2>3 DEF p
    <3>4. n # q
      BY <3>2, <2>1, <2>3, <1>3, <1>4
    <3>5. QED
      BY <1>1, <1>8, <3>2, <3>3, <3>4
  <2>4. CASE q \notin T
    <3>1. PICK n \in T : heap[n].prev \notin T
      BY <2>1, <1>8 DEF ListInv
    <3>2. QED
      BY <1>1, <1>8, <2>4, <3>1
  <2>5. QED
    BY <2>2, <2>3, <2>4
<1>9. QED
  BY <1>6, <1>7, <1>8 DEF ListInv

\* The end of file_system_open and the list: the new file is the first one.
LEMMA ListLinked ==
    ASSUME NamesAssumption, IsHeap(heap), ListInv, NEW m \in Node \ DOMAIN heap,
           NEW path \in Path, NEW version, NEW text, fs.table[Hash[path]] = NULL,
           heap' = LinkedHeap(m, path, version, text), fs' = LinkedFs(m, path)
    PROVE  ListInv'
<1>1. /\ IsHeap(heap')
      /\ DOMAIN heap' = DOMAIN heap \cup {m}
      /\ \A n \in DOMAIN heap :
            /\ heap'[n].next = heap[n].next
            /\ heap'[n].prev = IF n = fs.files THEN m ELSE heap[n].prev
      /\ heap'[m].next = fs.files
      /\ heap'[m].prev = NULL
  <2>1. PICK h : h = heap'
    OBVIOUS
  <2>2. /\ m \notin DOMAIN heap /\ m # NULL
        /\ h = LinkedHeap(m, path, version, text)
    BY <2>1 DEF NamesAssumption
  <2>3. IsLinked(h, m, path, version, text)
    BY <2>2, LinkedFacts
  <2>4. QED
    BY <2>1, <2>2, <2>3 DEF IsLinked
<1>2. fs'.files = m
  BY DEF LinkedFs
<1>3. NULL \notin DOMAIN heap
  BY DEF IsHeap
<1>4. ASSUME NEW n \in DOMAIN heap'
      PROVE  /\ heap'[n].next \in DOMAIN heap' \cup {NULL}
             /\ heap'[n].prev \in DOMAIN heap' \cup {NULL}
             /\ heap'[n].next # NULL => heap'[heap'[n].next].prev = n
             /\ heap'[n].prev # NULL => heap'[heap'[n].prev].next = n
             /\ heap'[n].prev = NULL => fs'.files = n
  <2>1. CASE n = m
    BY <1>1, <1>2, <1>3, <2>1 DEF ListInv
  <2>2. CASE n # m
    <3>1. n \in DOMAIN heap
      BY <1>1, <2>2
    <3>2. fs.files # NULL => heap[fs.files].prev = NULL
      BY DEF ListInv
    <3>3. heap'[n].next # NULL => heap'[heap'[n].next].prev = n
      BY <1>1, <1>3, <3>1, <3>2 DEF ListInv
    <3>4. QED
      BY <1>1, <1>2, <1>3, <3>1, <3>3 DEF ListInv
  <2>3. QED
    BY <2>1, <2>2
<1>5. ASSUME NEW T \in SUBSET DOMAIN heap', T # {}
      PROVE  \E n \in T : heap'[n].prev \notin T
  <2>1. CASE m \in T
    BY <1>1, <1>3, <1>5, <2>1
  <2>2. CASE m \notin T
    <3>1. PICK n \in T : heap[n].prev \notin T
      BY <1>1, <1>5, <2>2 DEF ListInv
    <3>2. QED
      BY <1>1, <1>5, <2>2, <3>1
  <2>3. QED
    BY <2>1, <2>2
<1>6. QED
  BY <1>1, <1>2, <1>4, <1>5 DEF ListInv

\* file_system_remove empties the bucket of the path.
LEMMA TableUnlinked ==
    ASSUME NamesAssumption, IsHeap(heap), TableInv, NEW m \in DOMAIN heap,
           file_system_remove(m)
    PROVE  TableInv'
<1> DEFINE b == Hash[heap[m].path]
<1>1. /\ IsHeap(heap')
      /\ DOMAIN heap' = DOMAIN heap \ {m}
      /\ \A n \in DOMAIN heap' :
            /\ heap'[n].path = heap[n].path
            /\ heap'[n].hash_next = NULL
            /\ heap'[n].hash_prev = NULL
  BY UnlinkedFacts, ZenonT(30) DEF file_system_remove, SameFile
<1>2. /\ fs' = [files |-> fs'.files, table |-> fs'.table]
      /\ fs'.table = [fs.table EXCEPT ![b] = NULL]
  BY DEF file_system_remove, UnlinkedFs, TableInv
<1>3. b \in Bucket /\ fs.table[b] = m
  BY DEF TableInv, NamesAssumption
<1>4. /\ DOMAIN fs.table = Bucket
      /\ \A c \in Bucket : /\ fs.table[c] \in DOMAIN heap \cup {NULL}
                           /\ c # b => fs.table[c] # m
  BY <1>3 DEF TableInv, IsHeap
<1>5. \A c \in Bucket : fs'.table[c] = IF c = b THEN NULL ELSE fs.table[c]
  BY <1>2, <1>4
<1>6. fs'.table \in [Bucket -> DOMAIN heap' \cup {NULL}]
  BY <1>1, <1>2, <1>4
<1>7. ASSUME NEW n \in DOMAIN heap'
      PROVE  heap'[n].path \in Path /\ fs'.table[Hash[heap'[n].path]] = n
  <2>1. n \in DOMAIN heap /\ n # m /\ heap[n].path \in Path
    BY <1>1, <1>7 DEF TableInv
  <2>2. Hash[heap[n].path] \in Bucket /\ fs.table[Hash[heap[n].path]] = n
    BY <2>1 DEF TableInv, NamesAssumption
  <2>3. Hash[heap[n].path] # b
    BY <1>3, <2>1, <2>2
  <2>4. QED
    BY <1>1, <1>5, <1>7, <2>1, <2>2, <2>3
<1>8. \A c \in Bucket : fs'.table[c] # NULL => Hash[heap'[fs'.table[c]].path] = c
  BY <1>1, <1>4, <1>5 DEF TableInv
<1>9. QED
  BY <1>1, <1>2, <1>6, <1>7, <1>8 DEF TableInv

\* The end of file_system_open fills the bucket of the path, which is empty.
LEMMA TableLinked ==
    ASSUME NamesAssumption, IsHeap(heap), TableInv, NEW m \in Node \ DOMAIN heap,
           NEW path \in Path, NEW version, NEW text, fs.table[Hash[path]] = NULL,
           heap' = LinkedHeap(m, path, version, text), fs' = LinkedFs(m, path)
    PROVE  TableInv'
<1> DEFINE b == Hash[path]
<1>1. /\ IsHeap(heap')
      /\ DOMAIN heap' = DOMAIN heap \cup {m}
      /\ \A n \in DOMAIN heap :
            /\ heap'[n].path = heap[n].path
            /\ heap'[n].hash_next = heap[n].hash_next
            /\ heap'[n].hash_prev = heap[n].hash_prev
      /\ heap'[m].path = path
      /\ heap'[m].hash_next = NULL
      /\ heap'[m].hash_prev = NULL
  <2>1. PICK h : h = heap'
    OBVIOUS
  <2>2. /\ m \notin DOMAIN heap /\ m # NULL
        /\ h = LinkedHeap(m, path, version, text)
    BY <2>1 DEF NamesAssumption
  <2>3. IsLinked(h, m, path, version, text)
    BY <2>2, LinkedFacts
  <2>4. QED
    BY <2>1, <2>2, <2>3 DEF IsLinked, SameFile
<1>2. /\ fs' = [files |-> fs'.files, table |-> fs'.table]
      /\ fs'.table = [fs.table EXCEPT ![b] = m]
  BY DEF LinkedFs
<1>3. b \in Bucket /\ fs.table[b] = NULL
  BY DEF NamesAssumption
<1>4. /\ DOMAIN fs.table = Bucket
      /\ \A c \in Bucket : fs.table[c] \in DOMAIN heap \cup {NULL}
  BY DEF TableInv
<1>5. \A c \in Bucket : fs'.table[c] = IF c = b THEN m ELSE fs.table[c]
  BY <1>2, <1>4
<1>6. fs'.table \in [Bucket -> DOMAIN heap' \cup {NULL}]
  BY <1>1, <1>2, <1>4
<1>7. ASSUME NEW n \in DOMAIN heap, NULL \notin DOMAIN heap
      PROVE  Hash[heap[n].path] # b
  BY <1>3, <1>7 DEF TableInv
<1>8. ASSUME NEW n \in DOMAIN heap'
      PROVE  /\ heap'[n].path \in Path
             /\ fs'.table[Hash[heap'[n].path]] = n
             /\ heap'[n].hash_next = NULL
             /\ heap'[n].hash_prev = NULL
  BY <1>1, <1>3, <1>5, <1>7, <1>8 DEF TableInv, NamesAssumption, IsHeap
<1>9. \A c \in Bucket : fs'.table[c] # NULL => Hash[heap'[fs'.table[c]].path] = c
  BY <1>1, <1>4, <1>5 DEF TableInv
<1>10. QED
  BY <1>1, <1>2, <1>6, <1>8, <1>9 DEF TableInv

\* A heap that differs in texts and versions alone is linked the same way.
SameLinks(h, g) ==
    /\ IsHeap(h)
    /\ DOMAIN h = DOMAIN g
    /\ \A n \in DOMAIN g :
          /\ h[n].path = g[n].path
          /\ h[n].open_count = g[n].open_count
          /\ h[n].next = g[n].next
          /\ h[n].prev = g[n].prev
          /\ h[n].hash_next = g[n].hash_next
          /\ h[n].hash_prev = g[n].hash_prev

\* With the same links the list and the table stay as they are.
LEMMA LinksKept ==
    ASSUME IsHeap(heap), NamesAssumption, ListInv, TableInv, Opened,
           fs' = fs, SameLinks(heap', heap)
    PROVE  ListInv' /\ TableInv' /\ Opened'
<1>1. ListInv'
  BY DEF ListInv, SameLinks, IsHeap
<1>2. TableInv'
  BY DEF TableInv, SameLinks, NamesAssumption, IsHeap
<1>3. Opened'
  BY DEF Opened, SameLinks
<1>4. QED
  BY <1>1, <1>2, <1>3

\* A new text leaves the links.
LEMMA TextSameLinks ==
    ASSUME NEW h, IsHeap(h), NEW m \in DOMAIN h, NEW v
    PROVE  SameLinks([h EXCEPT ![m].text = v], h)
BY SetTextFacts, OtherFields DEF SameLinks, IsHeap

\* So does a new version.
LEMMA VersionSameLinks ==
    ASSUME NEW h, IsHeap(h), NEW m \in DOMAIN h, NEW v
    PROVE  SameLinks([h EXCEPT ![m].version = v], h)
BY SetVersionFacts, OtherFields DEF SameLinks, IsHeap

-----------------------------------------------------------------------------
(***************************************************************************)
(* The documents of a heap.                                                *)
(***************************************************************************)

\* View, of any heap.
ViewOf(h) ==
    LET file(path) == CHOOSE n \in DOMAIN h : h[n].path = path
    IN  [p \in {h[n].path : n \in DOMAIN h} |->
           [version |-> h[file(p)].version, text |-> h[file(p)].text]]

\* No two files have the same path.
Distinct(h) == \A n, k \in DOMAIN h : h[n].path = h[k].path => n = k

\* The documents the heap holds.
LEMMA ViewIs == View = ViewOf(heap) /\ View' = ViewOf(heap')
BY DEF View, FileOf, ViewOf

\* Which they are, where no path is twice.
LEMMA ViewFacts ==
    ASSUME NEW h, Distinct(h)
    PROVE  /\ DOMAIN ViewOf(h) = {h[n].path : n \in DOMAIN h}
           /\ \A n \in DOMAIN h :
                 ViewOf(h)[h[n].path] = [version |-> h[n].version, text |-> h[n].text]
<1> DEFINE file(path) == CHOOSE n \in DOMAIN h : h[n].path = path
<1>1. \A n \in DOMAIN h : file(h[n].path) = n
  BY DEF Distinct
<1>2. ViewOf(h) = [p \in {h[n].path : n \in DOMAIN h} |->
                     [version |-> h[file(p)].version, text |-> h[file(p)].text]]
  BY DEF ViewOf
<1> HIDE DEF file
<1>3. QED
  BY <1>1, <1>2

\* No two nodes have the same path.
LEMMA TableDistinct == TableInv => Distinct(heap)
BY DEF TableInv, Distinct

-----------------------------------------------------------------------------
(***************************************************************************)
(* The invariant holds at the start, and every step keeps it.              *)
(***************************************************************************)
\* file_system_init leaves an empty list.
LEMMA InitIInv == ASSUME Init PROVE IInv
<1> USE DEF Init, file_system_init, Idle
<1>1. DOMAIN heap = {}
  OBVIOUS
<1>2. IsHeap(heap)
  BY <1>1 DEF IsHeap
<1>3. ListInv
  BY <1>1 DEF ListInv
<1>4. TableInv
  BY <1>1 DEF TableInv
<1>5. Opened
  BY <1>1 DEF Opened
<1>6. CallInv /\ EarlyAborts
  BY DEF CallInv, EarlyAborts, Doing
<1>7. QED
  BY <1>2, <1>3, <1>4, <1>5, <1>6 DEF IInv

\* Where nothing but the call changes, only the invariant of the call is at
\* stake; a call that is at rest has nothing to say of the files.
LEMMA FilesKept ==
    ASSUME IInv, UNCHANGED <<fs, heap>>
    PROVE  IsHeap(heap') /\ ListInv' /\ TableInv' /\ Opened'
BY DEF IInv, ListInv, TableInv, Opened, IsHeap

\* A call that returns has no locals, and no assertion has failed.
LEMMA ReturnedFacts ==
    ASSUME NEW ret, NEW want, NEW skipped, call' = Returned(ret, want, skipped)
    PROVE  CallInv' /\ EarlyAborts'
BY DEF Returned, CallInv, EarlyAborts, Doing

\* A search begins at the head of the bucket of its path.
LEMMA SearchKeeps ==
    ASSUME NamesAssumption, IInv, NEW name \in {"open", "change", "close", "save"},
           NEW uri \in Uri, NEW locals, NEW want, NEW none,
           DOMAIN locals \cap {"op", "path", "rover", "found"} = {},
           Search(name, uri, locals, want, none),
           name = "open" /\ PathOf[uri] # NoPath => PathOf[uri] \in DOMAIN docs'
    PROVE  IInv'
<1>1. IsHeap(heap') /\ ListInv' /\ TableInv' /\ Opened'
  BY FilesKept DEF Search
<1>2. CASE PathOf[uri] = NoPath
  <2>1. call' = Returned(none, none, 0)
    BY <1>2 DEF Search
  <2>2. QED
    BY <1>1, <2>1, ReturnedFacts DEF IInv
<1>3. CASE PathOf[uri] # NoPath
  <2> DEFINE fields == [op |-> name, path |-> PathOf[uri],
                        rover |-> fs.table[Hash[PathOf[uri]]],
                        found |-> FALSE, want |-> want, none |-> none]
  <2>1. call' = Over(locals, fields) /\ fs' = fs
    BY <1>3 DEF Search
  <2>2. {"op", "path", "rover", "found"} \subseteq DOMAIN fields \ DOMAIN locals
    OBVIOUS
  <2>3. /\ fields.op = name
        /\ fields.path = PathOf[uri]
        /\ fields.rover = fs.table[Hash[PathOf[uri]]]
        /\ fields.found = FALSE
    OBVIOUS
  <2> HIDE DEF fields
  <2>4. /\ call' = [x \in DOMAIN call' |-> call'[x]]
        /\ {"op", "path", "rover", "found"} \subseteq DOMAIN call'
        /\ call'.op = name
        /\ call'.path = PathOf[uri]
        /\ call'.rover = fs.table[Hash[PathOf[uri]]]
        /\ call'.found = FALSE
    <3> DEFINE o == Over(locals, fields)
    <3>1. /\ o = [x \in DOMAIN o |-> o[x]]
          /\ DOMAIN o = DOMAIN locals \cup DOMAIN fields
          /\ \A x \in DOMAIN fields \ DOMAIN locals : o[x] = fields[x]
      BY DEF Over
    <3>2. call' = o
      BY <2>1
    <3> HIDE DEF o
    <3>3. \A x \in {"op", "path", "rover", "found"} : o[x] = fields[x]
      BY <2>2, <3>1
    <3>4. o["op"] = fields["op"] /\ o["path"] = fields["path"]
          /\ o["rover"] = fields["rover"] /\ o["found"] = fields["found"]
      BY <3>3
    <3>5. {"op", "path", "rover", "found"} \subseteq DOMAIN call'
      BY <2>2, <3>1, <3>2
    <3>6. QED
      BY <2>3, <3>1, <3>2, <3>4, <3>5
  <2>5. PathOf[uri] \in Path
    BY <1>3 DEF NamesAssumption
  <2>6. CallInv'
    BY <1>3, <2>1, <2>4, <2>5 DEF CallInv, Doing
  <2>7. EarlyAborts'
    BY <2>4 DEF EarlyAborts, Doing
  <2>8. QED
    BY <1>1, <2>6, <2>7 DEF IInv
<1>4. QED
  BY <1>2, <1>3

\* file_system_open begins.
LEMMA CallOpenKeeps ==
    ASSUME NamesAssumption, IInv, NEW uri \in Uri, NEW version, NEW contents,
           CallOpen(uri, version, contents)
    PROVE  IInv'
<1> DEFINE locals == [version |-> version, contents |-> contents]
<1>1. DOMAIN locals \cap {"op", "path", "rover", "found"} = {}
  OBVIOUS
<1>2. Search("open", uri, locals, 0, 0)
  BY DEF CallOpen
<1>3. PathOf[uri] # NoPath => PathOf[uri] \in DOMAIN docs'
  BY DEF CallOpen, IsOpen, With, Over
<1> HIDE DEF locals
<1>4. QED
  BY <1>1, <1>2, <1>3, SearchKeeps

\* file_system_change begins.
LEMMA CallChangeKeeps ==
    ASSUME NamesAssumption, IInv, NEW uri \in Uri, NEW version, NEW edits,
           CallChange(uri, version, edits)
    PROVE  IInv'
<1> DEFINE locals == [version |-> version, edits |-> edits, skipped |-> 0]
           want == IF IsOpen(uri) THEN 1 ELSE 0
<1>1. DOMAIN locals \cap {"op", "path", "rover", "found"} = {}
  OBVIOUS
<1>2. Search("change", uri, locals, want, 0)
  BY DEF CallChange
<1> HIDE DEF locals, want
<1>3. QED
  BY <1>1, <1>2, SearchKeeps

\* file_system_close and file_system_lookup begin.
LEMMA CallCloseSaveKeeps ==
    ASSUME NamesAssumption, IInv, NEW uri \in Uri,
           CallClose(uri) \/ CallSave(uri)
    PROVE  IInv'
<1>1. DOMAIN <<>> \cap {"op", "path", "rover", "found"} = {}
  OBVIOUS
<1>2. CASE CallClose(uri)
  BY <1>1, <1>2, SearchKeeps DEF CallClose
<1>3. CASE CallSave(uri)
  <2> DEFINE want == IF IsOpen(uri) THEN docs[PathOf[uri]].version ELSE 0
  <2>1. Search("save", uri, <<>>, want, 0)
    BY <1>3 DEF CallSave
  <2> HIDE DEF want
  <2>2. QED
    BY <1>1, <2>1, SearchKeeps
<1>4. QED
  BY <1>2, <1>3

\* The lookup goes on to the next node.
LEMMA LookupStepKeeps == ASSUME IInv, LookupStep PROVE IInv'
<1>1. IsHeap(heap') /\ ListInv' /\ TableInv' /\ Opened'
  BY FilesKept DEF LookupStep
<1>2. call' = [call EXCEPT !.found = Hit] /\ fs' = fs /\ heap' = heap /\ docs' = docs
  BY DEF LookupStep
<1>3. /\ {"op", "path", "rover", "found"} \subseteq DOMAIN call
      /\ call = [x \in DOMAIN call |-> call[x]]
      /\ call.op \in {"open", "change", "close", "save"}
  BY DEF IInv, CallInv, LookupStep, Searching
<1>4. /\ call' = [x \in DOMAIN call' |-> call'[x]]
      /\ DOMAIN call' = DOMAIN call
      /\ call'.op = call.op
      /\ call'.path = call.path
      /\ call'.rover = call.rover
      /\ call'.found = Hit
  BY <1>2, <1>3
<1>5. CallInv'
  BY <1>2, <1>3, <1>4 DEF IInv, CallInv, Doing, Hit
<1>6. EarlyAborts'
  BY <1>3, <1>4 DEF EarlyAborts, Doing
<1>7. QED
  BY <1>1, <1>5, <1>6 DEF IInv

\* A call that ends and leaves the files alone.
LEMMA QuietReturnKeeps ==
    ASSUME IInv, LookupFails \/ SaveFound \/ Receive
    PROVE  IInv'
<1>1. IsHeap(heap') /\ ListInv' /\ TableInv' /\ Opened'
  BY FilesKept DEF LookupFails, SaveFound, Receive
<1>2. CallInv' /\ EarlyAborts'
  <2>1. CASE LookupFails
    BY <2>1, ReturnedFacts DEF LookupFails
  <2>2. CASE SaveFound
    BY <2>2, ReturnedFacts DEF SaveFound
  <2>3. CASE Receive
    BY <2>3 DEF Receive, Idle, CallInv, EarlyAborts, Doing
  <2>4. QED
    BY <2>1, <2>2, <2>3
<1>3. QED
  BY <1>1, <1>2 DEF IInv

\* file_system_free begins.
LEMMA CallFreeKeeps == ASSUME IInv, CallFree PROVE IInv'
<1>1. IsHeap(heap') /\ ListInv' /\ TableInv' /\ Opened'
  BY FilesKept DEF CallFree
<1>2. CallInv' /\ EarlyAborts'
  BY DEF CallFree, CallInv, EarlyAborts, Doing
<1>3. QED
  BY <1>1, <1>2 DEF IInv

\* The file that a search has found is the one with the path of the call.
LEMMA FoundFacts ==
    ASSUME IInv, NamesAssumption, call.op \in {"open", "change", "close", "save"},
           call.found
    PROVE  /\ call.rover \in DOMAIN heap
           /\ heap[call.rover].path = call.path
           /\ heap[call.rover].open_count = 1
<1>1. /\ call.path \in Path
      /\ call.rover = fs.table[Hash[call.path]]
      /\ call.rover # NULL
      /\ heap[call.rover].path = call.path
  BY DEF IInv, CallInv
<1>2. call.rover \in DOMAIN heap \cup {NULL}
  BY <1>1 DEF IInv, TableInv, NamesAssumption
<1>3. QED
  BY <1>1, <1>2 DEF IInv, Opened

\* The document that is opened again is the one whose text the call brings.
LEMMA OpenFoundKeeps == ASSUME NamesAssumption, IInv, OpenFound PROVE IInv'
<1> DEFINE n == call.rover
           g == [heap EXCEPT ![n].text = call.contents]
<1>1. /\ n \in DOMAIN heap
      /\ heap[n].path = call.path
      /\ heap[n].open_count = 1
  BY FoundFacts DEF OpenFound, Doing
<1>2. heap' = g /\ Abort(205) /\ fs' = fs /\ docs' = docs
  BY <1>1 DEF OpenFound
<1>3. /\ SameLinks(g, heap)
      /\ g[n].text = call.contents
  <2>1. IsHeap(heap) /\ IsFile(heap[n])
    BY <1>1 DEF IInv, IsHeap
  <2>2. g[n] = [heap[n] EXCEPT !.text = call.contents]
    BY <1>1, <2>1, SetTextFacts
  <2>3. g[n].text = call.contents
    BY <2>1, <2>2 DEF IsFile
  <2>4. SameLinks(g, heap)
    BY <1>1, <2>1, TextSameLinks
  <2>5. QED
    BY <2>3, <2>4
<1> HIDE DEF n, g
<1>4. IsHeap(heap') /\ ListInv' /\ TableInv' /\ Opened'
  BY <1>2, <1>3, LinksKept DEF IInv, SameLinks
<1>5. CallInv'
  BY <1>2 DEF Abort, CallInv, Doing
<1>6. View'[call.path].text = call.contents
  <2>1. Distinct(g)
    BY <1>3 DEF IInv, SameLinks, Distinct, TableInv
  <2>2. n \in DOMAIN g /\ g[n].path = call.path
    BY <1>1, <1>3 DEF SameLinks
  <2>3. ViewOf(g)[call.path] = [version |-> g[n].version, text |-> g[n].text]
    <3>1. \A k \in DOMAIN g :
             ViewOf(g)[g[k].path] = [version |-> g[k].version, text |-> g[k].text]
      BY <2>1, ViewFacts
    <3>2. QED
      BY <2>2, <3>1
  <2>4. QED
    BY <1>2, <1>3, <2>3, ViewIs
<1>7. EarlyAborts'
  <2>1. call.path \in DOMAIN docs
    BY DEF OpenFound, IInv, CallInv
  <2>2. call' = [op |-> "abort", line |-> 205, during |-> call]
    BY <1>2 DEF Abort
  <2>3. call'.line = 205 /\ call'.during = call
    BY <2>2
  <2>4. QED
    BY <1>2, <1>6, <2>1, <2>3 DEF EarlyAborts
<1>8. QED
  BY <1>4, <1>5, <1>7 DEF IInv

\* A node is added at the head of the list.
LEMMA OpenNewKeeps == ASSUME NamesAssumption, IInv, OpenNew PROVE IInv'
<1>0. PICK path, version, text :
         path = call.path /\ version = call.version /\ text = call.contents
  OBVIOUS
<1>1. path \in Path /\ fs.table[Hash[path]] = NULL
  BY <1>0 DEF OpenNew, Miss, Doing, IInv, CallInv
<1>2. PICK n \in Node \ DOMAIN heap :
         /\ heap' = LinkedHeap(n, path, version, text)
         /\ fs' = LinkedFs(n, path)
  BY <1>0 DEF OpenNew
<1>3. ListInv'
  BY <1>1, <1>2, ListLinked DEF IInv
<1>4. TableInv'
  BY <1>1, <1>2, TableLinked DEF IInv
<1>5. IsHeap(heap') /\ Opened'
  <2>1. PICK h : h = heap'
    OBVIOUS
  <2>2. /\ IsHeap(heap) /\ n \notin DOMAIN heap /\ n # NULL
        /\ fs.table[Hash[path]] = NULL
        /\ h = LinkedHeap(n, path, version, text)
    BY <1>1, <1>2, <2>1 DEF IInv, NamesAssumption
  <2>3. IsLinked(h, n, path, version, text)
    BY <2>2, LinkedFacts
  <2>4. QED
    BY <2>1, <2>2, <2>3 DEF IsLinked, SameFile, IInv, Opened
<1>6. CallInv' /\ EarlyAborts'
  BY ReturnedFacts DEF OpenNew
<1>7. QED
  BY <1>3, <1>4, <1>5, <1>6 DEF IInv

\* One edit of a change is applied.
LEMMA ChangeEditKeeps == ASSUME NamesAssumption, IInv, ChangeEdit PROVE IInv'
<1> DEFINE n == call.rover
           edit == Head(call.edits)
<1>1. /\ n \in DOMAIN heap
      /\ heap[n].path = call.path
      /\ {"op", "path", "rover", "found"} \subseteq DOMAIN call
      /\ call = [x \in DOMAIN call |-> call[x]]
  BY FoundFacts DEF ChangeEdit, Doing, IInv, CallInv
<1>2. fs' = fs /\ docs' = docs /\ Doing("change") /\ call.found
  BY DEF ChangeEdit
<1>3. ASSUME NEW skipped, Rewrite(n, edit),
             call' = [call EXCEPT !.edits = Tail(@), !.skipped = skipped]
      PROVE  IInv'
  <2>1. PICK t : heap' = [heap EXCEPT ![n].text = t]
    BY <1>3 DEF Rewrite
  <2>2. SameLinks(heap', heap)
    BY <1>1, <2>1, TextSameLinks DEF IInv
  <2>3. IsHeap(heap') /\ ListInv' /\ TableInv' /\ Opened'
    BY <1>2, <2>2, LinksKept DEF IInv, SameLinks
  <2>4. /\ call' = [x \in DOMAIN call' |-> call'[x]]
        /\ DOMAIN call' = DOMAIN call
        /\ call'.op = call.op
        /\ call'.path = call.path
        /\ call'.rover = call.rover
        /\ call'.found = call.found
    BY <1>1, <1>3
  <2>5. CallInv'
    BY <1>1, <1>2, <2>2, <2>4 DEF IInv, CallInv, Doing, SameLinks
  <2>6. EarlyAborts'
    BY <1>2, <2>4 DEF EarlyAborts, Doing
  <2>7. QED
    BY <2>3, <2>5, <2>6 DEF IInv
<1>4. ASSUME heap' = heap, call' = [call EXCEPT !.edits = Tail(@), !.skipped = @ + 1]
      PROVE  IInv'
  <2>1. IsHeap(heap') /\ ListInv' /\ TableInv' /\ Opened'
    BY <1>2, <1>4, FilesKept
  <2>2. /\ call' = [x \in DOMAIN call' |-> call'[x]]
        /\ DOMAIN call' = DOMAIN call
        /\ call'.op = call.op
        /\ call'.path = call.path
        /\ call'.rover = call.rover
        /\ call'.found = call.found
    BY <1>1, <1>4
  <2>3. CallInv'
    BY <1>1, <1>2, <1>4, <2>2 DEF IInv, CallInv, Doing
  <2>4. EarlyAborts'
    BY <1>2, <2>2 DEF EarlyAborts, Doing
  <2>5. QED
    BY <2>1, <2>3, <2>4 DEF IInv
<1>5. ASSUME heap' = heap, PassesEndOfLine(heap[n].text, edit.start), Abort(649)
      PROVE  IInv'
  <2>1. IsHeap(heap') /\ ListInv' /\ TableInv' /\ Opened'
    BY <1>2, <1>5, FilesKept
  <2>2. CallInv'
    BY <1>5 DEF Abort, CallInv, Doing
  <2>3. View'[call.path].text = heap[n].text
    <3>1. \A k \in DOMAIN heap :
             ViewOf(heap)[heap[k].path]
                = [version |-> heap[k].version, text |-> heap[k].text]
      BY TableDistinct, ViewFacts DEF IInv
    <3>2. View' = ViewOf(heap)
      BY <1>5, ViewIs
    <3>3. View'[heap[n].path] = [version |-> heap[n].version, text |-> heap[n].text]
      BY <1>1, <3>1, <3>2
    <3>4. QED
      BY <1>1, <3>3
  <2>4. call'.line = 649 /\ call'.during = call
    BY <1>5 DEF Abort
  <2>5. EarlyAborts'
    BY <1>5, <2>3, <2>4 DEF EarlyAborts
  <2>6. QED
    BY <2>1, <2>2, <2>5 DEF IInv
<1>6. \/ \E skipped : /\ Rewrite(n, edit)
                      /\ call' = [call EXCEPT !.edits = Tail(@), !.skipped = skipped]
      \/ /\ heap' = heap
         /\ call' = [call EXCEPT !.edits = Tail(@), !.skipped = @ + 1]
      \/ heap' = heap /\ PassesEndOfLine(heap[n].text, edit.start) /\ Abort(649)
  BY DEF ChangeEdit
<1> HIDE DEF n, edit
<1>7. QED
  BY <1>3, <1>4, <1>5, <1>6

\* The change ends.
LEMMA ChangeReturnKeeps == ASSUME NamesAssumption, IInv, ChangeReturn PROVE IInv'
<1>1. call.rover \in DOMAIN heap
  BY FoundFacts DEF ChangeReturn, Doing
<1>2. /\ heap' = [heap EXCEPT ![call.rover].version = call.version]
      /\ fs' = fs
  BY DEF ChangeReturn
<1>3. SameLinks(heap', heap)
  BY <1>1, <1>2, VersionSameLinks DEF IInv
<1>4. IsHeap(heap') /\ ListInv' /\ TableInv' /\ Opened'
  BY <1>2, <1>3, LinksKept DEF IInv, SameLinks
<1>5. CallInv' /\ EarlyAborts'
  BY ReturnedFacts DEF ChangeReturn
<1>6. QED
  BY <1>4, <1>5 DEF IInv

\* A deletion that does not return has erased a part of one text.
LEMMA DeletionKeeps ==
    ASSUME NamesAssumption, IInv, DeletionAborts \/ DeletionHangs
    PROVE  IInv'
<1>1. call.rover \in DOMAIN heap
  BY FoundFacts DEF DeletionAborts, DeletionHangs, DeletionMayFail, Doing
<1>2. PICK t : heap' = [heap EXCEPT ![call.rover].text = t] /\ fs' = fs
  BY DEF DeletionAborts, DeletionHangs, ErasedUpTo
<1>3. SameLinks(heap', heap)
  BY <1>1, <1>2, TextSameLinks DEF IInv
<1>4. IsHeap(heap') /\ ListInv' /\ TableInv' /\ Opened'
  BY <1>2, <1>3, LinksKept DEF IInv, SameLinks
<1>5. CallInv' /\ EarlyAborts'
  BY DEF DeletionAborts, DeletionHangs, Abort, CallInv, EarlyAborts, Doing
<1>6. QED
  BY <1>4, <1>5 DEF IInv

\* A file that is removed leaves the other ones as they are.
LEMMA RemoveKeeps ==
    ASSUME NamesAssumption, IInv, NEW m \in DOMAIN heap, file_system_remove(m)
    PROVE  IsHeap(heap') /\ ListInv' /\ TableInv' /\ Opened'
<1>1. ListInv' /\ TableInv'
  BY ListUnlinked, TableUnlinked DEF IInv
<1>2. /\ IsHeap(heap')
      /\ DOMAIN heap' = DOMAIN heap \ {m}
      /\ \A n \in DOMAIN heap' : heap'[n].open_count = heap[n].open_count
  BY UnlinkedFacts DEF file_system_remove, SameFile, IInv
<1>3. Opened'
  BY <1>2 DEF IInv, Opened
<1>4. QED
  BY <1>1, <1>2, <1>3

\* The node is taken out of the list.
LEMMA CloseFoundKeeps == ASSUME NamesAssumption, IInv, CloseFound PROVE IInv'
<1>1. call.rover \in DOMAIN heap /\ heap[call.rover].open_count = 1
  BY FoundFacts DEF CloseFound, Doing
<1>2. file_system_remove(call.rover) /\ call' = Returned(0, 0, 0)
  BY <1>1 DEF CloseFound
<1>3. QED
  BY <1>1, <1>2, RemoveKeeps, ReturnedFacts DEF IInv

\* The loop of file_system_free removes the head of the list.
LEMMA FreeStepKeeps == ASSUME NamesAssumption, IInv, FreeStep PROVE IInv'
<1>1. /\ call.rover \in DOMAIN heap
      /\ heap[call.rover].prev = NULL
      /\ "rover" \in DOMAIN call /\ "op" \in DOMAIN call
      /\ call = [x \in DOMAIN call |-> call[x]]
      /\ Doing("free")
  BY DEF FreeStep, IInv, CallInv, ListInv
<1>2. /\ file_system_remove(call.rover)
      /\ call' = [call EXCEPT !.rover = heap[call.rover].next]
  BY DEF FreeStep
<1>3. fs'.files = heap[call.rover].next
  BY <1>1, <1>2 DEF file_system_remove, UnlinkedFs
<1>4. /\ call' = [x \in DOMAIN call' |-> call'[x]]
      /\ "rover" \in DOMAIN call' /\ "op" \in DOMAIN call'
      /\ call'.op = "free"
      /\ call'.rover = fs'.files
  BY <1>1, <1>2, <1>3 DEF Doing
<1>5. CallInv' /\ EarlyAborts'
  BY <1>4 DEF CallInv, EarlyAborts, Doing
<1>6. QED
  BY <1>1, <1>2, <1>5, RemoveKeeps DEF IInv

\* With no head there is no file: the first one of any set of files has none
\* before it.
LEMMA NoHeadNoFile ==
    ASSUME IsHeap(heap), ListInv, fs.files = NULL
    PROVE  DOMAIN heap = {}
<1>1. SUFFICES ASSUME DOMAIN heap # {}
               PROVE  FALSE
  OBVIOUS
<1>2. PICK n \in DOMAIN heap : heap[n].prev \notin DOMAIN heap
  BY <1>1 DEF ListInv
<1>3. QED
  BY <1>2 DEF ListInv, IsHeap

\* file_system_free ends.
LEMMA FreeReturnKeeps == ASSUME NamesAssumption, IInv, FreeReturn PROVE IInv'
<1>1. DOMAIN heap = {}
  BY NoHeadNoFile DEF FreeReturn, IInv, CallInv
<1>2. heap' = heap /\ fs' = file_system_init
  BY DEF FreeReturn
<1>3. IsHeap(heap') /\ ListInv' /\ TableInv' /\ Opened'
  BY <1>1, <1>2 DEF IsHeap, ListInv, TableInv, Opened, file_system_init
<1>4. CallInv' /\ EarlyAborts'
  BY ReturnedFacts DEF FreeReturn
<1>5. QED
  BY <1>3, <1>4 DEF IInv

\* One lemma for each kind of step.
LEMMA NextIInv ==
    ASSUME NamesAssumption, IInv, [Next]_vars
    PROVE  IInv'
<1>1. CASE Receive
  BY <1>1, QuietReturnKeeps
<1>2. CASE \E uri \in Uri, version \in Versions, contents \in Contents :
              CallOpen(uri, version, contents)
  BY <1>2, CallOpenKeeps
<1>3. CASE \E uri \in Uri, version \in Versions, edits \in Batches :
              Fits(uri, edits) /\ CallChange(uri, version, edits)
  BY <1>3, CallChangeKeeps
<1>4. CASE \E uri \in Uri : CallClose(uri) \/ CallSave(uri)
  BY <1>4, CallCloseSaveKeeps
<1>5. CASE CallFree
  BY <1>5, CallFreeKeeps
<1>6. CASE Work
  <2>1. CASE LookupStep \/ LookupFails
    BY <2>1, LookupStepKeeps, QuietReturnKeeps
  <2>2. CASE OpenFound \/ OpenNew
    BY <2>2, OpenFoundKeeps, OpenNewKeeps
  <2>3. CASE ChangeEdit \/ ChangeReturn
    BY <2>3, ChangeEditKeeps, ChangeReturnKeeps
  <2>4. CASE DeletionAborts \/ DeletionHangs
    BY <2>4, DeletionKeeps
  <2>5. CASE CloseFound \/ SaveFound
    BY <2>5, CloseFoundKeeps, QuietReturnKeeps
  <2>6. CASE FreeStep \/ FreeReturn
    BY <2>6, FreeStepKeeps, FreeReturnKeeps
  <2>7. QED
    BY <1>6, <2>1, <2>2, <2>3, <2>4, <2>5, <2>6 DEF Work
<1>7. CASE UNCHANGED vars
  BY <1>7 DEF vars, IInv, ListInv, TableInv, Opened, CallInv, EarlyAborts,
              IsHeap, Doing, View, FileOf
<1>8. QED
  BY <1>1, <1>2, <1>3, <1>4, <1>5, <1>6, <1>7 DEF Next

\* The list, the hash table and the call in progress agree after every step.
THEOREM FilesInductive == Spec => []IInv
<1>1. Init => IInv
  BY InitIInv
<1>2. IInv /\ [Next]_vars => IInv'
  BY NextIInv, NamesAssumption
<1>3. QED
  BY <1>1, <1>2, PTL DEF Spec

-----------------------------------------------------------------------------
(***************************************************************************)
(* The properties of the runs.                                             *)
(***************************************************************************)

\* After every sequence of opens and closes the hash table has each file in
\* the bucket of its path, and no bucket has two files or a freed one
\* (file_system_open and file_system_remove).
THEOREM TableAgrees == Spec => []BucketsAgree
<1>1. IInv => BucketsAgree
  BY NamesAssumption DEF IInv, TableInv, BucketsAgree
<1>2. QED
  BY <1>1, FilesInductive, PTL

-----------------------------------------------------------------------------
(***************************************************************************)
(* The files implement FileMap.                                            *)
(***************************************************************************)

\* A file that is the same in two heaps is the same document.
LEMMA ViewKept ==
    ASSUME NEW g, NEW h, Distinct(g), Distinct(h), NEW n \in DOMAIN g,
           n \in DOMAIN h, SameFile(g[n], h[n])
    PROVE  ViewOf(g)[h[n].path] = ViewOf(h)[h[n].path]
<1>1. ViewOf(g)[g[n].path] = [version |-> g[n].version, text |-> g[n].text]
  <2>1. \A k \in DOMAIN g :
           ViewOf(g)[g[k].path] = [version |-> g[k].version, text |-> g[k].text]
    BY ViewFacts
  <2>2. QED
    BY <2>1
<1>2. ViewOf(h)[h[n].path] = [version |-> h[n].version, text |-> h[n].text]
  <2>1. \A k \in DOMAIN h :
           ViewOf(h)[h[k].path] = [version |-> h[k].version, text |-> h[k].text]
    BY ViewFacts
  <2>2. QED
    BY <2>1
<1>3. QED
  BY <1>1, <1>2 DEF SameFile

\* A new file is a new document.
LEMMA LinkedView ==
    ASSUME NEW g, NEW h, Distinct(g), Distinct(h), NEW m, NEW path,
           DOMAIN h = DOMAIN g \cup {m}, m \notin DOMAIN g, h[m].path = path,
           \A n \in DOMAIN g : SameFile(h[n], g[n])
    PROVE  /\ path \notin DOMAIN ViewOf(g)
           /\ DOMAIN ViewOf(h) = DOMAIN ViewOf(g) \cup {path}
           /\ \A p \in DOMAIN ViewOf(g) : ViewOf(h)[p] = ViewOf(g)[p]
<1>1. /\ DOMAIN ViewOf(g) = {g[n].path : n \in DOMAIN g}
      /\ DOMAIN ViewOf(h) = {h[n].path : n \in DOMAIN h}
  BY ViewFacts
<1>2. \A n \in DOMAIN g : h[n].path = g[n].path
  BY DEF SameFile
<1>3. path \notin DOMAIN ViewOf(g)
  BY <1>1, <1>2 DEF Distinct
<1>4. DOMAIN ViewOf(h) = DOMAIN ViewOf(g) \cup {path}
  BY <1>1, <1>2
<1>5. ASSUME NEW n \in DOMAIN g
      PROVE  ViewOf(h)[g[n].path] = ViewOf(g)[g[n].path]
  BY ViewKept
<1>6. QED
  BY <1>1, <1>3, <1>4, <1>5

\* A file that is removed is a document less.
LEMMA UnlinkedView ==
    ASSUME NEW g, NEW h, Distinct(g), Distinct(h), NEW m \in DOMAIN g,
           DOMAIN h = DOMAIN g \ {m},
           \A n \in DOMAIN h : SameFile(h[n], g[n])
    PROVE  /\ g[m].path \in DOMAIN ViewOf(g)
           /\ DOMAIN ViewOf(h) = DOMAIN ViewOf(g) \ {g[m].path}
           /\ \A p \in DOMAIN ViewOf(h) : ViewOf(h)[p] = ViewOf(g)[p]
<1>1. /\ DOMAIN ViewOf(g) = {g[n].path : n \in DOMAIN g}
      /\ DOMAIN ViewOf(h) = {h[n].path : n \in DOMAIN h}
  BY ViewFacts
<1>2. \A n \in DOMAIN h : n \in DOMAIN g /\ n # m /\ h[n].path = g[n].path
  BY DEF SameFile
<1>3. DOMAIN ViewOf(h) = DOMAIN ViewOf(g) \ {g[m].path}
  BY <1>1, <1>2 DEF Distinct
<1>4. ASSUME NEW n \in DOMAIN h
      PROVE  ViewOf(h)[h[n].path] = ViewOf(g)[h[n].path]
  BY <1>2, ViewKept
<1>5. QED
  BY <1>1, <1>3, <1>4

\* Every file but one is the same in two heaps.
OthersKept(h, g, m) == \A n \in DOMAIN g \ {m} : h[n] = g[n]

\* A file whose text or version changes is the same document with another one.
LEMMA ChangedView ==
    ASSUME NEW g, NEW h, IsHeap(g), Distinct(g), SameLinks(h, g),
           NEW m \in DOMAIN g, OthersKept(h, g, m),
           NEW p, p = g[m].path
    PROVE  /\ p \in DOMAIN ViewOf(g)
           /\ DOMAIN ViewOf(h) = DOMAIN ViewOf(g)
           /\ ViewOf(g)[p] = [version |-> g[m].version, text |-> g[m].text]
           /\ ViewOf(h)[p] = [version |-> h[m].version, text |-> h[m].text]
           /\ \A r \in DOMAIN ViewOf(g) \ {p} : ViewOf(h)[r] = ViewOf(g)[r]
<1>1. Distinct(h)
  BY DEF Distinct, SameLinks
<1>2. /\ DOMAIN ViewOf(g) = {g[n].path : n \in DOMAIN g}
      /\ DOMAIN ViewOf(h) = {h[n].path : n \in DOMAIN h}
  BY <1>1, ViewFacts
<1>3. \A n \in DOMAIN g : h[n].path = g[n].path
  BY DEF SameLinks
<1>4. DOMAIN h = DOMAIN g
  BY DEF SameLinks
<1>5. DOMAIN ViewOf(h) = DOMAIN ViewOf(g)
  BY <1>2, <1>3, <1>4
<1>6. ASSUME NEW n \in DOMAIN g, n # m
      PROVE  ViewOf(h)[g[n].path] = ViewOf(g)[g[n].path]
  BY <1>1, <1>4, <1>6, ViewKept DEF SameFile, OthersKept
<1>7. \A n \in DOMAIN h :
         ViewOf(h)[h[n].path] = [version |-> h[n].version, text |-> h[n].text]
  BY <1>1, ViewFacts
<1>8. \A n \in DOMAIN g :
         ViewOf(g)[g[n].path] = [version |-> g[n].version, text |-> g[n].text]
  BY ViewFacts
<1>9. ViewOf(h)[g[m].path] = [version |-> h[m].version, text |-> h[m].text]
  BY <1>3, <1>4, <1>7
<1>10. QED
  BY <1>2, <1>5, <1>6, <1>8, <1>9, ZenonT(30)

\* A step leaves every document but this one alone.
OnlyDocument(p) ==
    \A q \in (DOMAIN View \cup DOMAIN View') \ {p} :
       q \in DOMAIN View \cap DOMAIN View' /\ View'[q] = View[q]

\* An edit or a new text.
LEMMA TextIsEdit ==
    ASSUME IInv, NEW n \in DOMAIN heap, NEW t,
           heap' = [heap EXCEPT ![n].text = t]
    PROVE  FM!Edit /\ OnlyDocument(heap[n].path)
<1>1. /\ IsHeap(heap) /\ IsFile(heap[n]) /\ Distinct(heap)
      /\ heap[n].path \in {heap[k].path : k \in DOMAIN heap}
  BY TableDistinct DEF IInv, IsHeap
<1>2. PICK h, p : h = heap' /\ p = heap[n].path
  OBVIOUS
<1>3. /\ SameLinks(h, heap)
      /\ OthersKept(h, heap, n)
      /\ h[n].version = heap[n].version
  BY <1>1, <1>2, TextSameLinks DEF IsFile, IsHeap, OthersKept
<1>4. /\ p \in DOMAIN ViewOf(heap)
      /\ DOMAIN ViewOf(h) = DOMAIN ViewOf(heap)
      /\ ViewOf(heap)[p] = [version |-> heap[n].version, text |-> heap[n].text]
      /\ ViewOf(h)[p] = [version |-> h[n].version, text |-> h[n].text]
      /\ \A r \in DOMAIN ViewOf(heap) \ {p} : ViewOf(h)[r] = ViewOf(heap)[r]
  <2>1. /\ IsHeap(heap) /\ Distinct(heap) /\ SameLinks(h, heap)
        /\ OthersKept(h, heap, n)
        /\ p = heap[n].path
    BY <1>1, <1>2, <1>3
  <2>2. QED
    BY <2>1, ChangedView
<1>5. View = ViewOf(heap) /\ View' = ViewOf(h)
  BY <1>2, ViewIs
<1>6. /\ p \in DOMAIN View
      /\ DOMAIN View' = DOMAIN View
      /\ View'[p].version = View[p].version
      /\ \A r \in DOMAIN View \ {p} : View'[r] = View[r]
  BY <1>3, <1>4, <1>5
<1>7. OnlyDocument(p)
  BY <1>6 DEF OnlyDocument
<1>8. QED
  BY <1>2, <1>6, <1>7 DEF FM!Edit, FM!Keep

\* Assigning a version is a step of FileMap on one document.
LEMMA VersionIsRenumber ==
    ASSUME IInv, NEW n \in DOMAIN heap, NEW v,
           heap' = [heap EXCEPT ![n].version = v]
    PROVE  FM!Renumber /\ OnlyDocument(heap[n].path)
<1>1. /\ IsHeap(heap) /\ IsFile(heap[n]) /\ Distinct(heap)
      /\ heap[n].path \in {heap[k].path : k \in DOMAIN heap}
  BY TableDistinct DEF IInv, IsHeap
<1>2. PICK h, p : h = heap' /\ p = heap[n].path
  OBVIOUS
<1>3. /\ SameLinks(h, heap)
      /\ OthersKept(h, heap, n)
      /\ h[n].text = heap[n].text
  BY <1>1, <1>2, VersionSameLinks DEF IsFile, IsHeap, OthersKept
<1>4. /\ p \in DOMAIN ViewOf(heap)
      /\ DOMAIN ViewOf(h) = DOMAIN ViewOf(heap)
      /\ ViewOf(heap)[p] = [version |-> heap[n].version, text |-> heap[n].text]
      /\ ViewOf(h)[p] = [version |-> h[n].version, text |-> h[n].text]
      /\ \A r \in DOMAIN ViewOf(heap) \ {p} : ViewOf(h)[r] = ViewOf(heap)[r]
  <2>1. /\ IsHeap(heap) /\ Distinct(heap) /\ SameLinks(h, heap)
        /\ OthersKept(h, heap, n)
        /\ p = heap[n].path
    BY <1>1, <1>2, <1>3
  <2>2. QED
    BY <2>1, ChangedView
<1>5. View = ViewOf(heap) /\ View' = ViewOf(h)
  BY <1>2, ViewIs
<1>6. /\ p \in DOMAIN View
      /\ DOMAIN View' = DOMAIN View
      /\ View'[p].text = View[p].text
      /\ \A r \in DOMAIN View \ {p} : View'[r] = View[r]
  BY <1>3, <1>4, <1>5
<1>7. OnlyDocument(p)
  BY <1>6 DEF OnlyDocument
<1>8. QED
  BY <1>2, <1>6, <1>7 DEF FM!Renumber, FM!Keep

\* So is removing a node.
LEMMA RemoveIsClose ==
    ASSUME NamesAssumption, IInv, IInv', NEW m \in DOMAIN heap, file_system_remove(m)
    PROVE  /\ FM!Close
           /\ OnlyDocument(heap[m].path)
           /\ heap[m].path \notin DOMAIN View'
<1>1. DOMAIN heap' = DOMAIN heap \ {m} /\ \A n \in DOMAIN heap' : SameFile(heap'[n], heap[n])
  BY UnlinkedFacts DEF file_system_remove, IInv
<1>2. Distinct(heap) /\ Distinct(heap')
  BY DEF IInv, TableInv, Distinct
<1> DEFINE p == heap[m].path
<1>3. /\ p \in DOMAIN ViewOf(heap)
      /\ DOMAIN ViewOf(heap') = DOMAIN ViewOf(heap) \ {p}
      /\ \A r \in DOMAIN ViewOf(heap') : ViewOf(heap')[r] = ViewOf(heap)[r]
  BY <1>1, <1>2, UnlinkedView
<1> HIDE DEF p
<1>4. /\ p \in DOMAIN View
      /\ DOMAIN View' = DOMAIN View \ {p}
      /\ \A r \in DOMAIN View' : View'[r] = View[r]
  BY <1>3, ViewIs
<1>5. FM!Close /\ OnlyDocument(p) /\ p \notin DOMAIN View'
  BY <1>4 DEF FM!Close, FM!Keep, OnlyDocument
<1>6. QED
  BY <1>5 DEF p

\* So is adding one.
LEMMA OpenNewIsOpen ==
    ASSUME NamesAssumption, IInv, IInv', OpenNew
    PROVE  FM!Open /\ OnlyDocument(call.path)
<1>0. PICK path, version, text :
         path = call.path /\ version = call.version /\ text = call.contents
  OBVIOUS
<1>1. path \in Path /\ fs.table[Hash[path]] = NULL
  BY <1>0 DEF OpenNew, Miss, Doing, IInv, CallInv
<1>2. PICK n \in Node \ DOMAIN heap : heap' = LinkedHeap(n, path, version, text)
  BY <1>0 DEF OpenNew
<1>3. /\ DOMAIN heap' = DOMAIN heap \cup {n}
      /\ heap'[n].path = path
      /\ \A k \in DOMAIN heap : SameFile(heap'[k], heap[k])
  <2>1. PICK h : h = heap'
    OBVIOUS
  <2>2. /\ IsHeap(heap) /\ n \notin DOMAIN heap /\ n # NULL
        /\ fs.table[Hash[path]] = NULL
        /\ h = LinkedHeap(n, path, version, text)
    BY <1>1, <1>2, <2>1 DEF IInv, NamesAssumption
  <2>3. IsLinked(h, n, path, version, text)
    BY <2>2, LinkedFacts
  <2>4. QED
    BY <2>1, <2>2, <2>3 DEF IsLinked
<1>4. Distinct(heap) /\ Distinct(heap')
  BY DEF IInv, TableInv, Distinct
<1>5. PICK h : h = heap'
  OBVIOUS
<1>6. /\ path \notin DOMAIN ViewOf(heap)
      /\ DOMAIN ViewOf(h) = DOMAIN ViewOf(heap) \cup {path}
      /\ \A p \in DOMAIN ViewOf(heap) : ViewOf(h)[p] = ViewOf(heap)[p]
  <2>1. /\ DOMAIN h = DOMAIN heap \cup {n} /\ n \notin DOMAIN heap
        /\ h[n].path = path
        /\ \A k \in DOMAIN heap : SameFile(h[k], heap[k])
        /\ Distinct(heap) /\ Distinct(h)
    BY <1>2, <1>3, <1>4, <1>5
  <2>2. QED
    BY <2>1, LinkedView
<1>7. /\ path \notin DOMAIN View
      /\ DOMAIN View' = DOMAIN View \cup {path}
      /\ \A p \in DOMAIN View : View'[p] = View[p]
  BY <1>5, <1>6, ViewIs
<1>8. QED
  BY <1>0, <1>7 DEF FM!Open, FM!Keep, OnlyDocument

\* What a step of a call changes is the document of the call, or a document
\* that is released.
LEMMA WorkOnly ==
    ASSUME NamesAssumption, IInv, IInv', Work, heap' # heap
    PROVE  \/ /\ call.op \in {"open", "change", "close", "save"}
              /\ OnlyDocument(call.path)
           \/ /\ Doing("free")
              /\ \E p : p \notin DOMAIN View' /\ OnlyDocument(p)
<1>1. ASSUME call.op \in {"open", "change", "close"}, call.found
      PROVE  /\ call.rover \in DOMAIN heap
             /\ heap[call.rover].path = call.path
             /\ heap[call.rover].open_count = 1
  BY <1>1, FoundFacts
<1>2. CASE OpenFound
  <2>1. heap' = [heap EXCEPT ![call.rover].text = call.contents]
    BY <1>1, <1>2 DEF OpenFound, Doing
  <2>2. QED
    BY <1>1, <1>2, <2>1, TextIsEdit DEF OpenFound, Doing
<1>3. CASE OpenNew
  BY <1>3, OpenNewIsOpen DEF OpenNew, Doing
<1>4. CASE ChangeEdit
  <2>1. PICK t : heap' = [heap EXCEPT ![call.rover].text = t]
    BY <1>4 DEF ChangeEdit, Rewrite
  <2>2. QED
    BY <1>1, <1>4, <2>1, TextIsEdit DEF ChangeEdit, Doing
<1>5. CASE ChangeReturn
  <2>1. heap' = [heap EXCEPT ![call.rover].version = call.version]
    BY <1>5 DEF ChangeReturn
  <2>2. QED
    BY <1>1, <1>5, <2>1, VersionIsRenumber DEF ChangeReturn, Doing
<1>8. CASE DeletionAborts \/ DeletionHangs
  <2>1. /\ Doing("change") /\ call.found
        /\ \E t : heap' = [heap EXCEPT ![call.rover].text = t]
    BY <1>8 DEF DeletionAborts, DeletionHangs, DeletionMayFail, ErasedUpTo
  <2>2. QED
    BY <1>1, <2>1, TextIsEdit DEF Doing
<1>6. CASE CloseFound
  <2>1. file_system_remove(call.rover)
    BY <1>1, <1>6 DEF CloseFound, Doing
  <2>2. QED
    BY <1>1, <1>6, <2>1, RemoveIsClose DEF CloseFound, Doing
<1>7. CASE FreeStep
  <2>1. call.rover \in DOMAIN heap
    BY <1>7 DEF FreeStep, IInv, CallInv, ListInv
  <2>2. file_system_remove(call.rover)
    BY <1>7 DEF FreeStep
  <2>3. QED
    BY <1>7, <2>1, <2>2, RemoveIsClose DEF FreeStep
<1>9. QED
  BY <1>2, <1>3, <1>4, <1>5, <1>6, <1>7, <1>8
     DEF Work, LookupStep, LookupFails, SaveFound, FreeReturn

\* Every step is one of FileMap or leaves the documents as they are.
LEMMA StepRefines ==
    ASSUME NamesAssumption, IInv, IInv', [Next]_vars
    PROVE  [FM!Next]_View
<1>1. ASSUME heap' = heap PROVE View' = View
  BY <1>1, ViewIs
<1>2. CASE \/ Receive \/ CallFree \/ LookupStep \/ LookupFails \/ SaveFound
           \/ FreeReturn \/ UNCHANGED vars
  BY <1>1, <1>2 DEF Receive, CallFree, LookupStep, LookupFails, SaveFound,
                    FreeReturn, vars
<1>3. CASE \/ \E uri \in Uri, version \in Versions, contents \in Contents :
                 CallOpen(uri, version, contents)
           \/ \E uri \in Uri, version \in Versions, edits \in Batches :
                 Fits(uri, edits) /\ CallChange(uri, version, edits)
           \/ \E uri \in Uri : CallClose(uri) \/ CallSave(uri)
  <2>1. heap' = heap
    BY <1>3 DEF CallOpen, CallChange, CallClose, CallSave, Search
  <2>2. QED
    BY <1>1, <2>1
<1>4. CASE OpenFound
  <2>1. call.rover \in DOMAIN heap /\ heap[call.rover].open_count = 1
    BY <1>4, FoundFacts DEF OpenFound, Doing
  <2>2. heap' = [heap EXCEPT ![call.rover].text = call.contents]
    BY <1>4, <2>1 DEF OpenFound
  <2>3. QED
    BY <2>1, <2>2, TextIsEdit DEF FM!Next
<1>5. CASE OpenNew
  BY <1>5, OpenNewIsOpen DEF FM!Next
<1>6. CASE ChangeEdit
  <2>1. call.rover \in DOMAIN heap
    BY <1>6, FoundFacts DEF ChangeEdit, Doing
  <2>2. heap' = heap \/ \E t : heap' = [heap EXCEPT ![call.rover].text = t]
    BY <1>6 DEF ChangeEdit, Rewrite
  <2>3. QED
    BY <1>1, <2>1, <2>2, TextIsEdit DEF FM!Next
<1>7. CASE ChangeReturn
  <2>1. call.rover \in DOMAIN heap
    BY <1>7, FoundFacts DEF ChangeReturn, Doing
  <2>2. heap' = [heap EXCEPT ![call.rover].version = call.version]
    BY <1>7 DEF ChangeReturn
  <2>3. QED
    BY <2>1, <2>2, VersionIsRenumber DEF FM!Next
<1>8. CASE CloseFound
  <2>1. call.rover \in DOMAIN heap /\ heap[call.rover].open_count = 1
    BY <1>8, FoundFacts DEF CloseFound, Doing
  <2>2. file_system_remove(call.rover)
    BY <1>8, <2>1 DEF CloseFound
  <2>3. QED
    BY <2>1, <2>2, RemoveIsClose DEF FM!Next
<1>9. CASE FreeStep
  <2>1. call.rover \in DOMAIN heap
    BY <1>9 DEF FreeStep, IInv, CallInv, ListInv
  <2>2. file_system_remove(call.rover)
    BY <1>9 DEF FreeStep
  <2>3. QED
    BY <2>1, <2>2, RemoveIsClose DEF FM!Next
<1>10. CASE DeletionAborts \/ DeletionHangs
  <2>1. call.rover \in DOMAIN heap
    BY <1>10, FoundFacts DEF DeletionAborts, DeletionHangs, DeletionMayFail, Doing
  <2>2. \E t : heap' = [heap EXCEPT ![call.rover].text = t]
    BY <1>10 DEF DeletionAborts, DeletionHangs, ErasedUpTo
  <2>3. QED
    BY <2>1, <2>2, TextIsEdit DEF FM!Next
<1>11. QED
  BY <1>2, <1>3, <1>4, <1>5, <1>6, <1>7, <1>8, <1>9, <1>10 DEF Next, Work

\* The linked list and the hash table of file_system.c implement the map from
\* open paths to documents: a step of a call opens, edits, renumbers or closes
\* one document and leaves every other one alone, whatever the rest of the
\* heap is.
THEOREM FilesImplementMap == Spec => ImplementsFileMap
<1>1. Init => FM!Init
  <2>1. ASSUME Init PROVE View = [p \in {} |-> {}]
    BY <2>1 DEF Init, View
  <2>2. QED
    BY <2>1 DEF FM!Init
<1>2. IInv /\ IInv' /\ [Next]_vars => [FM!Next]_View
  BY StepRefines, NamesAssumption
<1>3. QED
  BY <1>1, <1>2, FilesInductive, PTL DEF Spec, ImplementsFileMap, FM!Spec

-----------------------------------------------------------------------------
(***************************************************************************)
(* What an edit does to a text.                                            *)
(***************************************************************************)

\* A position of a text has numbers.
LEMMA PositionNumbers ==
    ASSUME NEW t \in ByteStrings
    PROVE  /\ PositionAfter(t).line_num \in Nat
           /\ PositionAfter(t).char_num \in Nat
BY PositionCounts DEF ByteStrings, Byte

\* The first place is the least of the places, and one of the text.
LEMMA FirstPlaceFacts ==
    ASSUME NEW t \in ByteStrings, NEW pos
    PROVE  /\ PlacesFrom(t, pos) \subseteq 0 .. Len(t)
           /\ FirstPlace(t, pos) \in 0 .. Len(t)
           /\ PlacesFrom(t, pos) = {} => FirstPlace(t, pos) = Len(t)
           /\ PlacesFrom(t, pos) # {} => FirstPlace(t, pos) \in PlacesFrom(t, pos)
           /\ \A m \in PlacesFrom(t, pos) : FirstPlace(t, pos) <= m
BY FirstPlaceIs DEF ByteStrings, Byte, PlacesFrom, Boundaries

\* A part of a text is a text.
LEMMA CutBytes ==
    ASSUME NEW t \in ByteStrings, NEW m \in Boundaries(t)
    PROVE  SubSeq(t, 1, m) \in ByteStrings
<1>1. 1 \in 1 .. Len(t) + 1 /\ m \in 0 .. Len(t)
  BY DEF ByteStrings, Boundaries
<1>2. QED
  BY <1>1, SubSeqText DEF ByteStrings

\* An edit makes a text of a text.
LEMMA EditedText ==
    ASSUME NEW t \in ByteStrings, NEW edit \in Edits
    PROVE  Edited(t, edit) \in ByteStrings
<1> DEFINE from == FirstPlace(t, edit.start)
           to == FirstPlace(t, InSizeT(t, edit.end))
           fore == SubSeq(t, 1, from)
           aft == SubSeq(t, to + 1, Len(t))
<1>1. from \in 0 .. Len(t) /\ to \in 0 .. Len(t)
  BY FirstPlaceFacts
<1>2. edit.text \in ByteStrings
  BY DEF Edits
<1> HIDE DEF from, to
<1>3. fore \in ByteStrings /\ aft \in ByteStrings
  <2>1. to + 1 \in 1 .. Len(t) + 1 /\ Len(t) \in 0 .. Len(t)
        /\ 1 \in 1 .. Len(t) + 1
    BY <1>1 DEF ByteStrings
  <2>2. QED
    BY <1>1, <2>1, SubSeqText DEF ByteStrings
<1> HIDE DEF fore, aft
<1>4. fore \o edit.text \in ByteStrings
  BY <1>2, <1>3 DEF ByteStrings
<1>5. (fore \o edit.text) \o aft \in ByteStrings
  BY <1>3, <1>4 DEF ByteStrings
<1>6. Edited(t, edit) \in {edit.text, t, (fore \o edit.text) \o aft}
  BY DEF Edited, from, to, fore, aft
<1>7. QED
  BY <1>2, <1>5, <1>6

\* Set to a position, erased up to another one that is not before it, and
\* typed into: the cursor walks of file_system_change do what the edit means.
LEMMA RewriteEdits ==
    ASSUME NEW n \in DOMAIN heap, heap[n].text \in ByteStrings, NEW edit \in Edits,
           IsWhole(edit) \/ HasPosition(heap[n].text, edit.start),
           Rewrite(n, edit)
    PROVE  heap' = [heap EXCEPT ![n].text = Edited(heap[n].text, edit)]
<1> DEFINE t == heap[n].text
           from == FirstPlace(t, edit.start)
           end == InSizeT(t, edit.end)
           to == FirstPlace(t, end)
           at == SetTo(CursorAt(t, 0), edit.start)
           rest == IF Before(edit.start, edit.end) THEN ErasedTo(at, end) ELSE at
<1>1. heap' = [heap EXCEPT ![n].text = IF IsWhole(edit) THEN edit.text
                                       ELSE Text(Typed(rest, edit.text))]
  BY DEF Rewrite
<1>2. CASE IsWhole(edit)
  <2>1. Edited(t, edit) = edit.text
    BY <1>2 DEF Edited
  <2>2. QED
    BY <1>1, <1>2, <2>1
<1>3. CASE ~IsWhole(edit)
  <2>1. /\ t \in ByteStrings /\ from \in 0 .. Len(t) /\ to \in 0 .. Len(t)
    BY FirstPlaceFacts
  <2>2. /\ edit.start \in Positions /\ edit.end \in Positions
        /\ edit.text \in ByteStrings /\ ~Before(edit.end, edit.start)
    BY <1>3 DEF Edits
  <2>3. Text(CursorAt(t, 0)) = t
    <3>1. SubSeq(t, 1, 0) = <<>> /\ SubSeq(t, 0 + 1, Len(t)) = t
      BY <2>1 DEF ByteStrings
    <3>2. <<>> \o t = t
      BY <2>1 DEF ByteStrings
    <3>3. QED
      BY <3>1, <3>2 DEF Text, CursorAt
  <2>4. at = CursorAt(t, from)
    BY <2>3 DEF SetTo
  <2>11. HasPosition(t, edit.start) /\ Len(t) \in Nat
    BY <1>3, <2>1 DEF ByteStrings
  <2>12. edit.start.line_num \in Nat /\ edit.start.char_num \in Nat
    <3>1. PICK m \in Boundaries(t) : PositionAfter(SubSeq(t, 1, m)) = edit.start
      BY <2>11 DEF HasPosition
    <3>2. SubSeq(t, 1, m) \in ByteStrings
      BY <2>1, <3>1, CutBytes
    <3>3. QED
      BY <3>1, <3>2, PositionNumbers
  <2>13. /\ end.line_num = IF edit.end.line_num < 0 THEN Len(t) + 1 ELSE edit.end.line_num
         /\ end.char_num = IF edit.end.char_num < 0 THEN Len(t) + 1 ELSE edit.end.char_num
         /\ edit.end = end \/ edit.end # edit.start
    BY <2>2, <2>11, <2>12 DEF InSizeT, Positions
  <2>14. end.line_num \in Nat /\ end.char_num \in Nat
    BY <2>2, <2>11, <2>13 DEF Positions
  <2> HIDE DEF t, from, to, at, end
  <2>5. SubSeq(t, 1, from) \o SubSeq(t, from + 1, Len(t)) = t
    BY <2>1, PartsJoin DEF ByteStrings
  <2>6. Text(at) = t /\ Len(at.left) = from
    <3>1. Len(SubSeq(t, 1, from)) = from
      BY <2>1 DEF ByteStrings
    <3>2. QED
      BY <2>4, <2>5, <3>1 DEF Text, CursorAt
  <2>7. rest = [left |-> SubSeq(t, 1, from), right |-> SubSeq(t, to + 1, Len(t))]
    <3>1. CASE Before(edit.start, edit.end)
      <4>1. PlacesFrom(t, end) \subseteq PlacesFrom(t, edit.start)
        <5> SUFFICES ASSUME NEW m \in PlacesFrom(t, end)
                     PROVE  m \in PlacesFrom(t, edit.start)
          OBVIOUS
        <5> DEFINE pos == PositionAfter(SubSeq(t, 1, m))
        <5>1. m \in Boundaries(t) /\ m \in 0 .. Len(t) /\ ~Before(pos, end)
          BY DEF PlacesFrom, Boundaries
        <5>2. pos.line_num \in Nat /\ pos.char_num \in Nat
          BY <2>1, <5>1, CutBytes, PositionNumbers
        <5> HIDE DEF pos
        <5>3. ~Before(pos, edit.start)
          BY <2>2, <2>12, <2>13, <2>14, <3>1, <5>1, <5>2 DEF Before, Positions
        <5>4. QED
          BY <5>1, <5>3 DEF PlacesFrom, pos
      <4>2. from <= to
        BY <2>1, <4>1, FirstPlaceFacts DEF from, to
      <4>3. rest = Erased(at, to - from)
        BY <2>6, <3>1 DEF ErasedTo, to
      <4> DEFINE r == SubSeq(t, from + 1, Len(t))
      <4>4. SubSeq(r, to - from + 1, Len(r)) = SubSeq(t, to + 1, Len(t))
        BY <2>1, <4>2 DEF ByteStrings
      <4>5. QED
        BY <2>4, <4>3, <4>4 DEF Erased, CursorAt
    <3>2. CASE ~Before(edit.start, edit.end)
      <4>1. edit.start = edit.end
        BY <2>2, <3>2 DEF Before, Positions
      <4>2. from = to
        BY <2>13, <4>1 DEF from, to
      <4>3. QED
        BY <2>4, <3>2, <4>2 DEF CursorAt
    <3>3. QED
      BY <3>1, <3>2
  <2> HIDE DEF rest
  <2>8. Text(Typed(rest, edit.text))
          = SubSeq(t, 1, from) \o edit.text \o SubSeq(t, to + 1, Len(t))
    BY <2>7 DEF Text, Typed
  <2>9. Edited(t, edit) = Text(Typed(rest, edit.text))
    <3>1. ~IsWhole(edit) /\ HasPosition(t, edit.start)
      BY <1>3 DEF t
    <3>2. Edited(t, edit)
            = SubSeq(t, 1, from) \o edit.text \o SubSeq(t, to + 1, Len(t))
      BY <3>1 DEF Edited, from, to, end
    <3>3. QED
      BY <2>8, <3>2
  <2>10. QED
    BY <1>1, <1>3, <2>9 DEF t
<1>4. QED
  BY <1>2, <1>3

\* The texts between the edits of a change.
Stages(t, edits, after) ==
    /\ after \in [0 .. Len(edits) -> ByteStrings]
    /\ after[0] = t
    /\ \A i \in 1 .. Len(edits) : after[i] = Edited(after[i - 1], edits[i])

\* The texts between the edits exist.
LEMMA EditsBetween ==
    ASSUME NEW t \in ByteStrings, NEW edits \in Seq(Edits)
    PROVE  \E after : Stages(t, edits, after) /\ EditedAll(t, edits) = after[Len(edits)]
<1> DEFINE n == Len(edits)
           step == [p \in Nat \X ByteStrings |-> IF p[1] + 1 \in 1 .. n
                                           THEN Edited(p[2], edits[p[1] + 1])
                                           ELSE p[2]]
<1>1. n \in Nat
  OBVIOUS
<1>2. step \in [Nat \X ByteStrings -> ByteStrings]
  <2>1. ASSUME NEW p \in Nat \X ByteStrings
        PROVE  (IF p[1] + 1 \in 1 .. n THEN Edited(p[2], edits[p[1] + 1])
                                       ELSE p[2]) \in ByteStrings
    <3>1. p[1] \in Nat /\ p[2] \in ByteStrings
      OBVIOUS
    <3>2. CASE p[1] + 1 \in 1 .. n
      <4>1. edits[p[1] + 1] \in Edits
        BY <3>2
      <4>2. QED
        BY <3>1, <3>2, <4>1, EditedText
    <3>3. QED
      BY <3>1, <3>2
  <2>2. QED
    BY <2>1
<1>3. PICK f : f \in [Nat -> ByteStrings] /\ f[0] = t
                /\ \A i \in Nat : f[i + 1] = step[<<i, f[i]>>]
  <2> HIDE DEF step
  <2>1. PICK f : Iterates(f, ByteStrings, t, step)
    BY <1>2, Recursion
  <2>2. QED
    BY <2>1 DEF Iterates
<1> DEFINE made == [i \in 0 .. n |-> f[i]]
<1>4. ASSUME NEW i \in 1 .. n
      PROVE  f[i] = Edited(f[i - 1], edits[i])
  <2>1. i - 1 \in Nat /\ (i - 1) + 1 = i /\ f[i - 1] \in ByteStrings
    BY <1>1, <1>3
  <2>2. f[i] = step[<<i - 1, f[i - 1]>>]
    BY <1>3, <2>1
  <2>3. <<i - 1, f[i - 1]>> \in Nat \X ByteStrings
    BY <2>1
  <2>4. QED
    BY <2>1, <2>2, <2>3
<1> HIDE DEF step
<1> DEFINE Turn(a, i) == IF i = 0 THEN t
                         ELSE LET edited == [u \in {a[i - 1]} |-> Edited(u, edits[i])]
                              IN  edited[a[i - 1]]
           after == CHOOSE a : a = [i \in 0 .. n |-> Turn(a, i)]
<1>5. made = [i \in 0 .. n |-> Turn(made, i)]
  <2>1. ASSUME NEW i \in 0 .. n
        PROVE  f[i] = Turn(made, i)
    <3>1. CASE i = 0
      BY <1>3, <3>1
    <3>2. CASE i # 0
      <4>1. i \in 1 .. n /\ i - 1 \in 0 .. n
        BY <1>1, <3>2
      <4>2. made[i - 1] = f[i - 1]
        BY <4>1
      <4>3. QED
        BY <1>4, <3>2, <4>1, <4>2
    <3>3. QED
      BY <3>1, <3>2
  <2> HIDE DEF Turn
  <2>2. QED
    BY <2>1
<1>6. after = [i \in 0 .. n |-> Turn(after, i)]
  <2> HIDE DEF Turn, made
  <2>1. QED
    BY <1>5
<1>7. EditedAll(t, edits) = after[n]
  BY DEF EditedAll
<1> HIDE DEF after
<1>8. after[0] = t
  BY <1>1, <1>6
<1>9. ASSUME NEW i \in 1 .. n
      PROVE  after[i] = Edited(after[i - 1], edits[i])
  <2>1. i \in 0 .. n /\ i # 0
    BY <1>1
  <2>2. after[i] = Turn(after, i)
    <3> HIDE DEF Turn
    <3>1. QED
      BY <1>6, <2>1
  <2>3. QED
    BY <2>1, <2>2
<1>10. \A i \in 0 .. n : after[i] \in ByteStrings
  <2> DEFINE T == {i \in Nat : i <= n => after[i] \in ByteStrings}
  <2>1. 0 \in T
    BY <1>8
  <2>2. ASSUME NEW i \in Nat, i \in T
        PROVE  i + 1 \in T
    <3> SUFFICES ASSUME i + 1 <= n
                 PROVE  after[i + 1] \in ByteStrings
      OBVIOUS
    <3>1. i + 1 \in 1 .. n /\ (i + 1) - 1 = i /\ after[i] \in ByteStrings
      BY <1>1, <2>2
    <3>2. after[i + 1] = Edited(after[i], edits[i + 1]) /\ edits[i + 1] \in Edits
      BY <1>9, <3>1
    <3>3. QED
      BY <3>1, <3>2, EditedText
  <2> HIDE DEF T
  <2>3. \A i \in Nat : i \in T
    BY <2>1, <2>2, Inductive
  <2>4. QED
    BY <1>1, <2>3 DEF T
<1>11. after = [i \in 0 .. n |-> after[i]]
  <2> HIDE DEF Turn
  <2>1. QED
    BY <1>6
<1>12. Stages(t, edits, after)
  BY <1>8, <1>9, <1>10, <1>11 DEF Stages
<1>13. QED
  BY <1>7, <1>12

\* There is one text after each edit.
LEMMA BetweenUnique ==
    ASSUME NEW t, NEW edits \in Seq(Edits), NEW a, NEW b,
           Stages(t, edits, a), Stages(t, edits, b)
    PROVE  a[Len(edits)] = b[Len(edits)]
<1> DEFINE n == Len(edits)
           T == {i \in Nat : i <= n => a[i] = b[i]}
<1>1. n \in Nat
  OBVIOUS
<1>2. 0 \in T
  BY DEF Stages
<1>3. ASSUME NEW i \in Nat, i \in T
      PROVE  i + 1 \in T
  <2> SUFFICES ASSUME i + 1 <= n
               PROVE  a[i + 1] = b[i + 1]
    OBVIOUS
  <2>1. i + 1 \in 1 .. n /\ (i + 1) - 1 = i /\ a[i] = b[i]
    BY <1>1, <1>3
  <2>2. QED
    BY <2>1 DEF Stages
<1> HIDE DEF T
<1>4. \A i \in Nat : i \in T
  BY <1>2, <1>3, Inductive
<1>5. QED
  BY <1>1, <1>4 DEF T

\* No edit changes nothing; otherwise the first edit is made, and then the
\* others.
LEMMA EditedAllFacts ==
    ASSUME NEW t \in ByteStrings, NEW edits \in Seq(Edits)
    PROVE  /\ edits = <<>> => EditedAll(t, edits) = t
           /\ edits # <<>> => EditedAll(t, edits)
                                = EditedAll(Edited(t, Head(edits)), Tail(edits))
<1>1. PICK a : Stages(t, edits, a) /\ EditedAll(t, edits) = a[Len(edits)]
  BY EditsBetween
<1>2. CASE edits = <<>>
  BY <1>1, <1>2 DEF Stages
<1>3. CASE edits # <<>>
  <2> DEFINE u == Edited(t, Head(edits))
             n == Len(Tail(edits))
             c == [i \in 0 .. n |-> a[i + 1]]
  <2>1. /\ Head(edits) \in Edits /\ Head(edits) = edits[1]
        /\ Tail(edits) \in Seq(Edits) /\ Len(edits) = n + 1 /\ n \in Nat
        /\ \A i \in 1 .. n : Tail(edits)[i] = edits[i + 1]
    BY <1>3
  <2>2. u \in ByteStrings
    BY <2>1, EditedText
  <2>3. Stages(u, Tail(edits), c)
    <3>1. c \in [0 .. n -> ByteStrings]
      BY <1>1, <2>1 DEF Stages
    <3>2. c[0] = u
      <4>1. 1 \in 1 .. Len(edits) /\ a[1 - 1] = t /\ c[0] = a[1]
        BY <1>1, <2>1 DEF Stages
      <4>2. QED
        BY <1>1, <2>1, <4>1 DEF Stages
    <3>3. ASSUME NEW i \in 1 .. n
          PROVE  c[i] = Edited(c[i - 1], Tail(edits)[i])
      <4>1. /\ i + 1 \in 1 .. Len(edits) /\ c[i] = a[i + 1] /\ c[i - 1] = a[i]
            /\ (i + 1) - 1 = i
        BY <2>1
      <4>2. QED
        BY <1>1, <2>1, <4>1 DEF Stages
    <3> HIDE DEF c, u
    <3>4. QED
      BY <3>1, <3>2, <3>3 DEF Stages
  <2>4. c[n] = a[Len(edits)]
    BY <2>1
  <2> HIDE DEF c, u
  <2>5. PICK b : Stages(u, Tail(edits), b) /\ EditedAll(u, Tail(edits)) = b[n]
    BY <2>1, <2>2, EditsBetween
  <2>6. b[n] = c[n]
    BY <2>1, <2>3, <2>5, BetweenUnique
  <2>7. QED
    BY <1>1, <1>3, <2>4, <2>5, <2>6 DEF u
<1>4. QED
  BY <1>2, <1>3

-----------------------------------------------------------------------------
(***************************************************************************)
(* Texts and versions.                                                     *)
(***************************************************************************)

\* The files and the call have versions and texts, and there are finitely
\* many files.
TextsInv ==
    /\ IsFiniteSet(DOMAIN heap)
    /\ DOMAIN heap \subseteq Node
    /\ \A n \in DOMAIN heap : heap[n].version \in Versions /\ heap[n].text \in ByteStrings
    /\ Doing("open") => /\ {"version", "contents"} \subseteq DOMAIN call
                        /\ call.version \in Versions
                        /\ call.contents \in ByteStrings
    /\ Doing("change") => /\ {"version", "edits", "skipped"} \subseteq DOMAIN call
                          /\ call.version \in Versions
                          /\ call.edits \in Seq(Edits)

\* The heap with another text, or version, in one of its files.
IsWithText(g, h, m, v) ==
    /\ DOMAIN g = DOMAIN h
    /\ \A n \in DOMAIN h : /\ g[n].version = h[n].version
                           /\ g[n].text = IF n = m THEN v ELSE h[n].text
                           /\ n # m => g[n] = h[n]

IsWithVersion(g, h, m, v) ==
    /\ DOMAIN g = DOMAIN h
    /\ \A n \in DOMAIN h : /\ g[n].text = h[n].text
                           /\ g[n].version = IF n = m THEN v ELSE h[n].version
                           /\ n # m => g[n] = h[n]

\* The nodes after a text is assigned.
LEMMA WithTextFacts ==
    ASSUME NEW h, IsHeap(h), NEW m \in DOMAIN h, NEW v
    PROVE  IsWithText([h EXCEPT ![m].text = v], h, m, v)
BY SetTextFacts, OtherFields DEF IsWithText, IsHeap

\* And after a version is.
LEMMA WithVersionFacts ==
    ASSUME NEW h, IsHeap(h), NEW m \in DOMAIN h, NEW v
    PROVE  IsWithVersion([h EXCEPT ![m].version = v], h, m, v)
BY SetVersionFacts, OtherFields DEF IsWithVersion, IsHeap

\* The call of a search on a path that parses.
IsSearch(c, name, path, locals, want, none) ==
    /\ c = [x \in DOMAIN c |-> c[x]]
    /\ {"op", "path", "rover", "found", "want", "none"} \subseteq DOMAIN c
    /\ DOMAIN locals \subseteq DOMAIN c
    /\ c.op = name
    /\ c.path = path
    /\ c.want = want
    /\ c.none = none
    /\ \A x \in DOMAIN locals : c[x] = locals[x]

\* The local variables of a search.
LEMMA SearchFacts ==
    ASSUME NEW name, NEW uri \in Uri, NEW locals, NEW want, NEW none,
           DOMAIN locals \cap {"op", "path", "rover", "found", "want", "none"} = {},
           Search(name, uri, locals, want, none), PathOf[uri] # NoPath
    PROVE  IsSearch(call', name, PathOf[uri], locals, want, none)
<1> DEFINE fields == [op |-> name, path |-> PathOf[uri],
                      rover |-> fs.table[Hash[PathOf[uri]]],
                      found |-> FALSE, want |-> want, none |-> none]
           o == Over(locals, fields)
<1>1. call' = o
  BY DEF Search
<1>2. /\ {"op", "path", "rover", "found", "want", "none"} \subseteq DOMAIN fields \ DOMAIN locals
      /\ fields["op"] = name
      /\ fields["path"] = PathOf[uri]
      /\ fields["want"] = want
      /\ fields["none"] = none
  OBVIOUS
<1> HIDE DEF fields
<1>3. /\ o = [x \in DOMAIN o |-> o[x]]
      /\ DOMAIN o = DOMAIN locals \cup DOMAIN fields
      /\ \A x \in DOMAIN locals : o[x] = locals[x]
      /\ \A x \in DOMAIN fields \ DOMAIN locals : o[x] = fields[x]
  BY DEF Over
<1> HIDE DEF o
<1>4. /\ o["op"] = name /\ o["path"] = PathOf[uri]
      /\ o["want"] = want /\ o["none"] = none
  BY <1>2, <1>3
<1>5. /\ {"op", "path", "rover", "found", "want", "none"} \subseteq DOMAIN o
      /\ DOMAIN locals \subseteq DOMAIN o
  BY <1>2, <1>3
<1>6. IsSearch(o, name, PathOf[uri], locals, want, none)
  BY <1>3, <1>4, <1>5 DEF IsSearch
<1>7. QED
  BY <1>1, <1>6

\* What file_system_open looks for.
LEMMA CallOpenFacts ==
    ASSUME NEW uri \in Uri, NEW version, NEW contents,
           CallOpen(uri, version, contents), PathOf[uri] # NoPath
    PROVE  /\ {"op", "path", "version", "contents", "want", "none"} \subseteq DOMAIN call'
           /\ call'.op = "open" /\ call'.path = PathOf[uri]
           /\ call'.want = 0 /\ call'.none = 0
           /\ call'.version = version /\ call'.contents = contents
<1> DEFINE locals == [version |-> version, contents |-> contents]
<1>1. /\ DOMAIN locals \cap {"op", "path", "rover", "found", "want", "none"} = {}
      /\ {"version", "contents"} \subseteq DOMAIN locals
      /\ locals["version"] = version /\ locals["contents"] = contents
  OBVIOUS
<1>2. Search("open", uri, locals, 0, 0)
  BY DEF CallOpen
<1> HIDE DEF locals
<1>3. IsSearch(call', "open", PathOf[uri], locals, 0, 0)
  BY <1>1, <1>2, SearchFacts
<1>4. QED
  BY <1>1, <1>3 DEF IsSearch

\* What file_system_change looks for.
LEMMA CallChangeFacts ==
    ASSUME NEW uri \in Uri, NEW version, NEW edits,
           CallChange(uri, version, edits), PathOf[uri] # NoPath
    PROVE  /\ {"op", "path", "version", "edits", "skipped", "want", "none"}
                 \subseteq DOMAIN call'
           /\ call'.op = "change" /\ call'.path = PathOf[uri]
           /\ call'.want = IF IsOpen(uri) THEN 1 ELSE 0
           /\ call'.none = 0
           /\ call'.version = version /\ call'.edits = edits /\ call'.skipped = 0
<1> DEFINE locals == [version |-> version, edits |-> edits, skipped |-> 0]
           want == IF IsOpen(uri) THEN 1 ELSE 0
<1>1. /\ DOMAIN locals \cap {"op", "path", "rover", "found", "want", "none"} = {}
      /\ {"version", "edits", "skipped"} \subseteq DOMAIN locals
      /\ locals["version"] = version /\ locals["edits"] = edits /\ locals["skipped"] = 0
  OBVIOUS
<1>2. Search("change", uri, locals, want, 0)
  BY DEF CallChange
<1> HIDE DEF locals, want
<1>3. IsSearch(call', "change", PathOf[uri], locals, want, 0)
  BY <1>1, <1>2, SearchFacts
<1>4. QED
  BY <1>1, <1>3 DEF IsSearch, want

\* What file_system_close looks for.
LEMMA CallCloseFacts ==
    ASSUME NEW uri \in Uri, CallClose(uri), PathOf[uri] # NoPath
    PROVE  /\ {"op", "path", "want", "none"} \subseteq DOMAIN call'
           /\ call'.op = "close" /\ call'.path = PathOf[uri]
           /\ call'.want = 0 /\ call'.none = 0
<1>1. DOMAIN <<>> \cap {"op", "path", "rover", "found", "want", "none"} = {}
  OBVIOUS
<1>2. IsSearch(call', "close", PathOf[uri], <<>>, 0, 0)
  BY <1>1, SearchFacts DEF CallClose
<1>3. QED
  BY <1>2 DEF IsSearch

\* What a save looks for.
LEMMA CallSaveFacts ==
    ASSUME NEW uri \in Uri, CallSave(uri), PathOf[uri] # NoPath
    PROVE  /\ {"op", "path", "want", "none"} \subseteq DOMAIN call'
           /\ call'.op = "save" /\ call'.path = PathOf[uri]
           /\ call'.want = IF IsOpen(uri) THEN docs[PathOf[uri]].version ELSE 0
           /\ call'.none = 0
<1> DEFINE want == IF IsOpen(uri) THEN docs[PathOf[uri]].version ELSE 0
<1>1. DOMAIN <<>> \cap {"op", "path", "rover", "found", "want", "none"} = {}
  OBVIOUS
<1>2. Search("save", uri, <<>>, want, 0)
  BY DEF CallSave
<1> HIDE DEF want
<1>3. IsSearch(call', "save", PathOf[uri], <<>>, want, 0)
  BY <1>1, <1>2, SearchFacts
<1>4. QED
  BY <1>3 DEF IsSearch, want

\* Where the files stay as they are.
LEMMA FilesTextsKept ==
    ASSUME TextsInv, heap' = heap
    PROVE  /\ IsFiniteSet(DOMAIN heap')
           /\ DOMAIN heap' \subseteq Node
           /\ \A n \in DOMAIN heap' : heap'[n].version \in Versions /\ heap'[n].text \in ByteStrings
BY DEF TextsInv

\* Where neither an opening nor a change goes on with the same files.
LEMMA QuietTexts ==
    ASSUME TextsInv, heap' = heap, call'.op \notin {"open", "change"}
    PROVE  TextsInv'
BY FilesTextsKept DEF TextsInv, Doing

\* A call begins its search.
LEMMA SearchTexts ==
    ASSUME NamesAssumption, TextsAssumption, TextsInv,
           \/ \E uri \in Uri, version \in Versions, contents \in Contents :
                 CallOpen(uri, version, contents)
           \/ \E uri \in Uri, version \in Versions, edits \in Batches :
                 CallChange(uri, version, edits)
           \/ \E uri \in Uri : CallClose(uri) \/ CallSave(uri)
    PROVE  TextsInv'
<1>1. ASSUME NEW uri \in Uri, NEW version \in Versions, NEW contents \in Contents,
             CallOpen(uri, version, contents)
      PROVE  TextsInv'
  <2>1. heap' = heap
    BY <1>1 DEF CallOpen, Search
  <2>2. CASE PathOf[uri] = NoPath
    <3>1. call' = Returned(0, 0, 0)
      BY <1>1, <2>2 DEF CallOpen, Search
    <3>2. QED
      BY <2>1, <3>1, QuietTexts DEF Returned
  <2>3. CASE PathOf[uri] # NoPath
    <3>1. /\ {"version", "contents"} \subseteq DOMAIN call'
          /\ call'.op = "open" /\ call'.version = version /\ call'.contents = contents
      BY <1>1, <2>3, CallOpenFacts
    <3>2. contents \in ByteStrings
      BY DEF TextsAssumption
    <3>3. QED
      BY <2>1, <3>1, <3>2, FilesTextsKept DEF TextsInv, Doing
  <2>4. QED
    BY <2>2, <2>3
<1>2. ASSUME NEW uri \in Uri, NEW version \in Versions, NEW edits \in Batches,
             CallChange(uri, version, edits)
      PROVE  TextsInv'
  <2>1. heap' = heap
    BY <1>2 DEF CallChange, Search
  <2>2. CASE PathOf[uri] = NoPath
    <3>1. call' = Returned(0, 0, 0)
      BY <1>2, <2>2 DEF CallChange, Search
    <3>2. QED
      BY <2>1, <3>1, QuietTexts DEF Returned
  <2>3. CASE PathOf[uri] # NoPath
    <3>1. /\ {"version", "edits", "skipped"} \subseteq DOMAIN call'
          /\ call'.op = "change" /\ call'.version = version /\ call'.edits = edits
      BY <1>2, <2>3, CallChangeFacts
    <3>2. edits \in Seq(Edits)
      BY DEF TextsAssumption
    <3>3. QED
      BY <2>1, <3>1, <3>2, FilesTextsKept DEF TextsInv, Doing
  <2>4. QED
    BY <2>2, <2>3
<1>3. ASSUME NEW uri \in Uri, CallClose(uri) \/ CallSave(uri)
      PROVE  TextsInv'
  <2>1. heap' = heap
    BY <1>3 DEF CallClose, CallSave, Search
  <2>2. CASE PathOf[uri] = NoPath
    <3>1. call' = Returned(0, 0, 0)
      BY <1>3, <2>2 DEF CallClose, CallSave, Search
    <3>2. QED
      BY <2>1, <3>1, QuietTexts DEF Returned
  <2>3. CASE PathOf[uri] # NoPath
    <3>1. call'.op \in {"close", "save"}
      BY <1>3, <2>3, CallCloseFacts, CallSaveFacts
    <3>2. QED
      BY <2>1, <3>1, QuietTexts
  <2>4. QED
    BY <2>2, <2>3
<1>4. QED
  BY <1>1, <1>2, <1>3

\* The search goes on.
LEMMA LookupTexts == ASSUME IInv, TextsInv, LookupStep PROVE TextsInv'
<1>1. heap' = heap
  BY DEF LookupStep
<1>2. /\ DOMAIN call' = DOMAIN call
      /\ \A x \in DOMAIN call \ {"found"} : call'[x] = call[x]
      /\ {"op", "found"} \subseteq DOMAIN call
  BY DEF LookupStep, Searching, IInv, CallInv
<1>3. call'.op = call.op
  BY <1>2
<1>4. /\ Doing("open") => call'.version = call.version /\ call'.contents = call.contents
      /\ Doing("change") => call'.version = call.version /\ call'.edits = call.edits
  BY <1>2 DEF TextsInv
<1>5. QED
  BY <1>1, <1>2, <1>3, <1>4, FilesTextsKept DEF TextsInv, Doing

\* A file that is removed takes its text with it.
LEMMA RemoveTexts ==
    ASSUME IInv, TextsInv, NEW m \in DOMAIN heap, file_system_remove(m),
           call'.op \notin {"open", "change"}
    PROVE  TextsInv'
<1>1. /\ DOMAIN heap' = DOMAIN heap \ {m}
      /\ \A n \in DOMAIN heap' : SameFile(heap'[n], heap[n])
  BY UnlinkedFacts DEF file_system_remove, IInv
<1>2. IsFiniteSet(DOMAIN heap')
  BY <1>1, FS_RemoveElement DEF TextsInv
<1>3. QED
  BY <1>1, <1>2 DEF TextsInv, SameFile, Doing

\* The new node has the text it was opened with.
LEMMA OpenNewTexts ==
    ASSUME NamesAssumption, IInv, TextsInv, OpenNew
    PROVE  TextsInv'
<1>0. PICK path, version, text :
         path = call.path /\ version = call.version /\ text = call.contents
  OBVIOUS
<1>1. /\ path \in Path /\ fs.table[Hash[path]] = NULL
      /\ version \in Versions /\ text \in ByteStrings
  BY <1>0 DEF OpenNew, Miss, Doing, IInv, CallInv, TextsInv
<1>2. PICK n \in Node \ DOMAIN heap : heap' = LinkedHeap(n, path, version, text)
  BY <1>0 DEF OpenNew
<1>3. PICK h : h = heap'
  OBVIOUS
<1>4. /\ IsHeap(heap) /\ n \notin DOMAIN heap /\ n # NULL
      /\ fs.table[Hash[path]] = NULL
      /\ h = LinkedHeap(n, path, version, text)
  BY <1>1, <1>2, <1>3 DEF IInv, NamesAssumption
<1>5. IsLinked(h, n, path, version, text)
  BY <1>4, LinkedFacts
<1>6. /\ DOMAIN h = DOMAIN heap \cup {n}
      /\ \A k \in DOMAIN heap : SameFile(h[k], heap[k])
      /\ h[n].version = version /\ h[n].text = text
  BY <1>5 DEF IsLinked
<1>7. IsFiniteSet(DOMAIN h)
  BY <1>6, FS_AddElement DEF TextsInv
<1>8. /\ DOMAIN h \subseteq Node
      /\ \A k \in DOMAIN h : h[k].version \in Versions /\ h[k].text \in ByteStrings
  BY <1>1, <1>6 DEF TextsInv, SameFile
<1>9. call'.op = "returned"
  BY DEF OpenNew, Returned
<1>10. QED
  BY <1>3, <1>7, <1>8, <1>9 DEF TextsInv, Doing

\* An edit makes a text of a text.
LEMMA ChangeTexts ==
    ASSUME NamesAssumption, IInv, TextsInv, OpenFound \/ ChangeEdit \/ ChangeReturn
    PROVE  TextsInv'
<1>1. /\ call.rover \in DOMAIN heap /\ IsHeap(heap)
      /\ heap[call.rover].open_count = 1
  BY FoundFacts DEF OpenFound, ChangeEdit, ChangeReturn, Doing, IInv
<1>2. CASE OpenFound
  <2>1. heap' = [heap EXCEPT ![call.rover].text = call.contents] /\ call'.op = "abort"
    BY <1>1, <1>2 DEF OpenFound, Abort
  <2>2. IsWithText(heap', heap, call.rover, call.contents)
    BY <1>1, <2>1, WithTextFacts
  <2>3. call.contents \in ByteStrings
    BY <1>2 DEF OpenFound, TextsInv
  <2>4. QED
    BY <2>1, <2>2, <2>3 DEF TextsInv, IsWithText, Doing
<1>3. CASE ChangeReturn
  <2>1. heap' = [heap EXCEPT ![call.rover].version = call.version] /\ call'.op = "returned"
    BY <1>3 DEF ChangeReturn, Returned
  <2>2. IsWithVersion(heap', heap, call.rover, call.version)
    BY <1>1, <2>1, WithVersionFacts
  <2>3. call.version \in Versions
    BY <1>3 DEF ChangeReturn, TextsInv
  <2>4. QED
    BY <2>1, <2>2, <2>3 DEF TextsInv, IsWithVersion, Doing
<1>4. CASE ChangeEdit
  <2> DEFINE n == call.rover
             edit == Head(call.edits)
  <2>1. /\ Doing("change") /\ call.edits # <<>> /\ call.edits \in Seq(Edits)
        /\ {"op", "version", "edits", "skipped"} \subseteq DOMAIN call
        /\ call = [x \in DOMAIN call |-> call[x]]
    BY <1>4 DEF ChangeEdit, TextsInv, IInv, CallInv
  <2>2. /\ edit \in Edits /\ Tail(call.edits) \in Seq(Edits)
        /\ heap[n].text \in ByteStrings
    BY <1>1, <2>1 DEF TextsInv
  <2>3. ASSUME NEW skipped, call' = [call EXCEPT !.edits = Tail(@), !.skipped = skipped]
        PROVE  /\ {"version", "edits", "skipped"} \subseteq DOMAIN call'
               /\ call'.op = call.op /\ call'.version = call.version
               /\ call'.edits = Tail(call.edits)
    BY <2>1, <2>3
  <2> HIDE DEF n, edit
  <2>4. ASSUME IsWhole(edit) \/ HasPosition(heap[n].text, edit.start),
               Rewrite(n, edit),
               NEW skipped, call' = [call EXCEPT !.edits = Tail(@), !.skipped = skipped]
        PROVE  TextsInv'
    <3>1. heap' = [heap EXCEPT ![n].text = Edited(heap[n].text, edit)]
      BY <1>1, <2>2, <2>4, RewriteEdits DEF n
    <3>2. IsWithText(heap', heap, n, Edited(heap[n].text, edit))
      BY <1>1, <3>1, WithTextFacts DEF n
    <3>3. Edited(heap[n].text, edit) \in ByteStrings
      BY <2>2, EditedText
    <3>4. /\ {"version", "edits", "skipped"} \subseteq DOMAIN call'
          /\ call'.op = call.op /\ call'.version = call.version
          /\ call'.edits = Tail(call.edits)
      BY <2>3, <2>4
    <3>5. QED
      BY <2>1, <2>2, <3>2, <3>3, <3>4 DEF TextsInv, IsWithText, Doing
  <2>5. ASSUME heap' = heap,
               NEW skipped, call' = [call EXCEPT !.edits = Tail(@), !.skipped = skipped]
        PROVE  TextsInv'
    BY <2>1, <2>2, <2>3, <2>5, FilesTextsKept DEF TextsInv, Doing
  <2>6. ASSUME heap' = heap, Abort(649)
        PROVE  TextsInv'
    BY <2>6, QuietTexts DEF Abort
  <2>7. \/ /\ IsWhole(edit) \/ HasPosition(heap[n].text, edit.start)
           /\ Rewrite(n, edit)
           /\ \E skipped : call' = [call EXCEPT !.edits = Tail(@), !.skipped = skipped]
        \/ /\ heap' = heap
           /\ \E skipped : call' = [call EXCEPT !.edits = Tail(@), !.skipped = skipped]
        \/ heap' = heap /\ Abort(649)
    BY <1>4 DEF ChangeEdit, n, edit
  <2>8. QED
    BY <2>4, <2>5, <2>6, <2>7
<1>5. QED
  BY <1>2, <1>3, <1>4

\* A part of a text, without some bytes, is a text.
LEMMA DeletionTexts ==
    ASSUME NamesAssumption, IInv, TextsInv, DeletionAborts \/ DeletionHangs
    PROVE  TextsInv'
<1>1. call.rover \in DOMAIN heap /\ IsHeap(heap) /\ DeletionMayFail
  BY FoundFacts DEF DeletionAborts, DeletionHangs, DeletionMayFail, Doing, IInv
<1> DEFINE t == heap[call.rover].text
<1>2. t \in ByteStrings /\ Len(t) \in Nat
  BY <1>1 DEF TextsInv, ByteStrings
<1>3. From \in 0 .. Len(t) /\ To \in 0 .. Len(t)
  BY <1>2, FirstPlaceFacts DEF From, To
<1>4. PICK n \in 0 .. Len(t) : ErasedUpTo(n)
  BY <1>3 DEF DeletionAborts, DeletionHangs
<1> DEFINE u == SubSeq(t, 1, From) \o SubSeq(t, n + 1, Len(t))
<1>5. u \in ByteStrings
  <2>1. /\ 1 \in 1 .. Len(t) + 1 /\ n + 1 \in 1 .. Len(t) + 1
        /\ Len(t) \in 0 .. Len(t)
    BY <1>2, <1>4
  <2>2. SubSeq(t, 1, From) \in ByteStrings /\ SubSeq(t, n + 1, Len(t)) \in ByteStrings
    BY <1>2, <1>3, <2>1, SubSeqText DEF ByteStrings
  <2>3. QED
    BY <2>2 DEF ByteStrings
<1>6. heap' = [heap EXCEPT ![call.rover].text = u]
  BY <1>4 DEF ErasedUpTo
<1> HIDE DEF t, u
<1>7. IsWithText(heap', heap, call.rover, u)
  BY <1>1, <1>6, WithTextFacts
<1>8. call'.op \in {"abort", "stuck"}
  BY DEF DeletionAborts, DeletionHangs, Abort
<1>9. QED
  BY <1>5, <1>7, <1>8 DEF TextsInv, IsWithText, Doing

\* Every step keeps them texts.
LEMMA NextTexts ==
    ASSUME NamesAssumption, TextsAssumption, IInv, TextsInv, [Next]_vars
    PROVE  TextsInv'
<1>1. CASE \/ \E uri \in Uri, version \in Versions, contents \in Contents :
                 CallOpen(uri, version, contents)
           \/ \E uri \in Uri, version \in Versions, edits \in Batches :
                 Fits(uri, edits) /\ CallChange(uri, version, edits)
           \/ \E uri \in Uri : CallClose(uri) \/ CallSave(uri)
  BY <1>1, SearchTexts
<1>2. CASE Receive \/ CallFree \/ LookupFails \/ SaveFound \/ FreeReturn
  <2>1. heap' = heap /\ call'.op \in {"idle", "free", "returned"}
    BY <1>2 DEF Receive, CallFree, LookupFails, SaveFound, FreeReturn, Idle, Returned
  <2>2. QED
    BY <2>1, QuietTexts
<1>3. CASE LookupStep
  BY <1>3, LookupTexts
<1>4. CASE OpenFound \/ ChangeEdit \/ ChangeReturn
  BY <1>4, ChangeTexts
<1>5. CASE OpenNew
  BY <1>5, OpenNewTexts
<1>6. CASE CloseFound
  <2>1. call.rover \in DOMAIN heap /\ heap[call.rover].open_count = 1
    BY <1>6, FoundFacts DEF CloseFound, Doing
  <2>2. file_system_remove(call.rover) /\ call'.op = "returned"
    BY <1>6, <2>1 DEF CloseFound, Returned
  <2>3. QED
    BY <2>1, <2>2, RemoveTexts
<1>7. CASE FreeStep
  <2>1. call.rover \in DOMAIN heap /\ "op" \in DOMAIN call /\ call.op = "free"
    BY <1>7 DEF FreeStep, IInv, CallInv, ListInv, Doing
  <2>2. file_system_remove(call.rover) /\ call'.op = "free"
    BY <1>7, <2>1 DEF FreeStep
  <2>3. QED
    BY <2>1, <2>2, RemoveTexts
<1>8. CASE DeletionAborts \/ DeletionHangs
  BY <1>8, DeletionTexts
<1>9. CASE UNCHANGED vars
  BY <1>9 DEF vars, TextsInv, Doing
<1>10. QED
  BY <1>1, <1>2, <1>3, <1>4, <1>5, <1>6, <1>7, <1>8, <1>9 DEF Next, Work

-----------------------------------------------------------------------------
(***************************************************************************)
(* Documents.                                                              *)
(***************************************************************************)

\* What the call in progress promises of the documents v it began with, or
\* has got to: its result, and the documents there will be when it returns.
OpenPromise(v) ==
    docs = IF call.path \in DOMAIN v THEN v
           ELSE With(v, call.path, [version |-> call.version, text |-> call.contents])

ChangePromise(v) ==
    IF call.path \in DOMAIN v
    THEN /\ call.want = 1
         /\ docs = [v EXCEPT ![call.path] =
                      [version |-> call.version,
                       text |-> EditedAll(v[call.path].text, call.edits)]]
    ELSE call.want = 0 /\ docs = v

ClosePromise(v) == call.want = 0 /\ docs = Without(v, call.path)

SavePromise(v) ==
    /\ call.want = IF call.path \in DOMAIN v THEN v[call.path].version ELSE 0
    /\ docs = v

DocsInv ==
    /\ AtRest => docs = View
    /\ Doing("returned") => call.ret = call.want
    /\ call.op \in {"open", "change", "close", "save"} =>
          {"want", "none"} \subseteq DOMAIN call /\ call.none = 0
    /\ Doing("open") => OpenPromise(View)
    /\ Doing("change") => ChangePromise(View)
    /\ Doing("close") => ClosePromise(View)
    /\ Doing("save") => SavePromise(View)
    /\ Doing("free") => docs = NoDocs

\* The documents are a function of open paths.
LEMMA ViewShape ==
    ASSUME NEW h
    PROVE  /\ ViewOf(h) = [p \in DOMAIN ViewOf(h) |-> ViewOf(h)[p]]
           /\ DOMAIN ViewOf(h) = {h[n].path : n \in DOMAIN h}
BY DEF ViewOf

\* The names of the documents are paths.
LEMMA ViewPaths == ASSUME IInv PROVE DOMAIN View \subseteq Path
BY DEF View, IInv, TableInv

\* The same nodes hold the same documents.
LEMMA ViewKeptWhole == ASSUME heap' = heap PROVE View' = View
BY ViewIs

\* The file that a search has found is that of the document.
LEMMA FoundInView ==
    ASSUME IInv, NamesAssumption, call.op \in {"open", "change", "close", "save"},
           call.found
    PROVE  /\ call.path \in DOMAIN View
           /\ View[call.path] = [version |-> heap[call.rover].version,
                                 text |-> heap[call.rover].text]
<1>1. call.rover \in DOMAIN heap /\ heap[call.rover].path = call.path
  BY FoundFacts
<1>2. DOMAIN View = {heap[n].path : n \in DOMAIN heap}
  BY DEF View
<1>3. \A n \in DOMAIN heap :
         ViewOf(heap)[heap[n].path] = [version |-> heap[n].version, text |-> heap[n].text]
  BY TableDistinct, ViewFacts DEF IInv
<1>4. QED
  BY <1>1, <1>2, <1>3, ViewIs

\* With an empty bucket there is no document of the path.
LEMMA MissNotInView ==
    ASSUME IInv, NamesAssumption, call.op \in {"open", "change", "close", "save"},
           Miss
    PROVE  call.path \notin DOMAIN View
<1>1. call.path \in Path /\ fs.table[Hash[call.path]] = NULL
  BY DEF Miss, IInv, CallInv
<1>2. ASSUME NEW n \in DOMAIN heap
      PROVE  heap[n].path # call.path
  BY <1>1 DEF IInv, TableInv, IsHeap
<1>3. QED
  BY <1>2 DEF View

\* A call that returns what it promised.
LEMMA ReturnsDocs ==
    ASSUME NEW ret, NEW want, NEW skipped, call' = Returned(ret, want, skipped),
           ret = want, docs' = View'
    PROVE  DocsInv'
<1>1. call'.op = "returned" /\ call'.ret = ret /\ call'.want = want
  BY DEF Returned
<1>2. QED
  BY <1>1 DEF DocsInv, AtRest, Doing

\* Nothing is promised after a failed assertion, or by a call that hangs.
LEMMA AbortDocs == ASSUME call'.op \in {"abort", "stuck"} PROVE DocsInv'
BY DEF DocsInv, AtRest, Doing

\* The call of a document.
LEMMA SearchDocs ==
    ASSUME NamesAssumption, IInv, DocsInv,
           \/ \E uri \in Uri : \E version, contents : CallOpen(uri, version, contents)
           \/ \E uri \in Uri : \E version, edits : CallChange(uri, version, edits)
           \/ \E uri \in Uri : CallClose(uri) \/ CallSave(uri)
    PROVE  DocsInv'
<1>1. heap' = heap /\ docs = View
  BY DEF CallOpen, CallChange, CallClose, CallSave, Search, DocsInv, AtRest, Doing
<1>2. View' = docs
  BY <1>1, ViewKeptWhole
<1>3. NoPath \notin DOMAIN docs
  BY <1>1, ViewPaths DEF NamesAssumption
<1>4. docs = [p \in DOMAIN docs |-> docs[p]]
  BY <1>1, ViewShape, ViewIs
<1>5. ASSUME NEW uri \in Uri, NEW version, NEW contents,
             CallOpen(uri, version, contents)
      PROVE  DocsInv'
  <2>1. CASE PathOf[uri] = NoPath
    <3>1. call' = Returned(0, 0, 0) /\ docs' = docs
      BY <1>5, <2>1 DEF CallOpen, Search
    <3>2. QED
      BY <1>2, <3>1, ReturnsDocs
  <2>2. CASE PathOf[uri] # NoPath
    <3>1. /\ {"op", "want", "none"} \subseteq DOMAIN call'
          /\ call'.op = "open" /\ call'.path = PathOf[uri]
          /\ call'.none = 0
          /\ call'.version = version /\ call'.contents = contents
      BY <1>5, <2>2, CallOpenFacts
    <3>2. docs' = IF PathOf[uri] \in DOMAIN docs THEN docs
                  ELSE With(docs, PathOf[uri], [version |-> version, text |-> contents])
      BY <1>5, <2>2 DEF CallOpen, IsOpen
    <3>3. OpenPromise(View)'
      BY <1>2, <3>1, <3>2 DEF OpenPromise
    <3>4. QED
      BY <3>1, <3>3 DEF DocsInv, AtRest, Doing
  <2>3. QED
    BY <2>1, <2>2
<1>6. ASSUME NEW uri \in Uri, NEW version, NEW edits,
             CallChange(uri, version, edits)
      PROVE  DocsInv'
  <2>1. CASE PathOf[uri] = NoPath
    <3>1. call' = Returned(0, 0, 0) /\ docs' = docs
      BY <1>3, <1>6, <2>1 DEF CallChange, Search, IsOpen
    <3>2. QED
      BY <1>2, <3>1, ReturnsDocs
  <2>2. CASE PathOf[uri] # NoPath
    <3>1. /\ {"op", "want", "none"} \subseteq DOMAIN call'
          /\ call'.op = "change" /\ call'.path = PathOf[uri]
          /\ call'.want = IF PathOf[uri] \in DOMAIN docs THEN 1 ELSE 0
          /\ call'.none = 0
          /\ call'.version = version /\ call'.edits = edits
      BY <1>6, <2>2, CallChangeFacts DEF IsOpen
    <3>2. docs' = IF PathOf[uri] \in DOMAIN docs
                  THEN [docs EXCEPT ![PathOf[uri]] =
                          [version |-> version,
                           text |-> EditedAll(docs[PathOf[uri]].text, edits)]]
                  ELSE docs
      BY <1>6 DEF CallChange, IsOpen
    <3>3. ChangePromise(View)'
      BY <1>2, <3>1, <3>2 DEF ChangePromise
    <3>4. QED
      BY <3>1, <3>3 DEF DocsInv, AtRest, Doing
  <2>3. QED
    BY <2>1, <2>2
<1>7. ASSUME NEW uri \in Uri, CallClose(uri)
      PROVE  DocsInv'
  <2>0. docs' = Without(docs, PathOf[uri])
    BY <1>7 DEF CallClose
  <2>1. CASE PathOf[uri] = NoPath
    <3>1. call' = Returned(0, 0, 0)
      BY <1>7, <2>1 DEF CallClose, Search
    <3>2. docs' = docs
      BY <1>3, <1>4, <2>0, <2>1 DEF Without
    <3>3. QED
      BY <1>2, <3>1, <3>2, ReturnsDocs
  <2>2. CASE PathOf[uri] # NoPath
    <3>1. /\ {"op", "want", "none"} \subseteq DOMAIN call'
          /\ call'.op = "close" /\ call'.path = PathOf[uri]
          /\ call'.want = 0 /\ call'.none = 0
      BY <1>7, <2>2, CallCloseFacts
    <3>2. ClosePromise(View)'
      BY <1>2, <2>0, <3>1 DEF ClosePromise
    <3>3. QED
      BY <3>1, <3>2 DEF DocsInv, AtRest, Doing
  <2>3. QED
    BY <2>1, <2>2
<1>8. ASSUME NEW uri \in Uri, CallSave(uri)
      PROVE  DocsInv'
  <2>0. docs' = docs
    BY <1>8 DEF CallSave
  <2>1. CASE PathOf[uri] = NoPath
    <3>1. call' = Returned(0, 0, 0)
      BY <1>8, <2>1 DEF CallSave, Search
    <3>2. QED
      BY <1>2, <2>0, <3>1, ReturnsDocs
  <2>2. CASE PathOf[uri] # NoPath
    <3>1. /\ {"op", "want", "none"} \subseteq DOMAIN call'
          /\ call'.op = "save" /\ call'.path = PathOf[uri]
          /\ call'.want = IF PathOf[uri] \in DOMAIN docs
                          THEN docs[PathOf[uri]].version ELSE 0
          /\ call'.none = 0
      BY <1>8, <2>2, CallSaveFacts DEF IsOpen
    <3>2. SavePromise(View)'
      BY <1>2, <2>0, <3>1 DEF SavePromise
    <3>3. QED
      BY <3>1, <3>2 DEF DocsInv, AtRest, Doing
  <2>3. QED
    BY <2>1, <2>2
<1>9. QED
  BY <1>5, <1>6, <1>7, <1>8

\* An iteration of a lookup changes nothing that the call promises.
LEMMA LookupDocs == ASSUME IInv, TextsInv, DocsInv, LookupStep PROVE DocsInv'
<1>1. heap' = heap /\ docs' = docs /\ View' = View
  BY ViewKeptWhole DEF LookupStep
<1>2. /\ DOMAIN call' = DOMAIN call
      /\ \A x \in DOMAIN call \ {"found"} : call'[x] = call[x]
      /\ {"op", "path", "want", "none", "found"} \subseteq DOMAIN call
      /\ call.op \in {"open", "change", "close", "save"}
      /\ call.none = 0
  BY DEF LookupStep, Searching, IInv, CallInv, DocsInv
<1>3. call'.op = call.op /\ call'.path = call.path /\ call'.want = call.want
      /\ call'.none = 0
  BY <1>2
<1>4. /\ Doing("open") => call'.version = call.version /\ call'.contents = call.contents
      /\ Doing("change") => call'.version = call.version /\ call'.edits = call.edits
  BY <1>2 DEF TextsInv
<1>5. CASE Doing("open")
  <2>1. OpenPromise(View)'
    BY <1>1, <1>3, <1>4, <1>5 DEF DocsInv, OpenPromise
  <2>2. QED
    BY <1>2, <1>3, <1>5, <2>1 DEF DocsInv, AtRest, Doing
<1>6. CASE Doing("change")
  <2>1. ChangePromise(View)'
    BY <1>1, <1>3, <1>4, <1>6 DEF DocsInv, ChangePromise
  <2>2. QED
    BY <1>2, <1>3, <1>6, <2>1 DEF DocsInv, AtRest, Doing
<1>7. CASE Doing("close")
  <2>1. ClosePromise(View)'
    BY <1>1, <1>3, <1>7 DEF DocsInv, ClosePromise
  <2>2. QED
    BY <1>2, <1>3, <1>7, <2>1 DEF DocsInv, AtRest, Doing
<1>8. CASE Doing("save")
  <2>1. SavePromise(View)'
    BY <1>1, <1>3, <1>8 DEF DocsInv, SavePromise
  <2>2. QED
    BY <1>2, <1>3, <1>8, <2>1 DEF DocsInv, AtRest, Doing
<1>9. QED
  BY <1>2, <1>5, <1>6, <1>7, <1>8 DEF Doing

\* Calls that end and leave the files as they are, and the one that starts
\* freeing them.
LEMMA QuietDocs ==
    ASSUME NamesAssumption, IInv, DocsInv,
           LookupFails \/ SaveFound \/ Receive \/ CallFree \/ FreeReturn
    PROVE  DocsInv'
<1>1. heap' = heap /\ View' = View
  BY ViewKeptWhole DEF LookupFails, SaveFound, Receive, CallFree, FreeReturn
<1>2. View = [p \in DOMAIN View |-> View[p]]
  BY ViewShape, ViewIs
<1>3. CASE LookupFails
  <2>1. /\ call' = Returned(call.none, call.want, 0) /\ docs' = docs
        /\ call.op \in {"change", "close", "save"} /\ call.none = 0
        /\ call.path \notin DOMAIN View
    BY <1>3, MissNotInView DEF LookupFails, Searching, Doing, DocsInv
  <2>2. call.want = 0 /\ docs = View
    <3>1. CASE Doing("change")
      BY <2>1, <3>1 DEF DocsInv, ChangePromise
    <3>2. CASE Doing("close")
      BY <1>2, <2>1, <3>2 DEF DocsInv, ClosePromise, Without
    <3>3. CASE Doing("save")
      BY <2>1, <3>3 DEF DocsInv, SavePromise
    <3>4. QED
      BY <2>1, <3>1, <3>2, <3>3 DEF Doing
  <2>3. QED
    BY <1>1, <2>1, <2>2, ReturnsDocs
<1>4. CASE SaveFound
  <2>1. /\ Doing("save") /\ call.found /\ docs' = docs
        /\ call' = Returned(heap[call.rover].version, call.want, 0)
    BY <1>4 DEF SaveFound
  <2>2. /\ call.path \in DOMAIN View
        /\ View[call.path].version = heap[call.rover].version
    BY <2>1, FoundInView DEF Doing
  <2>3. call.want = heap[call.rover].version /\ docs = View
    BY <2>1, <2>2 DEF DocsInv, SavePromise
  <2>4. QED
    BY <1>1, <2>1, <2>3, ReturnsDocs
<1>5. CASE Receive
  BY <1>1, <1>5 DEF Receive, Idle, DocsInv, AtRest, Doing
<1>6. CASE CallFree
  BY <1>6 DEF CallFree, DocsInv, AtRest, Doing
<1>7. CASE FreeReturn
  <2>1. DOMAIN heap = {}
    BY <1>7, NoHeadNoFile DEF FreeReturn, IInv, CallInv
  <2>2. View = NoDocs
    BY <2>1 DEF View, NoDocs
  <2>3. call' = Returned(0, 0, 0) /\ docs' = docs /\ docs = NoDocs
    BY <1>7 DEF FreeReturn, DocsInv
  <2>4. QED
    BY <1>1, <2>2, <2>3, ReturnsDocs
<1>8. QED
  BY <1>3, <1>4, <1>5, <1>6, <1>7

\* file_system_open does what it promises.
LEMMA OpenNewDocs ==
    ASSUME NamesAssumption, IInv, IInv', DocsInv, OpenNew
    PROVE  DocsInv'
<1>0. PICK path, version, text :
         path = call.path /\ version = call.version /\ text = call.contents
  OBVIOUS
<1>1. /\ path \in Path /\ fs.table[Hash[path]] = NULL
      /\ path \notin DOMAIN View
  BY <1>0, MissNotInView DEF OpenNew, Miss, Doing, IInv, CallInv
<1>2. PICK n \in Node \ DOMAIN heap : heap' = LinkedHeap(n, path, version, text)
  BY <1>0 DEF OpenNew
<1>3. PICK h : h = heap'
  OBVIOUS
<1>4. IsLinked(h, n, path, version, text)
  <2>1. /\ IsHeap(heap) /\ n \notin DOMAIN heap /\ n # NULL
        /\ fs.table[Hash[path]] = NULL
        /\ h = LinkedHeap(n, path, version, text)
    BY <1>1, <1>2, <1>3 DEF IInv, NamesAssumption
  <2>2. QED
    BY <2>1, LinkedFacts
<1>5. Distinct(heap) /\ Distinct(h)
  BY <1>3 DEF IInv, TableInv, Distinct
<1>6. /\ DOMAIN h = DOMAIN heap \cup {n} /\ n \in DOMAIN h
      /\ \A k \in DOMAIN heap : SameFile(h[k], heap[k])
      /\ h[n].path = path /\ h[n].version = version /\ h[n].text = text
  BY <1>4 DEF IsLinked
<1>7. /\ DOMAIN ViewOf(h) = DOMAIN ViewOf(heap) \cup {path}
      /\ \A p \in DOMAIN ViewOf(heap) : ViewOf(h)[p] = ViewOf(heap)[p]
  <2>1. /\ DOMAIN h = DOMAIN heap \cup {n} /\ n \notin DOMAIN heap
        /\ h[n].path = path
        /\ \A k \in DOMAIN heap : SameFile(h[k], heap[k])
        /\ Distinct(heap) /\ Distinct(h)
    BY <1>2, <1>5, <1>6
  <2>2. QED
    BY <2>1, LinkedView
<1>8. ViewOf(h)[path] = [version |-> version, text |-> text]
  <2>1. \A k \in DOMAIN h :
           ViewOf(h)[h[k].path] = [version |-> h[k].version, text |-> h[k].text]
    BY <1>5, ViewFacts
  <2>2. QED
    BY <1>6, <2>1
<1>9. ViewOf(h) = With(ViewOf(heap), path, [version |-> version, text |-> text])
  <2>1. ViewOf(h) = [p \in DOMAIN ViewOf(h) |-> ViewOf(h)[p]]
    BY ViewShape
  <2>2. path \notin DOMAIN ViewOf(heap)
    BY <1>1, ViewIs
  <2>3. PICK v, w, d : v = ViewOf(heap) /\ w = ViewOf(h)
                       /\ d = [version |-> version, text |-> text]
    OBVIOUS
  <2>4. w = With(v, path, d)
    <3>1. /\ w = [p \in DOMAIN w |-> w[p]] /\ path \notin DOMAIN v
          /\ DOMAIN w = DOMAIN v \cup {path}
          /\ \A p \in DOMAIN v : w[p] = v[p]
          /\ w[path] = d
      BY <1>7, <1>8, <2>1, <2>2, <2>3
    <3>2. QED
      BY <3>1 DEF With, Over
  <2>5. QED
    BY <2>3, <2>4
<1>10. docs = With(View, path, [version |-> version, text |-> text])
  BY <1>0, <1>1 DEF DocsInv, OpenPromise, OpenNew
<1>11. docs' = View'
  BY <1>3, <1>9, <1>10, ViewIs DEF OpenNew
<1>12. QED
  BY <1>11, ReturnsDocs DEF OpenNew

\* A file that is removed is a document less.
LEMMA RemovedDocs ==
    ASSUME IInv, IInv', NEW m \in DOMAIN heap, file_system_remove(m)
    PROVE  View' = Without(View, heap[m].path)
<1>1. PICK h, p : h = heap' /\ p = heap[m].path
  OBVIOUS
<1>2. DOMAIN h = DOMAIN heap \ {m} /\ \A n \in DOMAIN h : SameFile(h[n], heap[n])
  BY <1>1, UnlinkedFacts DEF file_system_remove, IInv
<1>3. Distinct(heap) /\ Distinct(h)
  BY <1>1 DEF IInv, TableInv, Distinct
<1>4. /\ DOMAIN ViewOf(h) = DOMAIN ViewOf(heap) \ {p}
      /\ \A r \in DOMAIN ViewOf(h) : ViewOf(h)[r] = ViewOf(heap)[r]
  BY <1>1, <1>2, <1>3, UnlinkedView
<1>5. ViewOf(h) = [r \in DOMAIN ViewOf(h) |-> ViewOf(h)[r]]
  BY ViewShape
<1>6. ViewOf(h) = Without(ViewOf(heap), p)
  BY <1>4, <1>5 DEF Without
<1>7. QED
  BY <1>1, <1>6, ViewIs

\* A file whose text or version changes is a document that changes.
LEMMA ChangedOnly ==
    ASSUME NEW g, NEW h, IsHeap(g), Distinct(g), SameLinks(h, g),
           NEW m \in DOMAIN g, OthersKept(h, g, m),
           NEW p, p = g[m].path
    PROVE  /\ p \in DOMAIN ViewOf(h)
           /\ ViewOf(h) = [ViewOf(g) EXCEPT ![p] = ViewOf(h)[p]]
           /\ ViewOf(h)[p] = [version |-> h[m].version, text |-> h[m].text]
<1>1. /\ p \in DOMAIN ViewOf(g)
      /\ DOMAIN ViewOf(h) = DOMAIN ViewOf(g)
      /\ ViewOf(g)[p] = [version |-> g[m].version, text |-> g[m].text]
      /\ ViewOf(h)[p] = [version |-> h[m].version, text |-> h[m].text]
      /\ \A r \in DOMAIN ViewOf(g) \ {p} : ViewOf(h)[r] = ViewOf(g)[r]
  BY ChangedView
<1>2. /\ ViewOf(h) = [r \in DOMAIN ViewOf(h) |-> ViewOf(h)[r]]
      /\ ViewOf(g) = [r \in DOMAIN ViewOf(g) |-> ViewOf(g)[r]]
  BY ViewShape
<1>3. ViewOf(h) = [ViewOf(g) EXCEPT ![p] = ViewOf(h)[p]]
  <2>1. PICK v, w : v = ViewOf(g) /\ w = ViewOf(h)
    OBVIOUS
  <2>2. /\ p \in DOMAIN v /\ DOMAIN w = DOMAIN v
        /\ \A r \in DOMAIN v \ {p} : w[r] = v[r]
        /\ w = [r \in DOMAIN w |-> w[r]] /\ v = [r \in DOMAIN v |-> v[r]]
    BY <1>1, <1>2, <2>1
  <2>3. w = [v EXCEPT ![p] = w[p]]
    BY <2>2
  <2>4. QED
    BY <2>1, <2>3
<1>4. QED
  BY <1>1, <1>3

\* The documents after one node has a new text or version.
LEMMA ChangedDocs ==
    ASSUME IInv, NEW n \in DOMAIN heap, NEW h, h = heap', SameLinks(h, heap),
           OthersKept(h, heap, n),
           NEW p, p = heap[n].path
    PROVE  /\ p \in DOMAIN View'
           /\ View' = [View EXCEPT ![p] = View'[p]]
           /\ View'[p] = [version |-> h[n].version, text |-> h[n].text]
<1>1. IsHeap(heap) /\ Distinct(heap)
  BY TableDistinct DEF IInv
<1>2. /\ p \in DOMAIN ViewOf(h)
      /\ ViewOf(h) = [ViewOf(heap) EXCEPT ![p] = ViewOf(h)[p]]
      /\ ViewOf(h)[p] = [version |-> h[n].version, text |-> h[n].text]
  BY <1>1, ChangedOnly
<1>3. QED
  BY <1>2, ViewIs

\* file_system_close does what it promises.
LEMMA CloseFoundDocs ==
    ASSUME NamesAssumption, IInv, IInv', DocsInv, CloseFound
    PROVE  DocsInv'
<1>1. /\ call.rover \in DOMAIN heap /\ heap[call.rover].open_count = 1
      /\ heap[call.rover].path = call.path
  BY FoundFacts DEF CloseFound, Doing
<1>2. /\ file_system_remove(call.rover) /\ call' = Returned(0, 0, 0)
      /\ docs' = docs
  BY <1>1 DEF CloseFound
<1>3. View' = Without(View, call.path)
  BY <1>1, <1>2, RemovedDocs
<1>4. docs = Without(View, call.path)
  BY DEF CloseFound, DocsInv, ClosePromise
<1>5. QED
  BY <1>2, <1>3, <1>4, ReturnsDocs

\* file_system_free goes on.
LEMMA FreeStepDocs == ASSUME IInv, DocsInv, FreeStep PROVE DocsInv'
<1>1. "op" \in DOMAIN call /\ call.op = "free" /\ docs = NoDocs
  BY DEF FreeStep, Doing, IInv, CallInv, DocsInv
<1>2. call'.op = "free" /\ docs' = docs
  BY <1>1 DEF FreeStep
<1>3. QED
  BY <1>1, <1>2 DEF DocsInv, AtRest, Doing

\* file_system_change does what it promises.
LEMMA ChangeReturnDocs ==
    ASSUME NamesAssumption, IInv, TextsInv, DocsInv, ChangeReturn
    PROVE  DocsInv'
<1>1. /\ call.rover \in DOMAIN heap /\ heap[call.rover].path = call.path
      /\ Doing("change") /\ call.edits = <<>>
      /\ IsHeap(heap) /\ heap[call.rover].text \in ByteStrings
  BY FoundFacts DEF ChangeReturn, Doing, IInv, TextsInv
<1>2. /\ heap' = [heap EXCEPT ![call.rover].version = call.version]
      /\ call' = Returned(1, call.want, call.skipped) /\ docs' = docs
  BY DEF ChangeReturn
<1>3. /\ SameLinks(heap', heap)
      /\ IsWithVersion(heap', heap, call.rover, call.version)
  BY <1>1, <1>2, VersionSameLinks, WithVersionFacts
<1>4. PICK n, h, p : n = call.rover /\ h = heap' /\ p = heap[n].path
  OBVIOUS
<1>5. /\ p \in DOMAIN View' /\ View' = [View EXCEPT ![p] = View'[p]]
      /\ View'[p] = [version |-> h[n].version, text |-> h[n].text]
  <2>1. /\ n \in DOMAIN heap /\ SameLinks(h, heap)
        /\ OthersKept(h, heap, n)
    BY <1>1, <1>3, <1>4 DEF IsWithVersion, OthersKept
  <2>2. QED
    BY <1>4, <2>1, ChangedDocs
<1>6. /\ call.path \in DOMAIN View
      /\ View[call.path].text = heap[call.rover].text
  BY FoundInView DEF ChangeReturn, Doing
<1>7. /\ call.want = 1
      /\ docs = [View EXCEPT ![call.path] =
                   [version |-> call.version,
                    text |-> EditedAll(View[call.path].text, call.edits)]]
  BY <1>1, <1>6 DEF DocsInv, ChangePromise
<1>8. EditedAll(View[call.path].text, call.edits) = heap[call.rover].text
  <2>1. call.edits \in Seq(Edits)
    BY <1>1 DEF TextsInv
  <2>2. EditedAll(heap[call.rover].text, call.edits) = heap[call.rover].text
    BY <1>1, <2>1, EditedAllFacts
  <2>3. QED
    BY <1>6, <2>2
<1>9. docs = View'
  <2>1. h[n].version = call.version /\ h[n].text = heap[call.rover].text /\ p = call.path
    BY <1>1, <1>3, <1>4 DEF IsWithVersion
  <2>2. QED
    BY <1>5, <1>7, <1>8, <2>1
<1>10. QED
  BY <1>2, <1>7, <1>9, ReturnsDocs

\* After an edit the rest of the edits is still promised.
LEMMA ChangeEditDocs ==
    ASSUME NamesAssumption, IInv, TextsInv, DocsInv, ChangeEdit
    PROVE  DocsInv'
<1> DEFINE n == call.rover
           edit == Head(call.edits)
           t == heap[n].text
           done == [View EXCEPT ![call.path] =
                      [version |-> call.version, text |-> EditedAll(t, call.edits)]]
<1>1. /\ n \in DOMAIN heap /\ heap[n].path = call.path
      /\ IsHeap(heap) /\ t \in ByteStrings
  BY FoundFacts DEF ChangeEdit, Doing, IInv, TextsInv
<1>2. /\ call.op = "change" /\ call.edits # <<>> /\ call.edits \in Seq(Edits)
      /\ {"op", "path", "version", "edits", "skipped", "want", "none"} \subseteq DOMAIN call
      /\ call = [x \in DOMAIN call |-> call[x]]
      /\ call.none = 0 /\ docs' = docs
  BY DEF ChangeEdit, TextsInv, IInv, CallInv, DocsInv, Doing
<1>3. /\ call.path \in DOMAIN View
      /\ View[call.path] = [version |-> heap[n].version, text |-> t]
      /\ View = [p \in DOMAIN View |-> View[p]]
  BY FoundInView, ViewShape, ViewIs DEF ChangeEdit, Doing
<1>4. /\ call.want = 1
      /\ docs = [View EXCEPT ![call.path] =
                   [version |-> call.version,
                    text |-> EditedAll(View[call.path].text, call.edits)]]
  BY <1>2, <1>3 DEF DocsInv, ChangePromise, Doing
<1>5. docs = done
  BY <1>3, <1>4
<1>6. edit \in Edits /\ Tail(call.edits) \in Seq(Edits)
  BY <1>2
<1>7. EditedAll(t, call.edits) = EditedAll(Edited(t, edit), Tail(call.edits))
  BY <1>1, <1>2, EditedAllFacts
<1>8. ASSUME NEW skipped, call' = [call EXCEPT !.edits = Tail(@), !.skipped = skipped]
      PROVE  /\ {"want", "none"} \subseteq DOMAIN call'
             /\ call'.op = call.op /\ call'.version = call.version
             /\ call'.path = call.path /\ call'.want = call.want /\ call'.none = 0
             /\ call'.edits = Tail(call.edits)
  BY <1>2, <1>8
<1> HIDE DEF edit, n, t, done
<1>9. ASSUME NEW skipped, call' = [call EXCEPT !.edits = Tail(@), !.skipped = skipped],
             call.path \in DOMAIN View', View'[call.path].text = Edited(t, edit),
             View' = [View EXCEPT ![call.path] = View'[call.path]]
      PROVE  DocsInv'
  <2>1. /\ {"want", "none"} \subseteq DOMAIN call'
        /\ call'.op = "change" /\ call'.version = call.version
        /\ call'.path = call.path /\ call'.want = 1 /\ call'.none = 0
        /\ call'.edits = Tail(call.edits)
    BY <1>2, <1>4, <1>8, <1>9
  <2>2. PICK e : e = [version |-> call.version,
                      text |-> EditedAll(Edited(t, edit), Tail(call.edits))]
    OBVIOUS
  <2>3. docs = [View EXCEPT ![call.path] = e]
    BY <1>5, <1>7, <2>2 DEF done
  <2>4. docs = [View' EXCEPT ![call.path] = e]
    <3>1. PICK v, w, x : v = View /\ w = View' /\ x = View'[call.path]
      OBVIOUS
    <3>2. w = [v EXCEPT ![call.path] = x]
      BY <1>9, <3>1
    <3>3. [w EXCEPT ![call.path] = e] = [v EXCEPT ![call.path] = e]
      BY <3>2
    <3>4. QED
      BY <2>3, <3>1, <3>3
  <2>5. ChangePromise(View)'
    BY <1>2, <1>9, <2>1, <2>2, <2>4 DEF ChangePromise
  <2>6. QED
    BY <2>1, <2>5 DEF DocsInv, AtRest, Doing
<1>10. ASSUME NEW skipped, call' = [call EXCEPT !.edits = Tail(@), !.skipped = skipped],
              IsWhole(edit) \/ HasPosition(t, edit.start), Rewrite(n, edit)
       PROVE  DocsInv'
  <2>1. heap' = [heap EXCEPT ![n].text = Edited(t, edit)]
    BY <1>1, <1>6, <1>10, RewriteEdits DEF t
  <2>2. /\ SameLinks(heap', heap)
        /\ IsWithText(heap', heap, n, Edited(t, edit))
    BY <1>1, <2>1, TextSameLinks, WithTextFacts
  <2>3. PICK h, p : h = heap' /\ p = heap[n].path
    OBVIOUS
  <2>4. /\ h[n].text = Edited(t, edit)
        /\ SameLinks(h, heap) /\ OthersKept(h, heap, n)
    BY <1>1, <2>2, <2>3 DEF IsWithText, OthersKept
  <2>5. /\ p \in DOMAIN View' /\ View' = [View EXCEPT ![p] = View'[p]]
        /\ View'[p] = [version |-> h[n].version, text |-> h[n].text]
    BY <1>1, <2>3, <2>4, ChangedDocs
  <2>6. /\ call.path \in DOMAIN View' /\ View' = [View EXCEPT ![call.path] = View'[call.path]]
        /\ View'[call.path].text = Edited(t, edit)
    BY <1>1, <2>3, <2>4, <2>5
  <2>7. QED
    BY <1>9, <1>10, <2>6
<1>11. ASSUME NEW skipped, call' = [call EXCEPT !.edits = Tail(@), !.skipped = skipped],
              ~(IsWhole(edit) \/ HasPosition(t, edit.start)), heap' = heap
       PROVE  DocsInv'
  <2>1. View' = View
    BY <1>11, ViewKeptWhole
  <2>2. Edited(t, edit) = t
    BY <1>11 DEF Edited
  <2>3. View' = [View EXCEPT ![call.path] = View'[call.path]]
    BY <1>3, <2>1
  <2>4. /\ call.path \in DOMAIN View'
        /\ View'[call.path].text = Edited(t, edit)
    BY <1>3, <2>1, <2>2
  <2>5. QED
    BY <1>9, <1>11, <2>3, <2>4
<1>12. ASSUME Abort(649) PROVE DocsInv'
  BY <1>12, AbortDocs DEF Abort
<1>13. \/ /\ IsWhole(edit) \/ HasPosition(t, edit.start)
          /\ Rewrite(n, edit)
          /\ \E skipped : call' = [call EXCEPT !.edits = Tail(@), !.skipped = skipped]
       \/ /\ ~(IsWhole(edit) \/ HasPosition(t, edit.start))
          /\ heap' = heap
          /\ \E skipped : call' = [call EXCEPT !.edits = Tail(@), !.skipped = skipped]
       \/ Abort(649)
  BY DEF ChangeEdit, n, edit, t
<1>14. QED
  BY <1>10, <1>11, <1>12, <1>13

\* Every step keeps the promises.
LEMMA NextDocs ==
    ASSUME NamesAssumption, IInv, IInv', TextsInv, DocsInv, [Next]_vars
    PROVE  DocsInv'
<1>1. CASE \/ \E uri \in Uri, version \in Versions, contents \in Contents :
                 CallOpen(uri, version, contents)
           \/ \E uri \in Uri, version \in Versions, edits \in Batches :
                 Fits(uri, edits) /\ CallChange(uri, version, edits)
           \/ \E uri \in Uri : CallClose(uri) \/ CallSave(uri)
  BY <1>1, SearchDocs
<1>2. CASE Receive \/ CallFree \/ LookupFails \/ SaveFound \/ FreeReturn
  BY <1>2, QuietDocs
<1>3. CASE LookupStep
  BY <1>3, LookupDocs
<1>4. CASE OpenFound
  <2>1. heap[call.rover].open_count = 1
    BY <1>4, FoundFacts DEF OpenFound, Doing
  <2>2. call'.op = "abort"
    BY <1>4, <2>1 DEF OpenFound, Abort
  <2>3. QED
    BY <2>2, AbortDocs
<1>5. CASE OpenNew
  BY <1>5, OpenNewDocs
<1>6. CASE ChangeEdit \/ ChangeReturn
  BY <1>6, ChangeEditDocs, ChangeReturnDocs
<1>7. CASE CloseFound \/ FreeStep
  BY <1>7, CloseFoundDocs, FreeStepDocs
<1>8. CASE DeletionAborts \/ DeletionHangs
  BY <1>8, AbortDocs DEF DeletionAborts, DeletionHangs, Abort
<1>9. CASE UNCHANGED vars
  <2>1. View' = View /\ docs' = docs /\ call' = call
    BY <1>9, ViewKeptWhole DEF vars
  <2>2. QED
    BY <2>1 DEF DocsInv, AtRest, Doing, OpenPromise, ChangePromise, ClosePromise,
                SavePromise
<1>10. QED
  BY <1>1, <1>2, <1>3, <1>4, <1>5, <1>6, <1>7, <1>8, <1>9 DEF Next, Work

-----------------------------------------------------------------------------
(***************************************************************************)
(* Deletions that do not return.                                           *)
(***************************************************************************)

\* The files with several chunks are files, and what is left of a text is what
\* was before the range, and in a deletion that hangs also what its last chunk
\* has.
DeletionsInv ==
    /\ chunked \subseteq DOMAIN heap
    /\ Doing("abort") /\ call.line = 634 =>
          /\ call.during.rover \in chunked
          /\ Rover.text # <<>>
          /\ PositionAfter(Rover.text) = Head(call.during.edits).start
    /\ Stuck =>
          /\ call.during.rover \in chunked
          /\ \E i \in 2 .. Len(Rover.text) : IsContinuation(Rover.text[i])

\* The first place from a position on that the text has is at this position.
LEMMA PlaceOfPosition ==
    ASSUME NEW t \in ByteStrings, NEW pos, HasPosition(t, pos)
    PROVE  PositionAfter(SubSeq(t, 1, FirstPlace(t, pos))) = pos
<1> DEFINE f == FirstPlace(t, pos)
           fore(k) == SubSeq(t, 1, k)
<1>1. PICK m \in Boundaries(t) : PositionAfter(fore(m)) = pos
  BY DEF HasPosition
<1>2. fore(m) \in ByteStrings
  BY <1>1, CutBytes
<1>3. pos \in Place
  BY <1>1, <1>2, PositionCounts DEF ByteStrings, Byte, Place
<1>4. m \in PlacesFrom(t, pos)
  BY <1>1, <1>3, BeforeOrders DEF PlacesFrom
<1>5. f \in PlacesFrom(t, pos) /\ f \in 0 .. Len(t) /\ f <= m /\ m \in 0 .. Len(t)
  BY <1>4, FirstPlaceFacts
<1>6. f \in Boundaries(t) /\ ~Before(PositionAfter(fore(f)), pos)
  BY <1>5 DEF PlacesFrom
<1>7. fore(f) \in ByteStrings /\ PositionAfter(fore(f)) \in Place
  BY <1>6, CutBytes, PositionCounts DEF ByteStrings, Byte, Place
<1> HIDE DEF f
<1>8. PICK rest \in ByteStrings : fore(m) = fore(f) \o rest
  <2> DEFINE rest == SubSeq(t, f + 1, m)
  <2>1. Len(t) \in Nat /\ f + 1 \in 1 .. Len(t) + 1 /\ m \in 0 .. Len(t)
    BY <1>5 DEF ByteStrings
  <2>2. rest \in ByteStrings
    BY <2>1, SubSeqText DEF ByteStrings
  <2>3. fore(m) = fore(f) \o rest
    <3>1. /\ fore(m) \in Seq(0 .. 255) /\ Len(fore(m)) = m
          /\ SubSeq(fore(m), 1, f) = fore(f)
          /\ SubSeq(fore(m), f + 1, m) = rest
      BY <1>2, <1>5, <2>1 DEF ByteStrings
    <3>2. f \in 0 .. Len(fore(m))
      BY <1>5, <3>1
    <3>3. SubSeq(fore(m), 1, f) \o SubSeq(fore(m), f + 1, Len(fore(m))) = fore(m)
      BY <3>1, <3>2, PartsJoin
    <3>4. QED
      BY <3>1, <3>3
  <2>4. QED
    BY <2>2, <2>3
<1>9. ~Before(PositionAfter(fore(m)), PositionAfter(fore(f)))
  BY <1>7, <1>8, PositionGoesOn DEF ByteStrings, Byte
<1> HIDE DEF fore
<1>10. PositionAfter(fore(f)) = pos
  BY <1>1, <1>3, <1>6, <1>7, <1>9, BeforeOrders
<1>11. QED
  BY <1>10 DEF fore, f

\* Where a deletion that does not return began, and what it leaves of a text.
LEMMA DeletionLeaves ==
    ASSUME NamesAssumption, IInv, TextsInv, DeletionMayFail, NEW n,
           n \in From .. To, ErasedUpTo(n), call'.during = call,
           NEW t, t = heap[call.rover].text,
           NEW u, u = SubSeq(t, 1, From) \o SubSeq(t, n + 1, Len(t))
    PROVE  /\ t \in ByteStrings
           /\ From \in 1 .. Len(t) /\ To \in 0 .. Len(t)
           /\ PositionAfter(SubSeq(t, 1, From)) = Head(call.edits).start
           /\ Rover' = heap'[call.rover] /\ Rover'.text = u
           /\ DOMAIN heap' = DOMAIN heap /\ chunked' = chunked
           /\ call'.during.rover \in chunked'
<1>1. call.rover \in DOMAIN heap /\ IsHeap(heap) /\ t \in ByteStrings
  BY FoundFacts DEF DeletionMayFail, Doing, IInv, TextsInv
<1>2. From \in 0 .. Len(t) /\ To \in 0 .. Len(t) /\ 0 < From
  BY <1>1, FirstPlaceFacts DEF From, To, DeletionMayFail
<1>3. PositionAfter(SubSeq(t, 1, From)) = Head(call.edits).start
  BY <1>1, PlaceOfPosition DEF From, DeletionMayFail
<1>4. heap' = [heap EXCEPT ![call.rover].text = u] /\ chunked' = chunked
  BY DEF ErasedUpTo
<1>5. IsWithText(heap', heap, call.rover, u)
  BY <1>1, <1>4, WithTextFacts
<1>6. /\ Rover' = heap'[call.rover] /\ Rover'.text = u
      /\ DOMAIN heap' = DOMAIN heap
  BY <1>1, <1>5 DEF IsWithText, Rover
<1>7. call.rover \in chunked
  BY DEF DeletionMayFail
<1>8. From \in 1 .. Len(t) /\ To \in 0 .. Len(t)
  BY <1>1, <1>2 DEF ByteStrings
<1>9. QED
  BY <1>1, <1>3, <1>4, <1>6, <1>7, <1>8

\* The assertion of delete_string fails where all that is left was before the
\* range.
LEMMA DeletionAbortsSo ==
    ASSUME NamesAssumption, IInv, TextsInv, DeletionsInv, DeletionAborts
    PROVE  DeletionsInv'
<1>1. PICK t : t = heap[call.rover].text
  OBVIOUS
<1>2. PICK u : u = SubSeq(t, 1, From) \o SubSeq(t, To + 1, Len(t))
  OBVIOUS
<1>3. /\ DeletionMayFail /\ ErasedUpTo(To) /\ To = Len(t)
      /\ call' = [op |-> "abort", line |-> 634, during |-> call]
  BY <1>1 DEF DeletionAborts, Abort
<1>4. call'.op = "abort" /\ call'.during = call
  BY <1>3
<1>5. To \in From .. To
  BY <1>1, <1>3, FoundFacts, FirstPlaceFacts
     DEF DeletionMayFail, Doing, From, To, TextsInv, ByteStrings
<1>6. /\ t \in ByteStrings /\ From \in 1 .. Len(t)
      /\ PositionAfter(SubSeq(t, 1, From)) = Head(call.edits).start
      /\ Rover'.text = u
      /\ DOMAIN heap' = DOMAIN heap /\ chunked' = chunked
      /\ call'.during.rover \in chunked'
  BY <1>1, <1>2, <1>3, <1>4, <1>5, DeletionLeaves
<1>7. u = SubSeq(t, 1, From) /\ u # <<>>
  <2>1. PICK k \in 1 .. Len(t) : k = From
    BY <1>6
  <2>2. t \in Seq(0 .. 255) /\ Len(t) \in Nat
    BY <1>6 DEF ByteStrings
  <2>3. SubSeq(t, 1, k) \in Seq(0 .. 255) /\ Len(SubSeq(t, 1, k)) = k
    <3>1. k \in 0 .. Len(t) /\ 1 \in 1 .. Len(t) + 1
      BY <2>2
    <3>2. SubSeq(t, 1, k) \in Seq(0 .. 255)
      BY <2>2, <3>1, SubSeqText
    <3>3. Len(SubSeq(t, 1, k)) = k
      BY <2>2, <3>1
    <3>4. QED
      BY <3>2, <3>3
  <2>4. SubSeq(t, Len(t) + 1, Len(t)) = <<>>
    BY <2>2
  <2>5. SubSeq(t, 1, k) \o <<>> = SubSeq(t, 1, k) /\ SubSeq(t, 1, k) # <<>>
    BY <2>2, <2>3
  <2>6. QED
    BY <1>2, <1>3, <2>1, <2>4, <2>5
<1>8. QED
  BY <1>3, <1>4, <1>6, <1>7 DEF DeletionsInv, Doing, Stuck

\* A deletion hangs at the rest of a codepoint, which follows what was before
\* the range.
LEMMA DeletionHangsSo ==
    ASSUME NamesAssumption, IInv, TextsInv, DeletionsInv, DeletionHangs
    PROVE  DeletionsInv'
<1>1. PICK t : t = heap[call.rover].text
  OBVIOUS
<1>2. PICK n \in (From .. To) \ Boundaries(t) : ErasedUpTo(n)
  BY <1>1 DEF DeletionHangs
<1>3. PICK u : u = SubSeq(t, 1, From) \o SubSeq(t, n + 1, Len(t))
  OBVIOUS
<1>4. DeletionMayFail /\ call'.op = "stuck" /\ call'.during = call
  BY DEF DeletionHangs
<1>5. /\ t \in ByteStrings /\ From \in 1 .. Len(t) /\ To \in 0 .. Len(t)
      /\ Rover'.text = u
      /\ DOMAIN heap' = DOMAIN heap /\ chunked' = chunked
      /\ call'.during.rover \in chunked'
  BY <1>1, <1>2, <1>3, <1>4, DeletionLeaves
<1>6. n \in 0 .. Len(t) - 1 /\ IsContinuation(t[n + 1])
  BY <1>2, <1>5 DEF Boundaries, ByteStrings
<1>7. From + 1 \in 2 .. Len(u) /\ u[From + 1] = t[n + 1]
  BY <1>3, <1>5, <1>6 DEF ByteStrings
<1>8. \E i \in 2 .. Len(u) : IsContinuation(u[i])
  BY <1>6, <1>7
<1>9. QED
  BY <1>4, <1>5, <1>8 DEF DeletionsInv, Doing

\* A call that begins is at its search, or returns at once.
LEMMA SearchOps ==
    ASSUME NEW name, NEW uri, NEW locals, "op" \notin DOMAIN locals,
           NEW want, NEW none, Search(name, uri, locals, want, none)
    PROVE  call'.op \in {"returned", name}
<1> DEFINE fields == [op |-> name, path |-> PathOf[uri],
                      rover |-> fs.table[Hash[PathOf[uri]]],
                      found |-> FALSE, want |-> want, none |-> none]
<1>1. "op" \in DOMAIN fields /\ fields["op"] = name
  OBVIOUS
<1>2. call' \in {Returned(none, none, 0), Over(locals, fields)}
  BY DEF Search
<1> HIDE DEF fields
<1>3. Over(locals, fields)["op"] = name
  BY <1>1 DEF Over
<1>4. Returned(none, none, 0).op = "returned"
  BY DEF Returned
<1>5. QED
  BY <1>2, <1>3, <1>4

\* Every other step goes on, and keeps the files with several chunks in use.
LEMMA NextDeletions ==
    ASSUME NamesAssumption, IInv, TextsInv, DeletionsInv, [Next]_vars
    PROVE  DeletionsInv'
<1>1. ASSUME chunked' \subseteq DOMAIN heap', call'.op # "stuck",
             call'.op = "abort" => call'.line # 634
      PROVE  DeletionsInv'
  BY <1>1 DEF DeletionsInv, Doing, Stuck
<1>2. CASE \/ \E uri \in Uri, version \in Versions, contents \in Contents :
                 CallOpen(uri, version, contents)
           \/ \E uri \in Uri, version \in Versions, edits \in Batches :
                 Fits(uri, edits) /\ CallChange(uri, version, edits)
           \/ \E uri \in Uri : CallClose(uri) \/ CallSave(uri)
  <2>1. chunked' = chunked /\ heap' = heap
    BY <1>2 DEF CallOpen, CallChange, CallClose, CallSave, Search
  <2>2. call'.op \in {"returned", "open", "change", "close", "save"}
    <3>1. ASSUME NEW uri, NEW version, NEW contents, CallOpen(uri, version, contents)
          PROVE  call'.op \in {"returned", "open"}
      <4> DEFINE locals == [version |-> version, contents |-> contents]
      <4>1. "op" \notin DOMAIN locals /\ Search("open", uri, locals, 0, 0)
        BY <3>1 DEF CallOpen
      <4> HIDE DEF locals
      <4>2. QED
        BY <4>1, SearchOps
    <3>2. ASSUME NEW uri, NEW version, NEW edits, CallChange(uri, version, edits)
          PROVE  call'.op \in {"returned", "change"}
      <4> DEFINE locals == [version |-> version, edits |-> edits, skipped |-> 0]
                 want == IF IsOpen(uri) THEN 1 ELSE 0
      <4>1. "op" \notin DOMAIN locals /\ Search("change", uri, locals, want, 0)
        BY <3>2 DEF CallChange
      <4> HIDE DEF locals, want
      <4>2. QED
        BY <4>1, SearchOps
    <3>3. "op" \notin DOMAIN <<>>
      OBVIOUS
    <3>4. ASSUME NEW uri, CallClose(uri)
          PROVE  call'.op \in {"returned", "close"}
      BY <3>3, <3>4, SearchOps DEF CallClose
    <3>5. ASSUME NEW uri, CallSave(uri)
          PROVE  call'.op \in {"returned", "save"}
      <4> DEFINE want == IF IsOpen(uri) THEN docs[PathOf[uri]].version ELSE 0
      <4>1. Search("save", uri, <<>>, want, 0)
        BY <3>5 DEF CallSave
      <4> HIDE DEF want
      <4>2. QED
        BY <3>3, <4>1, SearchOps
    <3>6. QED
      BY <1>2, <3>1, <3>2, <3>4, <3>5
  <2>3. QED
    BY <1>1, <2>1, <2>2 DEF DeletionsInv
<1>3. CASE Receive \/ CallFree \/ LookupFails \/ SaveFound \/ FreeReturn
  <2>1. /\ chunked' = chunked /\ heap' = heap
        /\ call'.op \in {"idle", "free", "returned"}
    BY <1>3 DEF Receive, CallFree, LookupFails, SaveFound, FreeReturn, Idle, Returned
  <2>2. QED
    BY <1>1, <2>1 DEF DeletionsInv
<1>4. CASE LookupStep
  <2>1. chunked' = chunked /\ heap' = heap /\ call'.op \in {"open", "change", "close", "save"}
    BY <1>4 DEF LookupStep, Searching, IInv, CallInv
  <2>2. QED
    BY <1>1, <2>1 DEF DeletionsInv
<1>5. CASE OpenFound \/ ChangeEdit \/ ChangeReturn
  <2>1. call.rover \in DOMAIN heap /\ IsHeap(heap)
    BY <1>5, FoundFacts DEF OpenFound, ChangeEdit, ChangeReturn, Doing, IInv
  <2>2. DOMAIN heap' = DOMAIN heap /\ chunked' \subseteq chunked \cup {call.rover}
    <3>1. CASE OpenFound
      BY <3>1 DEF OpenFound, Loaded
    <3>2. CASE ChangeEdit
      BY <3>2 DEF ChangeEdit, Rewrite, Loaded, Grown
    <3>3. CASE ChangeReturn
      BY <3>3 DEF ChangeReturn
    <3>4. QED
      BY <1>5, <3>1, <3>2, <3>3
  <2>3. call'.op # "stuck" /\ (call'.op = "abort" => call'.line # 634)
    <3>1. CASE OpenFound
      BY <3>1 DEF OpenFound, Abort, Returned
    <3>2. CASE ChangeEdit
      <4>1. /\ "op" \in DOMAIN call /\ call.op = "change"
            /\ call = [x \in DOMAIN call |-> call[x]]
        BY <3>2 DEF ChangeEdit, Doing, IInv, CallInv
      <4>2. \/ \E skipped : call' = [call EXCEPT !.edits = Tail(@), !.skipped = skipped]
            \/ Abort(649)
        BY <3>2 DEF ChangeEdit
      <4>3. ASSUME NEW skipped, call' = [call EXCEPT !.edits = Tail(@), !.skipped = skipped]
            PROVE  call'.op = "change"
        BY <4>1, <4>3
      <4>4. ASSUME Abort(649)
            PROVE  call'.op = "abort" /\ call'.line = 649
        BY <4>4 DEF Abort
      <4>5. call'.op = "change" \/ (call'.op = "abort" /\ call'.line = 649)
        BY <4>2, <4>3, <4>4
      <4>6. QED
        BY <4>5
    <3>3. CASE ChangeReturn
      BY <3>3 DEF ChangeReturn, Returned
    <3>4. QED
      BY <1>5, <3>1, <3>2, <3>3
  <2>4. QED
    BY <1>1, <2>1, <2>2, <2>3 DEF DeletionsInv
<1>6. CASE OpenNew
  <2>1. PICK n \in Node \ DOMAIN heap :
           /\ heap' = LinkedHeap(n, call.path, call.version, call.contents)
           /\ Loaded(n, call.contents)
    BY <1>6 DEF OpenNew
  <2>2. n \in DOMAIN heap' /\ DOMAIN heap \subseteq DOMAIN heap'
    BY <2>1 DEF LinkedHeap, With, Over, SetHashPrev, SetPrev
  <2>3. chunked' \subseteq chunked \cup {n} /\ call'.op = "returned"
    BY <1>6, <2>1 DEF Loaded, OpenNew, Returned
  <2>4. QED
    BY <1>1, <2>2, <2>3 DEF DeletionsInv
<1>7. CASE CloseFound \/ FreeStep
  <2>1. /\ call.rover \in DOMAIN heap /\ file_system_remove(call.rover)
        /\ call'.op \in {"returned", "free"}
    <3>1. CASE CloseFound
      <4>1. call.rover \in DOMAIN heap /\ heap[call.rover].open_count = 1
        BY <3>1, FoundFacts DEF CloseFound, Doing
      <4>2. QED
        BY <3>1, <4>1 DEF CloseFound, Returned
    <3>2. CASE FreeStep
      BY <3>2 DEF FreeStep, IInv, CallInv, ListInv, Doing
    <3>3. QED
      BY <1>7, <3>1, <3>2
  <2>2. DOMAIN heap' = DOMAIN heap \ {call.rover} /\ chunked' = chunked \ {call.rover}
    BY <2>1, UnlinkedFacts DEF file_system_remove, IInv
  <2>3. QED
    BY <1>1, <2>1, <2>2 DEF DeletionsInv
<1>8. CASE DeletionAborts \/ DeletionHangs
  BY <1>8, DeletionAbortsSo, DeletionHangsSo
<1>9. CASE UNCHANGED vars
  BY <1>9 DEF vars, DeletionsInv, Doing, Stuck, Rover
<1>10. QED
  BY <1>2, <1>3, <1>4, <1>5, <1>6, <1>7, <1>8, <1>9 DEF Next, Work

-----------------------------------------------------------------------------
(***************************************************************************)
(* What the calls do.                                                      *)
(***************************************************************************)

\* With the documents, what the call in progress promises of them, and the
\* deletions that fail, after every step.
Holding == IInv /\ TextsInv /\ DocsInv /\ DeletionsInv

\* At the start there is no file, and no call.
LEMMA InitHolding == ASSUME Init PROVE Holding
<1>1. DOMAIN heap = {} /\ call.op = "idle" /\ docs = NoDocs
  BY DEF Init, Idle
<1>2. View = NoDocs
  BY <1>1 DEF View, NoDocs
<1>3. TextsInv /\ DocsInv /\ DeletionsInv
  BY <1>1, <1>2, FS_EmptySet DEF Init, TextsInv, DocsInv, DeletionsInv, Doing, Stuck
<1>4. QED
  BY <1>3, InitIInv DEF Holding

\* Holding holds in every state: a file is never lost, renamed or mixed up
\* with another while a call walks the list.
THEOREM HoldingInductive == Spec => []Holding
<1>1. ASSUME Init PROVE Holding
  BY <1>1, InitHolding
<1>2. ASSUME Holding, [Next]_vars PROVE Holding'
  <2>1. IInv'
    BY <1>2, NextIInv, NamesAssumption DEF Holding
  <2>2. TextsInv'
    BY <1>2, NextTexts, NamesAssumption, TextsAssumption DEF Holding
  <2>3. DocsInv'
    BY <1>2, <2>1, NextDocs, NamesAssumption DEF Holding
  <2>4. DeletionsInv'
    BY <1>2, NextDeletions, NamesAssumption DEF Holding
  <2>5. QED
    BY <2>1, <2>2, <2>3, <2>4 DEF Holding
<1>3. QED
  BY <1>1, <1>2, PTL DEF Spec

\* Pointers of files in use are to files in use, and what is stored is of its
\* type.
THEOREM FilesTyped == Spec => []TypeOK
<1>1. ASSUME Holding PROVE TypeOK
  <2>1. /\ DOMAIN heap \subseteq Node
        /\ \A n \in DOMAIN heap :
              /\ heap[n].path \in Path
              /\ heap[n].version \in Versions
              /\ heap[n].open_count \in {0, 1}
              /\ heap[n].text \in ByteStrings
              /\ {heap[n].next, heap[n].prev, heap[n].hash_next, heap[n].hash_prev}
                    \subseteq DOMAIN heap \cup {NULL}
    BY <1>1 DEF Holding, IInv, TextsInv, TableInv, ListInv, Opened
  <2>2. /\ fs.files \in DOMAIN heap \cup {NULL}
        /\ fs.table \in [Bucket -> DOMAIN heap \cup {NULL}]
    BY <1>1 DEF Holding, IInv, TableInv, ListInv
  <2>3. /\ call.op \in {"idle", "returned", "abort", "stuck", "open", "change",
                        "close", "save", "free"}
        /\ chunked \subseteq DOMAIN heap
    BY <1>1 DEF Holding, IInv, CallInv, DeletionsInv
  <2>4. QED
    BY <2>1, <2>2, <2>3 DEF TypeOK
<1>2. QED
  BY <1>1, HoldingInductive, PTL

\* Between calls the files are the documents that were opened and not closed,
\* with the version of the last open or change and the text that the edits of
\* each change make of the one before, whatever the calls were.
THEOREM DocumentsHeld == Spec => []HoldsDocuments
<1>1. Holding => HoldsDocuments
  BY DEF Holding, DocsInv, IInv, Opened, HoldsDocuments
<1>2. QED
  BY <1>1, HoldingInductive, PTL

\* A change reports whether its document is open, a save compares with the
\* version the last open or change gave, and the other calls return.
THEOREM ResultsAreRight == Spec => []ResultsRight
<1>1. Holding => ResultsRight
  BY DEF Holding, DocsInv, ResultsRight
<1>2. QED
  BY <1>1, HoldingInductive, PTL

\* A search of file_system_open, file_system_change, file_system_close or
\* file_system_lookup that goes on for ever is one for a path that is not
\* open, while another path of the same bucket is; and a deletion of
\* file_system_change that hangs is one in a document that has outgrown a
\* chunk, in which a codepoint of several bytes is left.
THEOREM HangsOnlyAsExplained == Spec => []HangsExplained
<1>1. ASSUME IInv, Spinning
      PROVE  /\ call.path \notin DOMAIN View
             /\ \E p \in DOMAIN View : Hash[p] = Hash[call.path]
  <2>1. /\ call.path \in Path
        /\ call.rover = fs.table[Hash[call.path]]
        /\ call.rover # NULL
        /\ heap[call.rover].path # call.path
    BY <1>1 DEF Spinning, Searching, Hit, IInv, CallInv
  <2>2. DOMAIN View = {heap[n].path : n \in DOMAIN heap}
    BY DEF View
  <2>3. call.path \notin DOMAIN View
    BY <1>1, <2>1, <2>2 DEF IInv, TableInv
  <2>4. Hash[call.path] \in Bucket
    BY <2>1, NamesAssumption DEF NamesAssumption
  <2>5. /\ call.rover \in DOMAIN heap
        /\ Hash[heap[call.rover].path] = Hash[call.path]
    BY <1>1, <2>1, <2>4 DEF IInv, TableInv
  <2>6. QED
    BY <2>2, <2>3, <2>5
<1>2. Holding => HangsExplained
  BY <1>1 DEF HangsExplained, Holding, DeletionsInv
<1>3. QED
  BY <1>2, HoldingInductive, PTL

\* The assertions that fail in a call of the file system are the one on a
\* document that is opened again; the one of text_buffer_set_point, on a
\* position past the end of a line; and the one of delete_string, in a
\* document that has outgrown a chunk, when no byte is left after the start of
\* an edit.  This holds for texts of any length, wherever their chunks begin
\* and end, and is about texts that are UTF-8 (TextsAssumption).
THEOREM AbortsOnlyAsExplained == Spec => []AbortsExplained
<1>1. Holding => AbortsExplained
  BY DEF Holding, IInv, EarlyAborts, DeletionsInv, AbortsExplained
<1>2. QED
  BY <1>1, HoldingInductive, PTL

-----------------------------------------------------------------------------
(***************************************************************************)
(* The list, from its head on.                                             *)
(***************************************************************************)

\* f is the walk that starts at the head of the list and follows next.
IsWalk(f) ==
    /\ f \in [Nat -> DOMAIN heap \cup {NULL}]
    /\ f[0] = fs.files
    /\ \A i \in Nat : f[i + 1] = IF f[i] = NULL THEN NULL ELSE heap[f[i]].next

\* Nth walks along the list.
LEMMA NthWalks ==
    ASSUME ListInv, IsFiniteSet(DOMAIN heap)
    PROVE  \E f : IsWalk(f) /\ Nth = [k \in 0 .. Cardinality(DOMAIN heap) |-> f[k]]
<1> DEFINE S == DOMAIN heap \cup {NULL}
           step == [p \in Nat \X S |-> IF p[2] = NULL THEN NULL ELSE heap[p[2]].next]
           Turn(a, i) == IF i = 0 THEN fs.files
                         ELSE IF a[i - 1] = NULL THEN NULL ELSE heap[a[i - 1]].next
           nth == CHOOSE a : a = [i \in Nat |-> Turn(a, i)]
<1>1. step \in [Nat \X S -> S] /\ fs.files \in S
  BY DEF ListInv
<1>2. PICK f : f \in [Nat -> S] /\ f[0] = fs.files
                /\ \A i \in Nat : f[i + 1] = step[<<i, f[i]>>]
  <2> HIDE DEF step, S
  <2>1. PICK f : Iterates(f, S, fs.files, step)
    BY <1>1, Recursion
  <2>2. QED
    BY <2>1 DEF Iterates
<1>3. ASSUME NEW i \in Nat
      PROVE  f[i + 1] = IF f[i] = NULL THEN NULL ELSE heap[f[i]].next
  <2>1. f[i + 1] = step[<<i, f[i]>>] /\ <<i, f[i]>> \in Nat \X S
    BY <1>2
  <2>2. QED
    BY <2>1
<1>4. IsWalk(f)
  BY <1>2, <1>3 DEF IsWalk
<1> HIDE DEF step
<1>5. ASSUME NEW i \in Nat
      PROVE  f[i] = Turn(f, i)
  <2>1. CASE i = 0
    BY <1>2, <2>1
  <2>2. CASE i # 0
    <3>1. i - 1 \in Nat /\ (i - 1) + 1 = i
      BY <2>2
    <3>2. f[(i - 1) + 1] = IF f[i - 1] = NULL THEN NULL ELSE heap[f[i - 1]].next
      BY <1>3, <3>1
    <3>3. QED
      BY <2>2, <3>1, <3>2
  <2>3. QED
    BY <2>1, <2>2
<1>6. f = [i \in Nat |-> Turn(f, i)]
  <2> HIDE DEF Turn
  <2>1. QED
    BY <1>2, <1>5
<1>7. nth = [i \in Nat |-> Turn(nth, i)]
  <2> HIDE DEF Turn
  <2>1. QED
    BY <1>6
<1>8. Nth = [k \in 0 .. Cardinality(DOMAIN heap) |-> nth[k]]
  BY DEF Nth
<1> HIDE DEF nth
<1>9. \A i \in Nat : nth[i] = f[i]
  <2> DEFINE T == {i \in Nat : nth[i] = f[i]}
  <2>0. ASSUME NEW i \in Nat PROVE nth[i] = Turn(nth, i)
    <3> HIDE DEF Turn
    <3>1. QED
      BY <1>7
  <2>1. 0 \in T
    BY <2>0, <1>2
  <2>2. ASSUME NEW i \in Nat, i \in T
        PROVE  i + 1 \in T
    <3>1. /\ i + 1 \in Nat /\ i + 1 # 0 /\ (i + 1) - 1 = i
          /\ nth[i] = f[i]
      BY <2>2
    <3>2. nth[i + 1] = Turn(nth, i + 1) /\ f[i + 1] = Turn(f, i + 1)
      <4> HIDE DEF Turn
      <4>1. QED
        BY <1>5, <2>0, <3>1
    <3>3. QED
      BY <3>1, <3>2
  <2> HIDE DEF T
  <2>3. \A i \in Nat : i \in T
    BY <2>1, <2>2, Inductive
  <2>4. QED
    BY <2>3 DEF T
<1>10. Nth = [k \in 0 .. Cardinality(DOMAIN heap) |-> f[k]]
  <2>1. Cardinality(DOMAIN heap) \in Nat
    BY FS_CardinalityType
  <2>2. QED
    BY <1>8, <1>9, <2>1
<1>11. QED
  BY <1>4, <1>10

\* prev leads back.
LEMMA WalkBack ==
    ASSUME IsHeap(heap), ListInv, NEW f, IsWalk(f), NEW i \in Nat, f[i + 1] # NULL
    PROVE  /\ f[i] \in DOMAIN heap
           /\ f[i + 1] \in DOMAIN heap
           /\ heap[f[i + 1]].prev = f[i]
<1>1. /\ f[i] \in DOMAIN heap \cup {NULL}
      /\ f[i + 1] = IF f[i] = NULL THEN NULL ELSE heap[f[i]].next
  BY DEF IsWalk
<1>2. f[i] \in DOMAIN heap /\ f[i + 1] = heap[f[i]].next
  BY <1>1
<1>3. QED
  BY <1>2 DEF ListInv

\* No file is met twice.
LEMMA WalkMeetsOnce ==
    ASSUME IsHeap(heap), ListInv, NEW f, IsWalk(f)
    PROVE  \A i, j \in Nat : i < j /\ f[j] # NULL => f[i] # f[j]
<1> DEFINE T == {i \in Nat : \A j \in Nat : i < j /\ f[j] # NULL => f[i] # f[j]}
<1>1. 0 \in T
  <2> SUFFICES ASSUME NEW j \in Nat, 0 < j, f[j] # NULL, f[0] = f[j]
               PROVE  FALSE
    OBVIOUS
  <2>1. j - 1 \in Nat /\ (j - 1) + 1 = j
    OBVIOUS
  <2>2. f[j - 1] \in DOMAIN heap /\ heap[f[j]].prev = f[j - 1]
    BY <2>1, WalkBack
  <2>3. f[j] = fs.files
    BY DEF IsWalk
  <2>4. QED
    BY <2>2, <2>3 DEF ListInv, IsHeap
<1>2. ASSUME NEW i \in Nat, i \in T
      PROVE  i + 1 \in T
  <2> SUFFICES ASSUME NEW j \in Nat, i + 1 < j, f[j] # NULL, f[i + 1] = f[j]
               PROVE  FALSE
    OBVIOUS
  <2>1. j - 1 \in Nat /\ (j - 1) + 1 = j /\ i < j - 1
    OBVIOUS
  <2>2. f[j - 1] \in DOMAIN heap /\ heap[f[j]].prev = f[j - 1]
    BY <2>1, WalkBack
  <2>3. heap[f[i + 1]].prev = f[i]
    BY WalkBack
  <2>4. f[i] = f[j - 1] /\ f[j - 1] # NULL
    BY <2>2, <2>3 DEF IsHeap
  <2>5. QED
    BY <1>2, <2>1, <2>4
<1> HIDE DEF T
<1>3. \A i \in Nat : i \in T
  BY <1>1, <1>2, Inductive
<1>4. QED
  BY <1>3 DEF T

\* Once at its end, the walk stays there.
LEMMA ListWalkEnds ==
    ASSUME NEW f, IsWalk(f), NEW i \in Nat, f[i] = NULL
    PROVE  \A j \in Nat : i <= j => f[j] = NULL
<1> DEFINE T == {d \in Nat : f[i + d] = NULL}
<1>1. 0 \in T
  OBVIOUS
<1>2. ASSUME NEW d \in Nat, d \in T
      PROVE  d + 1 \in T
  <2>1. i + d \in Nat /\ (i + d) + 1 = i + (d + 1) /\ f[i + d] = NULL
    BY <1>2
  <2>2. f[(i + d) + 1] = NULL
    BY <2>1 DEF IsWalk
  <2>3. QED
    BY <2>1, <2>2
<1> HIDE DEF T
<1>3. \A d \in Nat : d \in T
  BY <1>1, <1>2, Inductive
<1>4. ASSUME NEW j \in Nat, i <= j
      PROVE  f[j] = NULL
  <2>1. j - i \in Nat /\ i + (j - i) = j
    BY <1>4
  <2>2. QED
    BY <1>3, <2>1 DEF T
<1>5. QED
  BY <1>4

\* The walk is at its end after as many steps as there are files.
LEMMA WalkLength ==
    ASSUME IsHeap(heap), ListInv, IsFiniteSet(DOMAIN heap), NEW f, IsWalk(f)
    PROVE  f[Cardinality(DOMAIN heap)] = NULL
<1> DEFINE c == Cardinality(DOMAIN heap)
           g == [k \in 0 .. c |-> f[k]]
<1>1. c \in Nat
  BY FS_CardinalityType
<1>2. SUFFICES ASSUME f[c] # NULL
               PROVE  FALSE
  OBVIOUS
<1>3. \A k \in 0 .. c : f[k] # NULL
  BY <1>1, <1>2, ListWalkEnds
<1>4. IsFiniteSet(0 .. c) /\ Cardinality(0 .. c) = c + 1
  BY <1>1, FS_Interval
<1> HIDE DEF c
<1>5. g \in [0 .. c -> DOMAIN heap]
  BY <1>1, <1>3 DEF IsWalk
<1>6. c < Cardinality(0 .. c)
  BY <1>1, <1>4
<1> HIDE DEF g
<1>7. \E x, y \in 0 .. c : x # y /\ g[x] = g[y]
  BY <1>4, <1>5, <1>6, FS_PigeonHole DEF c
<1>8. PICK x \in 0 .. c, y \in 0 .. c : x < y /\ f[x] = f[y]
  <2>1. PICK x \in 0 .. c, y \in 0 .. c : x # y /\ g[x] = g[y]
    BY <1>7
  <2>2. f[x] = f[y] /\ (x < y \/ y < x)
    BY <1>1, <2>1 DEF g
  <2>3. QED
    BY <2>2
<1>9. QED
  BY <1>1, <1>3, <1>8, WalkMeetsOnce

\* Every file is met: the ones that are not would be a cycle.
LEMMA WalkMeetsAll ==
    ASSUME IsHeap(heap), ListInv, IsFiniteSet(DOMAIN heap), NEW f, IsWalk(f)
    PROVE  \A n \in DOMAIN heap : \E k \in 0 .. Cardinality(DOMAIN heap) : f[k] = n
<1> DEFINE c == Cardinality(DOMAIN heap)
           T == {n \in DOMAIN heap : \A k \in 0 .. c : f[k] # n}
<1>1. c \in Nat /\ f[c] = NULL
  BY FS_CardinalityType, WalkLength
<1> HIDE DEF c
<1>2. SUFFICES ASSUME T # {}
               PROVE  FALSE
  BY DEF c
<1>3. PICK n \in T : heap[n].prev \notin T
  BY <1>2 DEF ListInv
<1>4. n \in DOMAIN heap /\ n # NULL /\ \A k \in 0 .. c : f[k] # n
  BY <1>3 DEF IsHeap
<1>5. heap[n].prev # NULL
  <2>1. 0 \in 0 .. c /\ f[0] = fs.files
    BY <1>1 DEF IsWalk
  <2>2. QED
    BY <1>4, <2>1 DEF ListInv
<1>6. heap[n].prev \in DOMAIN heap /\ heap[heap[n].prev].next = n
  BY <1>4, <1>5 DEF ListInv
<1>7. PICK k \in 0 .. c : f[k] = heap[n].prev
  BY <1>3, <1>6
<1>8. k \in Nat /\ f[k + 1] = n
  BY <1>1, <1>5, <1>6, <1>7 DEF IsWalk
<1>9. k # c
  BY <1>1, <1>5, <1>7
<1>10. k + 1 \in 0 .. c
  BY <1>1, <1>9
<1>11. QED
  BY <1>4, <1>8, <1>10

\* The list has every file in use, once, and prev is the inverse of next:
\* file_system_open and file_system_remove lose none and leak none, however
\* many there are.
THEOREM ListIsComplete == Spec => []ListComplete
<1>1. ASSUME Holding PROVE ListComplete
  <2>1. IsHeap(heap) /\ ListInv /\ IsFiniteSet(DOMAIN heap)
    BY <1>1 DEF Holding, IInv, TextsInv
  <2> DEFINE c == Cardinality(DOMAIN heap)
  <2>2. PICK f : IsWalk(f) /\ Nth = [k \in 0 .. c |-> f[k]]
    BY <2>1, NthWalks
  <2>3. c \in Nat /\ f[c] = NULL
    BY <2>1, <2>2, FS_CardinalityType, WalkLength
  <2>4. \A n \in DOMAIN heap : \E k \in 0 .. c : f[k] = n
    BY <2>1, <2>2, WalkMeetsAll
  <2> HIDE DEF c
  <2>5. DOMAIN Nth = 0 .. c /\ \A k \in 0 .. c : Nth[k] = f[k]
    BY <2>2
  <2>6. {Nth[k] : k \in DOMAIN Nth} = DOMAIN heap \cup {NULL}
    <3>1. \A k \in 0 .. c : f[k] \in DOMAIN heap \cup {NULL}
      BY <2>2, <2>3 DEF IsWalk
    <3>2. c \in 0 .. c
      BY <2>3
    <3>3. QED
      BY <2>3, <2>4, <2>5, <3>1, <3>2
  <2>7. ASSUME NEW k \in DOMAIN Nth \ {0}, Nth[k] # NULL
        PROVE  heap[Nth[k]].prev = Nth[k - 1]
    <3>1. k - 1 \in Nat /\ (k - 1) + 1 = k /\ k - 1 \in 0 .. c
      BY <2>3, <2>5
    <3>2. Nth[k] = f[k] /\ Nth[k - 1] = f[k - 1]
      BY <2>5, <3>1
    <3>3. heap[f[(k - 1) + 1]].prev = f[k - 1]
      BY <2>1, <2>2, <2>7, <3>1, <3>2, WalkBack
    <3>4. QED
      BY <3>1, <3>2, <3>3
  <2>8. fs.files # NULL => heap[fs.files].prev = NULL
    BY <2>1 DEF ListInv
  <2>9. QED
    BY <2>6, <2>7, <2>8 DEF ListComplete
<1>2. QED
  BY <1>1, HoldingInductive, PTL
=============================================================================
