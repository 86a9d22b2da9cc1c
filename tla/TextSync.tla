------------------------------ MODULE TextSync ------------------------------
(***************************************************************************)
(* A client that edits documents, the pipe to the server and the server of *)
(* LanguageServer, to which whole messages come in order (Framing).        *)
(*                                                                         *)
(* The client follows the protocol: it waits for the replies to its        *)
(* initialize and its shutdown, opens a document once, tells its edits in  *)
(* the order in which they were made with a new version, and saves when    *)
(* nothing is left to tell.  It may also leave without a shutdown, or      *)
(* vanish.  It sends ranges only, as the capabilities in the reply to      *)
(* initialize ask it to, and counts lines and characters as the protocol   *)
(* does, which is not how text_buffer.c counts.                            *)
(*                                                                         *)
(* A URI names one file, and no two paths have a hash in common            *)
(* (FileSystem says what happens otherwise).                               *)
(***************************************************************************)
EXTENDS JsonRpc, Utf8Text

CONSTANTS
    Node, NULL, Uri, Path, NoPath, PathOf, Bucket, Hash,   \* of FileSystem
    Chunk,         \* TEXT_BUFFER_CHUNK_SIZE
    Texts,         \* of the documents a client opens
    Chars,         \* what is typed: codepoints, as bytes
    MaxChars,      \* bound on the codepoints of a text
    MaxVersion,    \* bound on the versions of a document
    MaxUnsent,     \* bound on the edits that are not told yet
    MaxQueue       \* bound on the messages on their way

ASSUME NamesAssumption ==
    /\ NULL \notin Node
    /\ NoPath \notin Path
    /\ PathOf \in [Uri -> Path \cup {NoPath}]
    /\ Hash \in [Path -> Bucket]
    /\ \A u, v \in Uri : PathOf[u] = PathOf[v] => u = v
    /\ \A u \in Uri : PathOf[u] # NoPath
    /\ \A p, q \in Path : Hash[p] = Hash[q] => p = q

\* What is opened and what is typed are whole codepoints.
ASSUME TextsAssumption ==
    \A t \in Texts \cup Chars : t \in Seq(0 .. 255) /\ IsUtf8(t)

VARIABLES
    client,    \* its phase, its documents, and whether a shutdown was answered
    queue,     \* the messages on their way
    copy,      \* the documents of the server before, and those of the client
               \* at, the last message; and whether every position so far has
               \* meant the same to both (a history variable)
    server, process, request, replies, fs, heap, chunked, call, docs

S == INSTANCE LanguageServer
        WITH Messages <- {}, MaxText <- 4 * MaxChars

FM == INSTANCE FileSystem
         WITH Versions <- Int, Contents <- {}, Batches <- {}, MaxText <- 4 * MaxChars

servervars == <<server, process, request, replies, fs, heap, chunked, call, docs>>

vars == <<client, queue, copy, server, process, request, replies, fs, heap, chunked,
          call, docs>>

NoDocuments == [x \in {} |-> {}]

Init == /\ client = [phase |-> "begun", documents |-> NoDocuments, shutdown |-> FALSE]
        /\ queue = <<>>
        /\ copy = [trusted |-> TRUE, before |-> NoDocuments, after |-> NoDocuments]
        /\ S!Init

-----------------------------------------------------------------------------
(***************************************************************************)
(* How the client counts: a line ends with LF, CR LF or CR, and a          *)
(* character is a unit of UTF-16.                                          *)
(***************************************************************************)
CarriageReturn == 13

EndsLine(t, i) == \/ t[i] = NewLine
                  \/ t[i] = CarriageReturn /\ (i < Len(t) => t[i + 1] # NewLine)

\* Where a cursor may stand.
Places(t) ==
    {n \in Boundaries(t) : ~(/\ 0 < n /\ n < Len(t)
                             /\ t[n] = CarriageReturn /\ t[n + 1] = NewLine)}

ClientPosition(t, n) ==
    LET ends == {i \in 1 .. n : EndsLine(t, i)}
        line == {i \in Starts(t) : i <= n /\ \A j \in ends : j < i}
    IN  [line_num |-> Cardinality(ends),
         char_num |-> Cardinality(line)
                        + Cardinality({i \in line : CharSize(t[i]) = 4})]

\* Both mean the same place.
Alike(t, n) == ClientPosition(t, n) = PositionAfter(SubSeq(t, 1, n))

-----------------------------------------------------------------------------
(***************************************************************************)
(* The messages.                                                           *)
(***************************************************************************)
Message(method, params) ==
    [jsonrpc |-> String("2.0"), method |-> String(method), params |-> params]

RequestOf(method, params, id) ==
    Object([name \in {"jsonrpc", "method", "params", "id"} |->
              IF name = "id" THEN Number(id) ELSE Message(method, params)[name]])

Notification(method, members) ==
    Object(Message(method, Object(members)))

PositionValue(pos) ==
    Object([line |-> Number(pos.line_num), character |-> Number(pos.char_num)])

Event(t, n, m, inserted) ==
    Object([range |-> Object([start |-> PositionValue(ClientPosition(t, n)),
                              end |-> PositionValue(ClientPosition(t, m))]),
            text |-> String(inserted)])

Snapshot(documents) ==
    [path \in {PathOf[u] : u \in DOMAIN documents} |->
        LET document == documents[CHOOSE u \in Uri : PathOf[u] = path]
        IN  [version |-> document.version, text |-> document.told]]

\* A message goes out, and the documents of the client are these.
Send(message, documents, alike) ==
    /\ Len(queue) < MaxQueue
    /\ queue' = Append(queue, [message |-> message, after |-> Snapshot(documents),
                               alike |-> alike])
    /\ client' = [client EXCEPT !.documents = documents]
    /\ UNCHANGED copy /\ UNCHANGED servervars

-----------------------------------------------------------------------------
(***************************************************************************)
(* The client.                                                             *)
(***************************************************************************)
Phase(phase) == client.phase = phase

\* A request, of a client that then waits in the next phase.
Ask(phase, method, params, next) ==
    /\ Phase(phase)
    /\ Len(queue) < MaxQueue
    /\ queue' = Append(queue, [message |-> RequestOf(method, params, 1),
                               after |-> NoDocuments, alike |-> TRUE])
    /\ client' = [client EXCEPT !.phase = next, !.documents = NoDocuments]
    /\ UNCHANGED copy /\ UNCHANGED servervars

Answered(phase, method) ==
    /\ Phase(phase)
    /\ process = S!Waiting
    /\ request.method = String(method)
    /\ replies = <<json_rpc_success(Number(1))>>

AskInitialize ==
    Ask("begun", "initialize",
        Object([rootUri |-> String("root")]), "initializing")

Initialized == /\ Answered("initializing", "initialize")
               /\ client' = [client EXCEPT !.phase = "editing"]
               /\ UNCHANGED <<queue, copy>> /\ UNCHANGED servervars

Document(uri) == client.documents[uri]

Open(uri, text) ==
    LET document == [version |-> 1, text |-> text, told |-> text,
                     unsent |-> <<>>, alike |-> TRUE]
    IN  /\ Phase("editing")
        /\ uri \notin DOMAIN client.documents
        /\ Send(Notification("textDocument/didOpen",
                   [textDocument |-> Object([uri |-> String(uri),
                                             version |-> Number(1),
                                             text |-> String(text)])]),
                FM!With(client.documents, uri, document), TRUE)

\* Text is replaced between two places; the server is told later.
Type(uri, inserted) ==
    /\ Phase("editing")
    /\ uri \in DOMAIN client.documents
    /\ Len(Document(uri).unsent) < MaxUnsent
    /\ Document(uri).version < MaxVersion
    /\ \E n, m \in Places(Document(uri).text) :
          LET text == Document(uri).text
              after == SubSeq(text, 1, n) \o inserted \o SubSeq(text, m + 1, Len(text))
          IN  /\ n <= m
              /\ n = m => inserted # <<>>
              /\ Cardinality(Starts(after)) <= MaxChars
              /\ client' =
                   [client EXCEPT !.documents[uri] =
                      [Document(uri) EXCEPT
                         !.text = after,
                         !.unsent = Append(@, Event(text, n, m, inserted)),
                         !.alike = @ /\ Alike(text, n) /\ Alike(text, m)]]
    /\ UNCHANGED <<queue, copy>> /\ UNCHANGED servervars

\* The edits since the last change, with a new version.
Tell(uri) ==
    /\ Phase("editing")
    /\ uri \in DOMAIN client.documents
    /\ Document(uri).unsent # <<>>
    /\ LET version == Document(uri).version + 1
       IN  Send(Notification("textDocument/didChange",
                   [textDocument |-> Object([uri |-> String(uri),
                                             version |-> Number(version)]),
                    contentChanges |-> Array(Document(uri).unsent)]),
                [client.documents EXCEPT ![uri] =
                   [Document(uri) EXCEPT !.version = version, !.told = Document(uri).text,
                                         !.unsent = <<>>, !.alike = TRUE]],
                Document(uri).alike)

Save(uri) ==
    /\ Phase("editing")
    /\ uri \in DOMAIN client.documents
    /\ Document(uri).unsent = <<>>
    /\ Send(Notification("textDocument/didSave",
               [textDocument |-> Object([uri |-> String(uri),
                                         version |-> Number(Document(uri).version)])]),
            client.documents, TRUE)

Close(uri) ==
    /\ Phase("editing")
    /\ uri \in DOMAIN client.documents
    /\ Send(Notification("textDocument/didClose",
                         [textDocument |-> Object([uri |-> String(uri)])]),
            FM!Without(client.documents, uri), TRUE)

AskShutdown == Ask("editing", "shutdown", Object(NoDocuments), "ending")

ShutdownAnswered == /\ Answered("ending", "shutdown")
                    /\ client' = [client EXCEPT !.phase = "ended", !.shutdown = TRUE]
                    /\ UNCHANGED <<queue, copy>> /\ UNCHANGED servervars

\* It leaves, with or without a shutdown before.
Exit == /\ Phase("editing") \/ Phase("ended")
        /\ Len(queue) < MaxQueue
        /\ queue' = Append(queue, [message |-> Object(Message("exit", Object(NoDocuments))),
                                   after |-> Snapshot(client.documents), alike |-> TRUE])
        /\ client' = [client EXCEPT !.phase = "left"]
        /\ UNCHANGED copy /\ UNCHANGED servervars

\* Its end of the pipe is closed without a word.
Vanish == /\ client.phase \notin {"left", "gone"}
          /\ client' = [client EXCEPT !.phase = "gone"]
          /\ UNCHANGED <<queue, copy>> /\ UNCHANGED servervars

Client == \/ AskInitialize \/ Initialized \/ AskShutdown \/ ShutdownAnswered
          \/ \E uri \in Uri : \/ \E text \in Texts : Open(uri, text)
                              \/ \E inserted \in Chars \cup {<<>>} : Type(uri, inserted)
                              \/ Tell(uri) \/ Save(uri) \/ Close(uri)
          \/ Exit \/ Vanish

-----------------------------------------------------------------------------
(***************************************************************************)
(* The server.                                                             *)
(***************************************************************************)
Arrive == /\ queue # <<>>
          /\ S!Take(Head(queue).message)
          /\ queue' = Tail(queue)
          /\ copy' = [trusted |-> copy.trusted /\ Head(queue).alike,
                      before |-> FM!View, after |-> Head(queue).after]
          /\ UNCHANGED client

PipeEnds == /\ Phase("gone")
            /\ queue = <<>>
            /\ S!EndOfInput
            /\ UNCHANGED <<client, queue, copy>>

Server == \/ Arrive
          \/ PipeEnds
          \/ S!Handle /\ UNCHANGED <<client, queue, copy>>

Next == Client \/ Server

\* The server goes on as long as it can; the client need not do anything.
Fairness == WF_vars(Server)

Spec == Init /\ [][Next]_vars /\ Fairness

-----------------------------------------------------------------------------
(***************************************************************************)
(* Properties.                                                             *)
(***************************************************************************)
Busy == process = S!Handling

\* A deletion in a document that has outgrown a chunk does not return.
Broken == FM!Stuck \/ (FM!Doing("abort") /\ call.line = 634)

Trusted == copy.trusted /\ ~Broken

\* Once a message is handled, the server has the documents that the client
\* had when it sent the message, with their versions: each change has been
\* applied whole, to the right document, in order, and the server is up and
\* goes on.  This is so as long as the positions are of lines that end with LF
\* and characters of the basic plane, and until a deletion breaks the server.
M == INSTANCE Mirror
        WITH shown <- IF Busy THEN copy.before ELSE FM!View,
             pending <- (IF Busy THEN <<copy.after>> ELSE <<>>)
                           \o [i \in DOMAIN queue |-> queue[i].after],
             trusted <- Trusted

ImplementsMirror == M!Spec

\* The version that a save brings is that of the file, however many changes,
\* saves and sessions of the document came before, and even when the texts
\* have drifted apart: server_textDocument_didSave has nothing to report.
SaveAgrees ==
    Busy /\ request.method = String("textDocument/didSave") /\ FM!Doing("returned") =>
        call.ret = Property(Property(request.params, "textDocument"), "version").number

\* Even a server that has gone astray has whole codepoints only: no edit
\* splits one, wherever it is made, but one whose deletion is stuck in it.
NeverSplits == \A n \in DOMAIN heap :
                  IsUtf8(heap[n].text) \/ (FM!Stuck /\ n = call.during.rover)

Ended(code, cause) == IF Trusted THEN process = S!Exited(code, cause)
                                 ELSE S!Died \/ FM!Stuck

\* No server stays behind, but one that is stuck in a deletion: it ends when
\* the client leaves, with status 0 if a shutdown was answered and 1 if not,
\* and when the client vanishes.
ServerEnds == /\ Phase("left") /\ client.shutdown ~> Ended(0, "exit")
              /\ Phase("left") /\ ~client.shutdown ~> Ended(1, "exit")
              /\ Phase("gone") ~> Ended(0, "input")
=============================================================================
