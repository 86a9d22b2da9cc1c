--------------------------- MODULE LanguageServer ---------------------------
(***************************************************************************)
(* The server of language_server.c: the loop over messages, its lifecycle, *)
(* the validation of parameters and the dispatch to the file system, whose *)
(* calls it makes (FileSystem, over the same variables).                   *)
(*                                                                         *)
(* C                          here                                         *)
(* a message that is handled  request, and replies: what is written for it *)
(* in the read of the next    process = Waiting; request and replies are   *)
(*                            still those of the last message              *)
(* exit(code), return of main process = Exited(code, cause)                *)
(* assert(...) that fails     process = Aborted(line), or in a call of the *)
(*                            file system its own "abort"                  *)
(* a NULL pointer that is     process = Crashed                            *)
(* dereferenced                                                            *)
(*                                                                         *)
(* A message is read and taken apart in one step, since nothing else       *)
(* happens meanwhile; how it comes out of the bytes is Framing.            *)
(***************************************************************************)
EXTENDS JsonRpc

CONSTANTS
    Node, NULL, Uri, Path, NoPath, PathOf, Bucket, Hash,   \* of FileSystem
    Chunk,       \* TEXT_BUFFER_CHUNK_SIZE
    MaxText,     \* bound on the bytes of a text
    Messages     \* what may arrive: JSON values and Garbage

VARIABLES
    server,      \* the flags of language_server_t
    process,     \* what the program is doing
    request,     \* the message that is, or was last, handled
    replies,     \* what has been written for it
    fs, heap, chunked, call, docs    \* the state of the file system

own == <<server, process, request, replies>>

fsvars == <<fs, heap, chunked, call, docs>>

vars == <<server, process, request, replies, fs, heap, chunked, call, docs>>

\* As for FileSystem.
ASSUME NamesAssumption ==
    /\ NULL \notin Node
    /\ NoPath \notin Path
    /\ PathOf \in [Uri -> Path \cup {NoPath}]
    /\ Hash \in [Path -> Bucket]

\* Uri has every string that a client names a document by.
ASSUME MessagesAssumption ==
    \A root \in Messages \ {Garbage} :
       LET params == json_rpc_parse_request_notification(root).params
           document == Property(params, "textDocument")
           uri == Property(document, "uri")
       IN  /\ params.type = "object" /\ document.type = "object"
           /\ uri.type \in {"absent", "string"} /\ uri # Absent
           => uri.string \in Uri

FS == INSTANCE FileSystem WITH Versions <- Int, Contents <- {}, Batches <- {}

Waiting == [state |-> "waiting"]
Handling == [state |-> "handling"]
Aborted(line) == [state |-> "aborted", line |-> line]
Crashed == [state |-> "crashed"]
Exited(code, cause) == [state |-> "exited", code |-> code, cause |-> cause]

\* Before the first message.
NoRequest == Invalid(Null)

Init == /\ server = [initialized |-> FALSE, shutdown_requested |-> FALSE]
        /\ process = Waiting
        /\ request = NoRequest
        /\ replies = <<>>
        /\ FS!Init

-----------------------------------------------------------------------------
(***************************************************************************)
(* The parameters of the notifications: what each parse function returns.  *)
(* "rejected" is its result 0; "aborted" a failed assertion in it.         *)
(***************************************************************************)
Rejected == [outcome |-> "rejected"]

AssertFails(line) == [outcome |-> "aborted", line |-> line]

VersionOf(document) == IF Property(document, "version") = Absent THEN 0
                       ELSE Property(document, "version").number

\* A document with a text, or one with a URI: one of both is enough.
parse_textDocument_didOpen(params) ==
    LET item == Property(params, "textDocument")
        uri == Property(item, "uri")
        text == Property(item, "text")
    IN  IF ~HasTypes(params, [textDocument |-> "object"]) THEN Rejected
        ELSE IF item = Absent THEN AssertFails(201)
        ELSE IF /\ HasTypes(item, [uri |-> "string", version |-> "number",
                                   text |-> "string"])
                /\ uri # Absent \/ text # Absent
        THEN [outcome |-> "parsed", uri |-> uri, contents |-> text,
              version |-> VersionOf(item)]
        ELSE Rejected

\* Both numbers are mandatory.
IsPosition(value) ==
    /\ HasTypes(value, [line |-> "number", character |-> "number"])
    /\ {"line", "character"} \subseteq DOMAIN value.properties

PositionOf(value) == [line_num |-> Property(value, "line").number,
                      char_num |-> Property(value, "character").number]

\* parse_Range succeeds.
IsRange(value) == /\ value.type = "object"
                  /\ IsPosition(Property(value, "start"))
                  /\ IsPosition(Property(value, "end"))

\* The file_edit_t of a change event; without a range, or with one of -1
\* everywhere, it replaces the whole text.
EditOf(event) ==
    LET range == Property(event, "range")
        text == Property(event, "text")
        at(end) == IF range = Absent THEN FS!NoPosition
                   ELSE PositionOf(Property(range, end))
    IN  [start |-> at("start"), end |-> at("end"),
         text |-> IF text = Absent THEN <<>> ELSE text.string]

\* Every number is -1.
HasNoPosition(edit) == edit.start = FS!NoPosition /\ edit.end = FS!NoPosition

IsEvent(event) ==
    /\ HasTypes(event, [text |-> "string"])
    /\ Property(event, "range") = Absent \/ IsRange(Property(event, "range"))
    /\ HasNoPosition(EditOf(event)) \/ ~FS!Before(EditOf(event).end, EditOf(event).start)

parse_textDocument_didChange(params) ==
    LET document == Property(params, "textDocument")
        changes == Property(params, "contentChanges")
    IN  IF ~HasTypes(params, [textDocument |-> "object",
                              contentChanges |-> "array"]) THEN Rejected
        ELSE IF document = Absent THEN AssertFails(426)
        ELSE IF ~HasTypes(document, [uri |-> "string", version |-> "number"])
        THEN Rejected
        ELSE IF changes = Absent THEN AssertFails(458)
        ELSE IF /\ changes.elements # <<>>
                /\ \A i \in DOMAIN changes.elements : IsEvent(changes.elements[i])
                /\ Property(document, "uri") # Absent
        THEN [outcome |-> "parsed", uri |-> Property(document, "uri"),
              version |-> VersionOf(document),
              edits |-> [i \in DOMAIN changes.elements |->
                            EditOf(changes.elements[i])]]
        ELSE Rejected

\* A document identifier, for a save (which may have a version) and a close;
\* the URI may be missing.
parse_identifier(params, types, line) ==
    LET document == Property(params, "textDocument")
    IN  IF ~HasTypes(params, [textDocument |-> "object"]) THEN Rejected
        ELSE IF document = Absent THEN AssertFails(line)
        ELSE IF HasTypes(document, types)
        THEN [outcome |-> "parsed", uri |-> Property(document, "uri")]
        ELSE Rejected

parse_textDocument_didSave(params) ==
    parse_identifier(params, [uri |-> "string", version |-> "number"], 573)

parse_textDocument_didClose(params) ==
    parse_identifier(params, [uri |-> "string"], 636)

\* The texts of a message are UTF-8, which JSON demands and the program does
\* not look at: a walk over other bytes fails an assertion of text_buffer.c.
IsString(t) == t \in FS!ByteStrings /\ FS!IsUtf8(t)

ASSUME TextsAssumption ==
    \A root \in Messages \ {Garbage} :
       LET params == json_rpc_parse_request_notification(root).params
           opened == parse_textDocument_didOpen(params)
           changed == parse_textDocument_didChange(params)
       IN  /\ opened.outcome = "parsed" /\ opened.contents # Absent
                => IsString(opened.contents.string)
           /\ changed.outcome = "parsed"
                => \A i \in DOMAIN changed.edits : IsString(changed.edits[i].text)

Methods == {"textDocument/didOpen", "textDocument/didChange",
            "textDocument/didSave", "textDocument/didClose"}

Parameters ==
    CASE request.method.string = "textDocument/didOpen" ->
            parse_textDocument_didOpen(request.params)
      [] request.method.string = "textDocument/didChange" ->
            parse_textDocument_didChange(request.params)
      [] request.method.string = "textDocument/didSave" ->
            parse_textDocument_didSave(request.params)
      [] request.method.string = "textDocument/didClose" ->
            parse_textDocument_didClose(request.params)

-----------------------------------------------------------------------------
(***************************************************************************)
(* json_rpc_server_step: a message is read, and answered at once if it is  *)
(* none.                                                                   *)
(***************************************************************************)
Finish(written) == /\ process' = Waiting
                   /\ replies' = replies \o written
                   /\ UNCHANGED <<server, request>>

Die(how) == process' = how /\ UNCHANGED <<server, request, replies>>

Take(root) ==
    LET parsed == json_rpc_parse_request_notification(root)
    IN  /\ process = Waiting
        /\ request' = IF root = Garbage THEN Invalid(Absent) ELSE parsed
        /\ process' = IF root # Garbage /\ parsed.valid THEN Handling ELSE Waiting
        /\ replies' = IF root = Garbage
                      THEN <<json_rpc_error(Absent, ParseError)>>
                      ELSE IF parsed.valid THEN <<>>
                      ELSE <<json_rpc_error(parsed.id, InvalidRequest)>>
        /\ UNCHANGED server
        /\ UNCHANGED fsvars

\* Mutant: does not look at what json_rpc_server_step returns.
EndOfInput_again == process = Waiting /\ UNCHANGED vars

\* parse_request returns NULL: the loop ends, and main returns 0.
EndOfInput == /\ process = Waiting
              /\ Die(Exited(0, "input"))
              /\ UNCHANGED fsvars

-----------------------------------------------------------------------------
(***************************************************************************)
(* language_server_evaluate, and the requests.                             *)
(***************************************************************************)
IsNotification == json_rpc_request_is_notification(request)

\* A handler begins.
Evaluates(method) == /\ process = Handling
                     /\ FS!Doing("idle")
                     /\ request.method.string = method

\* A value that a handler asks about without looking whether it is there:
\* json_value_is_null(NULL) answers yes or reads the type through NULL.
WithoutParams == request.params = Absent

server_exit(cause) ==
    Die(Exited(IF server.shutdown_requested THEN 0 ELSE 1, cause))

Exit == /\ Evaluates("exit")
        /\ IsNotification
        /\ server_exit("exit")
        /\ UNCHANGED fsvars

InitializeParamsOk(params) ==
    LET trace == Property(params, "trace")
    IN  /\ params.type = "object"
        /\ Property(params, "processId").type \in {"absent", "null", "number"}
        /\ Property(params, "rootUri").type \in {"absent", "null", "string"}
        /\ \/ trace = Absent
           \/ trace.type = "string"
                /\ trace.string \in {"off", "messages", "verbose"}

HasRoot(params) == Property(params, "rootUri").type = "string"

HasParent(params) == /\ Property(params, "processId").type = "number"
                     /\ Property(params, "processId").number > 0

\* The errors: a second initialize, or parameters of a wrong type.
InitializeFails ==
    /\ Evaluates("initialize")
    /\ ~IsNotification
    /\ server.initialized \/ ~InitializeParamsOk(request.params)
    /\ \/ Finish(<<json_rpc_error(request.id, InvalidParams)>>)
       \/ ~server.initialized /\ WithoutParams /\ Die(Crashed)
    /\ UNCHANGED fsvars

\* server_initialize, of parameters without an error: not done without a root,
\* or for a parent that is gone (is_process_running).
Initialize ==
    /\ Evaluates("initialize")
    /\ ~IsNotification
    /\ ~server.initialized
    /\ InitializeParamsOk(request.params)
    /\ \/ ~HasRoot(request.params) /\ Finish(<<>>)
       \/ /\ HasRoot(request.params)
          /\ HasParent(request.params)
          /\ server_exit("parent")
       \/ /\ HasRoot(request.params)
          /\ server' = [server EXCEPT !.initialized = TRUE]
          /\ process' = Waiting
          /\ replies' = Append(replies, json_rpc_success(request.id))
          /\ UNCHANGED request
    /\ UNCHANGED fsvars

\* Mutant: leaves the release of the files for later.
Shutdown_without_free ==
    /\ Evaluates("shutdown")
    /\ ~IsNotification
    /\ server' = [server EXCEPT !.shutdown_requested = TRUE]
    /\ process' = Waiting
    /\ replies' = (IF server.initialized THEN replies
                   ELSE Append(replies, json_rpc_error(request.id, InvalidParams)))
                  \o <<json_rpc_success(request.id)>>
    /\ UNCHANGED request
    /\ UNCHANGED fsvars

\* server_shutdown: an error before initialize, and then, as always, the
\* release of the files and a success.
Shutdown ==
    /\ Evaluates("shutdown")
    /\ ~IsNotification
    /\ replies' = IF server.initialized THEN replies
                  ELSE Append(replies, json_rpc_error(request.id, InvalidParams))
    /\ FS!CallFree
    /\ UNCHANGED <<server, process, request>>

ShutdownReturn ==
    /\ process = Handling
    /\ request.method.string = "shutdown"
    /\ FS!Receive
    /\ server' = [server EXCEPT !.shutdown_requested = TRUE]
    /\ process' = Waiting
    /\ replies' = Append(replies, json_rpc_success(request.id))
    /\ UNCHANGED request

\* Mutant: answers a notification too.
UnknownRequest_any ==
    /\ process = Handling
    /\ FS!Doing("idle")
    /\ request.method.string \notin {"initialize", "shutdown", "exit"} \cup Methods
    /\ Finish(<<json_rpc_error(request.id, MethodNotFound)>>)
    /\ UNCHANGED fsvars

UnknownRequest ==
    /\ process = Handling
    /\ FS!Doing("idle")
    /\ ~IsNotification
    /\ request.method.string \notin {"initialize", "shutdown"}
    /\ Finish(<<json_rpc_error(request.id, MethodNotFound)>>)
    /\ UNCHANGED fsvars

-----------------------------------------------------------------------------
(***************************************************************************)
(* The notifications about documents.                                      *)
(***************************************************************************)
Notified == /\ process = Handling
            /\ FS!Doing("idle")
            /\ IsNotification

\* Logged and left: any other method, and all of these before initialize.
SkipNotification ==
    /\ Notified
    /\ request.method.string # "exit"
    /\ ~server.initialized \/ request.method.string \notin Methods
    /\ Finish(<<>>)
    /\ UNCHANGED fsvars

\* Mutant: takes the parameters apart before it looks at initialized.
LeaveNotification_any_phase ==
    /\ Notified
    /\ request.method.string \in Methods
    /\ \/ Parameters.outcome = "rejected" /\ Finish(<<>>)
       \/ Parameters.outcome = "rejected" /\ WithoutParams /\ Die(Crashed)
       \/ Parameters.outcome = "aborted" /\ Die(Aborted(Parameters.line))
    /\ UNCHANGED fsvars

\* The parameters do not parse: logged and left, or the end of the program.
LeaveNotification ==
    /\ Notified
    /\ server.initialized
    /\ request.method.string \in Methods
    /\ \/ Parameters.outcome = "rejected" /\ Finish(<<>>)
       \/ Parameters.outcome = "rejected" /\ WithoutParams /\ Die(Crashed)
       \/ Parameters.outcome = "aborted" /\ Die(Aborted(Parameters.line))
    /\ UNCHANGED fsvars

\* Mutant: before initialize, too.
Handles_any_phase(method) == /\ Notified
                             /\ request.method.string = method
                             /\ Parameters.outcome = "parsed"

Handles(method) == /\ Notified
                   /\ server.initialized
                   /\ request.method.string = method
                   /\ Parameters.outcome = "parsed"

\* contents->string is taken first, and uri asserted in file_system_open.
DidOpen ==
    /\ Handles("textDocument/didOpen")
    /\ \/ /\ Parameters.contents = Absent
          /\ Die(Crashed) /\ UNCHANGED fsvars
       \/ /\ Parameters.contents # Absent /\ Parameters.uri = Absent
          /\ Die(Aborted(188)) /\ UNCHANGED fsvars
       \/ /\ Parameters.contents # Absent /\ Parameters.uri # Absent
          /\ FS!CallOpen(Parameters.uri.string, Parameters.version,
                         Parameters.contents.string)
          /\ UNCHANGED own

DidChange ==
    /\ Handles("textDocument/didChange")
    /\ \E parsed \in {Parameters} :
          FS!CallChange(parsed.uri.string, parsed.version, parsed.edits)
    /\ UNCHANGED own

\* The assertion is that of file_system_lookup.
DidSave ==
    /\ Handles("textDocument/didSave")
    /\ \/ /\ Parameters.uri = Absent
          /\ Die(Aborted(167)) /\ UNCHANGED fsvars
       \/ /\ Parameters.uri # Absent
          /\ FS!CallSave(Parameters.uri.string)
          /\ UNCHANGED own

\* The assertion is that of file_system_close.
DidClose ==
    /\ Handles("textDocument/didClose")
    /\ \/ /\ Parameters.uri = Absent
          /\ Die(Aborted(294)) /\ UNCHANGED fsvars
       \/ /\ Parameters.uri # Absent
          /\ FS!CallClose(Parameters.uri.string)
          /\ UNCHANGED own

NotificationReturn ==
    /\ process = Handling
    /\ IsNotification
    /\ FS!Receive
    /\ Finish(<<>>)

-----------------------------------------------------------------------------
\* A step of the call that the handler waits for.
FileSystemStep == process = Handling /\ FS!Work /\ UNCHANGED own

\* What a handler does, once a message is there.
Handle == \/ Exit \/ InitializeFails \/ Initialize
          \/ Shutdown \/ ShutdownReturn \/ UnknownRequest
          \/ SkipNotification \/ LeaveNotification
          \/ DidOpen \/ DidChange \/ DidSave \/ DidClose
          \/ NotificationReturn \/ FileSystemStep

\* The bound on texts: a change is sent only when its result is within.
WithinBound(root) ==
    LET parsed == json_rpc_parse_request_notification(root)
        change == parse_textDocument_didChange(parsed.params)
    IN  IF /\ root # Garbage /\ parsed.valid
           /\ parsed.method = String("textDocument/didChange")
           /\ change.outcome = "parsed"
        THEN FS!Fits(change.uri.string, change.edits)
        ELSE TRUE

Next == \/ \E root \in Messages : WithinBound(root) /\ Take(root)
        \/ EndOfInput
        \/ Handle

\* Nothing can stop the program but itself; a message need not come.
Fairness == WF_vars(Handle)

Spec == Init /\ [][Next]_vars /\ Fairness

-----------------------------------------------------------------------------
(***************************************************************************)
(* Properties.                                                             *)
(***************************************************************************)
Died == process.state \in {"crashed", "aborted", "exited"} \/ FS!Doing("abort")

\* Type invariant, for the lifecycle and the last message.
TypeOK ==
    /\ server \in [initialized : BOOLEAN, shutdown_requested : BOOLEAN]
    /\ process.state \in {"waiting", "handling", "crashed", "aborted", "exited"}
    /\ request.valid \in BOOLEAN
    /\ request.valid => request.method.type = "string"
    /\ \A i \in DOMAIN replies :
          replies[i].error \in {0, ParseError, InvalidRequest, MethodNotFound,
                               InvalidParams}
    /\ process = Waiting => FS!Doing("idle")

IsRequest(method) == /\ request.valid
                     /\ ~IsNotification
                     /\ request.method.string = method

\* How many replies are due when a message has been handled.
Due == CASE request = NoRequest -> 0
         [] request.valid /\ IsNotification -> 0
         [] IsRequest("shutdown") /\ ~server.initialized -> 2
         [] IsRequest("initialize") /\ ~server.initialized
              /\ InitializeParamsOk(request.params) -> 0
         [] OTHER -> 1

\* Before the next message is read, the last one has its one reply, with its
\* id, and a notification has none.  The two exceptions are a shutdown before
\* initialize, which server_shutdown answers with an error and with a
\* success, and an initialize without a root, which is not answered at all.
AnsweredOnce ==
    process = Waiting => /\ Len(replies) = Due
                         /\ \A i \in DOMAIN replies : replies[i].id = request.id

\* There are documents only in a server that a client has initialized,
\* whatever the order of the messages: each handler has to look by itself.
DocumentsNeedInitialize == DOMAIN heap # {} => server.initialized

\* A value has these members, each a string or a number as told.
Has(value, types) == /\ value.type = "object"
                     /\ \A name \in DOMAIN types :
                           Property(value, name).type = types[name]

\* The members that language_server.c cannot do without: those of
\* the interfaces of the protocol, which are not optional there.
Complete ==
    LET params == request.params
        document == Property(params, "textDocument")
    IN  /\ params.type = "object"
        /\ request.method.string \in Methods => document.type = "object"
        /\ request.method.string \in Methods => Has(document, [uri |-> "string"])
        /\ request.method.string = "textDocument/didOpen" =>
              Has(document, [text |-> "string"])
        /\ request.method.string = "textDocument/didChange" =>
              Has(params, [contentChanges |-> "array"])

\* What ends the server by a signal, when strings are UTF-8, is a message for a
\* server in the right phase that lacks a member of its interface, a document
\* that is opened twice, a position past the end of a line, or a deletion in
\* a document that has outgrown a chunk.
DeathsExplained ==
    /\ process.state \in {"crashed", "aborted"} =>
          /\ ~Complete
          /\ server.initialized <=> request.method.string \in Methods
    /\ FS!Doing("abort") => \/ call.line \in {205, 649}
                            \/ call.line = 634 /\ call.during.rover \in chunked

\* Once a shutdown is answered, every document is released and the tables are
\* as they were at the start: a session that is begun again on this server
\* finds nothing of the last one.
ShutdownReleasesAll ==
    process = Waiting /\ IsRequest("shutdown") =>
        /\ fs = FS!file_system_init
        /\ DOMAIN heap = {}
        /\ server.shutdown_requested

\* The document that the message being handled names, if any.
Named == IF request.method.string \in Methods
         THEN LET uri == Property(Property(request.params, "textDocument"), "uri")
              IN  {PathOf[uri.string]}
         ELSE {}

\* A document appears, changes or goes only while a notification that names
\* it is handled, or in a shutdown.
OnlyItsDocument ==
    [][\A path \in DOMAIN FS!View \cup DOMAIN FS!View' :
          \/ path \in DOMAIN FS!View \cap DOMAIN FS!View' /\ FS!View'[path] = FS!View[path]
          \/ path \in Named
          \/ IsRequest("shutdown") /\ path \notin DOMAIN FS!View']_heap

\* A handler comes to an end, and the next message is read, unless the
\* program ends, searches a bucket for ever or is stuck in a deletion.
HandlersEnd ==
    process = Handling ~> process = Waiting \/ Died \/ FS!Spinning \/ FS!Stuck
=============================================================================
