------------------------ MODULE LanguageServer_proof ------------------------
(***************************************************************************)
(* Proofs about LanguageServer, for every set of messages, documents and   *)
(* addresses: a document is in the server only after an initialize, a      *)
(* message has the replies that are due, what ends the server by a signal  *)
(* is not a complete message, a shutdown releases every file, and no       *)
(* message touches another document than its own.                          *)
(*                                                                         *)
(* The first part needs little of FileSystem: an opening alone adds a      *)
(* file, and a call in progress stays one until the handler takes its      *)
(* result.  The last ones need the invariant of FileSystem_proof, which    *)
(* the steps of the server keep.                                           *)
(***************************************************************************)
EXTENDS LanguageServer, TLAPS

IsServer == server \in [initialized : BOOLEAN, shutdown_requested : BOOLEAN]

\* A call is a record that has a name.
IsCall == call = [x \in DOMAIN call |-> call[x]] /\ "op" \in DOMAIN call

\* A file is added by an opening that is still in progress.
OpenNeedsInitialize == FS!Doing("open") => server.initialized

\* The inductive invariant.
IInv == /\ IsServer
        /\ IsCall
        /\ OpenNeedsInitialize
        /\ DocumentsNeedInitialize

\* What a step of a call does to these: there are no new files, and no call
\* becomes an opening.
NoNewFiles == /\ DOMAIN heap = {} => DOMAIN heap' = {}
              /\ IsCall'
              /\ FS!Doing("open")' => FS!Doing("open")

-----------------------------------------------------------------------------
(***************************************************************************)
(* The file system.                                                        *)
(***************************************************************************)

\* A call that returns, fails an assertion or is given back is a record
\* and no opening.
LEMMA CallsAreRecords ==
    /\ \A ret, want, skipped :
          LET c == FS!Returned(ret, want, skipped)
          IN  /\ c = [x \in DOMAIN c |-> c[x]]
              /\ "op" \in DOMAIN c
              /\ c.op # "open"
    /\ FS!Idle = [x \in DOMAIN FS!Idle |-> FS!Idle[x]]
    /\ "op" \in DOMAIN FS!Idle
    /\ FS!Idle.op # "open"
BY DEF FS!Returned, FS!Idle

\* After a return no document is being opened.
LEMMA ReturnIsNoOpening ==
    ASSUME NEW ret, NEW want, NEW skipped, call' = FS!Returned(ret, want, skipped)
    PROVE  IsCall' /\ ~FS!Doing("open")' /\ ~FS!Doing("idle")'
BY DEF FS!Returned, IsCall, FS!Doing

\* Nor after a failed assertion.
LEMMA AbortIsNoOpening ==
    ASSUME NEW line, FS!Abort(line)
    PROVE  IsCall' /\ ~FS!Doing("open")' /\ ~FS!Doing("idle")'
BY DEF FS!Abort, IsCall, FS!Doing

\* A deletion that does not return ends the call.
LEMMA DeletionEnds ==
    ASSUME FS!DeletionAborts \/ FS!DeletionHangs
    PROVE  /\ IsCall'
           /\ call'.op \in {"abort", "stuck"}
           /\ DOMAIN heap' = DOMAIN heap
<1>1. DOMAIN heap' = DOMAIN heap
  BY DEF FS!DeletionAborts, FS!DeletionHangs, FS!ErasedUpTo
<1>2. CASE FS!DeletionAborts
  BY <1>1, <1>2 DEF FS!DeletionAborts, FS!Abort, IsCall
<1>3. CASE FS!DeletionHangs
  BY <1>1, <1>3 DEF FS!DeletionHangs, IsCall
<1>4. QED
  BY <1>2, <1>3

\* Removing a file adds none.
LEMMA RemoveAddsNone ==
    ASSUME NEW n, FS!file_system_remove(n), DOMAIN heap = {}
    PROVE  DOMAIN heap' = {}
<1>1. \A h, m, v : /\ DOMAIN FS!SetNext(h, m, v) = DOMAIN h
                   /\ DOMAIN FS!SetPrev(h, m, v) = DOMAIN h
                   /\ DOMAIN FS!SetHashNext(h, m, v) = DOMAIN h
                   /\ DOMAIN FS!SetHashPrev(h, m, v) = DOMAIN h
  BY DEF FS!SetNext, FS!SetPrev, FS!SetHashNext, FS!SetHashPrev
<1>2. \A h : DOMAIN FS!Without(h, n) = DOMAIN h \ {n}
  BY DEF FS!Without
<1>3. DOMAIN FS!UnlinkedHeap(n) = DOMAIN heap \ {n}
  BY <1>1, <1>2 DEF FS!UnlinkedHeap
<1>4. QED
  BY <1>3 DEF FS!file_system_remove

\* Changing a file adds none.
LEMMA RewriteAddsNone ==
    ASSUME NEW n, NEW edit, FS!Rewrite(n, edit)
    PROVE  DOMAIN heap' = DOMAIN heap
BY DEF FS!Rewrite

\* Every iteration but the end of an opening.
LEMMA WorkAddsNone ==
    ASSUME IsCall, FS!Work, ~FS!OpenNew
    PROVE  NoNewFiles
<1>1. CASE FS!LookupStep
  BY <1>1 DEF FS!LookupStep, NoNewFiles, IsCall, FS!Doing
<1>2. CASE FS!LookupFails
  BY <1>2, ReturnIsNoOpening DEF FS!LookupFails, NoNewFiles
<1>3. CASE FS!OpenFound
  <2>1. DOMAIN heap' = DOMAIN heap
    BY <1>3 DEF FS!OpenFound
  <2>2. IsCall'
    BY <1>3, ReturnIsNoOpening, AbortIsNoOpening DEF FS!OpenFound
  <2>3. FS!Doing("open")
    BY <1>3 DEF FS!OpenFound
  <2>4. QED
    BY <2>1, <2>2, <2>3 DEF NoNewFiles
<1>4. CASE FS!ChangeEdit
  <2>1. DOMAIN heap' = DOMAIN heap
    BY <1>4, RewriteAddsNone DEF FS!ChangeEdit
  <2>2. IsCall' /\ ~FS!Doing("open")'
    BY <1>4, AbortIsNoOpening DEF FS!ChangeEdit, IsCall, FS!Doing
  <2>3. QED
    BY <2>1, <2>2 DEF NoNewFiles
<1>5. CASE FS!ChangeReturn
  BY <1>5, ReturnIsNoOpening DEF FS!ChangeReturn, NoNewFiles
<1>6. CASE FS!CloseFound
  BY <1>6, RemoveAddsNone, ReturnIsNoOpening, AbortIsNoOpening
     DEF FS!CloseFound, NoNewFiles
<1>7. CASE FS!SaveFound
  BY <1>7, ReturnIsNoOpening DEF FS!SaveFound, NoNewFiles
<1>8. CASE FS!FreeStep
  <2>1. IsCall' /\ ~FS!Doing("open")'
    BY <1>8 DEF FS!FreeStep, IsCall, FS!Doing
  <2>2. QED
    BY <1>8, <2>1, RemoveAddsNone DEF FS!FreeStep, NoNewFiles
<1>9. CASE FS!FreeReturn
  BY <1>9, ReturnIsNoOpening DEF FS!FreeReturn, NoNewFiles
<1>10. CASE FS!DeletionAborts \/ FS!DeletionHangs
  BY <1>10, DeletionEnds DEF NoNewFiles, FS!Doing
<1>11. QED
  BY <1>1, <1>2, <1>3, <1>4, <1>5, <1>6, <1>7, <1>8, <1>9, <1>10 DEF FS!Work

\* A search begins, with local variables none of which is op.
LEMMA SearchIsNoOpening ==
    ASSUME NEW name, NEW uri, NEW locals, NEW want, NEW none,
           FS!Search(name, uri, locals, want, none),
           "op" \notin DOMAIN locals
    PROVE  /\ IsCall'
           /\ name # "open" => ~FS!Doing("open")'
           /\ UNCHANGED heap
<1>1. CASE call' = FS!Returned(none, none, 0)
  BY <1>1, ReturnIsNoOpening DEF FS!Search
<1>2. CASE PathOf[uri] # NoPath
  <2>1. PICK rest : rest.op = name /\ "op" \in DOMAIN rest /\ call' = FS!Over(locals, rest)
    BY <1>2 DEF FS!Search
  <2>2. QED
    BY <2>1 DEF FS!Over, IsCall, FS!Doing, FS!Search
<1>3. QED
  BY <1>1, <1>2 DEF FS!Search

-----------------------------------------------------------------------------
(***************************************************************************)
(* The server.                                                             *)
(***************************************************************************)

\* What a step of the server has to keep, in terms of what it changes.
LEMMA Preserved ==
    ASSUME IInv,
           IsServer', server.initialized => server'.initialized,
           \/ NoNewFiles
           \/ UNCHANGED <<heap, call>>
           \/ server'.initialized /\ IsCall'
    PROVE  IInv'
<1>1. CASE NoNewFiles
  BY <1>1 DEF NoNewFiles, IInv, OpenNeedsInitialize, DocumentsNeedInitialize
<1>2. CASE UNCHANGED <<heap, call>>
  BY <1>2 DEF IInv, IsCall, OpenNeedsInitialize, DocumentsNeedInitialize, FS!Doing
<1>3. CASE server'.initialized /\ IsCall'
  BY <1>3 DEF IInv, OpenNeedsInitialize, DocumentsNeedInitialize
<1>4. QED
  BY <1>1, <1>2, <1>3

\* Nothing is initialized, and nothing open, at the start.
LEMMA InitHolds == Init => IInv
<1> SUFFICES ASSUME Init PROVE IInv
  OBVIOUS
<1>1. IsServer
  BY DEF Init, IsServer
<1>2. IsCall /\ OpenNeedsInitialize
  BY CallsAreRecords DEF Init, FS!Init, IsCall, OpenNeedsInitialize, FS!Doing
<1>3. DocumentsNeedInitialize
  BY DEF Init, FS!Init, DocumentsNeedInitialize
<1>4. QED
  BY <1>1, <1>2, <1>3 DEF IInv

\* The steps of the server that are none of the file system.
LEMMA OwnStepPreserves ==
    ASSUME IInv, UNCHANGED server, UNCHANGED fsvars
    PROVE  IInv'
BY Preserved DEF IInv, IsServer, fsvars

\* A call is made on a document by a server that is initialized.
LEMMA CallPreserves ==
    ASSUME IInv, UNCHANGED server, server.initialized, IsCall'
    PROVE  IInv'
BY Preserved DEF IInv, IsServer

\* A call ends.
LEMMA ReceivePreserves ==
    ASSUME IInv, FS!Receive, IsServer', server.initialized => server'.initialized
    PROVE  IInv'
<1>1. NoNewFiles
  BY CallsAreRecords DEF FS!Receive, NoNewFiles, IsCall, FS!Doing
<1>2. QED
  BY <1>1, Preserved

\* Every handler keeps the invariant.
LEMMA HandlePreserves ==
    ASSUME IInv, Handle
    PROVE  IInv'
<1>1. ASSUME Exit \/ InitializeFails \/ UnknownRequest \/ SkipNotification
              \/ LeaveNotification
      PROVE  IInv'
  BY <1>1, OwnStepPreserves
     DEF Exit, InitializeFails, UnknownRequest, SkipNotification,
         LeaveNotification, Finish, Die, server_exit
<1>2. CASE Initialize
  <2>1. UNCHANGED fsvars
    BY <1>2 DEF Initialize
  <2>2. CASE UNCHANGED server
    BY <2>1, <2>2, OwnStepPreserves
  <2>3. CASE server' = [server EXCEPT !.initialized = TRUE]
    <3>1. IsServer' /\ server'.initialized
      BY <2>3 DEF IInv, IsServer
    <3>2. QED
      BY <2>1, <3>1, Preserved DEF fsvars
  <2>4. QED
    BY <1>2, <2>2, <2>3 DEF Initialize, Finish, Die, server_exit
<1>3. CASE Shutdown
  <2>1. NoNewFiles
    BY <1>3 DEF Shutdown, FS!CallFree, NoNewFiles, IsCall, FS!Doing
  <2>2. QED
    BY <1>3, <2>1, Preserved DEF Shutdown, IInv, IsServer
<1>4. CASE ShutdownReturn
  <2>1. IsServer' /\ server'.initialized = server.initialized
    BY <1>4 DEF ShutdownReturn, IInv, IsServer
  <2>2. QED
    BY <1>4, <2>1, ReceivePreserves DEF ShutdownReturn
<1>5. CASE NotificationReturn
  BY <1>5, ReceivePreserves DEF NotificationReturn, Finish, IInv, IsServer
<1>6. CASE DidOpen
  <2>1. CASE UNCHANGED fsvars
    BY <1>6, <2>1, OwnStepPreserves DEF DidOpen, Die, own
  <2>2. CASE FS!CallOpen(Parameters.uri.string, Parameters.version,
                         Parameters.contents.string) /\ UNCHANGED own
    <3>1. IsCall'
      BY <2>2, SearchIsNoOpening DEF FS!CallOpen
    <3>2. QED
      BY <1>6, <2>2, <3>1, CallPreserves DEF DidOpen, Handles, own
  <2>3. QED
    BY <1>6, <2>1, <2>2 DEF DidOpen
<1>7. CASE DidChange
  <2>1. PICK parsed \in {Parameters} :
           FS!CallChange(parsed.uri.string, parsed.version, parsed.edits)
    BY <1>7 DEF DidChange
  <2>2. IsCall'
    BY <2>1, SearchIsNoOpening DEF FS!CallChange
  <2>3. QED
    BY <1>7, <2>2, CallPreserves DEF DidChange, Handles, own
<1>8. CASE DidSave
  <2>1. CASE UNCHANGED fsvars
    BY <1>8, <2>1, OwnStepPreserves DEF DidSave, Die, own
  <2>2. CASE FS!CallSave(Parameters.uri.string) /\ UNCHANGED own
    <3>1. IsCall'
      BY <2>2, SearchIsNoOpening DEF FS!CallSave
    <3>2. QED
      BY <1>8, <2>2, <3>1, CallPreserves DEF DidSave, Handles, own
  <2>3. QED
    BY <1>8, <2>1, <2>2 DEF DidSave
<1>9. CASE DidClose
  <2>1. CASE UNCHANGED fsvars
    BY <1>9, <2>1, OwnStepPreserves DEF DidClose, Die, own
  <2>2. CASE FS!CallClose(Parameters.uri.string) /\ UNCHANGED own
    <3>1. IsCall'
      BY <2>2, SearchIsNoOpening DEF FS!CallClose
    <3>2. QED
      BY <1>9, <2>2, <3>1, CallPreserves DEF DidClose, Handles, own
  <2>3. QED
    BY <1>9, <2>1, <2>2 DEF DidClose
<1>10. CASE FileSystemStep
  <2>1. CASE FS!OpenNew
    <3>1. server.initialized
      BY <2>1 DEF FS!OpenNew, IInv, OpenNeedsInitialize
    <3>2. IsCall'
      BY <2>1, ReturnIsNoOpening DEF FS!OpenNew
    <3>3. QED
      BY <1>10, <3>1, <3>2, CallPreserves DEF FileSystemStep, own
  <2>2. CASE ~FS!OpenNew
    <3>1. NoNewFiles
      BY <1>10, <2>2, WorkAddsNone DEF FileSystemStep, IInv
    <3>2. QED
      BY <1>10, <3>1, Preserved DEF FileSystemStep, own, IInv, IsServer
  <2>3. QED
    BY <2>1, <2>2
<1>11. QED
  BY <1>1, <1>2, <1>3, <1>4, <1>5, <1>6, <1>7, <1>8, <1>9, <1>10 DEF Handle

\* Every step does.
LEMMA NextPreserves == IInv /\ [Next]_vars => IInv'
<1> SUFFICES ASSUME IInv, [Next]_vars PROVE IInv'
  OBVIOUS
<1>1. CASE \E root \in Messages : WithinBound(root) /\ Take(root)
  BY <1>1, OwnStepPreserves DEF Take
<1>2. CASE EndOfInput
  BY <1>2, OwnStepPreserves DEF EndOfInput, Die
<1>3. CASE Handle
  BY <1>3, HandlePreserves
<1>4. CASE UNCHANGED vars
  BY <1>4, OwnStepPreserves DEF vars, fsvars
<1>5. QED
  BY <1>1, <1>2, <1>3, <1>4 DEF Next

\* No message, in whatever order messages come, makes a server that was not
\* initialized open a document: the check of server->initialized in every
\* handler, and of server_initialize in itself, are enough.
THEOREM DocumentsAfterInitialize == Spec => []DocumentsNeedInitialize
<1>1. Init => IInv
  BY InitHolds
<1>2. IInv /\ [Next]_vars => IInv'
  BY NextPreserves
<1>3. IInv => DocumentsNeedInitialize
  BY DEF IInv
<1>4. QED
  BY <1>1, <1>2, <1>3, PTL DEF Spec

-----------------------------------------------------------------------------
(***************************************************************************)
(* The replies.                                                            *)
(***************************************************************************)
Codes == {0, ParseError, InvalidRequest, MethodNotFound, InvalidParams}

Reply(code) == [id |-> request.id, error |-> code]

\* What has been written for the last message, when it has been handled.
Replied == \/ Due = 0 /\ replies = <<>>
           \/ Due = 1 /\ \E code \in Codes : replies = <<Reply(code)>>
           \/ Due = 2 /\ replies = <<Reply(InvalidParams), Reply(0)>>

AboutDocument == IsNotification /\ request.method.string \in Methods

\* What has been written while a message is handled: nothing, but for the
\* error of a shutdown that waits for the release of the files.
Replying ==
    \/ replies = <<>> /\ (FS!Doing("idle") \/ AboutDocument)
    \/ /\ ~FS!Doing("idle")
       /\ IsRequest("shutdown")
       /\ replies = IF server.initialized THEN <<>> ELSE <<Reply(InvalidParams)>>

\* The inductive invariant.
RepliesInv ==
    /\ IsServer
    /\ process.state \in {"waiting", "handling", "crashed", "aborted", "exited"}
    /\ request.valid \in BOOLEAN
    /\ request.valid => request.method.type = "string"
    /\ \A i \in DOMAIN replies : replies[i].error \in Codes
    /\ process = Waiting => FS!Doing("idle") /\ Replied
    /\ process = Handling => request.valid /\ Replying

\* A call that goes on does not become the absence of one.
LEMMA WorkIsBusy ==
    ASSUME IsCall, FS!Work
    PROVE  ~FS!Doing("idle") /\ ~FS!Doing("idle")'
<1>1. CASE FS!LookupStep
  BY <1>1 DEF FS!LookupStep, FS!Searching, IsCall, FS!Doing
<1>2. CASE FS!LookupFails
  BY <1>2 DEF FS!LookupFails, FS!Searching, FS!Returned, FS!Doing
<1>3. CASE FS!OpenFound
  BY <1>3 DEF FS!OpenFound, FS!Abort, FS!Returned, FS!Doing
<1>4. CASE FS!OpenNew
  BY <1>4 DEF FS!OpenNew, FS!Returned, FS!Doing
<1>5. CASE FS!ChangeEdit
  BY <1>5, AbortIsNoOpening DEF FS!ChangeEdit, IsCall, FS!Doing
<1>6. CASE FS!ChangeReturn
  BY <1>6 DEF FS!ChangeReturn, FS!Returned, FS!Doing
<1>7. CASE FS!CloseFound
  BY <1>7 DEF FS!CloseFound, FS!Abort, FS!Returned, FS!Doing
<1>8. CASE FS!SaveFound
  BY <1>8 DEF FS!SaveFound, FS!Returned, FS!Doing
<1>9. CASE FS!FreeStep
  BY <1>9 DEF FS!FreeStep, IsCall, FS!Doing
<1>10. CASE FS!FreeReturn
  BY <1>10 DEF FS!FreeReturn, FS!Returned, FS!Doing
<1>11. CASE FS!DeletionAborts \/ FS!DeletionHangs
  BY <1>11, DeletionEnds
     DEF FS!DeletionAborts, FS!DeletionHangs, FS!DeletionMayFail, FS!Doing
<1>12. QED
  BY <1>1, <1>2, <1>3, <1>4, <1>5, <1>6, <1>7, <1>8, <1>9, <1>10, <1>11 DEF FS!Work

\* Neither does a search that begins.
LEMMA SearchIsBusy ==
    ASSUME NEW name, NEW uri, NEW locals, NEW want, NEW none,
           FS!Search(name, uri, locals, want, none),
           "op" \notin DOMAIN locals, name # "idle"
    PROVE  ~FS!Doing("idle")'
<1>1. CASE call' = FS!Returned(none, none, 0)
  BY <1>1 DEF FS!Returned, FS!Doing
<1>2. CASE PathOf[uri] # NoPath
  <2>1. PICK rest : rest.op = name /\ "op" \in DOMAIN rest
                      /\ call' = FS!Over(locals, rest)
    BY <1>2 DEF FS!Search
  <2>2. QED
    BY <2>1 DEF FS!Over, FS!Doing
<1>3. QED
  BY <1>1, <1>2 DEF FS!Search

\* What a client sends as an id is never null.
LEMMA ParsedFacts ==
    ASSUME NEW root
    PROVE  LET parsed == json_rpc_parse_request_notification(root)
           IN  /\ parsed.valid \in BOOLEAN
               /\ parsed.valid => parsed.method.type = "string"
               /\ parsed # NoRequest
BY DEF json_rpc_parse_request_notification, Invalid, NoRequest, Null, Absent

\* Before any message.
LEMMA InitReplied == Init => RepliesInv
<1> SUFFICES ASSUME Init PROVE RepliesInv
  OBVIOUS
<1>1. Due = 0
  BY DEF Init, Due, NoRequest, Invalid, IsRequest
<1>2. /\ FS!Doing("idle")
      /\ process.state = "waiting"
      /\ process # Handling
  BY DEF Init, FS!Init, FS!Idle, FS!Doing, Waiting, Handling
<1>3. IsServer
  BY DEF Init, IsServer
<1>4. request.valid = FALSE
  BY DEF Init, NoRequest, Invalid
<1>5. Replied /\ \A i \in DOMAIN replies : replies[i].error \in Codes
  BY <1>1 DEF Init, Replied
<1>6. QED
  BY <1>2, <1>3, <1>4, <1>5 DEF RepliesInv

\* A message is read: what is none is answered at once.
LEMMA TakeReplied ==
    ASSUME RepliesInv, NEW root, Take(root)
    PROVE  RepliesInv'
<1> DEFINE parsed == json_rpc_parse_request_notification(root)
<1>1. /\ parsed.valid \in BOOLEAN
      /\ parsed.valid => parsed.method.type = "string"
      /\ parsed # NoRequest
  BY ParsedFacts
<1>2. FS!Doing("idle")' /\ IsServer'
  BY DEF RepliesInv, Take, IsServer, fsvars, FS!Doing
<1>3. CASE root # Garbage /\ parsed.valid
  <2>1. process' = Handling /\ replies' = <<>> /\ request' = parsed
    BY <1>3 DEF Take
  <2>2. Replying'
    BY <1>2, <2>1 DEF Replying
  <2>3. process'.state = "handling" /\ process' # Waiting
    BY <2>1 DEF Handling, Waiting
  <2>4. \A i \in DOMAIN replies' : replies'[i].error \in Codes
    BY <2>1
  <2>5. QED
    BY <1>1, <1>2, <1>3, <2>1, <2>2, <2>3, <2>4 DEF RepliesInv
<1>4. CASE root = Garbage \/ ~parsed.valid
  <2> DEFINE code == IF root = Garbage THEN ParseError ELSE InvalidRequest
  <2>1. /\ process' = Waiting
        /\ ~request'.valid
        /\ request'.valid \in BOOLEAN
        /\ request' # NoRequest
        /\ replies' = <<[id |-> request'.id, error |-> code]>>
    BY <1>1, <1>4
       DEF Take, Invalid, NoRequest, Null, Absent, json_rpc_error
  <2>2. code \in Codes
    BY DEF Codes
  <2>3. Due' = 1
    BY <2>1 DEF Due, IsRequest
  <2>4. Replied'
    BY <2>1, <2>2, <2>3 DEF Replied, Reply
  <2>5. \A i \in DOMAIN replies' : replies'[i].error \in Codes
    BY <2>1, <2>2
  <2>6. QED
    BY <1>2, <2>1, <2>4, <2>5 DEF RepliesInv, Waiting, Handling
<1>5. QED
  BY <1>1, <1>3, <1>4

\* The program ends.
LEMMA DieReplied ==
    ASSUME RepliesInv, NEW how, Die(how),
           how.state \in {"crashed", "aborted", "exited"}
    PROVE  RepliesInv'
BY DEF RepliesInv, Die, IsServer, Waiting, Handling

\* A handler ends, with what is due.
LEMMA FinishReplied ==
    ASSUME RepliesInv, NEW written, Finish(written), FS!Doing("idle")',
           process = Handling, replies = <<>>,
           \/ Due = 0 /\ written = <<>>
           \/ Due = 1 /\ \E code \in Codes : written = <<Reply(code)>>
    PROVE  RepliesInv'
<1>1. replies' = written /\ process' = Waiting /\ UNCHANGED <<server, request>>
  BY DEF Finish
<1>2. Replied'
  BY <1>1 DEF Replied, Due, IsRequest, IsNotification, Reply
<1>3. \A i \in DOMAIN replies' : replies'[i].error \in Codes
  BY <1>1 DEF Reply
<1>4. QED
  BY <1>1, <1>2, <1>3 DEF RepliesInv, IsServer, Waiting, Handling

\* The handlers that end in the step in which they begin.
LEMMA HandlerReplied ==
    ASSUME RepliesInv, Exit \/ InitializeFails \/ Initialize \/ UnknownRequest
                         \/ SkipNotification \/ LeaveNotification
    PROVE  RepliesInv'
<1>1. process = Handling /\ FS!Doing("idle") /\ FS!Doing("idle")'
  BY DEF Exit, InitializeFails, Initialize, UnknownRequest, SkipNotification,
         LeaveNotification, Evaluates, Notified, fsvars, FS!Doing
<1>2. request.valid /\ replies = <<>>
  BY <1>1 DEF RepliesInv, Replying
<1>3. request # NoRequest
  BY <1>2 DEF NoRequest, Invalid
<1>4. CASE Exit
  BY <1>4, DieReplied DEF Exit, server_exit, Exited
<1>5. CASE InitializeFails
  <2>1. Due = 1
    BY <1>2, <1>3, <1>5 DEF InitializeFails, Evaluates, Due, IsRequest
  <2>2. CASE Finish(<<json_rpc_error(request.id, InvalidParams)>>)
    BY <1>1, <1>2, <2>1, <2>2, FinishReplied DEF json_rpc_error, Reply, Codes
  <2>3. CASE Die(Crashed)
    BY <2>3, DieReplied DEF Crashed
  <2>4. QED
    BY <1>5, <2>2, <2>3 DEF InitializeFails
<1>6. CASE Initialize
  <2>1. request.valid /\ IsRequest("initialize") /\ ~IsRequest("shutdown")
    BY <1>2, <1>6 DEF Initialize, Evaluates, IsRequest
  <2>2. CASE Finish(<<>>)
    <3>1. Due = 0
      BY <1>3, <1>6, <2>1 DEF Initialize, Due, IsRequest
    <3>2. QED
      BY <1>1, <1>2, <2>2, <3>1, FinishReplied
  <2>3. CASE server_exit("parent")
    BY <2>3, DieReplied DEF server_exit, Exited
  <2>4. CASE /\ server' = [server EXCEPT !.initialized = TRUE]
             /\ process' = Waiting
             /\ replies' = Append(replies, json_rpc_success(request.id))
             /\ UNCHANGED request
    <3>1. replies' = <<[id |-> request'.id, error |-> 0]>>
      BY <1>2, <2>4 DEF json_rpc_success
    <3>2. IsServer' /\ server'.initialized
      BY <2>4 DEF RepliesInv, IsServer
    <3>3. Due' = 1
      BY <1>3, <2>1, <2>4, <3>2 DEF Due, IsRequest, IsNotification
    <3>4. Replied'
      BY <3>1, <3>3 DEF Replied, Reply, Codes
    <3>5. \A i \in DOMAIN replies' : replies'[i].error \in Codes
      BY <3>1 DEF Codes
    <3>6. process'.state = "waiting" /\ process' # Handling
      BY <2>4 DEF Waiting, Handling
    <3>7. QED
      BY <1>1, <2>4, <3>2, <3>4, <3>5, <3>6 DEF RepliesInv
  <2>5. QED
    BY <1>6, <2>2, <2>3, <2>4 DEF Initialize
<1>7. CASE UnknownRequest
  <2>1. Due = 1
    BY <1>2, <1>3, <1>7 DEF UnknownRequest, Due, IsRequest
  <2>2. QED
    BY <1>1, <1>2, <1>7, <2>1, FinishReplied
       DEF UnknownRequest, json_rpc_error, Reply, Codes
<1>8. CASE SkipNotification \/ LeaveNotification
  <2>1. Due = 0
    BY <1>2, <1>3, <1>8
       DEF SkipNotification, LeaveNotification, Notified, Due, IsRequest
  <2>2. CASE Finish(<<>>)
    BY <1>1, <1>2, <2>1, <2>2, FinishReplied
  <2>3. ASSUME NEW how, Die(how), how.state \in {"crashed", "aborted"}
        PROVE  RepliesInv'
    BY <2>3, DieReplied
  <2>4. QED
    BY <1>8, <2>2, <2>3 DEF SkipNotification, LeaveNotification, Crashed, Aborted
<1>9. QED
  BY <1>4, <1>5, <1>6, <1>7, <1>8

\* A call on a document begins, or goes on, and nothing is written.
LEMMA BusyReplied ==
    ASSUME RepliesInv, UNCHANGED own, process = Handling, ~FS!Doing("idle")',
           ~FS!Doing("idle") \/ AboutDocument
    PROVE  RepliesInv'
<1>1. Replying'
  BY DEF RepliesInv, Replying, own, AboutDocument, IsNotification, IsRequest, Reply
<1>2. process' # Waiting
  BY DEF own, Waiting, Handling
<1>3. QED
  BY <1>1, <1>2 DEF RepliesInv, IsServer, own

\* The notifications that call the file system.
LEMMA DocumentReplied ==
    ASSUME RepliesInv, DidOpen \/ DidChange \/ DidSave \/ DidClose
    PROVE  RepliesInv'
<1>1. process = Handling /\ AboutDocument
  BY DEF DidOpen, DidChange, DidSave, DidClose, Handles, Notified, AboutDocument,
         Methods
<1>2. ASSUME NEW how, Die(how), how.state \in {"crashed", "aborted"}
      PROVE  RepliesInv'
  BY <1>2, DieReplied
<1>3. ASSUME UNCHANGED own, ~FS!Doing("idle")'
      PROVE  RepliesInv'
  BY <1>1, <1>3, BusyReplied
<1>4. CASE DidOpen
  <2>1. ASSUME FS!CallOpen(Parameters.uri.string, Parameters.version,
                           Parameters.contents.string)
        PROVE  ~FS!Doing("idle")'
    BY <2>1, SearchIsBusy DEF FS!CallOpen
  <2>2. QED
    BY <1>2, <1>3, <1>4, <2>1 DEF DidOpen, Crashed, Aborted
<1>5. CASE DidChange
  <2>1. PICK parsed \in {Parameters} :
           FS!CallChange(parsed.uri.string, parsed.version, parsed.edits)
    BY <1>5 DEF DidChange
  <2>2. ~FS!Doing("idle")'
    BY <2>1, SearchIsBusy DEF FS!CallChange
  <2>3. QED
    BY <1>3, <1>5, <2>2 DEF DidChange
<1>6. CASE DidSave
  <2>1. ASSUME FS!CallSave(Parameters.uri.string)
        PROVE  ~FS!Doing("idle")'
    BY <2>1, SearchIsBusy DEF FS!CallSave
  <2>2. QED
    BY <1>2, <1>3, <1>6, <2>1 DEF DidSave, Aborted
<1>7. CASE DidClose
  <2>1. ASSUME FS!CallClose(Parameters.uri.string)
        PROVE  ~FS!Doing("idle")'
    BY <2>1, SearchIsBusy DEF FS!CallClose
  <2>2. QED
    BY <1>2, <1>3, <1>7, <2>1 DEF DidClose, Aborted
<1>8. QED
  BY <1>4, <1>5, <1>6, <1>7

\* A shutdown: the error before the release of the files, the success after.
LEMMA ShutdownReplied ==
    ASSUME RepliesInv, Shutdown
    PROVE  RepliesInv'
<1>1. process = Handling /\ FS!Doing("idle") /\ UNCHANGED <<server, process, request>>
  BY DEF Shutdown, Evaluates
<1>2. request.valid /\ replies = <<>>
  BY <1>1 DEF RepliesInv, Replying, Shutdown
<1>3. ~FS!Doing("idle")'
  BY DEF Shutdown, FS!CallFree, FS!Doing
<1>4. IsRequest("shutdown")'
  BY <1>1, <1>2 DEF Shutdown, Evaluates, IsRequest, IsNotification
<1>5. replies' = IF server.initialized THEN <<>> ELSE <<Reply(InvalidParams)>>
  BY <1>2 DEF Shutdown, json_rpc_error, Reply
<1>6. Replying'
  BY <1>1, <1>3, <1>4, <1>5 DEF Replying, Reply
<1>7. \A i \in DOMAIN replies' : replies'[i].error \in Codes
  BY <1>5 DEF Reply, Codes
<1>8. process' # Waiting
  BY <1>1 DEF Waiting, Handling
<1>9. QED
  BY <1>1, <1>6, <1>7, <1>8 DEF RepliesInv, IsServer

\* shutdown has replied as it should.
LEMMA ShutdownReturnReplied ==
    ASSUME RepliesInv, ShutdownReturn
    PROVE  RepliesInv'
<1>1. process = Handling /\ request.valid /\ ~FS!Doing("idle")
  BY DEF RepliesInv, ShutdownReturn, FS!Receive, FS!Doing
<1>2. /\ IsRequest("shutdown") /\ ~IsRequest("initialize")
      /\ replies = IF server.initialized THEN <<>> ELSE <<Reply(InvalidParams)>>
  BY <1>1 DEF RepliesInv, Replying, ShutdownReturn, AboutDocument, Methods, IsRequest
<1>3. request # NoRequest
  BY <1>1 DEF NoRequest, Invalid
<1>4. /\ IsServer' /\ server'.initialized = server.initialized
      /\ process' = Waiting /\ UNCHANGED request
  BY DEF ShutdownReturn, RepliesInv, IsServer
<1>5. replies' = IF server.initialized THEN <<Reply(0)>>
                 ELSE <<Reply(InvalidParams), Reply(0)>>
  BY <1>2 DEF ShutdownReturn, json_rpc_success, Reply
<1>6. Due' = IF server.initialized THEN 1 ELSE 2
  BY <1>1, <1>2, <1>3, <1>4 DEF Due, IsRequest, IsNotification
<1>7. Replied'
  BY <1>4, <1>5, <1>6 DEF Replied, Reply, Codes
<1>8. \A i \in DOMAIN replies' : replies'[i].error \in Codes
  BY <1>5 DEF Reply, Codes
<1>9. process'.state = "waiting" /\ process' # Handling
  BY <1>4 DEF Waiting, Handling
<1>10. FS!Doing("idle")'
  BY DEF ShutdownReturn, FS!Receive, FS!Doing, FS!Idle
<1>11. QED
  BY <1>1, <1>4, <1>7, <1>8, <1>9, <1>10 DEF RepliesInv

\* The end of a notification that called the file system.
LEMMA NotificationReturnReplied ==
    ASSUME RepliesInv, NotificationReturn
    PROVE  RepliesInv'
<1>1. process = Handling /\ request.valid /\ IsNotification /\ ~FS!Doing("idle")
  BY DEF RepliesInv, NotificationReturn, FS!Receive, FS!Doing
<1>2. replies = <<>>
  BY <1>1 DEF RepliesInv, Replying, IsRequest
<1>3. Due = 0
  BY <1>1 DEF Due, IsRequest, NoRequest, Invalid
<1>4. FS!Doing("idle")' /\ Finish(<<>>)
  BY DEF NotificationReturn, FS!Receive, FS!Doing, FS!Idle
<1>5. QED
  BY <1>1, <1>2, <1>3, <1>4, FinishReplied

\* Every step keeps it.
LEMMA NextReplied == IsCall /\ RepliesInv /\ [Next]_vars => RepliesInv'
<1> SUFFICES ASSUME IsCall, RepliesInv, [Next]_vars PROVE RepliesInv'
  OBVIOUS
<1>1. CASE \E root \in Messages : WithinBound(root) /\ Take(root)
  BY <1>1, TakeReplied
<1>2. CASE EndOfInput
  BY <1>2, DieReplied DEF EndOfInput, Exited
<1>3. CASE Handle
  <2>1. CASE FileSystemStep
    BY <2>1, WorkIsBusy, BusyReplied DEF FileSystemStep
  <2>2. CASE NotificationReturn
    BY <2>2, NotificationReturnReplied
  <2>3. CASE Shutdown \/ ShutdownReturn
    BY <2>3, ShutdownReplied, ShutdownReturnReplied
  <2>4. CASE DidOpen \/ DidChange \/ DidSave \/ DidClose
    BY <2>4, DocumentReplied
  <2>5. QED
    BY <1>3, <2>1, <2>2, <2>3, <2>4, HandlerReplied DEF Handle
<1>4. CASE UNCHANGED vars
  <2>1. UNCHANGED <<server, process, request, replies, call>>
    BY <1>4 DEF vars
  <2>2. Replied = Replied' /\ Replying = Replying'
    BY <2>1 DEF Replied, Replying, Due, IsRequest, IsNotification, AboutDocument,
                Reply, FS!Doing
  <2>3. QED
    BY <2>1, <2>2 DEF RepliesInv, IsServer, FS!Doing
<1>5. QED
  BY <1>1, <1>2, <1>3, <1>4 DEF Next

\* What has been written is what is due, under the invariant.
LEMMA RepliedIsAnswered == RepliesInv => AnsweredOnce /\ TypeOK
<1> SUFFICES ASSUME RepliesInv PROVE AnsweredOnce /\ TypeOK
  OBVIOUS
<1>1. AnsweredOnce
  <2> SUFFICES ASSUME process = Waiting
               PROVE  /\ Len(replies) = Due
                      /\ \A i \in DOMAIN replies : replies[i].id = request.id
    BY DEF AnsweredOnce
  <2>1. Replied
    BY DEF RepliesInv
  <2>2. CASE Due = 0 /\ replies = <<>>
    BY <2>2
  <2>3. CASE Due = 1 /\ \E code \in Codes : replies = <<Reply(code)>>
    BY <2>3 DEF Reply
  <2>4. CASE Due = 2 /\ replies = <<Reply(InvalidParams), Reply(0)>>
    BY <2>4 DEF Reply
  <2>5. QED
    BY <2>1, <2>2, <2>3, <2>4 DEF Replied
<1>2. TypeOK
  BY DEF RepliesInv, TypeOK, IsServer, Codes
<1>3. QED
  BY <1>1, <1>2

\* When the next message is read, the last one has had exactly the replies
\* that are due, each with its id: one for a request and for what is no
\* message, none for a notification, with the two exceptions that Due names.
THEOREM RequestsAnsweredOnce == Spec => []AnsweredOnce
<1>1. Init => IInv /\ RepliesInv
  BY InitHolds, InitReplied
<1>2. IInv /\ RepliesInv /\ [Next]_vars => IInv' /\ RepliesInv'
  BY NextPreserves, NextReplied DEF IInv
<1>3. RepliesInv => AnsweredOnce
  BY RepliedIsAnswered
<1>4. QED
  BY <1>1, <1>2, <1>3, PTL DEF Spec

\* The flags, the process, the last message and the codes of the replies are
\* of their types, and no call of the file system is open in a read.
THEOREM ServerTypeCorrect == Spec => []TypeOK
<1>1. Init => IInv /\ RepliesInv
  BY InitHolds, InitReplied
<1>2. IInv /\ RepliesInv /\ [Next]_vars => IInv' /\ RepliesInv'
  BY NextPreserves, NextReplied DEF IInv
<1>3. RepliesInv => TypeOK
  BY RepliedIsAnswered
<1>4. QED
  BY <1>1, <1>2, <1>3, PTL DEF Spec

-----------------------------------------------------------------------------
(***************************************************************************)
(* The file system of the server, and its proofs.                          *)
(***************************************************************************)
\* The theorems of the file system, for the one of the server.
FP == INSTANCE FileSystem_proof WITH Versions <- Int, Contents <- {}, Batches <- {}

\* The definitions of both instances are the same.
LEMMA SamePlaces ==
    /\ \A t, pos : FS!HasPosition(t, pos) = FP!HasPosition(t, pos)
    /\ \A t, pos : FS!PastEndOfLine(t, pos) = FP!PastEndOfLine(t, pos)
    /\ \A t, pos : FS!PlacesFrom(t, pos) = FP!PlacesFrom(t, pos)
    /\ \A a, b : FS!Before(a, b) = FP!Before(a, b)
    /\ \A t : FS!Boundaries(t) = FP!Boundaries(t)
    /\ \A t, pos : FS!InSizeT(t, pos) = FP!InSizeT(t, pos)
    /\ \A t, pos : FS!PassesEndOfLine(t, pos) = FP!PassesEndOfLine(t, pos)
    /\ \A edit : FS!IsWhole(edit) = FP!IsWhole(edit)
<1>1. \A a, b : FS!Before(a, b) = FP!Before(a, b)
  BY DEF FS!Before, FP!Before
<1>2. \A t : FS!Boundaries(t) = FP!Boundaries(t)
  BY DEF FS!Boundaries, FP!Boundaries, FS!IsContinuation, FP!IsContinuation
<1>3. \A t : FS!PositionAfter(t) = FP!PositionAfter(t)
  <2>1. \A t : FS!Starts(t) = FP!Starts(t)
    BY DEF FS!Starts, FP!Starts, FS!IsContinuation, FP!IsContinuation
  <2>2. \A S : FS!Cardinality(S) = FP!Cardinality(S)
    BY DEF FS!Cardinality, FP!Cardinality
  <2>3. QED
    BY <2>1, <2>2 DEF FS!PositionAfter, FP!PositionAfter, FS!NewLine, FP!NewLine
<1>4. \A t, pos : FS!PlacesFrom(t, pos) = FP!PlacesFrom(t, pos)
  BY <1>1, <1>2, <1>3 DEF FS!PlacesFrom, FP!PlacesFrom
<1>5. \A t, pos : FS!HasPosition(t, pos) = FP!HasPosition(t, pos)
  BY <1>2, <1>3 DEF FS!HasPosition, FP!HasPosition
<1>6. \A t, pos : FS!PastEndOfLine(t, pos) = FP!PastEndOfLine(t, pos)
  BY <1>4, <1>5 DEF FS!PastEndOfLine, FP!PastEndOfLine
<1>7. \A t, pos : FS!InSizeT(t, pos) = FP!InSizeT(t, pos)
  BY DEF FS!InSizeT, FP!InSizeT
<1>8. \A t, pos : FS!PassesEndOfLine(t, pos) = FP!PassesEndOfLine(t, pos)
  BY <1>6, <1>7 DEF FS!PassesEndOfLine, FP!PassesEndOfLine
<1>9. \A edit : FS!IsWhole(edit) = FP!IsWhole(edit)
  BY DEF FS!IsWhole, FP!IsWhole
<1>10. QED
  BY <1>1, <1>2, <1>4, <1>5, <1>6, <1>7, <1>8, <1>9

\* The definitions of both instances of FileSystem are the same: places,
LEMMA SameFirstPlace ==
    ASSUME NEW t, NEW pos
    PROVE  FS!FirstPlace(t, pos) = FP!FirstPlace(t, pos)
<1> DEFINE Least(S) == CHOOSE n \in S : \A m \in S : n <= m
<1>1. /\ FS!FirstPlace(t, pos) = IF FS!PlacesFrom(t, pos) = {} THEN Len(t)
                                 ELSE Least(FS!PlacesFrom(t, pos))
      /\ FP!FirstPlace(t, pos) = IF FP!PlacesFrom(t, pos) = {} THEN Len(t)
                                 ELSE Least(FP!PlacesFrom(t, pos))
  BY DEF FS!FirstPlace, FP!FirstPlace
<1> HIDE DEF Least
<1>2. QED
  BY <1>1, SamePlaces

\* rewriting,
LEMMA SameRewrite ==
    ASSUME NEW n, NEW edit, FS!Rewrite(n, edit)
    PROVE  FP!Rewrite(n, edit)
<1>1. \A c, pos : FS!SetTo(c, pos) = FP!SetTo(c, pos)
  BY SameFirstPlace DEF FS!SetTo, FP!SetTo, FS!CursorAt, FP!CursorAt, FS!Text, FP!Text
<1>2. \A c, pos : FS!ErasedTo(c, pos) = FP!ErasedTo(c, pos)
  BY SameFirstPlace DEF FS!ErasedTo, FP!ErasedTo, FS!Erased, FP!Erased, FS!Text, FP!Text
<1>3. /\ \A t, k : FS!CursorAt(t, k) = FP!CursorAt(t, k)
      /\ \A c, s : FS!Typed(c, s) = FP!Typed(c, s)
      /\ \A c : FS!Text(c) = FP!Text(c)
  BY DEF FS!CursorAt, FP!CursorAt, FS!Typed, FP!Typed, FS!Text, FP!Text
<1>4. QED
  BY <1>1, <1>2, <1>3, SamePlaces DEF FS!Rewrite, FP!Rewrite

\* The assumption of FileSystem, for its instance.
LEMMA FileNames == FP!NamesAssumption
BY NamesAssumption DEF FP!NamesAssumption

\* the calls,
LEMMA SameCalls ==
    /\ \A op : FS!Doing(op) = FP!Doing(op)
    /\ \A ret, want, skipped : FS!Returned(ret, want, skipped) = FP!Returned(ret, want, skipped)
    /\ \A line : FS!Abort(line) = FP!Abort(line)
    /\ \A f, g : FS!Over(f, g) = FP!Over(f, g)
    /\ \A f, x, v : FS!With(f, x, v) = FP!With(f, x, v)
    /\ \A f, x : FS!Without(f, x) = FP!Without(f, x)
    /\ \A n, text : FS!Loaded(n, text) = FP!Loaded(n, text)
    /\ \A n, text : FS!Grown(n, text) = FP!Grown(n, text)
<1>1. \A f, g : FS!Over(f, g) = FP!Over(f, g)
  BY DEF FS!Over, FP!Over
<1>2. QED
  BY <1>1 DEF FS!Doing, FP!Doing, FS!Returned, FP!Returned, FS!Abort, FP!Abort,
              FS!With, FP!With, FS!Without, FP!Without, FS!Loaded, FP!Loaded,
              FS!Grown, FP!Grown

\* an edit,
LEMMA SameEdit == FS!ChangeEdit => FP!ChangeEdit
BY SamePlaces, SameRewrite, SameCalls DEF FS!ChangeEdit, FP!ChangeEdit

\* a deletion that does not return,
LEMMA SameDeletions ==
    /\ FS!DeletionAborts => FP!DeletionAborts
    /\ FS!DeletionHangs => FP!DeletionHangs
<1>1. FS!From = FP!From /\ FS!To = FP!To
  BY SameFirstPlace, SamePlaces DEF FS!From, FP!From, FS!To, FP!To
<1>2. FS!DeletionMayFail = FP!DeletionMayFail
  BY <1>1, SamePlaces, SameCalls DEF FS!DeletionMayFail, FP!DeletionMayFail
<1>3. \A n : FS!ErasedUpTo(n) = FP!ErasedUpTo(n)
  BY <1>1 DEF FS!ErasedUpTo, FP!ErasedUpTo
<1>4. QED
  BY <1>1, <1>2, <1>3, SameCalls, SamePlaces
     DEF FS!DeletionAborts, FP!DeletionAborts, FS!DeletionHangs, FP!DeletionHangs

\* removal,
LEMMA SameRemoval == \A n : FS!file_system_remove(n) = FP!file_system_remove(n)
<1>1. /\ \A h, n, v : FS!SetNext(h, n, v) = FP!SetNext(h, n, v)
      /\ \A h, n, v : FS!SetPrev(h, n, v) = FP!SetPrev(h, n, v)
      /\ \A h, n, v : FS!SetHashNext(h, n, v) = FP!SetHashNext(h, n, v)
      /\ \A h, n, v : FS!SetHashPrev(h, n, v) = FP!SetHashPrev(h, n, v)
  BY DEF FS!SetNext, FP!SetNext, FS!SetPrev, FP!SetPrev,
         FS!SetHashNext, FP!SetHashNext, FS!SetHashPrev, FP!SetHashPrev
<1>2. /\ \A n : FS!UnlinkedHeap(n) = FP!UnlinkedHeap(n)
      /\ \A n : FS!UnlinkedFs(n) = FP!UnlinkedFs(n)
  BY <1>1, SameCalls DEF FS!UnlinkedHeap, FP!UnlinkedHeap, FS!UnlinkedFs, FP!UnlinkedFs
<1>3. QED
  BY <1>2 DEF FS!file_system_remove, FP!file_system_remove

\* the search,
LEMMA SameSearch ==
    /\ FS!LookupStep => FP!LookupStep
    /\ FS!LookupFails => FP!LookupFails
    /\ \A name, uri, locals, want, none :
          FS!Search(name, uri, locals, want, none) => FP!Search(name, uri, locals, want, none)
<1>1. FS!Searching = FP!Searching /\ FS!Hit = FP!Hit /\ FS!Miss = FP!Miss
  BY DEF FS!Searching, FP!Searching, FS!Hit, FP!Hit, FS!Miss, FP!Miss
<1>2. QED
  BY <1>1, SameCalls DEF FS!LookupStep, FP!LookupStep, FS!LookupFails,
     FP!LookupFails, FS!Search, FP!Search

\* opening,
LEMMA SameOpening ==
    /\ FS!OpenFound => FP!OpenFound
    /\ FS!OpenNew => FP!OpenNew
<1>1. /\ \A n, path, version, text :
            FS!LinkedHeap(n, path, version, text) = FP!LinkedHeap(n, path, version, text)
      /\ \A n, path : FS!LinkedFs(n, path) = FP!LinkedFs(n, path)
      /\ FS!Miss = FP!Miss
  BY SameCalls DEF FS!LinkedHeap, FP!LinkedHeap, FS!LinkedFs, FP!LinkedFs,
     FS!Miss, FP!Miss, FS!SetPrev, FP!SetPrev, FS!SetHashPrev, FP!SetHashPrev
<1>2. QED
  BY <1>1, SameCalls DEF FS!OpenFound, FP!OpenFound, FS!OpenNew, FP!OpenNew

\* and the ends of calls.
LEMMA SameEnds ==
    /\ FS!ChangeReturn => FP!ChangeReturn
    /\ FS!CloseFound => FP!CloseFound
    /\ FS!SaveFound => FP!SaveFound
    /\ FS!CallFree => FP!CallFree
    /\ FS!FreeStep => FP!FreeStep
    /\ FS!FreeReturn => FP!FreeReturn
    /\ FS!Receive => FP!Receive
    /\ FS!Init => FP!Init
<1>1. FS!file_system_init = FP!file_system_init /\ FS!Idle = FP!Idle /\ FS!NoDocs = FP!NoDocs
  BY DEF FS!file_system_init, FP!file_system_init, FS!Idle, FP!Idle, FS!NoDocs, FP!NoDocs
<1>2. QED
  BY <1>1, SameCalls, SameRemoval
     DEF FS!ChangeReturn, FP!ChangeReturn, FS!CloseFound, FP!CloseFound,
         FS!SaveFound, FP!SaveFound, FS!CallFree, FP!CallFree, FS!FreeStep, FP!FreeStep,
         FS!FreeReturn, FP!FreeReturn, FS!Receive, FP!Receive, FS!Init, FP!Init

\* What FileSystem_proof says of the iterations and of the calls.
LEMMA WorkKeepsFiles ==
    ASSUME FP!IInv, FS!Work
    PROVE  FP!IInv'
<1> USE FileNames
<1>1. CASE FS!LookupStep
  BY <1>1, SameSearch, FP!LookupStepKeeps
<1>2. CASE FS!LookupFails
  BY <1>2, SameSearch, FP!QuietReturnKeeps
<1>3. CASE FS!OpenFound
  BY <1>3, SameOpening, FP!OpenFoundKeeps
<1>4. CASE FS!OpenNew
  BY <1>4, SameOpening, FP!OpenNewKeeps
<1>5. CASE FS!ChangeEdit
  BY <1>5, SameEdit, FP!ChangeEditKeeps
<1>6. CASE FS!ChangeReturn
  BY <1>6, SameEnds, FP!ChangeReturnKeeps
<1>7. CASE FS!CloseFound
  BY <1>7, SameEnds, FP!CloseFoundKeeps
<1>8. CASE FS!SaveFound
  BY <1>8, SameEnds, FP!QuietReturnKeeps
<1>9. CASE FS!FreeStep
  BY <1>9, SameEnds, FP!FreeStepKeeps
<1>10. CASE FS!FreeReturn
  BY <1>10, SameEnds, FP!FreeReturnKeeps
<1>11. CASE FS!DeletionAborts \/ FS!DeletionHangs
  BY <1>11, SameDeletions, FP!DeletionKeeps
<1>12. QED
  BY <1>1, <1>2, <1>3, <1>4, <1>5, <1>6, <1>7, <1>8, <1>9, <1>10, <1>11 DEF FS!Work

\* A call of the file system keeps its invariant.
LEMMA CallsKeepFiles ==
    ASSUME FP!IInv, NEW uri \in Uri,
           \/ \E version, contents : FS!CallOpen(uri, version, contents)
           \/ \E version, edits : FS!CallChange(uri, version, edits)
           \/ FS!CallClose(uri) \/ FS!CallSave(uri)
    PROVE  FP!IInv'
<1> USE FileNames
<1>1. ASSUME NEW version, NEW contents, FS!CallOpen(uri, version, contents)
      PROVE  FP!IInv'
  <2>1. FP!CallOpen(uri, version, contents)
    BY <1>1, SameSearch, SameCalls DEF FS!CallOpen, FP!CallOpen, FS!IsOpen, FP!IsOpen
  <2>2. QED
    BY <2>1, FP!CallOpenKeeps
<1>2. ASSUME NEW version, NEW edits, FS!CallChange(uri, version, edits)
      PROVE  FP!IInv'
  <2> DEFINE locals == [version |-> version, edits |-> edits, skipped |-> 0]
  <2>1. PICK want : FP!Search("change", uri, locals, want, 0)
    BY <1>2, SameSearch DEF FS!CallChange
  <2>2. DOMAIN locals \cap {"op", "path", "rover", "found"} = {}
    OBVIOUS
  <2> HIDE DEF locals
  <2>3. QED
    BY <2>1, <2>2, FP!SearchKeeps
<1>3. ASSUME FS!CallClose(uri) \/ FS!CallSave(uri)
      PROVE  FP!IInv'
  <2>1. FP!CallClose(uri) \/ FP!CallSave(uri)
    BY <1>3, SameSearch, SameCalls DEF FS!CallClose, FP!CallClose, FS!CallSave, FP!CallSave,
       FS!IsOpen, FP!IsOpen
  <2>2. QED
    BY <2>1, FP!CallCloseSaveKeeps
<1>4. QED
  BY <1>1, <1>2, <1>3

\* So does a step without one.
LEMMA StutterKeepsFiles ==
    ASSUME FP!IInv, UNCHANGED fsvars
    PROVE  FP!IInv'
<1>1. [FP!Next]_FP!vars
  BY DEF fsvars, FP!vars
<1>2. QED
  BY <1>1, FileNames, FP!NextIInv

-----------------------------------------------------------------------------
(***************************************************************************)
(* The files, the shutdown and the deaths.                                 *)
(***************************************************************************)
\* A message names a document, if it does, by one of Uri.
NamesAUri ==
    LET document == Property(request.params, "textDocument")
        uri == Property(document, "uri")
    IN  /\ request.params.type = "object" /\ document.type = "object"
        /\ uri.type \in {"absent", "string"} /\ uri # Absent
        => uri.string \in Uri

\* What a shutdown has released.
Released == fs = FS!file_system_init /\ DOMAIN heap = {}

\* A shutdown that is handled is released when its call has returned.
ShutdownInv ==
    IsRequest("shutdown") =>
       /\ process = Handling => /\ call.op \in {"idle", "free", "returned"}
                                /\ call.op = "returned" => Released
       /\ process = Waiting => Released /\ server.shutdown_requested

\* What a signal ended was not complete.
DeathsInv ==
    process.state \in {"crashed", "aborted"} =>
        /\ ~Complete
        /\ server.initialized <=> request.method.string \in Methods

\* The inductive invariant for the documents.
FilesInv == /\ FP!IInv
            /\ NamesAUri
            /\ ShutdownInv
            /\ DeathsInv

\* It holds at first.
LEMMA InitFiles == Init => FilesInv
<1> SUFFICES ASSUME Init PROVE FilesInv
  OBVIOUS
<1>1. FP!IInv
  <2>1. FP!Init
    BY SameEnds DEF Init
  <2>2. QED
    BY <2>1, FileNames, FP!InitIInv
<1>2. NamesAUri /\ ShutdownInv
  BY DEF Init, NoRequest, Invalid, Absent, NamesAUri, ShutdownInv, IsRequest
<1>3. DeathsInv
  BY DEF Init, DeathsInv, Waiting
<1>4. QED
  BY <1>1, <1>2, <1>3 DEF FilesInv

\* A message is read.
LEMMA TakeFiles ==
    ASSUME FilesInv, RepliesInv, NEW root \in Messages, Take(root)
    PROVE  FilesInv'
<1>1. FP!IInv'
  BY StutterKeepsFiles DEF Take, FilesInv
<1>2. NamesAUri'
  <2>1. CASE root = Garbage
    BY <2>1 DEF Take, NamesAUri, Invalid, Absent
  <2>2. CASE root # Garbage
    <3>1. request' = json_rpc_parse_request_notification(root)
      BY <2>2 DEF Take
    <3>2. QED
      BY <2>2, <3>1, MessagesAssumption DEF NamesAUri
  <2>3. QED
    BY <2>1, <2>2
<1>3. ShutdownInv'
  <2>1. CASE process' = Handling
    <3>1. call'.op = "idle"
      BY DEF Take, RepliesInv, fsvars, FS!Doing
    <3>2. QED
      BY <2>1, <3>1 DEF ShutdownInv, Handling, Waiting
  <2>2. CASE process' = Waiting
    BY <2>2 DEF Take, ShutdownInv, IsRequest, Invalid, Handling, Waiting
  <2>3. QED
    BY <2>1, <2>2 DEF Take
<1>4. DeathsInv'
  BY DEF Take, DeathsInv, Waiting, Handling
<1>5. QED
  BY <1>1, <1>2, <1>3, <1>4 DEF FilesInv

\* What is read of a URI that has been parsed.
LEMMA ParsedUri ==
    ASSUME NamesAUri, request.method.string \in Methods,
           Parameters.outcome = "parsed", Parameters.uri # Absent
    PROVE  Parameters.uri.string \in Uri
<1> DEFINE document == Property(request.params, "textDocument")
           uri == Property(document, "uri")
<1>1. /\ request.params.type = "object" /\ document.type = "object"
      /\ uri.type \in {"absent", "string"}
      /\ Parameters.uri = uri
  <2> USE DEF Rejected, AssertFails, HasTypes
  <2>1. CASE request.method.string = "textDocument/didOpen"
    BY <2>1 DEF Parameters, parse_textDocument_didOpen
  <2>2. CASE request.method.string = "textDocument/didChange"
    BY <2>2 DEF Parameters, parse_textDocument_didChange
  <2>3. CASE request.method.string = "textDocument/didSave"
    BY <2>3 DEF Parameters, parse_textDocument_didSave, parse_identifier
  <2>4. CASE request.method.string = "textDocument/didClose"
    BY <2>4 DEF Parameters, parse_textDocument_didClose, parse_identifier
  <2>5. QED
    BY <2>1, <2>2, <2>3, <2>4 DEF Methods
<1>2. QED
  BY <1>1 DEF NamesAUri

\* An assertion in a parse function fails of what is not complete.
LEMMA ParseAborts ==
    ASSUME request.method.string \in Methods, Parameters.outcome = "aborted"
    PROVE  ~Complete
<1> USE DEF Rejected, AssertFails, HasTypes, Absent, Complete, Methods, Has
<1>1. CASE request.method.string = "textDocument/didOpen"
  BY <1>1 DEF Parameters, parse_textDocument_didOpen
<1>2. CASE request.method.string = "textDocument/didChange"
  BY <1>2 DEF Parameters, parse_textDocument_didChange
<1>3. CASE request.method.string = "textDocument/didSave"
  BY <1>3 DEF Parameters, parse_textDocument_didSave, parse_identifier
<1>4. CASE request.method.string = "textDocument/didClose"
  BY <1>4 DEF Parameters, parse_textDocument_didClose, parse_identifier
<1>5. QED
  BY <1>1, <1>2, <1>3, <1>4

\* A document is opened without a text, or named by nothing.
LEMMA MissingMembers ==
    ASSUME Parameters.outcome = "parsed",
           \/ /\ request.method.string = "textDocument/didOpen"
              /\ Parameters.contents = Absent \/ Parameters.uri = Absent
           \/ /\ request.method.string \in {"textDocument/didSave", "textDocument/didClose"}
              /\ Parameters.uri = Absent
    PROVE  ~Complete
<1> USE DEF Rejected, AssertFails, Absent, Complete, Methods, Has
<1>1. CASE request.method.string = "textDocument/didOpen"
  BY <1>1 DEF Parameters, parse_textDocument_didOpen
<1>2. CASE request.method.string = "textDocument/didSave"
  BY <1>2 DEF Parameters, parse_textDocument_didSave, parse_identifier
<1>3. CASE request.method.string = "textDocument/didClose"
  BY <1>3 DEF Parameters, parse_textDocument_didClose, parse_identifier
<1>4. QED
  BY <1>1, <1>2, <1>3

\* The steps that leave the message, the flags and the process alone.
LEMMA SameMessage ==
    ASSUME FilesInv, UNCHANGED <<server, process, request>>
    PROVE  NamesAUri' /\ DeathsInv'
BY DEF FilesInv, NamesAUri, DeathsInv, Complete

\* The program ends.
LEMMA DieFiles ==
    ASSUME FilesInv, NEW how, Die(how), UNCHANGED fsvars,
           how.state \in {"crashed", "aborted", "exited"},
           how.state # "exited" =>
              /\ ~Complete
              /\ server.initialized <=> request.method.string \in Methods
    PROVE  FilesInv'
<1>1. FP!IInv' /\ NamesAUri'
  BY StutterKeepsFiles DEF Die, FilesInv, NamesAUri
<1>2. ShutdownInv'
  BY DEF Die, ShutdownInv, IsRequest, Waiting, Handling
<1>3. DeathsInv'
  BY DEF Die, DeathsInv, Complete
<1>4. QED
  BY <1>1, <1>2, <1>3 DEF FilesInv

\* A handler of another message than a shutdown ends.
LEMMA EndFiles ==
    ASSUME FilesInv, FP!IInv', process' = Waiting, UNCHANGED request,
           ~IsRequest("shutdown")
    PROVE  FilesInv'
<1>1. NamesAUri'
  BY DEF FilesInv, NamesAUri
<1>2. ShutdownInv'
  BY DEF ShutdownInv, IsRequest, IsNotification
<1>3. DeathsInv'
  BY DEF DeathsInv, Waiting
<1>4. QED
  BY <1>1, <1>2, <1>3 DEF FilesInv

\* The handlers that do not call the file system.
LEMMA QuietFiles ==
    ASSUME FilesInv, Exit \/ InitializeFails \/ Initialize \/ UnknownRequest
                       \/ SkipNotification \/ LeaveNotification
    PROVE  FilesInv'
<1>1. UNCHANGED fsvars /\ ~IsRequest("shutdown")
  BY DEF Exit, InitializeFails, Initialize, UnknownRequest, SkipNotification,
         LeaveNotification, Evaluates, Notified, IsRequest
<1>2. FP!IInv'
  BY <1>1, StutterKeepsFiles DEF FilesInv
<1>3. ASSUME NEW written, Finish(written)
      PROVE  FilesInv'
  BY <1>1, <1>2, <1>3, EndFiles DEF Finish
<1>4. ASSUME NEW cause, server_exit(cause)
      PROVE  FilesInv'
  BY <1>1, <1>4, DieFiles DEF server_exit, Exited
<1>5. CASE Exit
  BY <1>4, <1>5 DEF Exit
<1>6. CASE InitializeFails
  <2>1. CASE ~server.initialized /\ WithoutParams /\ Die(Crashed)
    <3>1. ~Complete
      BY <2>1 DEF Complete, WithoutParams, Absent
    <3>2. request.method.string \notin Methods
      BY <1>6 DEF InitializeFails, Evaluates, Methods
    <3>3. QED
      BY <1>1, <2>1, <3>1, <3>2, DieFiles DEF Crashed
  <2>2. QED
    BY <1>3, <1>6, <2>1 DEF InitializeFails
<1>7. CASE Initialize
  <2>1. CASE process' = Waiting /\ UNCHANGED request
    BY <1>1, <1>2, <2>1, EndFiles
  <2>2. QED
    BY <1>3, <1>4, <1>7, <2>1 DEF Initialize
<1>8. CASE UnknownRequest \/ SkipNotification
  BY <1>3, <1>8 DEF UnknownRequest, SkipNotification
<1>9. CASE LeaveNotification
  <2>1. server.initialized /\ request.method.string \in Methods
    BY <1>9 DEF LeaveNotification
  <2>2. CASE WithoutParams /\ Die(Crashed)
    <3>1. ~Complete
      BY <2>2 DEF Complete, WithoutParams, Absent
    <3>2. QED
      BY <1>1, <2>1, <2>2, <3>1, DieFiles DEF Crashed
  <2>3. CASE Parameters.outcome = "aborted" /\ Die(Aborted(Parameters.line))
    BY <1>1, <2>1, <2>3, ParseAborts, DieFiles DEF Aborted
  <2>4. QED
    BY <1>3, <1>9, <2>2, <2>3 DEF LeaveNotification
<1>10. QED
  BY <1>5, <1>6, <1>7, <1>8, <1>9

\* A handler of another message than a shutdown goes on.
LEMMA BusyFiles ==
    ASSUME FilesInv, FP!IInv', UNCHANGED own, process = Handling,
           ~IsRequest("shutdown")
    PROVE  FilesInv'
<1>1. NamesAUri' /\ DeathsInv'
  BY SameMessage DEF own
<1>2. ShutdownInv'
  BY DEF own, ShutdownInv, IsRequest, IsNotification
<1>3. QED
  BY <1>1, <1>2 DEF FilesInv

\* The notifications that call the file system.
LEMMA DocumentFiles ==
    ASSUME FilesInv, DidOpen \/ DidChange \/ DidSave \/ DidClose
    PROVE  FilesInv'
<1> USE DEF Handles, Methods
<1>1. /\ process = Handling /\ ~IsRequest("shutdown")
      /\ server.initialized
      /\ request.method.string \in Methods
      /\ Parameters.outcome = "parsed"
  BY DEF DidOpen, DidChange, DidSave, DidClose, Notified, IsRequest
<1>2. Parameters.uri # Absent => Parameters.uri.string \in Uri
  BY <1>1, ParsedUri DEF FilesInv
<1>3. ASSUME NEW how, Die(how), UNCHANGED fsvars, ~Complete,
             how.state \in {"crashed", "aborted"}
      PROVE  FilesInv'
  BY <1>1, <1>3, DieFiles
<1>4. ASSUME Parameters.uri # Absent, UNCHANGED own,
             \/ \E version, contents : FS!CallOpen(Parameters.uri.string, version, contents)
             \/ \E version, edits : FS!CallChange(Parameters.uri.string, version, edits)
             \/ FS!CallClose(Parameters.uri.string)
             \/ FS!CallSave(Parameters.uri.string)
      PROVE  FilesInv'
  <2>1. FP!IInv'
    BY <1>2, <1>4, CallsKeepFiles DEF FilesInv
  <2>2. QED
    BY <1>1, <1>4, <2>1, BusyFiles
<1>5. CASE DidOpen
  <2>1. CASE Parameters.contents = Absent \/ Parameters.uri = Absent
    <3>1. ~Complete
      BY <1>1, <1>5, <2>1, MissingMembers DEF DidOpen
    <3>2. QED
      BY <1>3, <1>5, <2>1, <3>1 DEF DidOpen, Crashed, Aborted
  <2>2. CASE Parameters.contents # Absent /\ Parameters.uri # Absent
    BY <1>4, <1>5, <2>2 DEF DidOpen
  <2>3. QED
    BY <2>1, <2>2
<1>6. CASE DidChange
  <2>1. Parameters.uri # Absent
    BY <1>1, <1>6 DEF DidChange, Parameters, parse_textDocument_didChange, Rejected,
       AssertFails
  <2>2. PICK parsed \in {Parameters} :
           FS!CallChange(parsed.uri.string, parsed.version, parsed.edits)
    BY <1>6 DEF DidChange
  <2>3. \E version, edits : FS!CallChange(Parameters.uri.string, version, edits)
    BY <2>2
  <2>4. QED
    BY <1>4, <1>6, <2>1, <2>3 DEF DidChange
<1>7. CASE DidSave
  <2>1. Parameters.uri = Absent => ~Complete
    BY <1>1, <1>7, MissingMembers DEF DidSave
  <2>2. QED
    BY <1>3, <1>4, <1>7, <2>1 DEF DidSave, Aborted
<1>8. CASE DidClose
  <2>1. Parameters.uri = Absent => ~Complete
    BY <1>1, <1>8, MissingMembers DEF DidClose
  <2>2. QED
    BY <1>3, <1>4, <1>8, <2>1 DEF DidClose, Aborted
<1>9. QED
  BY <1>5, <1>6, <1>7, <1>8

\* A shutdown releases the files one after the other.
LEMMA ShutdownFiles ==
    ASSUME FilesInv, Shutdown
    PROVE  FilesInv'
<1>1. FS!CallFree /\ UNCHANGED <<server, process, request>> /\ process = Handling
  BY DEF Shutdown, Evaluates
<1>2. FP!IInv'
  BY <1>1, FileNames, SameEnds, FP!CallFreeKeeps DEF FilesInv
<1>3. ShutdownInv'
  BY <1>1 DEF ShutdownInv, FS!CallFree, Handling, Waiting
<1>4. QED
  BY <1>1, <1>2, <1>3, SameMessage DEF FilesInv

\* The call that a handler waits for goes on.
LEMMA StepFiles ==
    ASSUME FilesInv, FileSystemStep
    PROVE  FilesInv'
<1>1. FS!Work /\ process = Handling /\ UNCHANGED own
  BY DEF FileSystemStep
<1>2. FP!IInv'
  BY <1>1, WorkKeepsFiles DEF FilesInv
<1>3. CASE ~IsRequest("shutdown")
  BY <1>1, <1>2, <1>3, BusyFiles
<1>4. CASE IsRequest("shutdown")
  <2>1. call.op \in {"idle", "free", "returned"}
    BY <1>1, <1>4 DEF FilesInv, ShutdownInv
  <2>2. FS!FreeStep \/ FS!FreeReturn
    BY <1>1, <2>1
       DEF FS!Work, FS!LookupStep, FS!LookupFails, FS!Searching, FS!OpenFound,
           FS!OpenNew, FS!ChangeEdit, FS!ChangeReturn, FS!CloseFound, FS!SaveFound,
           FS!DeletionAborts, FS!DeletionHangs, FS!DeletionMayFail, FS!Doing
  <2>3. call'.op \in {"free", "returned"} /\ (call'.op = "returned" => Released')
    <3>1. CASE FS!FreeStep
      <4>1. call = [x \in DOMAIN call |-> call[x]] /\ "op" \in DOMAIN call
        BY DEF FilesInv, FP!IInv, FP!CallInv
      <4>2. QED
        BY <3>1, <4>1 DEF FS!FreeStep, FS!Doing
    <3>2. CASE FS!FreeReturn
      <4>1. /\ FP!IsHeap(heap) /\ FP!ListInv
            /\ fs.files = NULL
        BY <3>2 DEF FilesInv, FP!IInv, FP!CallInv, FS!FreeReturn, FS!Doing, FP!Doing
      <4>2. DOMAIN heap = {}
        BY <4>1, FileNames, FP!NoHeadNoFile
      <4>3. QED
        BY <3>2, <4>2 DEF FS!FreeReturn, FS!Returned, Released
    <3>3. QED
      BY <2>2, <3>1, <3>2
  <2>4. ShutdownInv'
    BY <1>1, <2>3 DEF ShutdownInv, own, Handling, Waiting
  <2>5. QED
    BY <1>1, <1>2, <2>4, SameMessage DEF FilesInv, own
<1>5. QED
  BY <1>3, <1>4

\* A call ends.
LEMMA ReturnFiles ==
    ASSUME FilesInv, RepliesInv, ShutdownReturn \/ NotificationReturn
    PROVE  FilesInv'
<1>1. /\ FS!Receive /\ process = Handling
      /\ process' = Waiting /\ UNCHANGED request
  BY DEF ShutdownReturn, NotificationReturn, Finish
<1>2. FP!IInv'
  BY <1>1, FileNames, SameEnds, FP!QuietReturnKeeps DEF FilesInv
<1>3. CASE ~IsRequest("shutdown")
  BY <1>1, <1>2, <1>3, EndFiles
<1>4. CASE IsRequest("shutdown")
  <2>1. ShutdownReturn
    BY <1>4 DEF NotificationReturn, IsRequest
  <2>2. Released'
    BY <1>1, <1>4 DEF FilesInv, ShutdownInv, Released, FS!Receive, FS!Doing
  <2>3. server'.shutdown_requested
    BY <2>1 DEF ShutdownReturn, RepliesInv, IsServer
  <2>4. ShutdownInv'
    BY <1>1, <2>2, <2>3 DEF ShutdownInv, Waiting, Handling
  <2>5. NamesAUri' /\ DeathsInv'
    BY <1>1 DEF FilesInv, NamesAUri, DeathsInv, Waiting
  <2>6. QED
    BY <1>2, <2>4, <2>5 DEF FilesInv
<1>5. QED
  BY <1>3, <1>4

\* Every step keeps it.
LEMMA NextFiles == FilesInv /\ RepliesInv /\ [Next]_vars => FilesInv'
<1> SUFFICES ASSUME FilesInv, RepliesInv, [Next]_vars PROVE FilesInv'
  OBVIOUS
<1>1. CASE \E root \in Messages : WithinBound(root) /\ Take(root)
  BY <1>1, TakeFiles
<1>2. CASE EndOfInput
  BY <1>2, DieFiles DEF EndOfInput, Exited
<1>3. CASE Handle
  BY <1>3, QuietFiles, DocumentFiles, ShutdownFiles, StepFiles, ReturnFiles DEF Handle
<1>4. CASE UNCHANGED vars
  <2>1. FP!IInv'
    BY <1>4, StutterKeepsFiles DEF vars, fsvars, FilesInv
  <2>2. NamesAUri' /\ DeathsInv'
    BY <1>4, SameMessage DEF vars
  <2>3. ShutdownInv'
    BY <1>4 DEF vars, FilesInv, ShutdownInv, Released, IsRequest, IsNotification
  <2>4. QED
    BY <2>1, <2>2, <2>3 DEF FilesInv
<1>5. QED
  BY <1>1, <1>2, <1>3, <1>4 DEF Next

\* The files, the calls and what ends the program.
THEOREM ServerInductive == Spec => [](RepliesInv /\ FilesInv)
<1>1. Init => IInv /\ RepliesInv /\ FilesInv
  BY InitHolds, InitReplied, InitFiles
<1>2. IInv /\ RepliesInv /\ FilesInv /\ [Next]_vars => IInv' /\ RepliesInv' /\ FilesInv'
  BY NextPreserves, NextReplied, NextFiles DEF IInv
<1>3. QED
  BY <1>1, <1>2, PTL DEF Spec

\* A deletion fails its assertion in a document that has outgrown a chunk.
ErasedInv == FS!Doing("abort") /\ call.line = 634 => call.during.rover \in chunked

\* No other iteration fails this assertion.
LEMMA WorkErased ==
    ASSUME IsCall, FS!Work
    PROVE  ErasedInv'
<1>1. ASSUME NEW ret, NEW want, NEW skipped, call' = FS!Returned(ret, want, skipped)
      PROVE  ErasedInv'
  BY <1>1 DEF ErasedInv, FS!Returned, FS!Doing
<1>2. ASSUME NEW line, line # 634, FS!Abort(line)
      PROVE  ErasedInv'
  BY <1>2 DEF ErasedInv, FS!Abort
<1>3. ASSUME call'.op # "abort"
      PROVE  ErasedInv'
  BY <1>3 DEF ErasedInv, FS!Doing
<1>4. CASE \/ FS!LookupFails \/ FS!OpenNew \/ FS!ChangeReturn \/ FS!SaveFound
           \/ FS!FreeReturn
  BY <1>1, <1>4 DEF FS!LookupFails, FS!OpenNew, FS!ChangeReturn, FS!SaveFound,
                    FS!FreeReturn
<1>5. CASE FS!OpenFound \/ FS!CloseFound
  BY <1>1, <1>2, <1>5 DEF FS!OpenFound, FS!CloseFound
<1>6. CASE FS!LookupStep \/ FS!FreeStep
  BY <1>3, <1>6 DEF FS!LookupStep, FS!Searching, FS!FreeStep, FS!Doing, IsCall
<1>7. CASE FS!ChangeEdit
  <2>1. CASE FS!Abort(649)
    BY <1>2, <2>1
  <2>2. CASE call'.op = call.op
    BY <1>3, <1>7, <2>2 DEF FS!ChangeEdit, FS!Doing
  <2>3. QED
    BY <1>7, <2>1, <2>2 DEF FS!ChangeEdit, IsCall
<1>8. CASE FS!DeletionHangs
  BY <1>3, <1>8 DEF FS!DeletionHangs
<1>9. CASE FS!DeletionAborts
  BY <1>9 DEF FS!DeletionAborts, FS!DeletionMayFail, FS!ErasedUpTo, FS!Abort, ErasedInv
<1>10. QED
  BY <1>4, <1>5, <1>6, <1>7, <1>8, <1>9 DEF FS!Work

\* Every step keeps it.
LEMMA NextErased == IsCall /\ ErasedInv /\ [Next]_vars => ErasedInv'
<1> SUFFICES ASSUME IsCall, ErasedInv, [Next]_vars PROVE ErasedInv'
  OBVIOUS
<1>1. CASE UNCHANGED fsvars
  BY <1>1 DEF fsvars, ErasedInv, FS!Doing
<1>2. ASSUME NEW name, NEW uri, NEW locals, NEW want,
             FS!Search(name, uri, locals, want, 0),
             "op" \notin DOMAIN locals, name # "abort"
      PROVE  ErasedInv'
  <2>1. CASE call' = FS!Returned(0, 0, 0)
    BY <2>1 DEF ErasedInv, FS!Returned, FS!Doing
  <2>2. CASE PathOf[uri] # NoPath
    <3>1. PICK rest : rest.op = name /\ "op" \in DOMAIN rest
                        /\ call' = FS!Over(locals, rest)
      BY <1>2, <2>2 DEF FS!Search
    <3>2. QED
      BY <1>2, <3>1 DEF FS!Over, FS!Doing, ErasedInv
  <2>3. QED
    BY <1>2, <2>1, <2>2 DEF FS!Search
<1>3. CASE DidOpen
  <2>1. ASSUME FS!CallOpen(Parameters.uri.string, Parameters.version,
                           Parameters.contents.string)
        PROVE  ErasedInv'
    BY <1>2, <2>1 DEF FS!CallOpen
  <2>2. QED
    BY <1>1, <1>3, <2>1 DEF DidOpen
<1>4. CASE DidChange
  <2>1. PICK parsed \in {Parameters} :
           FS!CallChange(parsed.uri.string, parsed.version, parsed.edits)
    BY <1>4 DEF DidChange
  <2>2. QED
    BY <1>2, <2>1 DEF FS!CallChange
<1>5. CASE DidSave
  <2>1. ASSUME FS!CallSave(Parameters.uri.string) PROVE ErasedInv'
    BY <1>2, <2>1 DEF FS!CallSave
  <2>2. QED
    BY <1>1, <1>5, <2>1 DEF DidSave
<1>6. CASE DidClose
  <2>1. ASSUME FS!CallClose(Parameters.uri.string) PROVE ErasedInv'
    BY <1>2, <2>1 DEF FS!CallClose
  <2>2. QED
    BY <1>1, <1>6, <2>1 DEF DidClose
<1>7. CASE Shutdown
  BY <1>7 DEF Shutdown, FS!CallFree, ErasedInv, FS!Doing
<1>8. CASE ShutdownReturn \/ NotificationReturn
  BY <1>8 DEF ShutdownReturn, NotificationReturn, FS!Receive, FS!Idle, ErasedInv,
              FS!Doing
<1>9. CASE FileSystemStep
  BY <1>9, WorkErased DEF FileSystemStep
<1>10. CASE \/ Exit \/ InitializeFails \/ Initialize \/ UnknownRequest
            \/ SkipNotification \/ LeaveNotification \/ EndOfInput
            \/ \E root \in Messages : Take(root)
            \/ UNCHANGED vars
  <2>1. UNCHANGED fsvars
    BY <1>10 DEF Exit, InitializeFails, Initialize, UnknownRequest,
         SkipNotification, LeaveNotification, EndOfInput, Take, vars, fsvars
  <2>2. QED
    BY <1>1, <2>1
<1>11. QED
  BY <1>3, <1>4, <1>5, <1>6, <1>7, <1>8, <1>9, <1>10 DEF Next, Handle

\* A message of UTF-8 strings that has the members of its interface, and comes
\* in the right phase, ends the server by a signal only in the file system: at
\* the assertion of file_system_open on a document that is open, at that of
\* text_buffer_set_point, or at the one of delete_string in a document that
\* has outgrown a chunk.
THEOREM OnlyTheseDeaths == Spec => []DeathsExplained
<1>1. Init => IInv /\ ErasedInv
  BY InitHolds DEF Init, FS!Init, FS!Idle, FS!Doing, ErasedInv
<1>2. IInv /\ ErasedInv /\ [Next]_vars => IInv' /\ ErasedInv'
  BY NextPreserves, NextErased DEF IInv
<1>3. FilesInv /\ ErasedInv => DeathsExplained
  BY DEF FilesInv, DeathsInv, DeathsExplained, FP!IInv, FP!EarlyAborts, ErasedInv,
         FS!Doing, FP!Doing
<1>4. QED
  BY <1>1, <1>2, <1>3, ServerInductive, PTL DEF Spec

\* A shutdown that is answered has freed every file, whatever was open and
\* whatever came before it.
THEOREM ShutdownReleases == Spec => []ShutdownReleasesAll
<1>1. RepliesInv /\ FilesInv => ShutdownReleasesAll
  BY DEF FilesInv, ShutdownInv, Released, ShutdownReleasesAll
<1>2. QED
  BY <1>1, ServerInductive, PTL

-----------------------------------------------------------------------------
(***************************************************************************)
(* The document of a message.                                              *)
(***************************************************************************)
DocumentCalls == {"open", "change", "close", "save"}

\* A call on a document is one on the document that the message names, and
\* files are released in a shutdown.
CallsInv ==
    process = Handling =>
       /\ call.op \in DocumentCalls =>
             /\ request.method.string \in Methods
             /\ call.path \in Named
       /\ call.op = "free" => IsRequest("shutdown")

\* Where no call runs none can be about another document.
LEMMA CallsAtRest ==
    ASSUME call.op \in {"idle", "returned", "abort", "stuck"}
    PROVE  CallsInv
BY DEF CallsInv, DocumentCalls

\* A search is for the path it is given, and goes on being.
LEMMA SearchPath ==
    ASSUME NEW name \in DocumentCalls, NEW uri, NEW locals, NEW want, NEW none,
           FS!Search(name, uri, locals, want, none),
           DOMAIN locals \cap {"op", "path", "rover", "found"} = {}
    PROVE  call'.op = "returned" \/ (call'.op = name /\ call'.path = PathOf[uri])
<1>1. CASE call' = FS!Returned(none, none, 0)
  BY <1>1 DEF FS!Returned
<1>2. CASE PathOf[uri] # NoPath
  <2>1. PICK rest : /\ rest.op = name /\ "op" \in DOMAIN rest
                    /\ rest.path = PathOf[uri] /\ "path" \in DOMAIN rest
                    /\ call' = FS!Over(locals, rest)
    BY <1>2 DEF FS!Search
  <2>2. QED
    BY <2>1 DEF FS!Over
<1>3. QED
  BY <1>1, <1>2 DEF FS!Search

\* A step of a call keeps its path.
LEMMA WorkPath ==
    ASSUME FP!IInv, FS!Work
    PROVE  \/ call'.op \in {"returned", "abort", "stuck"}
           \/ call'.op = call.op /\ (call.op \in DocumentCalls => call'.path = call.path)
<1>1. /\ call = [x \in DOMAIN call |-> call[x]] /\ "op" \in DOMAIN call
      /\ call.op \in DocumentCalls => "path" \in DOMAIN call
  BY DEF FP!IInv, FP!CallInv, DocumentCalls
<1>2. CASE FS!LookupStep
  BY <1>1, <1>2 DEF FS!LookupStep
<1>3. CASE FS!ChangeEdit
  <2>1. \/ FS!Abort(649)
        \/ \E edits, skipped : call' = [call EXCEPT !.edits = edits, !.skipped = skipped]
    BY <1>3 DEF FS!ChangeEdit
  <2>2. CASE FS!Abort(649)
    BY <2>2 DEF FS!Abort
  <2>3. ASSUME NEW edits, NEW skipped,
               call' = [call EXCEPT !.edits = edits, !.skipped = skipped]
        PROVE  call'.op = call.op /\ (call.op \in DocumentCalls => call'.path = call.path)
    BY <1>1, <2>3
  <2>4. QED
    BY <2>1, <2>2, <2>3
<1>4. CASE FS!FreeStep
  BY <1>1, <1>4 DEF FS!FreeStep, FS!Doing, DocumentCalls
<1>5. CASE \/ FS!LookupFails \/ FS!OpenFound \/ FS!OpenNew \/ FS!ChangeReturn
           \/ FS!CloseFound \/ FS!SaveFound \/ FS!FreeReturn
  BY <1>5 DEF FS!LookupFails, FS!OpenFound, FS!OpenNew, FS!ChangeReturn,
              FS!CloseFound, FS!SaveFound, FS!FreeReturn, FS!Returned, FS!Abort
<1>6. CASE FS!DeletionAborts \/ FS!DeletionHangs
  BY <1>6, DeletionEnds
<1>7. QED
  BY <1>2, <1>3, <1>4, <1>5, <1>6 DEF FS!Work

\* A call on a document begins.
LEMMA DocumentCalled ==
    ASSUME DidOpen \/ DidChange \/ DidSave \/ DidClose
    PROVE  CallsInv'
<1> USE DEF Handles
<1> DEFINE name == Parameters.uri.string
<1>1. /\ process = Handling /\ FS!Doing("idle")
      /\ request.method.string \in Methods
      /\ Parameters.outcome = "parsed"
  BY DEF DidOpen, DidChange, DidSave, DidClose, Notified, Methods
<1>2. PathOf[name] \in Named
  <2> USE DEF Rejected, AssertFails
  <2>1. CASE request.method.string = "textDocument/didOpen"
    BY <1>1, <2>1 DEF Parameters, parse_textDocument_didOpen, Named
  <2>2. CASE request.method.string = "textDocument/didChange"
    BY <1>1, <2>2 DEF Parameters, parse_textDocument_didChange, Named
  <2>3. CASE request.method.string = "textDocument/didSave"
    BY <1>1, <2>3 DEF Parameters, parse_textDocument_didSave, parse_identifier, Named
  <2>4. CASE request.method.string = "textDocument/didClose"
    BY <1>1, <2>4 DEF Parameters, parse_textDocument_didClose, parse_identifier, Named
  <2>5. QED
    BY <1>1, <2>1, <2>2, <2>3, <2>4 DEF Methods
<1> HIDE DEF name
<1>3. ASSUME UNCHANGED own, NEW op \in DocumentCalls, call'.op = op,
             call'.path = PathOf[name]
      PROVE  CallsInv'
  BY <1>1, <1>2, <1>3 DEF CallsInv, Named, own, DocumentCalls
<1>4. ASSUME UNCHANGED fsvars PROVE CallsInv'
  BY <1>1, <1>4, CallsAtRest DEF fsvars, FS!Doing, CallsInv, DocumentCalls
<1>5. ASSUME call'.op = "returned" PROVE CallsInv'
  BY <1>5 DEF CallsInv, DocumentCalls
<1>6. ASSUME UNCHANGED own, NEW op \in DocumentCalls, NEW locals, NEW want,
             DOMAIN locals \cap {"op", "path", "rover", "found"} = {},
             FS!Search(op, name, locals, want, 0)
      PROVE  CallsInv'
  <2>1. call'.op = "returned" \/ (call'.op = op /\ call'.path = PathOf[name])
    BY <1>6, SearchPath
  <2>2. QED
    BY <1>3, <1>5, <1>6, <2>1
<1>7. CASE DidOpen
  <2>1. ASSUME NEW version, NEW contents, FS!CallOpen(name, version, contents),
               UNCHANGED own
        PROVE  CallsInv'
    <3> DEFINE locals == [version |-> version, contents |-> contents]
    <3>1. /\ DOMAIN locals \cap {"op", "path", "rover", "found"} = {}
          /\ FS!Search("open", name, locals, 0, 0)
      BY <2>1 DEF FS!CallOpen
    <3> HIDE DEF locals
    <3>2. QED
      BY <1>6, <2>1, <3>1 DEF DocumentCalls
  <2>2. QED
    BY <1>4, <1>7, <2>1 DEF DidOpen, name
<1>8. CASE DidChange
  <2>1. ASSUME NEW version, NEW edits, FS!CallChange(name, version, edits),
               UNCHANGED own
        PROVE  CallsInv'
    <3> DEFINE locals == [version |-> version, edits |-> edits, skipped |-> 0]
               want == IF FS!IsOpen(name) THEN 1 ELSE 0
    <3>1. /\ DOMAIN locals \cap {"op", "path", "rover", "found"} = {}
          /\ FS!Search("change", name, locals, want, 0)
      BY <2>1 DEF FS!CallChange
    <3> HIDE DEF locals, want
    <3>2. QED
      BY <1>6, <2>1, <3>1 DEF DocumentCalls
  <2>2. QED
    BY <1>8, <2>1 DEF DidChange, name
<1>9. DOMAIN <<>> \cap {"op", "path", "rover", "found"} = {}
  OBVIOUS
<1>10. CASE DidSave
  <2>1. ASSUME FS!CallSave(name), UNCHANGED own PROVE CallsInv'
    <3>1. PICK want : FS!Search("save", name, <<>>, want, 0)
      BY <2>1 DEF FS!CallSave
    <3>2. QED
      BY <1>6, <1>9, <2>1, <3>1 DEF DocumentCalls
  <2>2. QED
    BY <1>4, <1>10, <2>1 DEF DidSave, name
<1>11. CASE DidClose
  <2>1. ASSUME FS!CallClose(name), UNCHANGED own PROVE CallsInv'
    BY <1>6, <1>9, <2>1 DEF FS!CallClose, DocumentCalls
  <2>2. QED
    BY <1>4, <1>11, <2>1 DEF DidClose, name
<1>12. QED
  BY <1>7, <1>8, <1>10, <1>11

\* Every step keeps it.
LEMMA NextCalled ==
    ASSUME FilesInv, RepliesInv, CallsInv, [Next]_vars
    PROVE  CallsInv'
<1>1. ASSUME process' # Handling PROVE CallsInv'
  BY <1>1 DEF CallsInv
<1>2. CASE \E root \in Messages : WithinBound(root) /\ Take(root)
  <2>1. call'.op = "idle"
    BY <1>2 DEF Take, RepliesInv, fsvars, FS!Doing
  <2>2. QED
    BY <2>1, CallsAtRest DEF CallsInv, DocumentCalls
<1>3. CASE EndOfInput
  BY <1>1, <1>3 DEF EndOfInput, Die, Exited, Handling
<1>4. CASE \/ Exit \/ InitializeFails \/ Initialize \/ UnknownRequest
           \/ SkipNotification \/ LeaveNotification \/ ShutdownReturn
           \/ NotificationReturn
  BY <1>1, <1>4
     DEF Exit, InitializeFails, Initialize, UnknownRequest, SkipNotification,
         LeaveNotification, ShutdownReturn, NotificationReturn, Finish, Die,
         server_exit, Exited, Crashed, Aborted, Waiting, Handling
<1>5. CASE Shutdown
  <2>1. IsRequest("shutdown")'
    BY <1>5 DEF Shutdown, Evaluates, RepliesInv, IsRequest, IsNotification
  <2>2. QED
    BY <1>5, <2>1 DEF Shutdown, FS!CallFree, CallsInv, DocumentCalls
<1>6. CASE DidOpen \/ DidChange \/ DidSave \/ DidClose
  BY <1>6, DocumentCalled
<1>7. CASE FileSystemStep
  <2>1. /\ FS!Work /\ UNCHANGED own /\ process = Handling
        /\ FP!IInv
    BY <1>7 DEF FileSystemStep, FilesInv
  <2>2. \/ call'.op \in {"returned", "abort", "stuck"}
        \/ call'.op = call.op /\ (call.op \in DocumentCalls => call'.path = call.path)
    BY <2>1, WorkPath
  <2>3. Named' = Named /\ IsRequest("shutdown")' = IsRequest("shutdown")
    BY <2>1 DEF own, Named, IsRequest, IsNotification
  <2>4. request' = request
    BY <2>1 DEF own
  <2>5. QED
    BY <2>1, <2>2, <2>3, <2>4 DEF CallsInv, DocumentCalls
<1>8. CASE UNCHANGED vars
  BY <1>8 DEF vars, CallsInv, Named, IsRequest, IsNotification
<1>9. QED
  BY <1>2, <1>3, <1>4, <1>5, <1>6, <1>7, <1>8 DEF Next, Handle

\* Both instances hold the same documents.
LEMMA SameView == FS!View = FP!View /\ FS!View' = FP!View'
BY DEF FS!View, FP!View, FS!FileOf, FP!FileOf

\* What OnlyItsDocument says of a step.
OtherDocumentsKept ==
    \A path \in DOMAIN FS!View \cup DOMAIN FS!View' :
       \/ path \in DOMAIN FS!View \cap DOMAIN FS!View' /\ FS!View'[path] = FS!View[path]
       \/ path \in Named
       \/ IsRequest("shutdown") /\ path \notin DOMAIN FS!View'

\* Only the file system changes documents.
LEMMA StepIsOnly ==
    ASSUME FilesInv, FilesInv', CallsInv, [Next]_vars, heap' # heap
    PROVE  OtherDocumentsKept
<1>1. FileSystemStep
  BY DEF Next, Handle, vars, fsvars, Take, EndOfInput, Exit, InitializeFails, Initialize,
         UnknownRequest, SkipNotification, LeaveNotification, Shutdown, ShutdownReturn,
         NotificationReturn, DidOpen, DidChange, DidSave, DidClose, FS!CallOpen,
         FS!CallChange, FS!CallSave, FS!CallClose, FS!CallFree, FS!Receive, FS!Search
<1>2. FP!Work
  BY <1>1, SameSearch, SameOpening, SameEdit, SameDeletions, SameEnds
     DEF FileSystemStep, FS!Work, FP!Work
<1>3. \/ /\ call.op \in {"open", "change", "close", "save"}
         /\ FP!OnlyDocument(call.path)
      \/ /\ FP!Doing("free")
         /\ \E p : p \notin DOMAIN FP!View' /\ FP!OnlyDocument(p)
  BY <1>2, FileNames, FP!WorkOnly DEF FilesInv
<1>4. process = Handling
  BY <1>1 DEF FileSystemStep
<1>5. CASE call.op \in DocumentCalls /\ FP!OnlyDocument(call.path)
  <2>1. call.path \in Named
    BY <1>4, <1>5 DEF CallsInv
  <2>2. QED
    BY <1>5, <2>1, SameView DEF FP!OnlyDocument, OtherDocumentsKept
<1>6. ASSUME call.op = "free", NEW p, p \notin DOMAIN FP!View', FP!OnlyDocument(p)
      PROVE  OtherDocumentsKept
  <2>1. IsRequest("shutdown")
    BY <1>4, <1>6 DEF CallsInv
  <2>2. QED
    BY <1>6, <2>1, SameView DEF FP!OnlyDocument, OtherDocumentsKept
<1>7. QED
  BY <1>3, <1>5, <1>6 DEF DocumentCalls, FP!Doing

\* No step touches another document than the one that the message being
\* handled names; only a shutdown removes others.
THEOREM ChangesOnlyItsDocument == Spec => OnlyItsDocument
<1>1. Init => CallsInv
  BY CallsAtRest DEF Init, FS!Init, FS!Idle
<1>2. FilesInv /\ RepliesInv /\ CallsInv /\ [Next]_vars => CallsInv'
  BY NextCalled
<1>3. FilesInv /\ FilesInv' /\ CallsInv /\ [Next]_vars => [OtherDocumentsKept]_heap
  BY StepIsOnly
<1>4. OnlyItsDocument <=> [][OtherDocumentsKept]_heap
  BY DEF OnlyItsDocument, OtherDocumentsKept
<1>5. QED
  BY <1>1, <1>2, <1>3, <1>4, ServerInductive, PTL DEF Spec
=============================================================================
