-------------------------- MODULE MCLanguageServer --------------------------
(***************************************************************************)
(* LanguageServer for TLC: messages of every kind a handler tells apart,   *)
(* about two documents whose paths have different hashes.                  *)
(***************************************************************************)
EXTENDS LanguageServer, TLC

CONSTANTS p1, p2, u1, u2, ubad

MCPath == {p1, p2}

MCUri == {u1, u2, ubad}

MCPathOf == (u1 :> p1) @@ (u2 :> p2) @@ (ubad :> NoPath)

MCHash == (p1 :> 0) @@ (p2 :> 1)

-----------------------------------------------------------------------------
Envelope == [jsonrpc |-> String("2.0")]

Call(method, params, id) ==
    Object(Envelope @@ [method |-> String(method), params |-> params, id |-> Number(id)])

Note(method, params) ==
    Object(Envelope @@ [method |-> String(method), params |-> params])

BareCall(method, id) ==
    Object(Envelope @@ [method |-> String(method), id |-> Number(id)])

Bare(method) == Object(Envelope @@ [method |-> String(method)])

None == Object([x \in {} |-> Null])

TextDocument(members) == Object([textDocument |-> Object(members)])

\* Not a message, and not a valid one.
Malformed ==
    {Garbage, Null,
     Object([method |-> String("exit")]),
     Object(Envelope @@ [method |-> Null, id |-> Number(4)]),
     Object(Envelope @@ [method |-> String("shutdown"), id |-> Null]),
     Object(Envelope @@ [method |-> String("shutdown"), params |-> Null,
                         id |-> Number(4)])}

Lifecycle ==
    {Call("initialize", Object([rootUri |-> String(u1)] @@ extra), 1) :
        extra \in {[trace |-> String("off")], [trace |-> String("all")],
                   [trace |-> Null], [processId |-> Number(7)],
                   [processId |-> Null], [processId |-> String("7")]}}
    \cup {Call("initialize", None, 1),
          Call("initialize", Object([rootUri |-> Null]), 1),
          Call("initialize", Array(<<>>), 1),
          BareCall("initialize", 1), Note("initialize", None),
          BareCall("shutdown", 2), Bare("shutdown"),
          Bare("exit"), BareCall("exit", 3),
          Call("textDocument/hover", None, 3), Bare("initialized"),
          Call("textDocument/didOpen", None, 3)}

Item(uri) == [uri |-> String(uri), version |-> Number(1), text |-> String(<<97>>)]

Opens ==
    {Note("textDocument/didOpen", TextDocument(Item(uri))) : uri \in MCUri}
    \cup {Note("textDocument/didOpen", TextDocument(members)) :
            members \in {[uri |-> String(u1)], [text |-> String(<<>>)],
                         [version |-> Number(1)],
                         Item(u1) @@ [languageId |-> Number(0)],
                         [version |-> Null] @@ Item(u1)}}
    \cup {Bare("textDocument/didOpen"), Note("textDocument/didOpen", None),
          Note("textDocument/didOpen", Array(<<>>)),
          Note("textDocument/didOpen", Object([textDocument |-> Null]))}

Position(line, char) == Object([line |-> Number(line), character |-> Number(char)])

Range(from, to) == Object([start |-> from, end |-> to])

Event(from, to, text) == Object([range |-> Range(from, to), text |-> String(text)])

Change(uri, version, events) ==
    Note("textDocument/didChange",
         Object([textDocument |-> Object([uri |-> String(uri), version |-> Number(version)]),
                 contentChanges |-> Array(events)]))

Whole == Object([text |-> String(<<97>>)])

Break == Event(Position(0, 0), Position(0, 0), <<10>>)

Accented == Object([text |-> String(<<97, 195, 169>>)])

Accent == Event(Position(0, 1), Position(0, 2), <<>>)

Cut == Event(Position(0, 0), Position(0, 1), <<>>)

BadEvents ==
    {Null, Object([text |-> Null]),
     Event(Position(0, 1), Position(0, 0), <<97>>),
     Object([range |-> Null, text |-> String(<<97>>)]),
     Object([range |-> Object([start |-> Position(0, 0)])]),
     Event(Object([line |-> Number(0)]), Position(0, 0), <<97>>),
     Event(Position(0, 0), Object([line |-> Number(0), character |-> Null]), <<97>>)}

Changes ==
    {Change(u1, 2, events) : events \in {<<Whole>>, <<Break>>, <<Cut, Whole>>,
                                         <<Accented>>, <<Accent>>}}
    \cup {Change(u2, 2, <<Whole>>), Change(ubad, 2, <<Whole>>), Change(u1, 2, <<>>),
          Change(u1, 2, <<Object([range |-> Range(Position(-1, -1), Position(-1, -1))])>>),
          Change(u1, 2, <<Event(Position(-2, -3), Position(-2, -2), <<97>>)>>),
          Change(u1, 2, <<Event(Position(0, -1), Position(0, 0), <<97>>)>>),
          Change(u1, 2, <<Event(Position(0, 2), Position(0, 2), <<97>>)>>)}
    \cup {Change(u1, 2, <<Whole, event>>) : event \in BadEvents}
    \cup {Note("textDocument/didChange", params) :
            params \in {Object([contentChanges |-> Array(<<Whole>>)]),
                        Object([contentChanges |-> Null]),
                        Object([textDocument |-> None, contentChanges |-> Array(<<Whole>>)]),
                        Object([textDocument |-> Object([uri |-> Null]),
                                contentChanges |-> Array(<<Whole>>)]),
                        TextDocument([uri |-> String(u1)])}}

Identified(method) ==
    {Note(method, TextDocument([uri |-> String(uri)])) : uri \in MCUri}
    \cup {Note(method, None), Note(method, TextDocument([uri |-> Null])),
          Note(method, Object([textDocument |-> None])), Bare(method)}

MCMessages ==
    Malformed \cup Lifecycle \cup Opens \cup Changes
    \cup Identified("textDocument/didSave") \cup Identified("textDocument/didClose")
    \cup {Note("textDocument/didSave",
               TextDocument([uri |-> String(u1), version |-> version])) :
            version \in {Number(1), Null}}
=============================================================================
