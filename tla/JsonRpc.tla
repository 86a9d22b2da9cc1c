------------------------------ MODULE JsonRpc -------------------------------
(***************************************************************************)
(* The messages of json_rpc.c: JSON values, what makes one a request or a  *)
(* notification, and the replies.                                          *)
(*                                                                         *)
(* C                          here                                         *)
(* struct json_value_s *      a record with a type; the payload is a       *)
(*                            member of whatever set the users of this     *)
(*                            module take it from                          *)
(* NULL                       Absent                                       *)
(* an object                  its properties, as a function from names;    *)
(*                            no name occurs twice in what a client sends  *)
(* a number                   what atoi makes of its digits                *)
(* a reply that is written    its id and its error code, 0 for a success   *)
(***************************************************************************)
EXTENDS Integers, Sequences

Absent == [type |-> "absent"]
Null == [type |-> "null"]
String(s) == [type |-> "string", string |-> s]
Number(n) == [type |-> "number", number |-> n]
Array(elements) == [type |-> "array", elements |-> elements]
Object(properties) == [type |-> "object", properties |-> properties]

\* Bytes that json_parse_ex does not accept.
Garbage == [type |-> "garbage"]

\* The value of a property; Absent when the object has no such property.
Property(object, name) ==
    IF name \in DOMAIN object.properties THEN object.properties[name]
                                         ELSE Absent

\* An object in which each of these properties is missing or of its type.
HasTypes(value, types) ==
    /\ value.type = "object"
    /\ \A name \in DOMAIN types :
          Property(value, name).type \in {"absent", types[name]}

-----------------------------------------------------------------------------
ParseError == -32700
InvalidRequest == -32600
MethodNotFound == -32601
InvalidParams == -32602

json_rpc_error(id, code) == [id |-> id, error |-> code]

json_rpc_success(id) == [id |-> id, error |-> 0]

-----------------------------------------------------------------------------
Invalid(id) == [valid |-> FALSE, method |-> Absent, params |-> Absent, id |-> id]

\* Mutant: takes a property of any type.
json_rpc_parse_request_notification_untyped(root) ==
    IF root.type # "object" THEN Invalid(Absent)
    ELSE [valid |-> Property(root, "jsonrpc") = String("2.0"),
          method |-> Property(root, "method"),
          params |-> Property(root, "params"),
          id |-> Property(root, "id")]

\* What a handler gets: the method, the parameters and the id, each Absent
\* if it is missing or of a wrong type, and whether all of it is right.
json_rpc_parse_request_notification(root) ==
    LET method == Property(root, "method")
        params == Property(root, "params")
        id == Property(root, "id")
        id_valid == id.type \in {"absent", "string", "number"}
        valid == /\ Property(root, "jsonrpc") = String("2.0")
                 /\ method.type = "string"
                 /\ params.type \in {"absent", "array", "object"}
                 /\ id_valid
    IN  CASE root.type # "object" -> Invalid(Absent)
          [] root.type = "object" /\ valid ->
                [valid |-> TRUE, method |-> method, params |-> params, id |-> id]
          [] OTHER -> Invalid(IF id_valid THEN id ELSE Absent)

json_rpc_request_is_notification(request) == request.id = Absent
=============================================================================
