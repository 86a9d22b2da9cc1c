------------------------------ MODULE Framing -------------------------------
(***************************************************************************)
(* How a message comes out of the bytes of a pipe: parse_request of        *)
(* json_rpc.c, byte by byte, and the frames it gets.                       *)
(*                                                                         *)
(* C                          here                                         *)
(* fd, at its place           input, the bytes that were written and are   *)
(*                            not read yet                                 *)
(* buf, buflen                reader.line.  No test keeps a line within    *)
(*                            buf: a byte behind its end is stored like    *)
(*                            any other.  What it overwrites there is not  *)
(*                            modelled; state is "overrun", and the run    *)
(*                            ends.                                        *)
(* *content_length            reader.length, Unset until it is assigned    *)
(* content_buf, up to i       reader.body                                  *)
(* return NULL                state = "stopped": language_server_loop ends *)
(* return content_buf         the content is appended to got, and the next *)
(*                            call of json_rpc_server_step begins          *)
(*                                                                         *)
(* The bytes are numbers; the sixteen of the field name and its colon, in  *)
(* any case, are one, Field.  No other line is a proper prefix of the      *)
(* name, so the memcmp never sees what an earlier line left in buf.        *)
(* Lengths are far below what overflows an int.                            *)
(***************************************************************************)
EXTENDS Integers, Sequences

CONSTANTS
    Bodies,      \* the contents of messages
    Extra,       \* the other header lines of clients, without their line end
    Leftover,    \* the lengths an uninitialised content_length may hold
    BufSize,     \* sizeof(buf), where Field counts as one byte
    MaxFrames    \* bound on the frames written

LF == 10
CR == 13
Field == 1000
Unset == -1

\* What a byte of the pipe is.
Symbol == (0 .. 255) \cup {Field}

VARIABLES
    input,     \* the bytes in the pipe
    closed,    \* the writer has closed its end
    reader,    \* parse_request
    got,       \* the contents it has returned (a history variable)
    sent       \* the frames that were written (a history variable)

vars == <<input, closed, reader, got, sent>>

\* The local variables, at the start of a call.
Fresh == [state |-> "header", line |-> <<>>, length |-> Unset, body |-> <<>>]

Init == /\ input = <<>>
        /\ closed = FALSE
        /\ reader = Fresh
        /\ got = <<>>
        /\ sent = <<>>

-----------------------------------------------------------------------------
(***************************************************************************)
(* The frames.                                                             *)
(***************************************************************************)
Digits == 48 .. 57

\* The decimal digits of a number: those of what is left of it when the last
\* digits are taken away.
Decimal(n) ==
    LET left[k \in 0 .. n + 1] == IF k = 0 THEN n ELSE left[k - 1] \div 10
        length == CHOOSE k \in 1 .. n + 1 : /\ left[k] = 0
                                            /\ k > 1 => left[k - 1] # 0
    IN  [i \in 1 .. length |-> 48 + (left[length - i] % 10)]

LineEnd == <<CR, LF>>

\* A frame of the protocol, with another header line before or after.
Plain(body, extra) ==
    LET length == <<Field>> \o Decimal(Len(body)) \o LineEnd
        other == IF extra.line = <<>> THEN <<>> ELSE extra.line \o LineEnd
    IN  (IF extra.first THEN other \o length ELSE length \o other)
          \o LineEnd \o body

\* Mutant: counts what it writes.
json_rpc_write_response_counted(body) ==
    <<Field>> \o Decimal(Len(body) + 2) \o LineEnd \o LineEnd \o body \o LineEnd

\* The response that this program writes: the length is the size that
\* json_write_minified reports, its terminating NUL included, and a line end
\* follows the body.
json_rpc_write_response(body) ==
    <<Field>> \o Decimal(Len(body) + 1) \o LineEnd \o LineEnd \o body \o LineEnd

\* A header line of a client fits into buf and has no line end in it.
ASSUME FramesAssumption ==
    /\ Bodies \subseteq Seq(Symbol)
    /\ \A body \in Bodies : /\ Len(Decimal(Len(body))) < BufSize
                            /\ Len(Decimal(Len(body) + 1)) < BufSize
    /\ Extra \subseteq Seq(Symbol \ {CR, LF})
    /\ \A line \in Extra : Len(line) <= BufSize /\ (line # <<>> => Head(line) # Field)
    /\ Leftover \subseteq Nat
    /\ BufSize \in Nat

NoExtra == [line |-> <<>>, first |-> FALSE]

\* Of each kind: what clients send, the same with a line end after the body,
\* as the tests write requests, and the responses.
Frames == [kind : {"plain"}, body : Bodies,
           extra : [line : Extra, first : BOOLEAN] \cup {NoExtra}]
            \cup [kind : {"trailed", "response"}, body : Bodies, extra : {NoExtra}]

Bytes(frame) ==
    CASE frame.kind = "plain" -> Plain(frame.body, frame.extra)
      [] frame.kind = "trailed" -> Plain(frame.body, frame.extra) \o LineEnd
      [] frame.kind = "response" -> json_rpc_write_response(frame.body)

Write == /\ ~closed
         /\ Len(sent) < MaxFrames
         /\ \E frame \in Frames :
               /\ sent' = Append(sent, frame)
               /\ input' = input \o Bytes(frame)
         /\ UNCHANGED <<closed, reader, got>>

\* The writer ends, between two frames or in the middle of one.
Close == /\ ~closed
         /\ closed' = TRUE
         /\ \/ UNCHANGED input
            \/ \E body \in Bodies :
                  LET bytes == Plain(body, NoExtra)
                  IN  \E n \in 1 .. Len(bytes) - 1 :
                         input' = input \o SubSeq(bytes, 1, n)
         /\ UNCHANGED <<reader, got, sent>>

-----------------------------------------------------------------------------
(***************************************************************************)
(* parse_request.                                                          *)
(***************************************************************************)

\* Mutant: adds the digits.
atoi_len_sum(str) ==
    LET ret[i \in 0 .. Len(str)] ==
            IF i = 0 THEN 0 ELSE ret[i - 1] + (str[i] - 48)
    IN  ret[Len(str)]

\* The number that the digits at the start of str stand for.
atoi_len(str) ==
    LET digits == CHOOSE n \in 0 .. Len(str) :
                     /\ \A i \in 1 .. n : str[i] \in Digits
                     /\ n < Len(str) => str[n + 1] \notin Digits
        ret[i \in 0 .. digits] ==
            IF i = 0 THEN 0 ELSE ret[i - 1] * 10 + (str[i] - 48)
    IN  ret[digits]

\* A byte is there, in this part of a frame.
Reads(part) == reader.state = part /\ input # <<>>

Consume(r) == /\ input' = Tail(input)
            /\ reader' = r
            /\ UNCHANGED <<closed, got, sent>>

Stopped == [Fresh EXCEPT !.state = "stopped"]

\* A line of the header: buf[buflen++] = tolower(c), wherever that is.
HeaderByte ==
    /\ Reads("header")
    /\ Head(input) \notin {CR, LF}
    /\ LET line == Append(reader.line, Head(input))
       IN  Consume([reader EXCEPT !.line = line,
                                  !.state = IF Len(line) > BufSize THEN "overrun"
                                                                   ELSE @])

HeaderReturn == Reads("header") /\ Head(input) = CR /\ Consume(reader)

\* Mutant: keeps the line.
HeaderLine_kept ==
    /\ Reads("header")
    /\ Head(input) = LF
    /\ reader.line # <<>>
    /\ IF Head(reader.line) # Field THEN Consume(reader)
       ELSE IF Len(reader.line) = 1 THEN Consume(Stopped)
       ELSE Consume([reader EXCEPT !.length = atoi_len(Tail(reader.line))])

HeaderLine ==
    /\ Reads("header")
    /\ Head(input) = LF
    /\ reader.line # <<>>
    /\ LET rest == [reader EXCEPT !.line = <<>>]
       IN  IF Head(reader.line) # Field THEN Consume(rest)
           ELSE IF Len(reader.line) = 1 THEN Consume(Stopped)
           ELSE Consume([rest EXCEPT !.length = atoi_len(Tail(reader.line))])

\* The empty line.  A length that was not assigned is any, too large for
\* malloc or not.
HeaderEnds ==
    /\ Reads("header")
    /\ Head(input) = LF
    /\ reader.line = <<>>
    /\ \/ /\ reader.length # Unset
          /\ Consume([reader EXCEPT !.state = "body"])
       \/ /\ reader.length = Unset
          /\ \/ \E n \in Leftover :
                   Consume([reader EXCEPT !.state = "body", !.length = n])
             \/ Consume(Stopped)

\* Mutant: reads the byte at the place of the terminator, too.
BodyByte_one_more ==
    /\ Reads("body")
    /\ Len(reader.body) <= reader.length
    /\ Consume([reader EXCEPT !.body = Append(@, Head(input))])

BodyByte ==
    /\ Reads("body")
    /\ Len(reader.body) < reader.length
    /\ Consume([reader EXCEPT !.body = Append(@, Head(input))])

Deliver == /\ reader.state = "body"
           /\ Len(reader.body) = reader.length
           /\ got' = Append(got, reader.body)
           /\ reader' = Fresh
           /\ UNCHANGED <<input, closed, sent>>

\* Mutant: does not look for the end in a body.
InputEnds_in_header == /\ closed
                       /\ input = <<>>
                       /\ reader.state = "header"
                       /\ reader' = Stopped
                       /\ UNCHANGED <<input, closed, got, sent>>

\* c == EOF
InputEnds == /\ closed
             /\ input = <<>>
             /\ \/ reader.state = "header"
                \/ reader.state = "body" /\ Len(reader.body) < reader.length
             /\ reader' = Stopped
             /\ UNCHANGED <<input, closed, got, sent>>

parse_request == \/ HeaderByte \/ HeaderReturn \/ HeaderLine \/ HeaderEnds
                 \/ BodyByte \/ Deliver \/ InputEnds

Next == Write \/ Close \/ parse_request

\* A read returns when there is a byte, or the end; the writer need not write.
Fairness == WF_vars(parse_request)

Spec == Init /\ [][Next]_vars /\ Fairness

-----------------------------------------------------------------------------
(***************************************************************************)
(* Properties.                                                             *)
(***************************************************************************)

\* Type invariant: no byte of a body is stored behind the end of the buffer
\* that malloc returned for it, and a byte behind buf only in an overrun.
TypeOK ==
    /\ input \in Seq(Symbol)
    /\ closed \in BOOLEAN
    /\ reader.state \in {"header", "body", "stopped", "overrun"}
    /\ Len(reader.line) > BufSize <=> reader.state = "overrun"
    /\ reader.length = Unset \/ reader.length >= Len(reader.body)

\* Nothing has come after the body of any frame but another frame.
InStep == \A i \in DOMAIN sent : sent[i].kind = "plain"

\* What a reader that counts as the writer does takes frame i for.
Content(i) == IF sent[i].kind = "response" THEN Append(sent[i].body, CR)
                                           ELSE sent[i].body

\* The contents that parse_request returns are the bodies of the frames, in
\* their order, whole, each once, whatever bytes they consist of, up to the
\* first frame that a line end follows, which is returned as well.
InOrder ==
    /\ \A i \in DOMAIN got :
          (\A j \in 1 .. i - 1 : j \in DOMAIN sent => sent[j].kind = "plain") =>
             i \in DOMAIN sent /\ got[i] = Content(i)

\* The length is assigned before it is used; no body is read as a header
\* line, so that buf is large enough; and the program does not stop before the
\* end of the input.  Only a line end after some body, which is taken for the
\* end of a header, undoes this.
KeepsInStep ==
    InStep => /\ ~(/\ Reads("header") /\ Head(input) = LF
                   /\ reader.line = <<>> /\ reader.length = Unset)
              /\ reader.state # "overrun"
              /\ reader.state = "stopped" => closed /\ input = <<>>

\* Every frame that is written is returned, without waiting for the next one,
\* as long as nothing follows a body.
FramesDelivered ==
    \A n \in 1 .. MaxFrames :
        (Len(sent) >= n /\ InStep) ~> (Len(got) >= n \/ ~InStep)

\* When the client is gone, however it ended, parse_request returns NULL, and
\* the program ends with it, for no stream of frames it hangs.
ReaderEnds == closed ~> reader.state \in {"stopped", "overrun"}
=============================================================================
