------------------------------- MODULE Mirror -------------------------------
(***************************************************************************)
(* What keeping texts in step promises: the server shows the documents as  *)
(* the client had them when it sent each of its messages, one after the    *)
(* other.  This holds until a message arrives in which the two mean        *)
(* different places, or the server breaks at one; from then on nothing is  *)
(* promised.                                                               *)
(***************************************************************************)
EXTENDS Naturals, Sequences

VARIABLES
    shown,      \* the documents of the server
    pending,    \* those of the client, at each message that is on its way
    trusted     \* every position so far has meant the same to both, and the
                \* server goes on

vars == <<shown, pending, trusted>>

Init == /\ shown = [path \in {} |-> {}]
        /\ pending = <<>>
        /\ trusted = TRUE

Send == /\ Len(pending') = Len(pending) + 1
        /\ SubSeq(pending', 1, Len(pending)) = pending
        /\ UNCHANGED <<shown, trusted>>

Due == trusted /\ pending # <<>>

Show == /\ Due
        /\ shown' = Head(pending)
        /\ pending' = Tail(pending)
        /\ UNCHANGED trusted

Drift == /\ trusted' = FALSE
         /\ UNCHANGED <<shown, pending>>

Astray == ~trusted /\ ~trusted'

Next == Send \/ Show \/ Drift \/ Astray

\* What is due is shown: the weak fairness of Show, which is enabled if Due.
Fairness == []<>~Due \/ []<><<Show>>_vars

Spec == Init /\ [][Next]_vars /\ Fairness
=============================================================================
