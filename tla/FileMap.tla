------------------------------ MODULE FileMap -------------------------------
(***************************************************************************)
(* What the file system promises, whatever its representation: a document  *)
(* for each open path.  A step opens, edits, renumbers or closes one       *)
(* document and leaves every other one alone; an edit keeps the version    *)
(* and a new version keeps the text.                                       *)
(***************************************************************************)
VARIABLE docs    \* a function from the open paths to [version, text]

Init == docs = [p \in {} |-> {}]

\* The documents of these paths stay as they are.
Keep(paths) == \A p \in paths : docs'[p] = docs[p]

Open == \E p \in DOMAIN docs' \ DOMAIN docs :
           /\ DOMAIN docs' = DOMAIN docs \cup {p}
           /\ Keep(DOMAIN docs)

Edit == \E p \in DOMAIN docs :
           /\ DOMAIN docs' = DOMAIN docs
           /\ docs'[p].version = docs[p].version
           /\ Keep(DOMAIN docs \ {p})

Renumber == \E p \in DOMAIN docs :
               /\ DOMAIN docs' = DOMAIN docs
               /\ docs'[p].text = docs[p].text
               /\ Keep(DOMAIN docs \ {p})

Close == \E p \in DOMAIN docs :
            /\ DOMAIN docs' = DOMAIN docs \ {p}
            /\ Keep(DOMAIN docs \ {p})

Next == Open \/ Edit \/ Renumber \/ Close

Spec == Init /\ [][Next]_docs
=============================================================================
