---------------------------- MODULE FieldRegister ---------------------------
(***************************************************************************)
(* What the offline synchronisation promises for the fields of the         *)
(* papers: edits are made anywhere, each is decided by the server once and *)
(* for good, and a field holds what the last applied edit (or the last     *)
(* online write) put there.                                                *)
(***************************************************************************)
CONSTANTS Edits, Editors, Keys, Values, NoValue, None, Server

VARIABLES
    edit,     \* per edit: its editor, key and value (None: not made)
    outcome,  \* per edit: "none", "applied" or "conflict"
    value,    \* per key: the current value
    author    \* per key: who put it there

vars == <<edit, outcome, value, author>>

FieldValue == Values \cup {NoValue}

Init ==
    /\ edit = [e \in Edits |-> None]
    /\ outcome = [e \in Edits |-> "none"]
    /\ value = [k \in Keys |-> NoValue]
    /\ author = [k \in Keys |-> Server]

Make(e, who, k, v) ==
    /\ edit[e] = None
    /\ edit' = [edit EXCEPT ![e] = [by |-> who, key |-> k, val |-> v]]
    /\ UNCHANGED <<outcome, value, author>>

\* An edit that repeats the current value leaves its author.
Apply(e) ==
    /\ edit[e] # None
    /\ outcome[e] = "none"
    /\ outcome' = [outcome EXCEPT ![e] = "applied"]
    /\ value' = [value EXCEPT ![edit[e].key] = edit[e].val]
    /\ author' = IF value[edit[e].key] = edit[e].val THEN author
                 ELSE [author EXCEPT ![edit[e].key] = edit[e].by]
    /\ UNCHANGED edit

Refuse(e) ==
    /\ edit[e] # None
    /\ outcome[e] = "none"
    /\ outcome' = [outcome EXCEPT ![e] = "conflict"]
    /\ UNCHANGED <<edit, value, author>>

OnlineWrite(k, v) ==
    /\ value' = [value EXCEPT ![k] = v]
    /\ author' = [author EXCEPT ![k] = Server]
    /\ UNCHANGED <<edit, outcome>>

Next ==
    \/ \E e \in Edits : Apply(e) \/ Refuse(e)
    \/ \E e \in Edits, who \in Editors, k \in Keys, v \in FieldValue : Make(e, who, k, v)
    \/ \E k \in Keys, v \in FieldValue : OnlineWrite(k, v)

Spec == Init /\ [][Next]_vars
=============================================================================
