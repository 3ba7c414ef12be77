---------------------------- MODULE AtomicStore ----------------------------
(***************************************************************************)
(* What the store facade (worker.go:188-279, see Store) promises its       *)
(* callers, with every operation one atomic step:                          *)
(*   Commit  - the provider commits a table set (p.Create);                *)
(*   Install - s.schema becomes the schema of tables the provider has      *)
(*             committed (or none), never of anything else;                *)
(*   Query   - a query is answered from the schema of one instant.         *)
(* It does not promise that the installed schema is the newest commit: the *)
(* Store installs schemas in the order their builds finish (see the       *)
(* QueryAfterCreateSeesIt run).                                            *)
(***************************************************************************)
EXTENDS Naturals, Sequences, SequencesExt

CONSTANT Clients

VARIABLES
    committed,  \* the table sets the provider has committed, in order
    schema,     \* the tables of the schema queries are answered from
    answered    \* answered[c]: the tables c's last query was answered from

avars == <<committed, schema, answered>>

\* the tables the provider has held: none, then those of every commit
Held == {<<>>} \cup ToSet(committed)

Init ==
    /\ committed = <<>>
    /\ schema = <<>>
    /\ answered = [c \in Clients |-> <<>>]

Commit ==
    /\ committed' # <<>>
    /\ Front(committed') = committed
    /\ UNCHANGED <<schema, answered>>

Install ==
    /\ \E ts \in Held : schema' = ts
    /\ UNCHANGED <<committed, answered>>

Query(c) ==
    /\ answered' = [answered EXCEPT ![c] = schema]
    /\ UNCHANGED <<committed, schema>>

Next == Commit \/ Install \/ \E c \in Clients : Query(c)

Spec == Init /\ [][Next]_avars
=============================================================================
