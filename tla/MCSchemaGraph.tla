--------------------------- MODULE MCSchemaGraph ---------------------------
(***************************************************************************)
(* Model of SchemaGraph for TLC: every declared schema of at most three    *)
(* tables over the names a, b, c, nested at most two deep, each table with *)
(* at most one explicit join to a, b, c or the undeclared x.               *)
(***************************************************************************)
EXTENDS SchemaGraph, TLC

CONSTANTS Names, Targets, Singles

Tbl(n, js, s, ts) == [name |-> n, joins |-> js, single |-> s, fields |-> <<>>, tables |-> ts]

JoinSeqs == {<<>>} \cup {<<[table |-> t, single |-> s]>> : t \in Targets, s \in Singles}

\* a table without nested tables; top-level tables ignore `single`
Leaf   == {Tbl(n, js, s, <<>>) : n \in Names, js \in JoinSeqs, s \in Singles}
TopLeaf == {Tbl(n, js, FALSE, <<>>) : n \in Names, js \in JoinSeqs}
With(T, kids) == {Tbl(n, js, s, k) : n \in Names, js \in JoinSeqs, s \in Singles, k \in kids}
TopWith(kids) == {Tbl(n, js, FALSE, k) : n \in Names, js \in JoinSeqs, k \in kids}

OneKid  == {<<l>> : l \in Leaf}
TwoKids == {<<l1, l2>> : l1, l2 \in Leaf}
Chain   == {<<t>> : t \in With(Leaf, OneKid)}

MCDecls ==
       {<<t>> : t \in TopLeaf}
  \cup {<<t1, t2>> : t1, t2 \in TopLeaf}
  \cup {<<t>> : t \in TopWith(OneKid)}
  \cup {<<t1, t2, t3>> : t1, t2, t3 \in TopLeaf}
  \cup {<<t1, t2>> : t1 \in TopWith(OneKid), t2 \in TopLeaf}
  \cup {<<t1, t2>> : t1 \in TopLeaf, t2 \in TopWith(OneKid)}
  \cup {<<t>> : t \in TopWith(TwoKids)}
  \cup {<<t>> : t \in TopWith(Chain)}

\* the declared schemas in which no table name is used twice
MCDeclsDistinct ==
    {d \in MCDecls : IsInjective([i \in 1..Len(TableSeq(d)) |-> TableSeq(d)[i].name])}

\* the distinct-name schemas whose joins all name a declared table
MCDeclsKnownJoins ==
    {d \in MCDeclsDistinct :
        \A t \in ToSet(TableSeq(d)) : \A j \in ToSet(t.joins) : j.table \in Declared(d)}

=============================================================================
