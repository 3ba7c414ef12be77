-------------------------- MODULE MCGraphQLSchema --------------------------
(***************************************************************************)
(* Model of GraphQLSchema for TLC: declared schemas of one or two          *)
(* top-level tables over the names a, b, c, or one with a nested table;  *)
(* each table has at most one join and at most one field.                *)
(***************************************************************************)
EXTENDS GraphQLSchema, TLC

CONSTANTS Names, Singles

\* no field, a String field named like the table b, a List field, a Map field
MCFieldSeqs == {<<>>, <<[name |-> "b", type |-> "String"]>>, <<[name |-> "f", type |-> "List"]>>,
                <<[name |-> "m", type |-> "Map"]>>}

Tbl(n, js, s, fs, ts) == [name |-> n, joins |-> js, single |-> s, fields |-> fs, tables |-> ts]

JoinSeqs == {<<>>} \cup {<<[table |-> t, single |-> s]>> : t \in Names, s \in Singles}

Leaf    == {Tbl(n, js, s, fs, <<>>) : n \in Names, js \in JoinSeqs, s \in Singles, fs \in MCFieldSeqs}
TopLeaf == {Tbl(n, js, FALSE, fs, <<>>) : n \in Names, js \in JoinSeqs, fs \in MCFieldSeqs}
TopWithKid == {Tbl(n, js, FALSE, fs, <<k>>) : n \in Names, js \in JoinSeqs, fs \in MCFieldSeqs, k \in Leaf}

\* the related pairs a schema declares: a nested table and its parent, a
\* table and the table it joins (at most one nesting level here)
Nestings(d) == SetToSeq(UNION {{{d[i].name, k.name} : k \in ToSet(d[i].tables)} : i \in DOMAIN d})
Joined(d)   == [i \in 1..Len(TableSeq(d)) |-> {TableSeq(d)[i].name} \cup {j.table : j \in ToSet(TableSeq(d)[i].joins)}]
Relationships(d) == Nestings(d) \o SelectSeq(Joined(d), LAMBDA p : Cardinality(p) = 2)

\* GraphQL literals: a string, an int and an enum, objects of up to two
\* fields named a and b, lists of up to two items, and objects of one
\* field holding one of these.  graphql-go's validation rejects an object
\* literal that repeats a field name, so none does.
Lit(k, t, fs, is) == [kind |-> k, text |-> t, fields |-> fs, items |-> is]
UpTo2(S) == {<<>>} \cup {<<x>> : x \in S} \cup {<<x, y>> : x, y \in S}
ScalarLits == {Lit("String", "s", <<>>, <<>>), Lit("Int", "1", <<>>, <<>>), Lit("Enum", "asc", <<>>, <<>>)}
Fields(V) == {[name |-> n, value |-> v] : n \in {"a", "b"}, v \in V}
FieldSeqs(V) == {fs \in UpTo2(Fields(V)) : Len(fs) = 2 => fs[1].name # fs[2].name}
Lits1 == ScalarLits \cup {Lit("Object", "", fs, <<>>) : fs \in FieldSeqs(ScalarLits)}
                    \cup {Lit("List", "", <<>>, is) : is \in UpTo2(ScalarLits)}
MCLiterals == Lits1 \cup {Lit("Object", "", <<f>>, <<>>) : f \in Fields(Lits1)}

\* distinct names, no table joining itself
MCDecls ==
    {d \in ({<<t>> : t \in TopLeaf} \cup {<<t1, t2>> : t1, t2 \in TopLeaf}
              \cup {<<t>> : t \in TopWithKid}) :
        /\ IsInjective([i \in 1..Len(TableSeq(d)) |-> TableSeq(d)[i].name])
        /\ \A t \in ToSet(TableSeq(d)) : \A j \in ToSet(t.joins) : j.table # t.name}

\* and no two tables related twice (by a join and a nesting, or both ways)
MCDeclsSimple == {d \in MCDecls : IsInjective(Relationships(d))}
====
