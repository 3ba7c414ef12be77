--------------------------- MODULE GraphQLSchema ---------------------------
(***************************************************************************)
(* The GraphQL schema builder of src/store/graphql.go (newGraphQLSchema,   *)
(* addGraphFields, addGraphEdges, graphQLFieldType) over the schema graph  *)
(* of SchemaGraph.                                                         *)
(*                                                                         *)
(* newGraphQLSchema traverses the graph twice: the first pass makes one    *)
(* object type per visited table with a field per declared field and _id; *)
(* the second adds to each type a field per edge, named after the target  *)
(* table.  The query type has a list field per type built.  A type is     *)
(* abstracted to its fields: a field name maps to a scalar type name or    *)
(* to an edge field (the target's object type, as a list or not).  The    *)
(* argument set of a type maps each argument to its type: the fields and  *)
(* _id, the filter and order_by input objects (their members), filter_on, *)
(* first and last.                                                         *)
(***************************************************************************)
EXTENDS SchemaGraph

CONSTANT Literals   \* GraphQL input literals given to the Map scalar

VARIABLES
    gql,    \* gql[b]: the schema newGraphQLSchema built from graph[b]
    parsed  \* parsed[b]: a literal a query gave a Map argument of gql[b]
            \* and the value ParseLiteral made of it (history)

gvars == <<vars, gql, parsed>>

NoGQL   == [none |-> TRUE]
NilType == "<nil>"      \* the Type of the zero gqlField of an unbuilt table

tableIDField == "_id"

(* graphQLFieldType (graphql.go:161-176): List, and every other cty type  *)
(* without a case, panics.                                                *)
ScalarOf == [Bool |-> "Boolean", Number |-> "Int", String |-> "String",
             Object |-> "Map", Map |-> "Map"]
graphQLFieldType(f) == IF f.type \in DOMAIN ScalarOf THEN ScalarOf[f.type] ELSE "panic"

Scalar(name) == [kind |-> "scalar", name |-> name]

(* addGraphFields (graphql.go:84-139): the fields of table t's type.  A   *)
(* later field of the same name replaces an earlier one, and _id (String) *)
(* replaces a declared _id.                                               *)
addGraphFields(t) ==
    LET names == {t.fields[k].name : k \in DOMAIN t.fields}
        lastNamed(n) == t.fields[SelectLastInSeq(t.fields, LAMBDA f : f.name = n)]
    IN  [n \in names \cup {tableIDField} |->
            IF n = tableIDField THEN Scalar("String")
            ELSE Scalar(graphQLFieldType(lastNamed(n)))]

\* the filter operators (graphql.go:188-207)
ScalarFilters == {"_gt", "_lt", "_gte", "_lte"}
ListFilters   == {"_in", "_not_in"}

(* graphQLFilterType (graphql.go:230-257): a member n+f for each argument  *)
(* n given and each operator, of n's type (a list of it for _in and       *)
(* _not_in).  When two pairs concatenate to one member (x with _not_in,   *)
(* x_not with _in) Go's map order decides; the model takes one of them.   *)
graphQLFilterType(args) ==
    LET pairs == {<<n, f>> : n \in DOMAIN args, f \in ScalarFilters \cup ListFilters}
        of(m) == CHOOSE p \in pairs : p[1] \o p[2] = m
    IN  [m \in {p[1] \o p[2] : p \in pairs} |->
            [list |-> of(m)[2] \in ListFilters, of |-> args[of(m)[1]]]]

\* graphQLOrderType (graphql.go:209-227): a member per field of the type
graphQLOrderType(typeFields) == DOMAIN typeFields

FixedArgs(filterArgs, typeFields) ==
    [filter    |-> [kind |-> "filter", members |-> graphQLFilterType(filterArgs)],
     order_by  |-> [kind |-> "order", members |-> graphQLOrderType(typeFields)],
     filter_on |-> Scalar("Boolean"), first |-> Scalar("Int"), last |-> Scalar("Int")]

(* The argument set addGraphFields builds (graphql.go:94-125): an argument *)
(* per field and _id, of the field's type (the same map as the type's     *)
(* fields), then filter over those arguments, order_by over the fields,   *)
(* filter_on, first and last, which replace fields of those names.       *)
graphQLArgs(t) ==
    LET ty == addGraphFields(t)
    IN  FixedArgs(ty, ty) @@ ty

(* addGraphEdges (graphql.go:142-158): for each edge of node n in order,  *)
(* AddFieldConfig sets the field named after the target on n's type; a   *)
(* later edge to the same target, or an edge to a table named like one of *)
(* n's fields, replaces that field.  The target's type is read from the   *)
(* fields built so far (nil if the target has none yet).                  *)
(* The field carries the target's argument set (nil for an unbuilt one).  *)
edgeField(g, types, e) ==
    [kind |-> "edge",
     of   |-> IF e.node \in DOMAIN types THEN e.node ELSE NilType,
     list |-> ~isScalar(e),
     args |-> IF e.node \in DOMAIN types THEN graphQLArgs(g.table[e.node]) ELSE <<>>]

addGraphEdges(g, n, types) ==
    FoldLeft(LAMBDA ty, e : [ty EXCEPT ![n] = (e.node :> edgeField(g, ty, e)) @@ @],
             types, g.edges[n])

EmptySchema == [types |-> <<>>, args |-> <<>>, query |-> {}, panics |-> FALSE]

\* Mutant: fields and edges added in one traversal.
newGraphQLSchemaOnePass(g) ==
    IF g.roots = <<>> THEN EmptySchema
    ELSE LET ord == Traverse(g)
             both(ty, n) == addGraphEdges(g, n, (n :> addGraphFields(g.table[n])) @@ ty)
             types == FoldLeft(both, <<>>, ord)
         IN  [types  |-> types,
              args   |-> [n \in DOMAIN types |-> graphQLArgs(g.table[n])],
              query  |-> DOMAIN types,
              panics |-> \E n \in DOMAIN types : \E k \in DOMAIN g.table[n].fields :
                            graphQLFieldType(g.table[n].fields[k]) = "panic"]

(* newGraphQLSchema (graphql.go:31-79): an empty schema when the graph    *)
(* has no root nodes; else the two traversals and a query field per type  *)
(* built.  A panic of graphQLFieldType ends the build.                    *)
newGraphQLSchema(g) ==
    IF g.roots = <<>> THEN EmptySchema
    ELSE LET ord   == Traverse(g)
             pass1 == [n \in ToSet(ord) |-> addGraphFields(g.table[n])]
             types == FoldLeft(LAMBDA ty, n : addGraphEdges(g, n, ty), pass1, ord)
         IN  [types  |-> types,
              args   |-> [n \in DOMAIN types |-> graphQLArgs(g.table[n])],
              query  |-> DOMAIN types,
              panics |-> \E n \in DOMAIN types : \E k \in DOMAIN g.table[n].fields :
                            graphQLFieldType(g.table[n].fields[k]) = "panic"]

-----------------------------------------------------------------------------
(* The Map scalar (graphql.go:258-307).  A literal (ast.Value) is a record *)
(* of its kind, its text (scalars), its fields (objects: name and value)  *)
(* and its items (lists).  A decoded Go value is a record of one shape    *)
(* whatever its kind: the text of a scalar, the entries of a map as a set *)
(* of <<key, value>> pairs, the elements of a list.                       *)
ScalarKinds == {"String", "Boolean", "Int", "Float"}

Decoded(k, s, m, l) == [k |-> k, s |-> s, m |-> m, l |-> l]
Nil == Decoded("nil", "", {}, <<>>)

\* obj[key] = val: the map without key's entry, then the new one
PutEntry(m, key, val) == {e \in m : e[1] # key} \cup {<<key, val>>}

(* parseValueToMap: a scalar becomes its literal text (GetValue; an Int   *)
(* stays a string), an object the map of its fields in order, so a       *)
(* repeated name keeps its last value, a list the list of its items, and  *)
(* any other kind (enum, variable, null) nil.                             *)
RECURSIVE parseValueToMap(_)
parseValueToMap(a) ==
    CASE a.kind \in ScalarKinds -> Decoded("scalar", a.text, {}, <<>>)
      [] a.kind = "Object" ->
            Decoded("map", "", FoldLeft(LAMBDA m, f :
                PutEntry(m, f.name, parseValueToMap(f.value)), {}, a.fields), <<>>)
      [] a.kind = "List" ->
            Decoded("list", "", {}, [i \in DOMAIN a.items |-> parseValueToMap(a.items[i])])
      [] OTHER -> Nil

\* mapScalar's ParseLiteral: nil unless the literal is an object
ParseLiteral(a) == IF a.kind # "Object" THEN Nil ELSE parseValueToMap(a)

-----------------------------------------------------------------------------
NoParse == [none |-> TRUE]

GInit ==
    /\ Init
    /\ gql = [b \in Builds |-> NoGQL]
    /\ parsed = [b \in Builds |-> NoParse]

(* newGraphQLSchema on a graph built without error.                       *)
BuildGraphQL(b) ==
    /\ graph[b] # NoGraph
    /\ ~buildErr[b]
    /\ gql[b] = NoGQL
    /\ gql' = [gql EXCEPT ![b] = newGraphQLSchema(graph[b])]
    /\ UNCHANGED <<vars, parsed>>

(* A query against the built schema gives a literal to an argument of     *)
(* type Map (graphQLArgs makes every Map field one): graphql.Do coerces   *)
(* it with mapScalar's ParseLiteral.                                      *)
QueryMapArgument(b) ==
    /\ gql[b] # NoGQL /\ ~gql[b].panics
    /\ parsed[b] = NoParse
    /\ \E n \in DOMAIN gql[b].types : Scalar("Map") \in Range(gql[b].types[n])
    /\ \E a \in Literals : parsed' = [parsed EXCEPT ![b] = [lit |-> a, val |-> ParseLiteral(a)]]
    /\ UNCHANGED <<vars, gql>>

GDone ==
    /\ \A b \in Builds : graph[b] # NoGraph /\ (~buildErr[b] => gql[b] # NoGQL)
    /\ Done
    /\ UNCHANGED <<gql, parsed>>

GNext ==
    \/ (\E b \in Builds : BuildGraph(b) \/ BuildGraphFromMap(b) \/ TraverseGraph(b))
       /\ UNCHANGED <<gql, parsed>>
    \/ \E b \in Builds : BuildGraphQL(b) \/ QueryMapArgument(b)
    \/ GDone

GSpec == GInit /\ [][GNext]_gvars

-----------------------------------------------------------------------------
(* Properties.                                                            *)

Built(b) == gql[b] # NoGQL /\ ~gql[b].panics

(* Spec 4.4 and the edge scalar rule of section 8: every edge of a        *)
(* visited table is a field of its type named after the target, whose    *)
(* type is the target's object, and a list exactly when the edge is       *)
(* OneToMany.  A resolver finds the edge behind a field with             *)
(* SchemaNode.Edge, the first edge to the target: the field is a list     *)
(* exactly when that edge is OneToMany, and so is every edge to it.       *)
EdgeScalarRule ==
    \A b \in Builds : Built(b) =>
        \A n \in DOMAIN gql[b].types : \A e \in ToSet(graph[b].edges[n]) :
            LET found == Edge(graph[b].edges, n, e.node) IN
            /\ e.node \in DOMAIN gql[b].types[n]
            /\ gql[b].types[n][e.node].kind = "edge"
            /\ gql[b].types[n][e.node].list = (found.rel = OneToMany)
            /\ (e.rel = OneToMany) = (found.rel = OneToMany)

(* Every edge field refers to an object type the query exposes, never to *)
(* the nil Type of a table not built yet: newGraphQLSchema adds the edges *)
(* in a second traversal, after every visited table has its type, and a   *)
(* node's targets are visited whatever the order.                          *)
EdgeTargetsBuilt ==
    \A b \in Builds : Built(b) =>
        \A n \in DOMAIN gql[b].types : \A f \in DOMAIN gql[b].types[n] :
            gql[b].types[n][f].kind = "edge" => gql[b].types[n][f].of \in gql[b].query

(* Spec 4.4: the object type of a table has one field per declared field  *)
(* (plus _id), of the GraphQL scalar of the field's type; addGraphEdges   *)
(* must not overwrite it with an edge field of the same name.             *)
DeclaredFieldsExposed ==
    \A b \in Builds : Built(b) =>
        \A n \in DOMAIN gql[b].types : \A k \in DOMAIN graph[b].table[n].fields :
            LET f == graph[b].table[n].fields[k]
            IN  gql[b].types[n][f.name] = Scalar(ScalarOf[f.type])

=============================================================================
