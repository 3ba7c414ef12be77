---------------------------- MODULE SchemaGraph ----------------------------
(***************************************************************************)
(* The schema graph of src/store/schemagraph.go.                           *)
(*                                                                         *)
(* A declared schema is a sequence of tables; a table is a record with a   *)
(* name, explicit joins, the `single` flag, its declared fields and its    *)
(* nested tables (core.Table).  NewSchemaGraph builds one node per table   *)
(* name (createFrom), the list of root nodes, and the edges (connectFrom / *)
(* addEdgeFromJoin); Traverse visits the nodes depth first.                *)
(*                                                                         *)
(* Nodes are identified by table name: createFrom stores the nodes in a    *)
(* map keyed by name, and every later step (roots, connectFrom, the        *)
(* traversal) looks nodes up in that map, so a table declared twice is one *)
(* node whose Table is the last declaration.                               *)
(*                                                                         *)
(* Builds is a set of independent builds of the same declared schema; each *)
(* build is NewSchemaGraph on the declared list, or newSchemaGraphFromMap  *)
(* on the same top-level tables taken out of a Go map in any order.        *)
(***************************************************************************)
EXTENDS Naturals, Sequences, SequencesExt, FiniteSets

CONSTANTS
    Decls,      \* the declared schemas the program may be given
    Builds      \* identifiers of independent graph builds

VARIABLES
    tables,     \* the declared schema (core.Tables)
    graph,      \* graph[b]: the SchemaGraph of build b, or NoGraph
    buildErr,   \* buildErr[b]: NewSchemaGraph returned an error
    order       \* order[b]: the nodes in the order Traverse visited them

vars == <<tables, graph, buildErr, order>>

\* RelType (schemagraph.go:25-29)
OneToOne  == "OneToOne"
OneToMany == "OneToMany"
BelongsTo == "BelongsTo"
RelTypes  == {OneToOne, OneToMany, BelongsTo}

\* SchemaEdge.isScalar: the edge's target is a single object, not a list
isScalar(e) == e.rel # OneToMany

\* SchemaNode.Edge: the first of node n's edges to the named node, the
\* lookup a resolver makes; NoEdge stands for its error return.
NoEdge == [node |-> "<nil>", rel |-> "<none>"]
Edge(edges, n, node) ==
    LET to == SelectSeq(edges[n], LAMBDA e : e.node = node)
    IN IF to = <<>> THEN NoEdge ELSE Head(to)

NoGraph  == [none |-> TRUE]
NoParent == "<nil>"
NotTraversed == <<"<not traversed>">>

-----------------------------------------------------------------------------
(* createFrom: the names of all tables, nested ones included, in           *)
(* pre-order, and the Table each name's node holds (the last one stored).  *)

RECURSIVE TableSeq(_)
TableSeq(ts) ==
    IF ts = <<>> THEN <<>>
    ELSE <<Head(ts)>> \o TableSeq(Head(ts).tables) \o TableSeq(Tail(ts))

createFrom(ts) ==
    LET all == TableSeq(ts)
        lastOf(n) == all[CHOOSE i \in 1..Len(all) :
                            /\ all[i].name = n
                            /\ \A j \in i+1..Len(all) : all[j].name # n]
    IN [n \in {all[i].name : i \in 1..Len(all)} |-> lastOf(n)]

(* addEdgeFromJoin: the parent gets an edge to the child (OneToOne when   *)
(* the join is single, OneToMany otherwise), the child a BelongsTo edge   *)
(* back; both appended at the end of the node's edge list.                *)
addEdgeFromJoin(edges, parent, child, unique) ==
    LET toChild == [node |-> child, rel |-> IF unique THEN OneToOne ELSE OneToMany]
        e1 == [edges EXCEPT ![parent] = Append(@, toChild)]
    IN  [e1 EXCEPT ![child] = Append(@, [node |-> parent, rel |-> BelongsTo])]

(* The explicit joins of one table: an unknown join target ends           *)
(* connectFrom with an error, the edges added so far stay (they are       *)
(* appended in place to the shared nodes).                                *)
\* Mutant: the unknown-join-target check of schemagraph.go:207 dropped.
RECURSIVE connectJoinsUnchecked(_, _, _, _)
connectJoinsUnchecked(nodes, name, joins, edges) ==
    IF joins = <<>> THEN [edges |-> edges, err |-> FALSE]
    ELSE connectJoinsUnchecked(nodes, name, Tail(joins),
             addEdgeFromJoin(edges, Head(joins).table, name, Head(joins).single))

RECURSIVE connectJoins(_, _, _, _)
connectJoins(nodes, name, joins, edges) ==
    IF joins = <<>> THEN [edges |-> edges, err |-> FALSE]
    ELSE IF Head(joins).table \notin DOMAIN nodes
         THEN [edges |-> edges, err |-> TRUE]
         ELSE connectJoins(nodes, name, Tail(joins),
                  addEdgeFromJoin(edges, Head(joins).table, name, Head(joins).single))

(* connectFrom: for every table its explicit joins, then the implicit     *)
(* join to the enclosing table, then the nested tables recursively.  The  *)
(* error of the recursive call is not looked at: it ends the nested loop  *)
(* and the loop of the caller goes on.                                    *)
RECURSIVE connectFrom(_, _, _, _)
connectFrom(nodes, ts, parent, edges) ==
    IF ts = <<>> THEN [edges |-> edges, err |-> FALSE]
    ELSE
    LET t  == Head(ts)
        r1 == connectJoins(nodes, t.name, t.joins, edges)
        e2 == IF parent = NoParent THEN r1.edges
              ELSE addEdgeFromJoin(r1.edges, parent, t.name, t.single)
        e3 == connectFrom(nodes, t.tables, t.name, e2).edges
    IN  IF r1.err THEN r1 ELSE connectFrom(nodes, Tail(ts), parent, e3)

(* The root nodes: the top-level tables without joins, in order.          *)
roots(ts) ==
    LET noJoins(t) == t.joins = <<>>
        rs == SelectSeq(ts, noJoins)
    IN  [i \in 1..Len(rs) |-> rs[i].name]

(* NewSchemaGraph: the graph and whether an error was returned.           *)
NewSchemaGraph(ts) ==
    LET nodes == createFrom(ts)
        r == connectFrom(nodes, ts, NoParent, [n \in DOMAIN nodes |-> <<>>])
    IN  [graph |-> [table |-> nodes, roots |-> roots(ts), edges |-> r.edges],
         err   |-> r.err]

-----------------------------------------------------------------------------
(* Traverse / visitSchemaNode: depth first from every root in order,      *)
(* following every edge in list order (BelongsTo edges included), each    *)
(* node visited once.  The visited set is the set of nodes in the order.  *)

RECURSIVE visitSchemaNode(_, _, _), visitEdges(_, _, _)
visitSchemaNode(g, n, seen) == visitEdges(g, g.edges[n], Append(seen, n))

visitEdges(g, es, seen) ==
    IF es = <<>> THEN seen
    ELSE visitEdges(g, Tail(es),
             IF Head(es).node \in ToSet(seen) THEN seen
             ELSE visitSchemaNode(g, Head(es).node, seen))

\* Mutant: the root loop without the visited check of schemagraph.go:84.
RECURSIVE visitRootsUnchecked(_, _, _)
visitRootsUnchecked(g, rs, seen) ==
    IF rs = <<>> THEN seen
    ELSE visitRootsUnchecked(g, Tail(rs), visitSchemaNode(g, Head(rs), seen))

RECURSIVE visitRoots(_, _, _)
visitRoots(g, rs, seen) ==
    IF rs = <<>> THEN seen
    ELSE visitRoots(g, Tail(rs),
             IF Head(rs) \in ToSet(seen) THEN seen
             ELSE visitSchemaNode(g, Head(rs), seen))

Traverse(g) == visitRoots(g, g.roots, <<>>)

-----------------------------------------------------------------------------
Init ==
    /\ tables \in Decls
    /\ graph = [b \in Builds |-> NoGraph]
    /\ buildErr = [b \in Builds |-> FALSE]
    /\ order = [b \in Builds |-> NotTraversed]

(* NewSchemaGraph(tables) (schemagraph.go:162-187).                       *)
BuildGraph(b) ==
    /\ graph[b] = NoGraph
    /\ LET r == NewSchemaGraph(tables)
       IN  /\ graph' = [graph EXCEPT ![b] = r.graph]
           /\ buildErr' = [buildErr EXCEPT ![b] = r.err]
    /\ UNCHANGED <<tables, order>>

(* newSchemaGraphFromMap (schemagraph.go:152-158): the tables are kept in *)
(* a map keyed by name and copied into a list in Go's map iteration       *)
(* order, which is unspecified: any permutation of the top-level tables.  *)
(* A map holds one table per name, so the top-level names are distinct.   *)
BuildGraphFromMap(b) ==
    /\ graph[b] = NoGraph
    /\ IsInjective([i \in DOMAIN tables |-> tables[i].name])
    /\ \E perm \in SetToSeqs(DOMAIN tables) :
        LET r == NewSchemaGraph([i \in DOMAIN tables |-> tables[perm[i]]])
        IN  /\ graph' = [graph EXCEPT ![b] = r.graph]
            /\ buildErr' = [buildErr EXCEPT ![b] = r.err]
    /\ UNCHANGED <<tables, order>>

(* Traverse (schemagraph.go:80-112) of a graph built without error.       *)
TraverseGraph(b) ==
    /\ graph[b] # NoGraph
    /\ ~buildErr[b]
    /\ order[b] = NotTraversed
    /\ order' = [order EXCEPT ![b] = Traverse(graph[b])]
    /\ UNCHANGED <<tables, graph, buildErr>>

Done ==
    /\ \A b \in Builds : graph[b] # NoGraph
    /\ \A b \in Builds : ~buildErr[b] => order[b] # NotTraversed
    /\ UNCHANGED vars

Next ==
    \/ \E b \in Builds : BuildGraph(b) \/ BuildGraphFromMap(b) \/ TraverseGraph(b)
    \/ Done

Spec == Init /\ [][Next]_vars

-----------------------------------------------------------------------------
(* Helpers for the properties.                                            *)

Declared(ts) == {TableSeq(ts)[i].name : i \in 1..Len(TableSeq(ts))}

\* the directed edge relation of a built graph
EdgeSet(g) == UNION {{<<n, e.node>> : e \in ToSet(g.edges[n])} : n \in DOMAIN g.edges}

\* the nodes reachable from the roots over the edges
RECURSIVE Closure(_, _)
Closure(E, S) ==
    LET S2 == S \cup {e[2] : e \in {e \in E : e[1] \in S}}
    IN  IF S2 = S THEN S ELSE Closure(E, S2)

ReachableFromRoots(g) == Closure(EdgeSet(g), ToSet(g.roots))

Traversed(b) == graph[b] # NoGraph /\ ~buildErr[b] /\ order[b] # NotTraversed

-----------------------------------------------------------------------------
(* Properties.                                                            *)

TypeOK ==
    /\ \A b \in Builds :
        \/ graph[b] = NoGraph
        \/ /\ DOMAIN graph[b].edges = DOMAIN graph[b].table
           /\ \A n \in DOMAIN graph[b].edges : \A e \in ToSet(graph[b].edges[n]) :
                /\ e.node \in DOMAIN graph[b].table
                /\ e.rel \in RelTypes
           /\ ToSet(graph[b].roots) \subseteq DOMAIN graph[b].table
    /\ buildErr \in [Builds -> BOOLEAN]

(* Traverse applies the callback to exactly the nodes reachable from the  *)
(* roots (graph.Nodes) over the edges, and to each of them once: the      *)
(* visited map checked both in the root loop and in visitSchemaNode keeps *)
(* a node shared by two roots (a child joined to a second root) from      *)
(* being visited twice.                                                   *)
TraverseVisitsReachableOnce ==
    \A b \in Builds : Traversed(b) =>
        /\ ToSet(order[b]) = ReachableFromRoots(graph[b])
        /\ Len(order[b]) = Cardinality(ToSet(order[b]))

(* Spec section 4.1: a schema whose joins form a cycle is rejected        *)
(* (CyclicSchema), and every table is reachable from a root.  Checked     *)
(* here as: a graph built without error is traversed to every declared    *)
(* table, since newGraphQLSchema only exposes the traversed tables.       *)
TraverseCoversSchema ==
    \A b \in Builds : Traversed(b) => ToSet(order[b]) = Declared(tables)

(* Spec section 4.1: a join to an undeclared table fails the build with   *)
(* UnknownJoinTarget, also when the joining table is nested.              *)
UnknownJoinRejected ==
    \A b \in Builds :
        (graph[b] # NoGraph /\ ~buildErr[b]) =>
            \A t \in ToSet(TableSeq(tables)) :
                \A j \in ToSet(t.joins) : j.table \in Declared(tables)

(* Spec sections 4.1 and 7: a schema that declares a table name twice,   *)
(* at the top level or nested, is rejected (DuplicateTable).  createFrom  *)
(* (schemagraph.go:189-195) keys the nodes by name, so a build that       *)
(* succeeds must have had distinct names.                                 *)
DuplicateTableRejected ==
    \A b \in Builds :
        (graph[b] # NoGraph /\ ~buildErr[b]) =>
            IsInjective([i \in 1..Len(TableSeq(tables)) |-> TableSeq(tables)[i].name])

=============================================================================
