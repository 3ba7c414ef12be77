# TLA+ models of bubbly

These modules model the parts of bubbly (`src/`) whose behaviour is decided by
control flow, concurrency and graph algorithms rather than by I/O. They are
checked with TLC. `PROJECT.json` lists the components, the runs, the mutants
that show each passing property can fail, the source lines each definition
translates, the findings and the hazards.

## The system

- **Schema graph** (`src/store/schemagraph.go`). `NewSchemaGraph` turns the
  declared tables (nested tables, joins) into a graph. It works in three steps:
  1. `createFrom` makes one node per table name.
  2. `connectFrom` adds a pair of edges per join and per nesting:
     `OneToMany`/`OneToOne` from the parent and `BelongsTo` back.
  3. The roots are the top-level tables without joins.

  `Traverse` walks the graph depth-first from the roots, visiting each node
  once. `newSchemaGraphFromMap` builds the same graph from a Go map.
- **GraphQL builder** (`src/store/graphql.go`). `newGraphQLSchema` traverses
  the graph twice. The first pass adds the object types and their fields, the
  second the edge fields. It also adds one query field per table. The Map
  scalar's `ParseLiteral` turns an object literal of a query into a Go map
  with `parseValueToMap`.
- **Store** (`src/agent/component/worker/worker.go` lines 188-279, package store, in the same file as the Worker). `Store` holds the GraphQL
  schema behind a `sync.RWMutex`:
  - `Query` holds the read lock for the whole `graphql.Do`; `Schema` holds it
    only to read `s.schema`.
  - `Create` calls the provider (`p.Create`, one CockroachDB transaction), then
    builds the schema. Both steps run without the lock; the write lock is
    taken only to assign `s.schema`.
  - `Save` does the same with the tables `p.Save` returns.
- **CockroachDB provider** (`src/store/cockroachdb.go`). Its Apply and Save
  run in `crdbpgx.ExecuteTx`. The SQL helpers they call are not in `src/`.
- **Worker** (`src/agent/component/worker/worker.go`). `Run` starts a
  goroutine and waits on a one-slot error channel or on the context. The
  channel is closed when `Run` returns.
- **Parser symbol table** (`src/parser/symbol_table.go`). This is a nested cty
  object map, with recursive `insert` and `lookup`.
- **Importer and apply** (`src/api/v1/importer.go`, `src/cmd/apply.go`,
  `src/bubbly/apply.go`). These decode, resolve and run resources, and stop at
  the first error.
- **Clients and server routes**. These are HTTP/NATS request code and are not
  modelled.

## Modules

| Module | Models | State | Actions |
|---|---|---|---|
| `SchemaGraph` | `schemagraph.go` | `tables` (the declaration given to a build), `graph`, `buildErr`, `order` (the traversal) | `BuildGraph` (NewSchemaGraph), `BuildGraphFromMap` (newSchemaGraphFromMap), `TraverseGraph` (Traverse) |
| `MCSchemaGraph` | `SchemaGraph`, instantiated for TLC | the declarations: every shape of up to 3 tables (nesting, joins to declared or undeclared tables, duplicate names) | |
| `Store` | `Store` and the provider | `pc`/`opsLeft` per client, `arg`/`built` (the tables a call builds for), `provider`, `schema`, `readers`/`writer` (the RWMutex), history variables `committed`, `applied`, `qschema`, `answered`; `restarts` | `QueryStart`, `QueryRLock`, `QueryDo`, `SchemaStart`, `SchemaRead`, `CreateStart`, `CreateProvider`, `SaveStart`, `SaveProvider`, `Build`, `WriteLock`, `Assign`, `Restart` (New) |
| `AtomicStore` | what the Store promises: each Commit, Install and Query one atomic step | `committed`, `schema`, `answered` | `Commit`, `Install`, `Query` |
| `MCStore` | `Store`, instantiated for TLC | | |
| `GraphQLSchema` | `graphql.go`, extends `SchemaGraph` | `gql` (the schema built from each graph: object types as field maps, argument sets with the filter and order_by members, query fields, whether a List field panicked); `parsed` (a literal a query gave a Map argument and its decoding) | `BuildGraphQL` (newGraphQLSchema), `QueryMapArgument` (graphql.Do calling `ParseLiteral`, with `parseValueToMap` as a recursive operator), and the graph actions of `SchemaGraph` |
| `MCGraphQLSchema` | `GraphQLSchema`, instantiated for TLC | schemas of one or two top-level tables, or one table with a nested one, over a, b, c; each table has at most one join and either no field, a String field named `b`, a List field or a Map field; `MCLiterals`, the query literals | |
| `Worker` | `worker.go` lines 1-176 | `rpc` (Run), `wpc`, `i`, `n`, `pending` (the run goroutine), `ch`, `closed`, `ctxDone`, `result`; history `failed`, `panicked` | `pollResources`, `Sleep`, `Unmarshal`, `ResourceBlock`, `NewResource`, `IntervalRun`, `Send`, `RunSelect`, `Cancel` |
| `SymbolTable` | `symbol_table.go` | `variables`; history `writes`; `fatal` | `SetInputs`, `SetOutputs` (with `insert`/`insertCtyValue`); `lookup` is an operator |

In `SchemaGraph` the algorithm is a set of operators that follow the Go
functions one to one. `connectFrom` and `visitSchemaNode` are RECURSIVE, and
errors are returned in records. Nodes are identified by table name, as in
`nodeRefMap`. The GraphQL schema in `Store` is abstracted to the tables it
was built from, because `newGraphQLSchema` is a function of them. A table
there is its name, its field names and its nested tables; `CreateStart`
applies `addImplicitIDs` (the `_id` field, and `<parent>_id` unless declared)
before the provider call, as `Create` does.

`Store` is shown to implement `AtomicStore` by the refinement mapping
`AS == INSTANCE AtomicStore WITH schema <- schema.tables` (the other
variables map to the history variables of the same name), checked as the
property `RefinesAtomicStore`. A provider `Create` is the abstract `Commit`,
`Assign` the abstract `Install`, and `QueryDo` (the end of `graphql.Do`)
and `SchemaRead` the abstract `Query`, which must see the schema current at
that step; every
other step is a stutter. The abstract store deliberately does not promise
that the installed schema is the newest commit: `store_stale_assign` shows
that the code does not keep that promise.

Fault model. `Restart` is a restart of the process, ending in `store.New`:
the calls in flight are lost, the new Store has a new mutex and the zero
schema, and the provider's database keeps its tables (`provider`,
`committed`). It maps to an abstract `Install` of no tables, which
`AtomicStore` allows: nothing in the code or the spec rebuilds the schema
from the database at start. Restarts are bounded by `MaxRestarts` and carry
no fairness: the environment may restart the process, it need not. The
RWMutex follows Go's writer-preferring `sync.RWMutex`: a writer takes the
writer mutex, which blocks new readers, and then waits for the readers
already inside.

## Runs

| Run | Checks | Result |
|---|---|---|
| `graph_traverse` | `TypeOK`, `TraverseVisitsReachableOnce` | pass |
| `graph_cycle` | `TraverseCoversSchema` | violation: tables on a join cycle have no root and are never traversed, yet the build succeeds (spec 4.1 says CyclicSchema) |
| `graph_nested_unknown_join` | `UnknownJoinRejected` | violation: `connectFrom` drops the error of its nested call (`schemagraph.go:218`) |
| `graph_duplicate_table` | `DuplicateTableRejected` | violation: a name declared twice builds without error; TLC's trace nests `a` in `a` in `a`, which becomes one node `a` with edges to itself (spec 4.1 says DuplicateTable) |
| `store_lock` | `ImplicitColumns`, `RefinesAtomicStore`, `EveryCallReturns` (liveness) | pass, no deadlock, with one restart of the process: queries are atomic, only committed tables are installed, every committed table has one `_id` and one `<parent>_id`, every call returns |
| `graphql_edges` | `EdgeTargetsBuilt` | pass: every edge field points at a type the query exposes, because the edges are added in a second traversal |
| `graphql_duplicate_edge` | `EdgeScalarRule` | violation: a table nested `single` in its parent and also joined to it gets two edges; the field follows the last one (scalar), while `Edge()` and the resolver follow the first (list) |
| `graphql_field_shadowed` | `DeclaredFieldsExposed` | violation: an edge field named after a related table replaces a declared field of that name |
| `worker_failure_reported` | `RunReturns` (liveness) | pass, no deadlock: a failure of run, or the end of the agent context, makes `Run` return, also while run polls an empty data store forever |
| `worker_send_on_closed` | `NoSendOnClosedChannel` | violation: run sends every failure and carries on; a second failure, or one after the context ended, sends on the channel `Run` closed and panics |
| `symtab_lookup` | `LookupAgreesWithReference` | pass: `lookup` agrees with a reference built from the history of writes |
| `store_stale_assign` | `QueryAfterCreateSeesIt` | violation: two overlapping Creates assign `s.schema` in the opposite order of their commits, so a client's query after its own Create runs on older tables |

Bounds:

- **SchemaGraph.** Declarations have up to three tables named from
  {a, b, c}, with at most one join each, targeting a, b, c or the undeclared
  x. They come as top-level, nested (one and two levels) and sibling shapes.
  Three tables are the fewest that show a node reached from two roots, a
  nested table below a nested table, and a cycle through two tables. Every
  run has one build: no property compares two builds (the pass run has
  49,536 states).
- **Store.** There are two clients, with two operations each, and two
  declared schemas: a table `a` with a nested `b`, once with `b` declaring
  `a_id` itself and once not. The provider version is bounded by 2. Two
  clients are enough for a query to overlap an assignment and for two
  Creates to race (the stale assign); two operations let a client Create and
  then Query or call Schema (86,500 states). The liveness property rules out symmetry reduction, so the
  pass run has no symmetry; the violation run keeps it. One restart is
  allowed in the pass run (any step of either client can be cut off by
  it); the violation run allows none, so its trace is the race alone.

- **GraphQLSchema.** A single build is used. Three names with a join, a
  nesting, both `single` values and one field per table are what the two
  overwrite cases need: a pair related twice, and a field named like a
  related table. The pass run takes every such schema; the
  `DeclaredFieldsExposed` run only those where two tables are related at
  most once, so that its trace is the field overwrite alone. The Map field
  makes the Map scalar reachable. The literals are strings, ints, enums,
  objects of up to two differently named fields (graphql-go rejects a
  repeated name before `ParseLiteral`), lists of up to two items, and
  objects of one field holding any of these (135,882 states). No property
  is checked of the decoding: the spec says nothing of enums or variables
  inside a Map literal, the one place where it loses a value.
- **Worker.** In the liveness run a reply holds up to four resources, so
  one run meets up to four failures, more than the buffer of one can hold
  (747 states); the violation run needs only two. The poll/sleep loop is not bounded: its states repeat.
- **SymbolTable.** The model allows three writes, two modules, one attribute
  and two leaf values. Every write is at `input` or at `module.<m>`, so no
  write lies above or below another; the writes cover two modules' outputs
  side by side, outputs next to the inputs, and a re-write of the same
  key, which is where the `AsValueMap` rebuild must keep the siblings.
  Lookups cover every path of up to three steps. `log.Fatal` (a write below
  a non-object) is never reached under these writes.

Fairness. `Worker` assumes weak fairness of each goroutine (`run`, its sends,
and `Run`'s select). The Go scheduler runs every runnable goroutine, and once
`ch` holds an error only `Run` can take it, so the select stays enabled. The
context is not required ever to end, and no fairness is put on a poll
succeeding. `Store` assumes weak fairness of each client's steps: a client
is a goroutine, and one blocked on the mutex is not enabled in the model
(`CanRLock`, `CanTakeW`, `ReadersOut` are guards), so weak fairness asks
only that a goroutine that can run does. `store_lock` also checks deadlock
freedom: every state has an enabled step until all clients are done, and
in that final state the model stutters (`Done`). `SchemaGraph`,
`GraphQLSchema` and `SymbolTable` assume no fairness, and their properties
are safety properties.

## Plan

Modules in order of importance:

1. `SchemaGraph` (done).
2. `Store` (done), with `addImplicitIDs` and the refinement of `AtomicStore`.
3. `GraphQLSchema` (done), with the filter and order_by argument types and
   the Map scalar's literal parsing.
4. `Worker` (done).
5. `SymbolTable` (done).
6. The data loader inside `ExecuteTx` retries: left out. Its code
   (`dataTree.traverse`, `psqlSaveNode`) is in no file of the repository
   snapshot, so a model would have no code to be faithful to; the retry
   hazard is listed in PROJECT.json.
7. Importer and apply sequencing: left out, see Not modelled.

All twelve runs the project budgets for are in use. A new question has to
replace or fold into an existing run, as `addImplicitIDs`, the refinement and
the liveness of the Store were folded into `store_lock`. The duplicate-table
finding took the run that showed `newSchemaGraphFromMap` traversing a map in
varying order (spec 8): that function has no caller under `src/`, while
`NewSchemaGraph` is on every path. `BuildGraphFromMap` still models it and
`graph_traverse` still checks its builds.

## Not modelled

- HTTP/NATS clients and server routes: pure I/O.
- SQL text and the Cty/JSON conversions. GraphQL names are modelled where
  they can collide (filter members are built by concatenation).
- The GraphQL query execution itself (graphql-go and the SQL resolvers,
  not under `src/`), except the Map scalar's parsing of a literal argument.
- The importer (`src/api/v1/importer.go`), `bubbly.Apply` and the `apply`
  command (`src/cmd/apply.go`). Each is one call on one goroutine: a
  straight line of early returns over results of code not under `src/`
  (the HCL decoder, `pipelineRun.Apply`, the file system). Their only state
  is `ApplyOptions.Result`. A model would restate each early return, and the
  swallowed conversion error of `jsonSource.Resolve` (`importer.go:162`) is
  listed as a hazard instead.
