------------------------------- MODULE Store -------------------------------
(***************************************************************************)
(* The store facade, package store, type Store: src/agent/component/     *)
(* worker/worker.go lines 188-279 (concatenated after the Worker).       *)
(*                                                                         *)
(* Concurrent callers run Query, Schema, Create and Save on one Store.   *)
(* The Store holds the GraphQL schema behind a sync.RWMutex; the provider  *)
(* (the database) holds the applied tables.  Create and Save call the      *)
(* provider and build the GraphQL schema without holding the lock, and    *)
(* take the write lock only to assign s.schema.  Query holds the read lock *)
(* for the whole query, Schema only to read s.schema.                      *)
(*                                                                         *)
(* A table is a record of its name, its field names and its nested       *)
(* tables (core.Table; field types and joins are left out).  A GraphQL    *)
(* schema is abstracted to the tables it was built from                   *)
(* (newGraphQLSchema is a function of the tables) and the provider version *)
(* those tables were committed at; the version is a history variable that  *)
(* numbers the successful provider Creates.                                *)
(*                                                                         *)
(* The RWMutex follows Go's sync.RWMutex: a writer first takes the writer  *)
(* mutex (one writer at a time), which stops new readers, then waits for   *)
(* the readers inside to leave.                                            *)
(***************************************************************************)
EXTENDS Naturals, FiniteSets, Sequences, SequencesExt

CONSTANTS
    Clients,        \* concurrent callers of the Store
    TableSets,      \* the table sequences Create may be called with
    MaxOps,         \* operations each client issues
    MaxVersion,     \* bound on successful provider Creates
    MaxRestarts     \* bound on restarts of the process

ASSUME MaxOps \in Nat /\ MaxVersion \in Nat /\ MaxRestarts \in Nat

None == "none"

\* the zero graphql.Schema of a new Store, before any Create or Save
NoSchema == [tables |-> <<>>, version |-> 0]

VARIABLES
    pc,         \* pc[c]: where client c is in its current operation
    opsLeft,    \* opsLeft[c]: operations client c may still start
    arg,        \* arg[c]: the tables (and version) c is building a schema for
    built,      \* built[c]: the GraphQL schema c built, not yet assigned
    provider,   \* the tables the provider holds and their version
    schema,     \* s.schema
    readers,    \* clients holding the read lock
    writer,     \* the client holding the writer mutex, or None
    applied,    \* applied[c]: version of c's last successful Create (history)
    qschema,    \* qschema[c]: the schema c's running Query executes against
    committed,  \* committed[v]: the tables of the v-th provider Create (history)
    answered,   \* answered[c]: the tables c's last Query ran against, or its
                \* last Schema call returned (history)
    restarts    \* restarts of the process so far

vars == <<pc, opsLeft, arg, built, provider, schema, readers, writer, applied, qschema, committed, answered, restarts>>

-----------------------------------------------------------------------------
(* sync.RWMutex                                                           *)

CanRLock   == writer = None
\* Lock: the writer mutex is free; the caller then waits for the readers
CanTakeW   == writer = None
ReadersOut == readers = {}

-----------------------------------------------------------------------------
Init ==
    /\ pc = [c \in Clients |-> "idle"]
    /\ opsLeft = [c \in Clients |-> MaxOps]
    /\ arg = [c \in Clients |-> NoSchema]
    /\ built = [c \in Clients |-> NoSchema]
    /\ provider = NoSchema
    /\ schema = NoSchema
    /\ readers = {}
    /\ writer = None
    /\ applied = [c \in Clients |-> 0]
    /\ qschema = [c \in Clients |-> NoSchema]
    /\ committed = <<>>
    /\ answered = [c \in Clients |-> <<>>]
    /\ restarts = 0

Start(c, p) ==
    /\ pc[c] = "idle"
    /\ opsLeft[c] > 0
    /\ opsLeft' = [opsLeft EXCEPT ![c] = @ - 1]
    /\ pc' = [pc EXCEPT ![c] = p]

Goto(c, p) == pc' = [pc EXCEPT ![c] = p]

(* Query: s.mu.RLock() (worker.go:227-228).                                *)
QueryStart(c) ==
    /\ Start(c, "q_rlock")
    /\ UNCHANGED <<arg, built, provider, schema, readers, writer, applied, qschema, committed, answered, restarts>>

QueryRLock(c) ==
    /\ pc[c] = "q_rlock"
    /\ CanRLock
    /\ readers' = readers \cup {c}
    /\ qschema' = [qschema EXCEPT ![c] = schema]
    /\ Goto(c, "q_do")
    /\ UNCHANGED <<opsLeft, arg, built, provider, schema, writer, applied, committed, answered, restarts>>

\* Mutant: the deferred RUnlock is missing; the reader never leaves.
QueryDoNoUnlock(c) ==
    /\ pc[c] = "q_do"
    /\ qschema' = [qschema EXCEPT ![c] = NoSchema]
    /\ answered' = [answered EXCEPT ![c] = qschema[c].tables]
    /\ Goto(c, "idle")
    /\ UNCHANGED <<opsLeft, arg, built, provider, schema, readers, writer, applied, committed, restarts>>

(* graphql.Do against s.schema, then the deferred RUnlock                 *)
(* (worker.go:229-240); an error result is returned the same way.          *)
QueryDo(c) ==
    /\ pc[c] = "q_do"
    /\ readers' = readers \ {c}
    /\ qschema' = [qschema EXCEPT ![c] = NoSchema]
    /\ answered' = [answered EXCEPT ![c] = qschema[c].tables]
    /\ Goto(c, "idle")
    /\ UNCHANGED <<opsLeft, arg, built, provider, schema, writer, applied, committed, restarts>>

(* Schema: s.mu.RLock(), return s.schema, the deferred RUnlock          *)
(* (worker.go:220-224).  Once the read lock is held nothing else happens  *)
(* before RUnlock, so taking it, reading and leaving are one step; the    *)
(* caller gets the schema of that instant.                                 *)
SchemaStart(c) ==
    /\ Start(c, "g_rlock")
    /\ UNCHANGED <<arg, built, provider, schema, readers, writer, applied, qschema, committed, answered, restarts>>

SchemaRead(c) ==
    /\ pc[c] = "g_rlock"
    /\ CanRLock
    /\ answered' = [answered EXCEPT ![c] = schema.tables]
    /\ Goto(c, "idle")
    /\ UNCHANGED <<opsLeft, arg, built, provider, schema, readers, writer, applied, qschema, committed, restarts>>

(* addImplicitIDs (worker.go:281-312): every table gets an _id field, and  *)
(* a nested table a <parent>_id field unless it declares one; the nested  *)
(* tables are given the table (with its new fields) as their parent.      *)
ParentIDName(p) == p \o "_id"

\* Mutant: <parent>_id is appended without looking for a declared one.
RECURSIVE addImplicitIDsUnchecked(_, _)
addImplicitIDsUnchecked(parent, tables) ==
    [k \in DOMAIN tables |->
        LET t   == tables[k]
            f1  == Append(t.fields, "_id")
            f2  == IF parent = None THEN f1 ELSE Append(f1, ParentIDName(parent))
        IN  [t EXCEPT !.fields = f2, !.tables = addImplicitIDsUnchecked(t.name, t.tables)]]

RECURSIVE addImplicitIDs(_, _)
addImplicitIDs(parent, tables) ==
    [k \in DOMAIN tables |->
        LET t   == tables[k]
            f1  == Append(t.fields, "_id")
            f2  == IF parent = None \/ ParentIDName(parent) \in ToSet(f1) THEN f1
                   ELSE Append(f1, ParentIDName(parent))
        IN  [t EXCEPT !.fields = f2, !.tables = addImplicitIDs(t.name, t.tables)]]

(* Create(tables): addImplicitIDs, then p.Create in one transaction       *)
(* (worker.go:244-248, cockroachdb.go:35-45).                             *)
CreateStart(c) ==
    /\ \E ts \in TableSets :
        /\ Start(c, "c_provider")
        /\ arg' = [arg EXCEPT ![c] = [tables |-> addImplicitIDs(None, ts), version |-> 0]]
    /\ UNCHANGED <<built, provider, schema, readers, writer, applied, qschema, committed, answered, restarts>>

CreateProvider(c) ==
    /\ pc[c] = "c_provider"
    /\ \/ /\ provider.version < MaxVersion
          /\ provider' = [tables |-> arg[c].tables, version |-> provider.version + 1]
          /\ arg' = [arg EXCEPT ![c].version = provider.version + 1]
          /\ committed' = Append(committed, arg[c].tables)
          /\ Goto(c, "c_build")
       \/ /\ Goto(c, "idle")                          \* p.Create failed
          /\ UNCHANGED <<provider, arg, committed>>
    /\ UNCHANGED <<opsLeft, built, schema, readers, writer, applied, qschema, answered, restarts>>

(* Save(data): p.Save in one transaction returns the provider's tables    *)
(* (worker.go:263-267, cockroachdb.go:47-60).                             *)
SaveStart(c) ==
    /\ Start(c, "s_provider")
    /\ UNCHANGED <<arg, built, provider, schema, readers, writer, applied, qschema, committed, answered, restarts>>

SaveProvider(c) ==
    /\ pc[c] = "s_provider"
    /\ \/ /\ arg' = [arg EXCEPT ![c] = provider]
          /\ Goto(c, "s_build")
       \/ /\ Goto(c, "idle")                          \* p.Save failed
          /\ UNCHANGED arg
    /\ UNCHANGED <<opsLeft, built, provider, schema, readers, writer, applied, qschema, committed, answered, restarts>>

(* newGraphQLSchema(tables) (worker.go:250-253 and 269-272): builds the    *)
(* schema from the tables, without the lock; it may fail.                 *)
Build(c) ==
    /\ pc[c] \in {"c_build", "s_build"}
    /\ \/ /\ built' = [built EXCEPT ![c] = arg[c]]
          /\ Goto(c, IF pc[c] = "c_build" THEN "c_lock" ELSE "s_lock")
       \/ /\ Goto(c, "idle")                          \* build failed
          /\ UNCHANGED built
    /\ UNCHANGED <<opsLeft, arg, provider, schema, readers, writer, applied, qschema, committed, answered, restarts>>

(* s.mu.Lock(): take the writer mutex, then wait for the readers.         *)
WriteLock(c) ==
    /\ pc[c] \in {"c_lock", "s_lock"}
    /\ CanTakeW
    /\ writer' = c
    /\ Goto(c, IF pc[c] = "c_lock" THEN "c_assign" ELSE "s_assign")
    /\ UNCHANGED <<opsLeft, arg, built, provider, schema, readers, applied, qschema, committed, answered, restarts>>

(* s.schema = schema; s.mu.Unlock(); return nil (worker.go:255-259 and     *)
(* 274-278).                                                              *)
\* Mutant: s.schema is assigned without holding the write lock.
AssignUnlocked(c) ==
    /\ pc[c] \in {"c_assign", "s_assign"}
    /\ schema' = built[c]
    /\ writer' = IF writer = c THEN None ELSE writer
    /\ applied' = IF pc[c] = "c_assign"
                  THEN [applied EXCEPT ![c] = built[c].version] ELSE applied
    /\ Goto(c, "idle")
    /\ UNCHANGED <<opsLeft, arg, built, provider, readers, qschema, committed, answered, restarts>>

Assign(c) ==
    /\ pc[c] \in {"c_assign", "s_assign"}
    /\ writer = c
    /\ ReadersOut
    /\ schema' = built[c]
    /\ writer' = None
    /\ applied' = IF pc[c] = "c_assign"
                  THEN [applied EXCEPT ![c] = built[c].version] ELSE applied
    /\ Goto(c, "idle")
    /\ UNCHANGED <<opsLeft, arg, built, provider, readers, qschema, committed, answered, restarts>>

(* The process restarts and store.New (worker.go:188-209) makes a new     *)
(* Store: the calls in flight are gone, the mutex is new and s.schema is   *)
(* the zero schema; the provider's database keeps its tables.  New builds *)
(* no schema from them: that waits for the next Create or Save.           *)
Restart ==
    /\ restarts < MaxRestarts
    /\ restarts' = restarts + 1
    /\ pc' = [c \in Clients |-> "idle"]
    /\ arg' = [c \in Clients |-> NoSchema]
    /\ built' = [c \in Clients |-> NoSchema]
    /\ schema' = NoSchema
    /\ readers' = {}
    /\ writer' = None
    /\ qschema' = [c \in Clients |-> NoSchema]
    /\ UNCHANGED <<opsLeft, provider, applied, committed, answered>>

Done ==
    /\ \A c \in Clients : pc[c] = "idle" /\ opsLeft[c] = 0
    /\ UNCHANGED vars

Step(c) ==
    \/ QueryStart(c) \/ QueryRLock(c) \/ QueryDo(c)
    \/ SchemaStart(c) \/ SchemaRead(c)
    \/ CreateStart(c) \/ CreateProvider(c)
    \/ SaveStart(c) \/ SaveProvider(c)
    \/ Build(c) \/ WriteLock(c) \/ Assign(c)

Next == (\E c \in Clients : Step(c)) \/ Restart \/ Done

\* The Go scheduler runs every goroutine that is not blocked; a caller
\* waiting for the mutex is not enabled in the model.
Spec == Init /\ [][Next]_vars /\ \A c \in Clients : WF_vars(Step(c))

-----------------------------------------------------------------------------
(* Properties.                                                            *)

(* Spec section 5: the schema pair is swapped atomically under the       *)
(* exclusive lock and readers see the old pair or the new one.  The Store  *)
(* implements AtomicStore: a Query (RLock .. graphql.Do .. RUnlock) is     *)
(* answered from the schema of one instant, because Assign needs the      *)
(* write lock and no reader inside; and s.schema only ever becomes a      *)
(* schema of tables p.Create committed (Create commits before it builds,  *)
(* and Save builds from the tables p.Save returned).                      *)
AS == INSTANCE AtomicStore WITH schema <- schema.tables
RefinesAtomicStore == AS!Spec

\* the number of fields of table t named f
FieldCount(t, f) == Len(SelectSeq(t.fields, LAMBDA x : x = f))

RECURSIVE HasImplicitColumns(_, _)
HasImplicitColumns(parent, tables) ==
    \A k \in DOMAIN tables :
        /\ FieldCount(tables[k], "_id") = 1
        /\ parent # None => FieldCount(tables[k], ParentIDName(parent)) = 1
        /\ HasImplicitColumns(tables[k].name, tables[k].tables)

(* Spec section 3 (implicit columns): every table the provider commits   *)
(* has one _id column and every nested table one <parent>_id column, also *)
(* when the declaration already lists <parent>_id: addImplicitIDs checks  *)
(* for it before appending (tables declaring _id are not given to Create, *)
(* see the README).                                                       *)
ImplicitColumns ==
    \A v \in 1..Len(committed) : HasImplicitColumns(None, committed[v])

(* Spec section 5 / 3 (lifecycle): a schema applied by Create is visible  *)
(* to the Queries issued after Create returned, until a later Create      *)
(* replaces it.  Stated as: a Query of a client runs against a schema at  *)
(* least as new as the one its own last Create applied: the tables of     *)
(* that Create or of a Create committed after it.                         *)
QueryAfterCreateSeesIt ==
    \A c \in Clients : (pc[c] = "q_do" /\ applied[c] > 0) =>
        qschema[c].tables \in {committed[v] : v \in applied[c]..Len(committed)}

(* Every Query, Create and Save returns: the deferred RUnlock of Query and *)
(* the Unlock after the assignment release the mutex on every path, and a *)
(* writer waiting for the readers blocks new ones, so no caller waits on  *)
(* the mutex forever.                                                     *)
EveryCallReturns ==
    \A c \in Clients : pc[c] # "idle" ~> pc[c] = "idle"

=============================================================================
