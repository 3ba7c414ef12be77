---------------------------- MODULE SymbolTable ----------------------------
(***************************************************************************)
(* The parser's symbol table, src/parser/symbol_table.go.                  *)
(*                                                                         *)
(* Variables maps a root name to a cty value.  SetInputs sets the root     *)
(* "input"; SetOutputs inserts a module's outputs at module.<name>, and    *)
(* insert rebuilds the objects along the path (cty values are immutable). *)
(* lookup applies a path of attribute steps to a root value.               *)
(*                                                                         *)
(* A cty value is a record: a leaf (a primitive value), an object with    *)
(* attributes, or null.                                                    *)
(***************************************************************************)
EXTENDS Naturals, Sequences, SequencesExt

CONSTANTS
    Leaves,     \* primitive values
    Modules,    \* module names
    Attrs,      \* attribute names inside values
    MaxWrites   \* bound on SetInputs/SetOutputs calls

Leaf(x)   == [kind |-> "leaf", v |-> x]
Object(f) == [kind |-> "object", attrs |-> f]
NilVal    == [kind |-> "null"]
EmptyObjectVal == Object(<<>>)
Fatal     == [kind |-> "fatal"]   \* log.Fatal: the process exits

\* the outputs a module may produce: a primitive, or an object of one attribute
Values == {Leaf(x) : x \in Leaves} \cup {Object(a :> Leaf(x)) : a \in Attrs, x \in Leaves}

VARIABLES
    variables,  \* SymbolTable.Variables
    writes,     \* history: the [path, val] of every write, in order
    fatal       \* log.Fatal was called: the process has exited

vars == <<variables, writes, fatal>>

\* a traversal step's name; a value's attribute or NilVal
Get(val, a) == IF val.kind = "object" /\ a \in DOMAIN val.attrs THEN val.attrs[a] ELSE NilVal

-----------------------------------------------------------------------------
(* insertCtyValue (symbol_table.go:77-106): the value to put back at this  *)
(* step, or Fatal when the step goes through a value that is not an      *)
(* object (log.Fatal exits).                                               *)
\* Mutant: each object on the path is rebuilt from an empty map.
RECURSIVE insertCtyValueFresh(_, _, _)
insertCtyValueFresh(pathVal, val, tr) ==
    IF tr = <<>> THEN val
    ELSE LET pv == IF pathVal.kind = "null" THEN EmptyObjectVal ELSE pathVal
         IN  IF pv.kind # "object" THEN Fatal
             ELSE LET next == insertCtyValueFresh(NilVal, val, Tail(tr))
                  IN  IF next = Fatal THEN Fatal
                      ELSE Object(Head(tr) :> next)

RECURSIVE insertCtyValue(_, _, _)
insertCtyValue(pathVal, val, tr) ==
    IF tr = <<>> THEN val
    ELSE LET pv == IF pathVal.kind = "null" THEN EmptyObjectVal ELSE pathVal
         IN  IF pv.kind # "object" THEN Fatal
             ELSE LET next == insertCtyValue(Get(pv, Head(tr)), val, Tail(tr))
                  IN  IF next = Fatal THEN Fatal
                      ELSE Object((Head(tr) :> next) @@ pv.attrs)

Root(r) == IF r \in DOMAIN variables THEN variables[r] ELSE NilVal

(* insert (symbol_table.go:63-72): the root value with val put at the rest *)
(* of the traversal, then stored back under the root name.                 *)
insert(val, tr) ==
    LET nv == insertCtyValue(Root(Head(tr)), val, Tail(tr))
    IN  IF nv = Fatal THEN fatal' = TRUE /\ UNCHANGED variables
        ELSE variables' = (Head(tr) :> nv) @@ variables /\ UNCHANGED fatal

(* lookup (symbol_table.go:110-137): the root must exist, and each step of *)
(* the path (cty.Path.Apply of GetAttr steps) must find an attribute.      *)
RECURSIVE applyPath(_, _)
applyPath(val, tr) ==
    IF tr = <<>> THEN [found |-> TRUE, val |-> val]
    ELSE IF val.kind = "object" /\ Head(tr) \in DOMAIN val.attrs
         THEN applyPath(val.attrs[Head(tr)], Tail(tr))
         ELSE [found |-> FALSE, val |-> NilVal]

lookup(tr) ==
    IF tr = <<>> \/ Head(tr) \notin DOMAIN variables THEN [found |-> FALSE, val |-> NilVal]
    ELSE applyPath(variables[Head(tr)], Tail(tr))

-----------------------------------------------------------------------------
(* NewSymbolTable, or NewSymbolTableWithInputs with the "input" root.     *)
Init ==
    /\ \/ variables = <<>>
       \/ \E v \in Values : variables = ("input" :> v)
    /\ writes = <<>>
    /\ fatal = FALSE

Write(path, val) ==
    /\ Len(writes) < MaxWrites
    /\ writes' = Append(writes, [path |-> path, val |-> val])

(* SetInputs (symbol_table.go:45-48).                                     *)
SetInputs(v) ==
    /\ ~fatal
    /\ Write(<<"input">>, v)
    /\ variables' = ("input" :> v) @@ variables
    /\ UNCHANGED fatal

(* SetOutputs (symbol_table.go:50-59): insert at module.<moduleName>.     *)
SetOutputs(m, v) ==
    /\ ~fatal
    /\ Write(<<"module", m>>, v)
    /\ insert(v, <<"module", m>>)

Done == (fatal \/ Len(writes) = MaxWrites) /\ UNCHANGED vars

Next ==
    \/ \E v \in Values : SetInputs(v) \/ \E m \in Modules : SetOutputs(m, v)
    \/ Done

Spec == Init /\ [][Next]_vars

-----------------------------------------------------------------------------
(* Reference: the value at a path is given by the last write at that path *)
(* or above it, read down through the written value; a path above a later *)
(* write is an object.                                                     *)

RefLookup(q) ==
    LET i == SelectLastInSeq(writes, LAMBDA w : IsPrefix(w.path, q) \/ IsPrefix(q, w.path))
    IN  IF i = 0 THEN [status |-> "unwritten"]
        ELSE IF IsPrefix(writes[i].path, q)
             THEN [status |-> "value",
                   res |-> applyPath(writes[i].val, SubSeq(q, Len(writes[i].path) + 1, Len(q)))]
             ELSE [status |-> "object"]

\* the paths a caller may look up: a root and up to two steps
Steps == Modules \cup Attrs
Paths == {<<r>> \o s : r \in {"input", "module"},
                       s \in {<<>>} \cup {<<x>> : x \in Steps} \cup {<<x, y>> : x \in Steps, y \in Attrs}}

(* A lookup after any sequence of SetInputs and SetOutputs finds what the *)
(* last write at or above the path put there, through the objects insert *)
(* rebuilt: a module's outputs are not lost when another module's are     *)
(* inserted, and a path above a write is an object.                        *)
LookupAgreesWithReference ==
    ~fatal =>
        \A q \in Paths :
            LET ref == RefLookup(q)
                got == lookup(q)
            IN  CASE ref.status = "unwritten" -> TRUE
                  [] ref.status = "object"    -> got.found /\ got.val.kind = "object"
                  [] ref.status = "value"     -> got = ref.res

=============================================================================
