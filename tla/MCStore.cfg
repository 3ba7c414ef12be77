CONSTANTS
    Clients = {c1, c2}
    TableSets <- MCTableSets
    MaxOps = 2
    MaxVersion = 2
    MaxRestarts = 1
SPECIFICATION Spec
INVARIANTS
    ImplicitColumns
PROPERTIES
    RefinesAtomicStore
    EveryCallReturns
