CONSTANTS
    Clients = {c1, c2}
    TableSets <- MCTableSets
    MaxOps = 2
    MaxVersion = 2
    MaxRestarts = 0
SPECIFICATION Spec
SYMMETRY ClientSymmetry
INVARIANT QueryAfterCreateSeesIt
