CONSTANTS
    Leaves = {v1, v2}
    Modules = {m1, m2}
    Attrs = {x}
    MaxWrites = 3
SPECIFICATION Spec
INVARIANT LookupAgreesWithReference
