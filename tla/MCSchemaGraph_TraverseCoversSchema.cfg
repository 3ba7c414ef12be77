CONSTANTS
    Names = {"a", "b", "c"}
    Targets = {"a", "b", "c"}
    Singles = {FALSE}
    Builds = {b1}
    Decls <- MCDeclsKnownJoins
SPECIFICATION Spec
INVARIANT TraverseCoversSchema
