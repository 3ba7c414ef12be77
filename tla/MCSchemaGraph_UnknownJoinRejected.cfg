CONSTANTS
    Names = {"a", "b", "c"}
    Targets = {"a", "b", "c", "x"}
    Singles = {FALSE}
    Builds = {b1}
    Decls <- MCDeclsDistinct
SPECIFICATION Spec
INVARIANT UnknownJoinRejected
