CONSTANTS
    Names = {"a", "b", "c"}
    Singles = {FALSE, TRUE}
    Builds = {b1}
    Decls <- MCDecls
    Literals <- MCLiterals
SPECIFICATION GSpec
INVARIANT
    EdgeScalarRule
