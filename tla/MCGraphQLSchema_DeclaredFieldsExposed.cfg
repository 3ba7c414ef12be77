CONSTANTS
    Names = {"a", "b", "c"}
    Singles = {FALSE, TRUE}
    Builds = {b1}
    Decls <- MCDeclsSimple
    Literals <- MCLiterals
SPECIFICATION GSpec
INVARIANT
    DeclaredFieldsExposed
