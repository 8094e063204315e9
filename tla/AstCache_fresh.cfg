SPECIFICATION Spec
CONSTANTS
    p1 = p1  p2 = p2
    None = None
    Partial = Partial
    Procs = {p1, p2}
    Versions <- MCVersions
    Libs <- MCLibs
    LibOf <- TwoLibs
    Mtime <- MCMtime
    Initial = 1
    EditRel <- Forward
    EditsDuringSave = FALSE
    Clears = TRUE
    MaxFailures = 2
INVARIANTS
    ValidEntryIsFresh
PROPERTIES
    FreshReads
