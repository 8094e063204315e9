SPECIFICATION ResolveSpec
CONSTANTS
    p1 = p1  a1 = a1  b1 = b1  h1 = h1  v1 = v1  v2 = v2
    base = base  mid = mid  leaf = leaf  run = run
    None = None
    TUs <- MCTUs
    Headers <- MCHeaders
    Contents <- MCContents
    Symbols <- MCSymbols
    Declares <- MCDeclares
    Defines <- MCDefines
    Calls <- MCCalls
    Mentions <- MCMentions
    Overrides <- MCOverrides
    Includes <- MCIncludes
    Initial <- MCInitial
    Procs = {p1}
    Fatal <- NoSets
    EditRel <- Forward
    QuietEdits = TRUE
    GraphModes = {TRUE}
    FileArgs <- NoSets
    SetValues = {}
    Droppable <- Dropped
    MaxCrashes = 0
INVARIANTS
    DerivedTypeOK
    PossibleCallsAreBodyCalls
    ResolvedIsExact
