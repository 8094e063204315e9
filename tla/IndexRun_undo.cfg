SPECIFICATION Spec
CONSTANTS
    p1 = p1  p2 = p2  a1 = a1  b1 = b1  h1 = h1  v1 = v1  v2 = v2
    reg = reg  run = run  helper = helper
    None = None
    TUs <- MCTUs
    Headers <- MCHeaders
    Contents <- MCContents
    Symbols <- MCSymbols
    Declares <- MCDeclares
    Defines <- MCDefines
    Calls <- MCCalls
    Mentions <- MCMentions
    Includes <- MCIncludes
    Initial <- MCInitial
    Procs = {p1}
    Fatal <- NoFatal
    EditRel <- Undo
    QuietEdits = TRUE
    GraphModes = {TRUE}
    FileArgs <- NoSets
    SetValues = {}
    Droppable <- NoSets
    MaxCrashes = 0
INVARIANTS
    AlreadyIndexedIsRecorded
