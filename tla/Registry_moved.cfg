SPECIFICATION CloneSpec
CHECK_DEADLOCK FALSE
CONSTANTS
    Versions <- MCVersions
    Cwd <- MCCwd
    None = None
    Checkouts <- MCCheckouts
    Disk <- MCDisk
    LabelMoves <- MCLabels
    Parts <- MCParts
    Removals <- Always
    GivenNames = {"lib"}
    Anywhere = FALSE
    MaxCommands = 3
    MaxAstray = 3
INVARIANT ActiveCloneIsOwn
