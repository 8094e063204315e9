CONSTANTS
  Versions <- MCVersions
  Cwd <- MCCwd
  None = None
  Missing = Missing
  Checkouts <- MCCheckouts
  Disk <- MCDisk
  LabelMoves <- MCLabels
  Parts <- MCParts
  Removals <- Always
  GivenNames = {"lib"}
  Anywhere = FALSE
  MaxCommands = 5
  MaxAstray = 3
  SCHEMA_VERSION = 28
  Since <- MCSince
  Oldest = 2
  Dying <- MCDying
  MaxDeaths = 2
  Partial = Partial
  Units <- MCUnits
  Given = "cross"
  Coverage = 60
  Libs = {15, 16}
  Parsers = {"p"}
  MaxWork = 4
  Corpora <- MCCorpora
  Jobs = 3
SPECIFICATION UpkeepSpec
INVARIANTS
  FilesFollowTheSwitch OneRowPerFile IncludesNameTheirOwn ImportsEnd
  UpgradeIsComplete NeverBroken LibclangReadsTheBuild
PROPERTIES OnlyMovesEstrange UpgradeEnds SurveyCountsEach CacheWarmsUp
CHECK_DEADLOCK FALSE
