CONSTANTS
  main = main f = f g = g a = a b = b c = c d = d
  ma = ma mb = mb mc = mc md = md
  NoSym = NoSym KeepAll = KeepAll TOP = TOP None = None
  Sym <- MCSym
  Function <- MCFunction
  Class <- MCClass
  Base = a
  Parent <- MCParent
  Method <- MCMethod
  KLimit = 3
  Kinds <- MCKinds
  RowLimit = 5
  Nil = Nil
  Units = {"a.cpp", "b.cpp", "c.cpp"}
  Owned = {"a.cpp", "b.cpp", "c.cpp", "a.hpp", "base.hpp"}
  Headers <- MCHeaders
  Cursors <- MCNumbered
  Decl <- MCDecl
  MaxCount = 3
  MaxSetbacks = 2
  DbKind <- MCDbKind
  Shortest <- MCShortest
  Attr <- MCAttr
  Prefixed <- MCPrefixed
  Infix <- MCInfix
  Regex <- MCRegex
SPECIFICATION Spec
INVARIANTS PrunesOnlyTheUnreachable PrunesTheUnreachable
  FollowsTheCalls SurfacesAllReachable DepthIsDistance PathIsReal NothingMissed ReachesIsExact
  GraphIsOfTheFiles CountsArePlaces ParsedAsWritten AnswersAreExact
PROPERTY TourEnds
CHECK_DEADLOCK FALSE
