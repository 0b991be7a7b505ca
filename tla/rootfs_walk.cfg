CONSTANTS
  Pkg = {"a", "c", "l"}
  RunDepends <- RunWith
  BuildDepends <- BuiltWith
  Parent <- SubOfL
  HasSources = {"c", "l"}
  Order <- Alphabetical
  Edits <- Compared
SPECIFICATION Spec
INVARIANTS AllInstalled NothingElse Current RunDependsInstalled RootfsClosed
