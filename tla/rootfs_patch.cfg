CONSTANTS
  Pkg = {"a", "c", "l"}
  RunDepends <- RunL
  BuildDepends <- BuiltWith
  Parent <- NoParent
  HasSources = {"c", "l"}
  Order <- Alphabetical
  Edits <- Patched
SPECIFICATION Spec
INVARIANTS AllInstalled
