CONSTANTS
  Pkg = {"g", "v", "x"}
  BuildDepends <- BuildTool
  DevDepends <- UseAlone
  Dynamic = TRUE
  EditKinds = {}
  Namesakes <- OwnName
  Conflicts <- NoConflicts
  HasSources = {"g", "v", "x"}
SPECIFICATION Spec
INVARIANTS NothingElseAtBuild
