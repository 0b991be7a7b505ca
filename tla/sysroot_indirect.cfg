CONSTANTS
  Pkg = {"a", "u", "v", "x"}
  BuildDepends <- Chain
  DevDepends <- Chain
  Dynamic = TRUE
  EditKinds = {"clean"}
  Namesakes <- OwnName
  Conflicts <- NoConflicts
  HasSources = {"a", "u", "v", "x"}
SPECIFICATION Spec
INVARIANTS DependsAtBuild
