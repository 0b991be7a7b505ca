CONSTANTS
  Pkg = {"a", "b", "x"}
  BuildDepends <- Shortcut
  DevDepends <- Shortcut
  Dynamic = FALSE
  EditKinds = {"installdev"}
  Namesakes <- OwnName
  Conflicts <- NoConflicts
  HasSources = {"a", "b", "x"}
SPECIFICATION Spec
INVARIANTS DependsAtBuild
