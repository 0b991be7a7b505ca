CONSTANTS
  Pkg = {"a", "b", "c", "x"}
  BuildDepends <- Diamond
  DevDepends <- Diamond
  Dynamic = TRUE
  EditKinds = {}
  Namesakes <- HostTool
  Conflicts <- NoConflicts
  HasSources = {"a", "b", "c", "x"}
SPECIFICATION Spec
INVARIANTS DependsInstalled
