CONSTANTS
  Pkg = {"a", "b", "c", "x"}
  BuildDepends <- Diamond
  DevDepends <- Diamond
  Dynamic = TRUE
  EditKinds = {"installdev"}
  Namesakes <- HostTool
  Conflicts <- NoConflicts
  HasSources = {"a", "b", "c", "x"}
SPECIFICATION FairSpec
INVARIANTS NothingElseAtBuild
PROPERTIES RunsEnd
