CONSTANTS
  Pkg = {"a", "c", "k", "x"}
  BuildDepends <- RivalBelow
  DevDepends <- RivalBelow
  Dynamic = FALSE
  EditKinds = {"clean", "installdev"}
  Namesakes <- HostTool
  Conflicts <- RivalConflicts
  HasSources = {"a", "x"}
SPECIFICATION Spec
INVARIANTS NoConflict
