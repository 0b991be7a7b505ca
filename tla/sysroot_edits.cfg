CONSTANTS
  Pkg = {"a", "c", "k", "x"}
  BuildDepends <- Rivals
  DevDepends <- Rivals
  Dynamic = FALSE
  EditKinds = {"clean", "installdev"}
  Namesakes <- HostTool
  Conflicts <- RivalConflicts
  HasSources = {"a", "x"}
SPECIFICATION Spec
INVARIANTS SysrootClosed NoConflict
