CONSTANTS
  Pkg = {"a", "c", "k", "x"}
  BuildDepends <- Rivals
  DevDepends <- Rivals
  Dynamic = FALSE
  EditKinds = {"clean", "rev", "build"}
  Namesakes <- HostTool
  Conflicts <- RivalConflicts
  HasSources = {"a", "c", "k", "x"}
SPECIFICATION Spec
INVARIANTS DependsInstalled SysrootClosed NoConflict
