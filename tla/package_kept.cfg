CONSTANTS
  Kind = "url"
  Layout = "flat"
  HasInstall = TRUE
  HasInstalldev = TRUE
  NeedUnpack = TRUE
  SaveSpace = FALSE
  Stops = "failures"
  EditKinds <- OverlayEdits
SPECIFICATION Spec
INVARIANTS DevDeletedWithStamp
