CONSTANTS
  Kind = "url"
  Layout = "section"
  HasInstall = TRUE
  HasInstalldev = TRUE
  NeedUnpack = FALSE
  SaveSpace = FALSE
  Stops = "anywhere"
  EditKinds <- NoticedEdits
SPECIFICATION Spec
INVARIANTS TypeOK PackageFresh InstallCurrent RootfsFresh
PROPERTIES UninstallFirst
