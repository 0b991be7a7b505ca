CONSTANTS
  Pkg = {"a", "b", "c", "l"}
  RunDepends <- RunC
  BuildDepends <- BuildC
  Parent <- CSubOfL
  HasSources = {"a", "b", "l"}
  Order <- FourPackages
  Edits <- Revised
SPECIFICATION Spec
INVARIANTS AllInstalled
