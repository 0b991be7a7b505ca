CONSTANTS
  Menu = Menu
  Play = Play
  Keys <- TwoKeys
SPECIFICATION Spec
SYMMETRY Interchangeable
INVARIANTS TypeOK NoUseAfterFree QuietWhenClosed HeldHasTimer PressedIsCurrent
