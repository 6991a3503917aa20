SPECIFICATION Spec
CONSTANTS
  Apps = {a1, a2}
  Desktop = desktop
  Menus = {}
  NoProc = noproc
  MaxWindows = 3
  MsgBufSize = 1
  DesktopQuits = {}
  AppsDie = FALSE
SYMMETRY WindowSymmetry
INVARIANTS
  ListWellFormed
PROPERTIES
  StackingSteps
