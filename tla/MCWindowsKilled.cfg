SPECIFICATION Spec
CONSTANTS
  Apps = {a1}
  Desktop = desktop
  Menus = {m1}
  NoProc = noproc
  MaxWindows = 2
  MsgBufSize = 1
  DesktopQuits = {}
  AppsDie = TRUE
INVARIANTS
  OwnersHaveStacks
