SPECIFICATION FairSpec
CONSTANTS
  Apps = {a1}
  Desktop = desktop
  Menus = {m1, m2}
  NoProc = noproc
  MaxWindows = 1
  MsgBufSize = 1
  DesktopQuits = {"press", "turnoff"}
  AppsDie = TRUE
PROPERTIES
  CloseHeeded
