SPECIFICATION Spec
CHECK_DEADLOCK FALSE
CONSTANTS
  MemProcs = {m1, m2, m3}
  FirstProc = m1
  NPages = 13
  KTabs = 1
  UserPages = 5
  PerTab = 2
  ExecSizes = {0, 1}
  GrowSizes = {1, 3}
  MaxJobs = 4
  MinCore = 4
  HeapEnd = 12
  Units = {2, 3, 5}
  MAX_WIDGET_SIZE = 18
  Names = {"n.txt", "editor"}
  FileBlocks = {"x", "y"}
  Hidden = {}
  Protected = {"editor"}
  Programs = {"editor"}
  Extension <- TextExtension
  SafeExtensions = {"txt"}
  TextExtensions = {"txt"}
  Capitals = {}
  Reserve = 10
  FirstDisks <- AllDisks
  MaxActs = 2
  MAX_LONG_STRLEN = 5
  Letters = {"a"}
  FirstFiles <- AllFiles
  PageLines = 2
  MaxKeys = 5
  charPerLine = 1
  FieldChars = {"a", "nl", "4", "6", "8", "2"}
  MaxInput = 4
  MaxFieldKeys = 6
  Apps = {1, 2}
  FirstAt <- IconsAt
  ScreenWidth = 3
  ScreenHeight = 4
  DockHeight = 1
  IconSize = 1
  AppHeight = 1
  DragThreshold = 1
  SelectThreshold = 2
  MaxEvents = 6
  MaxLost = 1
  StartAt <- OnStart
  PointerAt <- Points
  FSSIZE = 22
  nmeta = 1
  MkDirect = 1
  MkIndirect = 2
  BlockUnits = 2
  BitmapBits = 20
  FileLists <- AllFileLists
  Blocks = {1, 2, 3}
  MaxCalls = 3
  Faulty = TRUE
  Procs = {p1, p2}
  PIPESIZE = 2
  Wrap = 4
  MaxCount = 3
  MaxBytes = 5
  Killable = {p1}
  ShellProcs = {s1, s2, s3, s4}
  Commands <- AllCommands
  BadLines <- AllBadLines
  MAXARGS = 3
  ReadLimit = 2
  MaxLines = 1
INVARIANTS
  PagesOwnedOnce
  HeapSound
  ExplorerConsistent
  RenameKeepsFiles
  EditorKeepsFaith
  CursorInText
  DragKeepsGroup
  ImageSound
  ReadsSeeWrites
  Fifo
  NoLostWakeup
  ParsesAsMeant
PROPERTIES
  RequestsEnd
  CloseReleases
  PromptReturns
