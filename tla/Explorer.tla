------------------------------ MODULE Explorer ------------------------------
(***************************************************************************)
(* The file explorer (src/app/explorer/explorer_*.c): its window, the list *)
(* of the current directory, the dialogs, and the file system calls that   *)
(* they lead to.  Every system call of a rename is a step of its own, any  *)
(* call may fail, and the machine may stop between two of them.            *)
(*                                                                         *)
(* A path is a sequence of names; contents are sequences of blocks, the    *)
(* units in which copyFile() copies.                                       *)
(***************************************************************************)
EXTENDS Widgets, Sequences, SequencesExt

CONSTANTS
  Names,          \* names of files and directories
  FileBlocks,         \* what a block of a file may hold
  Hidden,         \* the names shouldShowFile() refuses
  Protected,      \* the names isProtected() knows
  Programs,       \* the names isExecutable() knows
  Extension,      \* names with a dot -> what follows it
  SafeExtensions, TextExtensions, Capitals,
  Reserve,        \* 10: the list ends at MAX_WIDGET_SIZE - Reserve items
  FirstDisks,     \* bound: what the disk holds at first
  MaxActs         \* bound: dialogs opened, deletions and directories entered

MaxDepth == 2
Paths == UNION {[1 .. n -> Names] : n \in 1 .. MaxDepth}
None == <<"none">>
Dir == <<"dir">>
Contents == {None, Dir} \cup Seq(FileBlocks)

ASSUME ExplorerAssumption ==
  /\ IsFiniteSet(Names) /\ "none" \notin FileBlocks /\ "dir" \notin FileBlocks
  /\ MAX_WIDGET_SIZE \in Nat /\ Reserve \in 0 .. MAX_WIDGET_SIZE - 1
  /\ \A d \in FirstDisks : d = [p \in Paths |-> d[p]] /\ \A p \in Paths : d[p] \in Contents

VARIABLES
  disk,     \* [paths -> "none", "dir" or a file's blocks]
  ex,       \* ExplorerState
  renaming, \* the rename in progress: [pc, old, new, at]
  before,   \* ghost: the files the last rename must keep, as it began
  acts

explorerVars == <<disk, ex, renaming, before, acts>>

Exists(p) == p \in Paths /\ disk[p] # None
IsFile(p) == Exists(p) /\ disk[p] # Dir
DirExists(p) == p = <<>> \/ (p \in Paths /\ disk[p] = Dir)
Within(p) == {q \in Paths : Len(q) > Len(p) /\ SubSeq(q, 1, Len(p)) = p /\ disk[q] # None}

-----------------------------------------------------------------------------
(* explorer_utils.c *)

\* Without a dot the search runs to the start: the extension is the name.
getFileExtension(n) == IF n \in DOMAIN Extension THEN Extension[n] ELSE n

isExecutable(n) ==
  \/ n \in Programs
  \/ getFileExtension(n) = "" /\ n \notin Capitals
  \/ getFileExtension(n) # "" /\ getFileExtension(n) \notin SafeExtensions

shouldShowFile(n) == n \notin Hidden

canOpenWithEditor(n) ==
  ~isExecutable(n)
  /\ (getFileExtension(n) \in TextExtensions \cup {""} \/ n \in Capitals)

isProtected(n) == n \in Protected

\* The result is in a static buffer.  For a path with no slash in it, a
\* negative length is copied: the buffer keeps what the last call left.
getParentPath(p, buf) == IF Len(p) > 1 THEN Front(p) ELSE buf

-----------------------------------------------------------------------------
(* explorer_ui.c *)

initUI ==
  LET button(win, name) == Add(win, "BUTTON", name, FALSE, <<name>>)
      bg == Add(createWindow, "COLORFILL", "emptyHandler", FALSE, <<"window">>)
      a == Add(bg, "COLORFILL", "emptyHandler", FALSE, <<"topbar">>)
      b == button(button(button(a, "handleBack"), "handleHome"), "handleNewFolder")
      c == button(button(button(b, "handleNewFile"), "handleRename"), "handleDelete")
      d == Add(c, "TEXT", "emptyHandler", FALSE, <<"path">>)
      bar == Add(d, "COLORFILL", "emptyHandler", FALSE, <<"statusbar">>)
      e == Add(bar, "COLORFILL", "handleKeyboard", FALSE, <<"corner">>)
  IN  [e EXCEPT !.keyfocus = e.widgetlisttail]

removeAllScrollableWidgets(win) ==
  FoldLeft(removeWidget, win, SetToSortSeq({i \in Listed(win) : win.widgets[i].scrollable}, <))

Shown(n, p) == Exists(p) /\ (disk[p] = Dir \/ shouldShowFile(n))

\* The window with a row for each of the first k items.
Rows(win, k) ==
  FoldLeft(LAMBDA w, i : Add(w, "TEXT", "handleFileClick", TRUE, <<"row", i - 1>>),
           win, [i \in 1 .. k |-> i])

\* The items of a directory, each with the widget made for it (-1 when the
\* table of widgets is full).  A directory that cannot be opened leaves the
\* items of the last one.
loadFiles(e) ==
  LET win == removeAllScrollableWidgets(e.win)
      names == SetToSeq({n \in Names : Shown(n, Append(e.path, n))})
      total == Min({Len(names), MAX_WIDGET_SIZE - Reserve})
  IN  IF ~DirExists(e.path) THEN [e EXCEPT !.win = win]
      ELSE [e EXCEPT
              !.win = Rows(win, total),
              !.items = [i \in 1 .. total |->
                           [name |-> names[i], is_dir |-> disk[Append(e.path, names[i])] = Dir,
                            widget_id |-> findNextAvailable(Rows(win, i - 1))]],
              !.selected = -1]

-----------------------------------------------------------------------------
(* explorer_dialogs.c *)

Parts == <<"bg", "panel", "title", "input", "btn1", "btn2">>
NoDialog == [p \in ToSet(Parts) |-> NoWidget]

RemovePart(win, id) == IF id = NoWidget THEN win ELSE removeWidget(win, id)

WithoutDialog(win, dialog) ==
  FoldLeft(RemovePart, win, [k \in DOMAIN Parts |-> dialog[Parts[k]]])

\* The keys stay with the slot of the removed input field.
clearDialog(e) ==
  [e EXCEPT !.win = WithoutDialog(@, e.dialog), !.dialog = NoDialog, !.active = FALSE]

PartType == [bg |-> "COLORFILL", panel |-> "COLORFILL", title |-> "TEXT",
             input |-> "INPUTFIELD", btn1 |-> "BUTTON", btn2 |-> "BUTTON"]
PartPlace == [bg |-> <<"window">>, panel |-> <<"panel">>, title |-> <<"title">>,
              input |-> <<"input">>, btn1 |-> <<"ok">>, btn2 |-> <<"cancel">>]
PartHandler(part, onConfirm) ==
  CASE part = "input" -> "dialogInputHandler"
    [] part = "btn1" -> onConfirm
    [] part = "btn2" -> "cancelDialog"
    [] OTHER -> "emptyHandler"

\* d is the window and the ids of the parts it has so far.
AddPart(d, part, onConfirm) ==
  [win |-> Add(d.win, PartType[part], PartHandler(part, onConfirm), FALSE, PartPlace[part]),
   dialog |-> [d.dialog EXCEPT ![part] = findNextAvailable(d.win)]]

WithDialog(win, onConfirm) ==
  LET d == FoldLeft(LAMBDA x, part : AddPart(x, part, onConfirm),
                    [win |-> win, dialog |-> NoDialog], Parts)
  IN  [d EXCEPT !.win.keyfocus = d.dialog["input"]]

showDialog(e, text, onConfirm) ==
  LET d == WithDialog(clearDialog(e).win, onConfirm) IN
  [clearDialog(e) EXCEPT !.win = d.win, !.dialog = d.dialog, !.active = TRUE, !.text = text]

-----------------------------------------------------------------------------
(* Messages: a click lands on the topmost widget, whose handler runs. *)

Ready == ~ex.need_refresh /\ renaming.pc = "idle"
Selected == ex.selected >= 0 /\ ex.selected < Len(ex.items)
Clicked(handler) ==
  \E at \in {w.place : w \in Range(ex.win.widgets)} :
    LET p == Hit(ex.win, at) IN p # NoWidget /\ ex.win.widgets[p].handler = handler

Enter(e, n) ==
  IF Len(e.path) < MaxDepth THEN [e EXCEPT !.path = Append(@, n), !.need_refresh = TRUE]
  ELSE e

\* fork(), and exec() of the editor or of the file itself.
Launch(e, n) == [e EXCEPT !.ran = IF canOpenWithEditor(n) THEN "editor" ELSE n]

Opened(e, item) == IF item.is_dir THEN Enter(e, item.name) ELSE Launch(e, item.name)

handleBack ==
  /\ Ready /\ Clicked("handleBack") /\ ~ex.active
  /\ LET parent == getParentPath(ex.path, ex.buf) IN
     ex' = [ex EXCEPT !.path = parent, !.buf = parent, !.need_refresh = TRUE]
  /\ UNCHANGED <<disk, renaming, before, acts>>

handleHome ==
  /\ Ready /\ Clicked("handleHome") /\ ~ex.active
  /\ ex' = [ex EXCEPT !.path = <<>>, !.need_refresh = TRUE]
  /\ UNCHANGED <<disk, renaming, before, acts>>

Dialog(handler, text, onConfirm) ==
  /\ Ready /\ Clicked(handler) /\ ~ex.active /\ acts < MaxActs
  /\ ex' = showDialog(ex, text, onConfirm)
  /\ acts' = acts + 1
  /\ UNCHANGED <<disk, renaming, before>>

handleNewFolder == Dialog("handleNewFolder", "", "confirmNewFolder")
handleNewFile == Dialog("handleNewFile", "", "confirmNewFile")
handleRename ==
  /\ Selected /\ ~isProtected(ex.name)
  /\ Dialog("handleRename", ex.name, "confirmRename")

\* unlink(), which refuses a directory that is not empty.
Unlinked(p) == IF Within(p) # {} THEN disk ELSE [disk EXCEPT ![p] = None]

handleDelete ==
  /\ Ready /\ Clicked("handleDelete") /\ ~ex.active /\ acts < MaxActs
  /\ Selected /\ ~isProtected(ex.name)
  /\ LET p == Append(ex.path, ex.name) IN
     disk' = IF Exists(p) THEN Unlinked(p) ELSE disk
  /\ ex' = [ex EXCEPT !.need_refresh = TRUE]
  /\ acts' = acts + 1
  /\ before' = [p \in Paths |-> None]
  /\ UNCHANGED renaming

\* handleFileClick(): select, or open with a double click.
handleFileClick ==
  /\ Ready /\ ~ex.active
  /\ \E i \in 1 .. Len(ex.items) :
       LET p == Hit(ex.win, <<"row", i - 1>>)
           item == ex.items[i]
       IN
       /\ p # NoWidget /\ p = item.widget_id
       /\ ex.win.widgets[p].handler = "handleFileClick"
       /\ \/ ex' = [ex EXCEPT !.selected = i - 1, !.name = item.name,
                              !.is_dir = item.is_dir]
             /\ UNCHANGED acts
          \/ /\ acts < MaxActs /\ acts' = acts + 1
             /\ ex' = Opened(ex, item)
  /\ UNCHANGED <<disk, renaming, before>>

SelectAt(e, i) ==
  [e EXCEPT !.selected = i, !.name = e.items[i + 1].name, !.is_dir = e.items[i + 1].is_dir]

Key(handler) == ex.win.keyfocus # NoWidget /\ ex.win.widgets[ex.win.keyfocus].handler = handler

handleKeyboard ==
  /\ Ready /\ Key("handleKeyboard") /\ ~ex.active
  /\ \/ /\ ex.selected < Len(ex.items) - 1
        /\ ex' = SelectAt(ex, ex.selected + 1)
        /\ UNCHANGED acts
     \/ /\ ex.selected > 0
        /\ ex.selected <= Len(ex.items)
        /\ ex' = SelectAt(ex, ex.selected - 1)
        /\ UNCHANGED acts
     \/ /\ ex.selected = -1 /\ ex.items # <<>>
        /\ ex' = SelectAt(ex, 0)
        /\ UNCHANGED acts
     \/ /\ Selected /\ acts < MaxActs /\ acts' = acts + 1
        /\ ex' = Opened(ex, [name |-> ex.name, is_dir |-> ex.is_dir])
  /\ UNCHANGED <<disk, renaming, before>>

\* dialogInputHandler(): the text of the dialog, as a whole.  After a dialog
\* the keys stay with the freed slot until another widget takes it: the key
\* is then written into a field that was freed.
dialogInputHandler ==
  /\ Ready /\ Key("dialogInputHandler")
  /\ IF IsFree(ex.win, ex.win.keyfocus) THEN ex' = [ex EXCEPT !.wild = TRUE]
     ELSE \E t \in Names \cup {""} : ex' = [ex EXCEPT !.text = t]
  /\ UNCHANGED <<disk, renaming, before, acts>>

cancelDialog ==
  /\ Ready /\ Clicked("cancelDialog")
  /\ ex' = clearDialog(ex)
  /\ UNCHANGED <<disk, renaming, before, acts>>

Target == Append(ex.path, ex.text)
Done(e) == [clearDialog(e) EXCEPT !.need_refresh = TRUE]

\* mkdir() or open(O_CREATE): either may fail.
Created(kind) ==
  \/ UNCHANGED disk
  \/ /\ DirExists(ex.path) /\ Target \in Paths /\ ~Exists(Target)
     /\ disk' = [disk EXCEPT ![Target] = kind]

Confirm(handler, kind) ==
  /\ Ready /\ Clicked(handler) /\ ex.dialog["input"] # NoWidget
  /\ IF ex.text = "" THEN ex' = clearDialog(ex) /\ UNCHANGED disk
     ELSE ex' = Done(ex) /\ Created(kind)
  /\ before' = [p \in Paths |-> None]
  /\ UNCHANGED <<renaming, acts>>

confirmNewFolder == Confirm("confirmNewFolder", Dir)
confirmNewFile == Confirm("confirmNewFile", <<>>)

NotRenaming == [pc |-> "idle", old |-> <<>>, new |-> <<>>, at |-> 0]

\* confirmRename() up to its first system call.
confirmRename ==
  /\ Ready /\ Clicked("confirmRename") /\ ex.dialog["input"] # NoWidget
  /\ Selected
  /\ IF ex.text \in {"", ex.name}
     THEN ex' = clearDialog(ex) /\ UNCHANGED <<renaming, before>>
     ELSE /\ renaming' = [pc |-> IF ex.is_dir THEN "mkdir" ELSE "link",
                          old |-> Append(ex.path, ex.name), new |-> Target, at |-> 0]
          /\ before' = [p \in Paths |-> IF p = Target THEN None ELSE disk[p]]
          /\ UNCHANGED ex
  /\ UNCHANGED <<disk, acts>>

Goes(pc) == renaming' = [renaming EXCEPT !.pc = pc]
NewFits == DirExists(Front(renaming.new)) /\ renaming.new \in Paths

\* A directory: make the new one and unlink the old one.
rename_mkdir ==
  /\ renaming.pc = "mkdir"
  /\ \/ /\ NewFits /\ ~Exists(renaming.new)
        /\ disk' = [disk EXCEPT ![renaming.new] = Dir]
        /\ Goes("unlink")
     \/ Goes("end") /\ UNCHANGED disk
  /\ UNCHANGED <<ex, before, acts>>

\* A file: a second link, or a copy where that fails.
rename_link ==
  /\ renaming.pc = "link"
  /\ \/ /\ IsFile(renaming.old) /\ NewFits /\ ~Exists(renaming.new)
        /\ disk' = [disk EXCEPT ![renaming.new] = disk[renaming.old]]
        /\ Goes("unlink")
     \/ Goes("open") /\ UNCHANGED disk
  /\ UNCHANGED <<ex, before, acts>>

\* copyFile(): the target is created, or overwritten without truncation.
copy_open ==
  /\ renaming.pc = "open"
  /\ \/ /\ IsFile(renaming.old) /\ NewFits /\ disk[renaming.new] # Dir
        /\ disk' = IF Exists(renaming.new) THEN disk
                   ELSE [disk EXCEPT ![renaming.new] = <<>>]
        /\ Goes("copy")
     \/ Goes("end") /\ UNCHANGED disk
  /\ UNCHANGED <<ex, before, acts>>

Overwritten(s, k, b) == IF k <= Len(s) THEN [s EXCEPT ![k] = b] ELSE Append(s, b)

\* Mutant: a short write ends the copy like the end of the file.
copy_blockIgnoresError ==
  /\ renaming.pc = "copy"
  /\ LET src == disk[renaming.old]
         k == renaming.at + 1
     IN
     \/ /\ k <= Len(src)
        /\ disk' = [disk EXCEPT ![renaming.new] = Overwritten(@, k, src[k])]
        /\ renaming' = [renaming EXCEPT !.at = k]
     \/ Goes("unlink") /\ UNCHANGED disk
  /\ UNCHANGED <<ex, before, acts>>

\* A write() that fails or is short ends the rename.  A read() that fails
\* ends the copy like the end of the file does, so that the old name goes:
\* RenameKeepsFiles gives that file up.
copy_block ==
  /\ renaming.pc = "copy"
  /\ LET src == disk[renaming.old]
         k == renaming.at + 1
     IN
     \/ /\ k <= Len(src)
        /\ disk' = [disk EXCEPT ![renaming.new] = Overwritten(@, k, src[k])]
        /\ renaming' = [renaming EXCEPT !.at = k]
        /\ UNCHANGED before
     \/ /\ k <= Len(src)
        /\ Goes("end") /\ UNCHANGED <<disk, before>>
     \/ /\ k > Len(src)
        /\ Goes("unlink") /\ UNCHANGED <<disk, before>>
     \/ /\ Goes("unlink") /\ UNCHANGED disk
        /\ before' = [before EXCEPT ![renaming.old] = None]
  /\ UNCHANGED <<ex, acts>>

rename_unlink ==
  /\ renaming.pc = "unlink"
  /\ disk' = IF Exists(renaming.old) THEN Unlinked(renaming.old) ELSE disk
  /\ Goes("end")
  /\ UNCHANGED <<ex, before, acts>>

rename_end ==
  /\ renaming.pc = "end"
  /\ ex' = [Done(ex) EXCEPT !.selected = -1]
  /\ renaming' = NotRenaming
  /\ UNCHANGED <<disk, before, acts>>

\* The main loop after a message.
main_refresh ==
  /\ ex.need_refresh
  /\ ex' = [loadFiles(ex) EXCEPT !.need_refresh = FALSE]
  /\ UNCHANGED <<disk, renaming, before, acts>>

\* Another program removes a file or an empty directory.
others_unlink ==
  /\ acts < MaxActs /\ acts' = acts + 1
  /\ renaming.pc = "idle"
  /\ \E p \in Paths : /\ Exists(p) /\ Within(p) = {}
                      /\ disk' = [disk EXCEPT ![p] = None]
  /\ before' = [p \in Paths |-> None]
  /\ UNCHANGED <<ex, renaming>>

Fresh ==
  loadFiles([win |-> initUI, path |-> <<>>, buf |-> <<>>, selected |-> -1, items |-> <<>>, name |-> "",
             is_dir |-> FALSE, active |-> FALSE, dialog |-> NoDialog, text |-> "",
             need_refresh |-> FALSE, ran |-> "", wild |-> FALSE])

\* The machine stops and the explorer is started again; the disk stays, and
\* with it what a key written into freed memory may have led to.
restart ==
  /\ renaming.pc # "idle"
  /\ ex' = [Fresh EXCEPT !.wild = ex.wild]
  /\ renaming' = NotRenaming
  /\ UNCHANGED <<disk, before, acts>>

ExplorerInit ==
  /\ disk \in FirstDisks
  /\ ex = Fresh
  /\ renaming = NotRenaming
  /\ before = [p \in Paths |-> None]
  /\ acts = 0

ExplorerNext ==
  \/ handleBack \/ handleHome \/ handleNewFolder \/ handleNewFile \/ handleRename
  \/ handleDelete \/ handleFileClick \/ handleKeyboard \/ dialogInputHandler
  \/ cancelDialog \/ confirmNewFolder \/ confirmNewFile \/ confirmRename
  \/ rename_mkdir \/ rename_link \/ copy_open \/ copy_block \/ rename_unlink
  \/ rename_end \/ main_refresh \/ others_unlink \/ restart

ExplorerSpec == ExplorerInit /\ [][ExplorerNext]_explorerVars

-----------------------------------------------------------------------------
(* Properties *)

\* The widget list stays sound through every listing and dialog, also when
\* the table of widgets is full: the slots in use are those of the tool bar,
\* of the items and of the dialog, each once, and a dialog can be cancelled
\* if the items leave it the six slots it needs.
ExplorerWidgets ==
  LET listed == Listed(ex.win)
      ids == {ex.dialog[p] : p \in DOMAIN ex.dialog} \ {NoWidget}
      rows == {i \in listed : ex.win.widgets[i].scrollable}
  IN
  /\ WellLinked(ex.win)
  /\ ids \subseteq listed
  /\ listed = Listed(initUI) \cup ids \cup rows
  /\ rows \subseteq {ex.items[i].widget_id : i \in DOMAIN ex.items}
  /\ (ex.active /\ Cardinality(Listed(initUI)) + Cardinality(rows) + 6 <= MAX_WIDGET_SIZE)
       => Clicked("cancelDialog")

\* What Rename and Delete act on is the item the selection shows, whichever
\* way it was selected and whatever was loaded since.
SelectionMatches ==
  Selected => /\ ex.name = ex.items[ex.selected + 1].name
              /\ ex.is_dir = ex.items[ex.selected + 1].is_dir

\* The screen and what the explorer acts on agree, widget by widget and for
\* the item that is selected.  After a key was written into the freed input
\* field of an earlier dialog (user_window.c:185-188) nothing is said: the
\* memory may belong to any widget by then.
ExplorerConsistent == ~ex.wild => ExplorerWidgets /\ SelectionMatches

\* What a file of the last rename held is still the beginning of some file.
FilesKept ==
  \A p \in Paths :
    before[p] \notin {None, Dir} =>
      \E q \in Paths : disk[q] \notin {None, Dir} /\ IsPrefix(before[p], disk[q])

\* A rename loses no file, whichever of its calls fails or is the last one
\* before the machine stops, with three exceptions: a file that the new name
\* overwrites; a file of which a read() fails while it is copied, for
\* copyFile() takes the -1 for the end of the file and the old name is then
\* unlinked (explorer_fileops.c:93, 169-170); and whatever happens once a key
\* was written into a freed input field.
RenameKeepsFiles == ~ex.wild => FilesKept

(* The inductive invariant behind RenameKeepsFiles *)

Fields == {"win", "path", "buf", "selected", "items", "name", "is_dir", "active", "dialog",
           "text", "need_refresh", "ran", "wild"}

ExplorerShape ==
  /\ disk \in [Paths -> Contents] /\ DOMAIN before = Paths
  /\ DOMAIN ex = Fields
  /\ ex.path \in Paths \cup {<<>>} /\ ex.buf \in Paths \cup {<<>>}
  /\ ex.selected \in Nat \cup {-1}
  /\ ex.items \in Seq(Range(ex.items)) /\ \A i \in 1 .. Len(ex.items) : ex.items[i].name \in Names
  /\ renaming.pc \in {"idle", "mkdir", "link", "open", "copy", "unlink", "end"}
  /\ DOMAIN renaming = {"pc", "old", "new", "at"}

\* Unless the directory is gone, or about to be loaded again, what the list
\* takes for a directory is no file, and the other way round.
ItemsKnown ==
  renaming.pc = "idle" /\ ~ex.need_refresh /\ DirExists(ex.path) =>
    \A i \in 1 .. Len(ex.items) :
      LET p == Append(ex.path, ex.items[i].name) IN
      Exists(p) => (disk[p] = Dir <=> ex.items[i].is_dir)

\* Until its last unlink() a rename has touched nothing but the new name.
OnlyNewTouched ==
  /\ renaming.old # renaming.new /\ Front(renaming.old) = Front(renaming.new)
  /\ \A p \in Paths : before[p] \in IF p = renaming.new THEN {None} ELSE {None, disk[p]}

\* The first renaming.at blocks of the file were copied.
CopiedSoFar ==
  LET from == disk[renaming.old]
      to == disk[renaming.new]
  IN
  /\ {renaming.old, renaming.new} \subseteq Paths /\ {from, to} \subseteq Seq(FileBlocks)
  /\ renaming.at \in 0 .. Len(from) /\ renaming.at <= Len(to)
  /\ \A k \in 1 .. renaming.at : to[k] = from[k]

\* What a rename relies on between two of its calls.
RenameFits ==
  LET old == renaming.old
      new == renaming.new
  IN
  /\ renaming.pc \in {"mkdir", "link", "open", "copy", "unlink"} => OnlyNewTouched
  /\ renaming.pc = "mkdir" /\ DirExists(Front(new)) => ~IsFile(old)
  /\ renaming.pc \in {"mkdir", "link", "open"} => renaming.at = 0
  /\ renaming.pc = "copy" => CopiedSoFar
  /\ renaming.pc = "unlink" /\ IsFile(old) /\ before[old] # None =>
       IsFile(new) /\ IsPrefix(disk[old], disk[new])

ExplorerInv ==
  ExplorerShape /\ SelectionMatches /\ ItemsKnown /\ RenameFits /\ FilesKept
=============================================================================
