------------------------------- MODULE Panes -------------------------------
(***************************************************************************)
(* The right panel of a window: the changes of a thread, its git status,   *)
(* and the file pane with its tree and its editor (App.tsx, FilePane.tsx,  *)
(* ChangesPane.tsx, useFiles.ts), over the daemon's thread.diff, turn.diff,*)
(* thread.gitStatus, turn.restore, thread.commit, file.tree, file.read and *)
(* file.write (orchestrator.ts, files/service.ts).  Every request is       *)
(* answered later, in any order, and most answers are shown without a look *)
(* at which thread is open by then.                                        *)
(***************************************************************************)
EXTENDS Naturals, FiniteSets

CONSTANTS
  Threads,
  First,        \* the thread that is open at the start
  Paths,        \* files, the same in every working directory
  MaxTexts,     \* bound: texts that are typed
  MaxClicks     \* bound: clicks that ask for something

VARIABLES
  open,         \* activeIdRef
  panel,        \* rightSurface, changesView, gitStatus and fileFocus
  pane,         \* FilePane: the tree, the editor
  asks,         \* requests under way
  disk,         \* what the files of each thread hold
  clicks,       \* clicks so far
  haste         \* what the user did without waiting for an answer

vars == <<open, panel, pane, asks, disk, clicks, haste>>

Nobody == "nobody"
NoPath == "none"

(* No file is open in the editor.                                           *)
NoFile == [of |-> Nobody, path |-> NoPath, text |-> 0, saved |-> 0]

Ask(what, t, path, text) ==
  [what |-> what, of |-> t, path |-> path, text |-> text, served |-> FALSE]
Asked(what, t) == Ask(what, t, NoPath, 0)

(* A file pane that is closed waits for nothing any more; what it saved is   *)
(* written all the same.                                                    *)
Left(a)  == IF a.what = "write" THEN [a EXCEPT !.what = "left"] ELSE a
Others   == {Left(a) : a \in {b \in asks : b.what \notin {"list", "read"}}}

(* A save and a read of the editor's files, under way at once.              *)
Crosses(as) == /\ \E a \in as : a.what \in {"write", "left"}
               /\ \E a \in as : a.what \in {"read", "marks"}
Noted(as) == IF Crosses(as) THEN haste \cup {"crossed"} ELSE haste

Unmounted == [tree |-> {}, file |-> NoFile]

Init ==
  /\ open = First
  /\ panel = [shows |-> "none", changes |-> Nobody, status |-> Nobody, focus |-> NoPath]
  /\ pane = Unmounted
  /\ asks = {}
  /\ disk = [t \in Threads |-> [p \in Paths |-> 0]]
  /\ clicks = 0
  /\ haste = {}

(* Once a thread was left in haste nothing is claimed any more.             *)
Clicks == clicks < MaxClicks /\ "switched" \notin haste /\ clicks' = clicks + 1

----------------------------------------------------------------------------
(* openThread: forgets the changes and the status; the file pane starts     *)
(* over when the thread is another one.                                     *)
OpenThread(t) ==
  /\ Clicks
  /\ open' = t
  /\ panel' = [panel EXCEPT !.changes = Nobody, !.status = Nobody]
  /\ LET other == t # open /\ panel.shows = "files" IN
     /\ pane' = IF other THEN Unmounted ELSE pane
     /\ asks' = asks \cup {Asked("snap", t)} \cup (IF other THEN {Asked("list", t)} ELSE {})
  /\ haste' = IF t # open /\ \E a \in asks : a.what # "snap"
              THEN haste \cup {"switched"} ELSE haste
  /\ UNCHANGED disk

(* A surface that is not the file pane takes its place.                     *)
Shows(surface, new) ==
  /\ panel' = [panel EXCEPT !.shows = surface]
  /\ IF panel.shows = "files"
     THEN pane' = Unmounted /\ asks' = Others \cup new
     ELSE UNCHANGED pane /\ asks' = asks \cup new

(* openSurface("changes"), or a click on the diff of a turn.                *)
OpenChanges ==
  /\ Clicks
  /\ \E new \in {{Asked("diff", open), Asked("status", open)}, {Asked("diff", open)}} :
       Shows("changes", new)
  /\ UNCHANGED <<open, disk, haste>>

(* The file pane opens: it lists its root, and opens the file the            *)
(* transcript has last pointed at.                                          *)
Mount(focus) ==
  /\ panel' = [panel EXCEPT !.shows = "files", !.focus = focus]
  /\ pane' = IF panel.shows = "files" THEN pane ELSE Unmounted

Reads(focus) == IF focus = NoPath THEN {} ELSE {Ask("read", open, focus, 0)}

OpenFiles ==
  /\ Clicks /\ panel.shows # "files"
  /\ Mount(panel.focus)
  /\ asks' = asks \cup {Asked("list", open)} \cup Reads(panel.focus)
  /\ haste' = Noted(asks')
  /\ UNCHANGED <<open, disk>>

(* A click on a file a turn has changed: it opens at once, and once more     *)
(* when its changed lines are known.                                        *)
OpenChangedFile(p) ==
  /\ Clicks
  /\ Mount(p)
  /\ asks' = asks \cup {Ask("marks", open, p, 0)} \cup Reads(p)
       \cup (IF panel.shows = "files" THEN {} ELSE {Asked("list", open)})
  /\ haste' = Noted(asks')
  /\ UNCHANGED <<open, disk>>

CloseRight ==
  /\ panel.shows # "none"
  /\ panel' = [panel EXCEPT !.shows = "none", !.changes = Nobody]
  /\ pane' = Unmounted /\ asks' = Others
  /\ UNCHANGED <<open, disk, clicks, haste>>

(* restoreTurn and commitThread, from the changes pane.                      *)
Restore ==
  /\ Clicks /\ panel.shows = "changes" /\ panel.changes # Nobody
  /\ asks' = asks \cup {Asked("restore", open)}
  /\ UNCHANGED <<open, panel, pane, disk, haste>>

Commit ==
  /\ Clicks /\ panel.shows = "changes" /\ panel.changes # Nobody
  /\ asks' = asks \cup {Asked("commit", open)}
  /\ UNCHANGED <<open, panel, pane, disk, haste>>

(* turn.diff_ready of the open thread.                                      *)
DiffReady ==
  /\ Clicks
  /\ asks' = asks \cup {Asked("status", open)}
  /\ UNCHANGED <<open, panel, pane, disk, haste>>

----------------------------------------------------------------------------
(* The file pane.                                                           *)
OpenFile(p) ==
  /\ Clicks /\ pane.tree # {}
  /\ asks' = asks \cup {Ask("read", open, p, 0)}
  /\ haste' = Noted(asks')
  /\ UNCHANGED <<open, panel, pane, disk>>

Waits(what) == \E a \in asks : a.what = what

(* The editor's text changes; the mark says whether it is the saved one.    *)
Type(text) ==
  /\ pane.file # NoFile /\ text > pane.file.text
  /\ pane' = [pane EXCEPT !.file.text = text]
  /\ haste' = IF Waits("write") THEN haste \cup {"typed"} ELSE haste
  /\ UNCHANGED <<open, panel, asks, disk, clicks>>

(* The button, or the shortcut, which does not look whether there is         *)
(* anything to save or a save under way.                                    *)
Save ==
  /\ Clicks /\ pane.file # NoFile
  /\ asks' = asks \cup {Ask("write", open, pane.file.path, pane.file.text)}
  /\ haste' = Noted(asks')
  /\ UNCHANGED <<open, panel, pane, disk>>

----------------------------------------------------------------------------
(* The daemon serves a request for a file.                                  *)
FileRead(a) ==
  /\ a.what = "read" /\ ~a.served
  /\ asks' = (asks \ {a}) \cup {[a EXCEPT !.served = TRUE, !.text = disk[a.of][a.path]]}
  /\ UNCHANGED <<open, panel, pane, disk, clicks, haste>>

FileWrite(a) ==
  /\ a.what \in {"write", "left"} /\ ~a.served
  /\ disk' = [disk EXCEPT ![a.of][a.path] = a.text]
  /\ asks' = (asks \ {a}) \cup {[a EXCEPT !.served = TRUE]}
  /\ UNCHANGED <<open, panel, pane, clicks, haste>>

Served(a) == a.what \in {"read", "write", "left"} => a.served

(* What an answer changes.                                                  *)
SavedNow == IF pane.file = NoFile THEN pane ELSE [pane EXCEPT !.file.saved = pane.file.text]

Shown(a) ==
  CASE a.what = "diff"    -> [panel EXCEPT !.changes = a.of]
    [] a.what = "status"  -> [panel EXCEPT !.status = a.of]
    [] a.what = "restore" -> [panel EXCEPT !.changes = Nobody]
    [] a.what = "marks"   -> [panel EXCEPT !.focus = a.path]
    [] OTHER -> panel

InPane(a) ==
  CASE a.what = "list"  -> [pane EXCEPT !.tree = @ \cup {a.of}]
    [] a.what = "read"  -> [pane EXCEPT !.file = [of |-> a.of, path |-> a.path,
                                                  text |-> a.text, saved |-> a.text]]
    [] a.what = "write" -> SavedNow
    [] OTHER -> pane

(* What an answer asks for next: a snapshot of the open thread its status,   *)
(* a commit status and changes, marks the file once more.                   *)
Then(a) ==
  CASE a.what = "snap" /\ a.of = open -> {Asked("status", a.of)}
    [] a.what = "commit" -> {Asked("status", open), Asked("diff", open)}
    [] a.what = "marks" /\ panel.shows = "files" -> {Ask("read", open, a.path, 0)}
    [] OTHER -> {}

Answered(a) ==
  /\ Served(a)
  /\ panel' = Shown(a)
  /\ pane' = InPane(a)
  /\ asks' = (asks \ {a}) \cup Then(a)
  /\ haste' = Noted(asks')
  /\ UNCHANGED <<open, disk, clicks>>

Window ==
  \/ \E t \in Threads : OpenThread(t)
  \/ OpenChanges \/ OpenFiles \/ CloseRight \/ Restore \/ Commit \/ DiffReady \/ Save
  \/ \E p \in Paths : OpenChangedFile(p) \/ OpenFile(p)
  \/ \E text \in 1..MaxTexts : Type(text)

Next == Window \/ \E a \in asks : FileRead(a) \/ FileWrite(a) \/ Answered(a)

Spec == Init /\ [][Next]_vars

----------------------------------------------------------------------------
Somebody == Threads \cup {Nobody}
SomePath == Paths \cup {NoPath}

(* The variables keep their types.                                          *)
TypeOK ==
  /\ open \in Threads
  /\ panel \in [shows: {"none", "changes", "files"}, changes: Somebody, status: Somebody,
                focus: SomePath]
  /\ pane \in [tree: SUBSET Threads,
               file: [of: Somebody, path: SomePath, text: 0..MaxTexts, saved: 0..MaxTexts]]
  /\ asks \subseteq
       [what: {"snap", "diff", "status", "restore", "marks", "commit", "list", "read", "write",
               "left"},
        of: Threads, path: SomePath, text: 0..MaxTexts, served: BOOLEAN]
  /\ disk \in [Threads -> [Paths -> 0..MaxTexts]]
  /\ clicks \in 0..MaxClicks
  /\ haste \subseteq {"switched", "typed", "crossed"}

(* The changes, the status, the tree and the editor are those of the open   *)
(* thread.  Does not hold once a thread was left while an answer for it was *)
(* under way: only the snapshot's answer is checked when it comes.          *)
ShowsOpenThread ==
  "switched" \in haste \/
  /\ {panel.changes, panel.status, pane.file.of} \subseteq {open, Nobody}
  /\ pane.tree \subseteq {open}

(* An editor without the mark of an unsaved text shows what the file holds, *)
(* as far as this editor wrote it (docs/design/components.md:99).  Does not *)
(* hold once the user typed while a save was under way, a save and a read   *)
(* were under way at once, or the thread was left in between.               *)
UnmarkedIsSaved ==
  haste # {} \/ pane.file = NoFile \/ pane.file.text # pane.file.saved \/
  \/ Waits("write")
  \/ disk[pane.file.of][pane.file.path] = pane.file.text

PanesTellTruth == ShowsOpenThread /\ UnmarkedIsSaved
=============================================================================
