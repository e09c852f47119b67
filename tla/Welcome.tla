-------------------------------- MODULE Welcome --------------------------------
(***************************************************************************)
(* Adding projects and the first run: the welcome screen (Onboarding.tsx), *)
(* the dialog that adds a folder or clones one (AddProjectDialog.tsx),     *)
(* what App.tsx does for them, and project.create and project.clone in the *)
(* daemon (orchestrator.ts).  Every window hears of every project, and     *)
(* refreshes its list.  The start of the first thread is two steps here,   *)
(* thread.create and turn.send; Compose.tla has the others.                *)
(*                                                                         *)
(* A call has two sides: what the daemon does on it, and the window, which *)
(* may stop waiting before.                                                *)
(***************************************************************************)
EXTENDS Naturals, Sequences, FiniteSets

CONSTANTS
  Folders,
  MaxCalls, MaxEvents   \* bounds: calls; connections, detections, skips, replays and timeouts

VARIABLES
  disk,     \* each folder: not there, being cloned, there
  rows,     \* the projects of the daemon, in order: the call that made each
  call,
  win,      \* the window: its connection, how many projects it knows, its flags and dialog
  ob,       \* the welcome screen, while it is mounted
  events

vars == <<disk, rows, call, win, ob, events>>

Calls == 1..MaxCalls
NoProject == 0
NoCall == [what |-> "none", folder |-> "none", project |-> NoProject, gen |-> 0, at |-> "no",
           heard |-> "no", late |-> FALSE, early |-> FALSE, turn |-> FALSE]
Fresh(gen, project) ==
  [gen |-> gen, step |-> "welcome", project |-> project, ready |-> FALSE, busy |-> FALSE,
   hasty |-> FALSE]

Init ==
  /\ disk \in [Folders -> {"absent", "here"}]
  /\ rows = <<>>
  /\ call = [c \in Calls |-> NoCall]
  /\ win = [open |-> FALSE, known |-> 0, ready |-> FALSE, dismissed |-> FALSE, forced |-> FALSE,
            dialog |-> 0, dialogs |-> 0, adding |-> FALSE]
  /\ ob = Fresh(0, NoProject)
  /\ events = 0

Event == events < MaxEvents /\ events' = events + 1

(* When the welcome screen is there; mounted again, it starts afresh.       *)
Shown(w) == w.open /\ (w.forced \/ (~w.dismissed /\ w.known = 0))
First(w) == IF w.known > 0 THEN 1 ELSE NoProject
Becomes(w, o) ==
  /\ win' = w
  /\ ob' = IF Shown(w) = Shown(win) THEN o
           ELSE [Fresh(ob.gen + 1, First(w)) EXCEPT !.ready = w.ready]

----------------------------------------------------------------------------
(* The connection.  What is under way is rejected in the window; the daemon *)
(* goes on with what reached it.                                            *)
Waits(c) == call[c].heard = "waits"
OfScreen(c) == call[c].what \in {"adopt", "start"}
Connect ==
  /\ ~win.open /\ Event
  /\ Becomes([win EXCEPT !.open = TRUE], ob)
  /\ UNCHANGED <<disk, rows, call>>

Drop ==
  /\ win.open /\ Event
  /\ call' = [c \in Calls |-> IF Waits(c) THEN [call[c] EXCEPT !.heard = "error"] ELSE call[c]]
  /\ Becomes([win EXCEPT !.open = FALSE, !.adding = FALSE], ob)
  /\ UNCHANGED <<disk, rows>>

(* refresh, after project.created or when the socket opens.                 *)
Refresh ==
  /\ win.open /\ win.known < Len(rows)
  /\ Becomes([win EXCEPT !.known = Len(rows)], ob)
  /\ UNCHANGED <<disk, rows, call, events>>

(* provider.detect, which the welcome screen repeats while nothing is ready. *)
Detect ==
  /\ win.open /\ ~win.ready /\ Event
  /\ Becomes([win EXCEPT !.ready = TRUE], [ob EXCEPT !.ready = TRUE])
  /\ UNCHANGED <<disk, rows, call>>

----------------------------------------------------------------------------
(* The steps of the welcome screen.                                         *)
AfterAgents == IF win.known > 0 \/ ob.project # NoProject THEN "first-prompt" ELSE "project"
Begin ==
  /\ Shown(win) /\ ob.step = "welcome"
  /\ ob' = [ob EXCEPT !.step = IF win.ready THEN AfterAgents ELSE "providers"]
  /\ UNCHANGED <<disk, rows, call, win, events>>

Continue ==
  /\ Shown(win) /\ ob.step = "providers" /\ win.ready
  /\ ob' = [ob EXCEPT !.step = AfterAgents]
  /\ UNCHANGED <<disk, rows, call, win, events>>

PickProject ==
  /\ Shown(win) /\ ob.step = "project"
  /\ \E p \in 1..win.known : ob' = [ob EXCEPT !.project = p, !.step = "first-prompt"]
  /\ UNCHANGED <<disk, rows, call, win, events>>

Skip ==
  /\ Shown(win) /\ Event
  /\ Becomes([win EXCEPT !.dismissed = TRUE, !.forced = FALSE], ob)
  /\ UNCHANGED <<disk, rows, call>>

(* The settings are behind an open dialog.                                  *)
Replay ==
  /\ win.open /\ ~Shown(win) /\ win.dialog = 0 /\ Event
  /\ Becomes([win EXCEPT !.dismissed = FALSE, !.forced = TRUE], ob)
  /\ UNCHANGED <<disk, rows, call>>

(* A call, of this welcome screen or of this dialog.                        *)
Calling(what, folder, project, gen) ==
  \E c \in Calls :
    /\ call[c] = NoCall /\ \A d \in 1..c - 1 : call[d] # NoCall
    /\ call' = [call EXCEPT ![c] = [NoCall EXCEPT !.what = what, !.folder = folder,
                 !.project = project, !.gen = gen, !.at = "asked", !.heard = "waits"]]

(* adoptPath: a dropped folder does not wait for the one before.            *)
Adopt ==
  /\ Shown(win) /\ ob.step = "project"
  /\ \E f \in Folders : Calling("adopt", f, NoProject, ob.gen)
  /\ ob' = [ob EXCEPT !.busy = TRUE, !.hasty = @ \/ ob.busy]
  /\ UNCHANGED <<disk, rows, win, events>>

(* start: neither does the Enter key.                                       *)
Start ==
  /\ Shown(win) /\ ob.step = "first-prompt" /\ ob.project # NoProject /\ ob.ready
  /\ Calling("start", "none", ob.project, ob.gen)
  /\ ob' = [ob EXCEPT !.busy = TRUE, !.hasty = @ \/ ob.busy]
  /\ UNCHANGED <<disk, rows, win, events>>

(* AddProjectDialog.                                                        *)
OpenDialog ==
  /\ win.open /\ ~Shown(win) /\ win.dialog = 0 /\ Event
  /\ win' = [win EXCEPT !.dialog = win.dialogs + 1, !.dialogs = @ + 1, !.adding = FALSE]
  /\ UNCHANGED <<disk, rows, call, ob>>

CloseDialog ==
  /\ win.dialog # 0 /\ Event
  /\ win' = [win EXCEPT !.dialog = 0]
  /\ UNCHANGED <<disk, rows, call, ob>>

Submit ==
  /\ win.open /\ ~Shown(win) /\ win.dialog # 0 /\ ~win.adding
  /\ \E f \in Folders, what \in {"add", "clone"} : Calling(what, f, NoProject, win.dialog)
  /\ win' = [win EXCEPT !.adding = TRUE]
  /\ UNCHANGED <<disk, rows, ob, events>>

----------------------------------------------------------------------------
(* The daemon.                                                              *)
Did(c, at) == call' = [call EXCEPT ![c].at = at]

(* createProject: the path must be there, whole or not.                     *)
CreateProject(c) ==
  /\ call[c].at = "asked" /\ call[c].what \in {"adopt", "add"}
  /\ LET there == disk[call[c].folder] IN
       IF there = "absent" THEN Did(c, "failed") /\ UNCHANGED rows
       ELSE /\ rows' = Append(rows, c)
            /\ call' = [call EXCEPT ![c].at = "done", ![c].project = Len(rows) + 1,
                                    ![c].early = there = "part"]
  /\ UNCHANGED <<disk, win, ob, events>>

(* cloneProject: it must not, and then git looks again.                     *)
CheckClone(c) ==
  /\ call[c].at = "asked" /\ call[c].what = "clone"
  /\ Did(c, IF disk[call[c].folder] = "absent" THEN "spawned" ELSE "failed")
  /\ UNCHANGED <<disk, rows, win, ob, events>>

GitBegins(c) ==
  /\ call[c].at = "spawned"
  /\ IF disk[call[c].folder] = "absent"
       THEN Did(c, "cloning") /\ disk' = [disk EXCEPT ![call[c].folder] = "part"]
       ELSE Did(c, "failed") /\ UNCHANGED disk
  /\ UNCHANGED <<rows, win, ob, events>>

GitEnds(c) ==
  /\ call[c].at = "cloning"
  /\ \/ /\ disk' = [disk EXCEPT ![call[c].folder] = "here"]
        /\ rows' = Append(rows, c)
        /\ call' = [call EXCEPT ![c].at = "done", ![c].project = Len(rows) + 1]
     \/ /\ disk' = [disk EXCEPT ![call[c].folder] = "absent"]
        /\ Did(c, "failed")
        /\ UNCHANGED rows
  /\ UNCHANGED <<win, ob, events>>

(* thread.create, and turn.send if the window still waits to send it.       *)
StartThread(c) ==
  /\ call[c].what = "start"
  /\ \/ call[c].at = "asked" /\ Did(c, "created")
     \/ call[c].at = "created" /\ Waits(c) /\ Did(c, "sent")
     \/ call[c].at = "sent" /\ call' = [call EXCEPT ![c].at = "done", ![c].turn = TRUE]
     \/ call[c].at \in {"asked", "sent"} /\ Did(c, "failed")
  /\ UNCHANGED <<disk, rows, win, ob, events>>

----------------------------------------------------------------------------
(* The window hears of it, or no longer waits.                              *)
Rejects(c, late) ==
  /\ call' = [call EXCEPT ![c].heard = "error", ![c].late = late]
  /\ ob'  = IF OfScreen(c) /\ call[c].gen = ob.gen THEN [ob EXCEPT !.busy = FALSE] ELSE ob
  /\ win' = IF ~OfScreen(c) /\ call[c].gen = win.dialog THEN [win EXCEPT !.adding = FALSE] ELSE win
  /\ UNCHANGED <<disk, rows>>

TimesOut(c) == Waits(c) /\ Event /\ Rejects(c, TRUE)
Refused(c)  == Waits(c) /\ call[c].at = "failed" /\ Rejects(c, FALSE) /\ UNCHANGED events

(* The answer, after the refresh that comes first; a closed dialog closes   *)
(* the one that is open.                                                    *)
Answered(c) ==
  /\ Waits(c) /\ call[c].at = "done" /\ win.open
  /\ call' = [call EXCEPT ![c].heard = "done"]
  /\ LET listed == [win EXCEPT !.known = Len(rows)] IN
       CASE call[c].what = "start" -> Becomes([win EXCEPT !.dismissed = TRUE, !.forced = FALSE], ob)
         [] call[c].what = "adopt" ->
              Becomes(listed, IF call[c].gen = ob.gen
                              THEN [ob EXCEPT !.project = call[c].project, !.step = "first-prompt",
                                              !.busy = FALSE]
                              ELSE ob)
         [] OTHER -> Becomes([listed EXCEPT !.dialog = 0, !.adding = FALSE], ob)
  /\ UNCHANGED <<disk, rows, events>>

Next ==
  \/ Connect \/ Drop \/ Refresh \/ Detect
  \/ Begin \/ Continue \/ PickProject \/ Skip \/ Replay \/ Adopt \/ Start
  \/ OpenDialog \/ CloseDialog \/ Submit
  \/ \E c \in Calls :
       \/ CreateProject(c) \/ CheckClone(c) \/ GitBegins(c) \/ GitEnds(c) \/ StartThread(c)
       \/ TimesOut(c) \/ Refused(c) \/ Answered(c)

Spec == Init /\ [][Next]_vars

----------------------------------------------------------------------------
Projects == 0..MaxCalls
TypeOK ==
  /\ disk \in [Folders -> {"absent", "part", "here"}]
  /\ rows \in Seq(Calls)
  /\ call \in [Calls -> [what : {"none", "adopt", "start", "add", "clone"},
                         folder : Folders \cup {"none"}, project : Projects, gen : Nat,
                         at : {"no", "asked", "spawned", "cloning", "created", "sent",
                               "done", "failed"},
                         heard : {"no", "waits", "error", "done"}, late : BOOLEAN,
                         early : BOOLEAN, turn : BOOLEAN]]
  /\ win \in [open : BOOLEAN, known : Projects, ready : BOOLEAN, dismissed : BOOLEAN,
              forced : BOOLEAN, dialog : 0..MaxEvents, dialogs : 0..MaxEvents, adding : BOOLEAN]
  /\ ob \in [gen : Nat, step : {"welcome", "providers", "project", "first-prompt"},
             project : Projects, ready : BOOLEAN, busy : BOOLEAN, hasty : BOOLEAN]
  /\ events \in 0..MaxEvents

(* A project has its folder, whole, but for one added while the folder was  *)
(* being cloned; and no folder is cloned twice.                             *)
Made(c) == \E i \in DOMAIN rows : rows[i] = c
ProjectsAreWhole ==
  \A c \in Calls : Made(c) =>
    /\ disk[call[c].folder] = "here" \/ call[c].early
    /\ call[c].what = "clone" => \A d \in Calls \ {c} :
         call[d].what = "clone" /\ call[d].folder = call[c].folder => ~Made(d)

(* The last step of the welcome screen is never seen on a first run: the    *)
(* project that leads to it has put the screen away.                        *)
LastStepIsReplay == Shown(win) /\ ob.step = "first-prompt" => win.forced

(* The screen waits only for a call of its own, and one that is asked to    *)
(* start starts one thread, unless the user did not wait for it or the      *)
(* window did not.                                                          *)
BusyHasCall == ob.busy => \E c \in Calls : Waits(c) /\ OfScreen(c) /\ call[c].gen = ob.gen
StartsOnce ==
  \A c, d \in Calls :
    c # d /\ call[c].turn /\ call[d].turn /\ call[c].gen = ob.gen /\ call[d].gen = ob.gen =>
      ob.hasty \/ call[c].late \/ call[d].late

WelcomeIsTrue == ProjectsAreWhole /\ LastStepIsReplay /\ BusyHasCall /\ StartsOnce
=============================================================================
