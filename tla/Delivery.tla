------------------------------ MODULE Delivery ------------------------------
(***************************************************************************)
(* How work leaves a working tree: thread.commit, thread.push and          *)
(* lane.openPr of orchestrator.ts over the git helpers of lane/worktree.ts,*)
(* asked for by the git control of the top bar (GitActionsControl.tsx) and *)
(* by the commit box of the changes pane (ChangesPane.tsx), while the agent*)
(* edits, stages and commits in the same tree.  Each await of the daemon   *)
(* is a step.  A file is the number of its last edit; 0 is its content at  *)
(* the last push.                                                          *)
(***************************************************************************)
EXTENDS Naturals

CONSTANTS
  Files,        \* files of the tree
  MaxEdits,     \* bound: edits of the agent
  MaxClicks     \* bound: calls of the window

VARIABLES
  tree,         \* what the files hold
  index,        \* what is staged
  head,         \* what is committed
  remote,       \* what is pushed
  busy,         \* whether a turn of the agent runs on the thread
  control,      \* the two places that call, each with the call it waits for
  count         \* edits and calls so far

vars == <<tree, index, head, remote, busy, control, count>>

Callers  == {"bar", "pane"}
NoFiles  == [f \in Files |-> 0]
Contents == [Files -> 0..MaxEdits]

(* a is at least as far as b on the files fs.                               *)
Holds(a, b, fs) == \A f \in fs : a[f] >= b[f]

(* What a caller waits for.  want: "commit", "push", "pr" (with a message    *)
(* or without), or "both", a commit and then a push.  at: the await the      *)
(* daemon is in.  asked: the tree when it was clicked.                      *)
Idle == [want |-> "none", at |-> "none", paths |-> {}, message |-> FALSE,
         asked |-> NoFiles, notice |-> "none"]

(* The status the window shows of the tree, from its last thread.gitStatus. *)
Init ==
  /\ tree = NoFiles /\ index = NoFiles /\ head = NoFiles /\ remote = NoFiles
  /\ busy = FALSE
  /\ control = [bar |-> Idle, pane |-> Idle, dirty |-> FALSE]
  /\ count = [edits |-> 0, clicks |-> 0]

Dirty == tree # index \/ index # head

----------------------------------------------------------------------------
(* The agent.                                                               *)
TurnStarts ==
  /\ ~busy /\ busy' = TRUE
  /\ UNCHANGED <<tree, index, head, remote, control, count>>

TurnEnds ==
  /\ busy /\ busy' = FALSE
  /\ UNCHANGED <<tree, index, head, remote, control, count>>

Edits(f) ==
  /\ busy /\ count.edits < MaxEdits /\ count' = [count EXCEPT !.edits = @ + 1]
  /\ tree' = [tree EXCEPT ![f] = @ + 1]
  /\ UNCHANGED <<index, head, remote, busy, control>>

Stages ==
  /\ busy /\ index # tree
  /\ index' = tree
  /\ UNCHANGED <<tree, head, remote, busy, control, count>>

AgentCommits ==
  /\ busy /\ head # index
  /\ head' = index
  /\ UNCHANGED <<tree, index, remote, busy, control, count>>

----------------------------------------------------------------------------
(* A click.  A caller waits for one call at a time; commit and push are     *)
(* refused at once while a turn runs, openPr is not.                        *)
Refused(want) == want \in {"commit", "both", "push"} /\ busy

Calls(c, want, paths, message) ==
  /\ control[c].at = "none" /\ count.clicks < MaxClicks
  /\ count' = [count EXCEPT !.clicks = @ + 1]
  /\ control' = [control EXCEPT ![c] =
       IF Refused(want) THEN [Idle EXCEPT !.notice = "failed"]
       ELSE [want |-> want, at |-> "dirty", paths |-> paths, message |-> message,
             asked |-> tree, notice |-> "none"]]
  /\ UNCHANGED <<tree, index, head, remote, busy>>

(* The top bar: its menu and its main button offer what fits the status it   *)
(* shows; a popover that was opened may be submitted later, so a commit is   *)
(* not bound to the status.                                                  *)
CommitsAll == \E want \in {"commit", "both"} : Calls("bar", want, Files, TRUE)
Pushes     == ~control.dirty /\ Calls("bar", "push", Files, FALSE)
OpensPr    == \/ ~control.dirty /\ Calls("bar", "pr", Files, FALSE)
              \/ Calls("bar", "pr", Files, TRUE)

(* The changes pane: the files that are ticked of those it listed; all of    *)
(* the list means every file.                                                *)
CommitsTicked == \E ticked \in SUBSET Files \ {{}} : Calls("pane", "commit", ticked, TRUE)

----------------------------------------------------------------------------
(* The daemon.                                                              *)
Answers(c, notice) ==
  control' = [control EXCEPT ![c].at = "status", ![c].notice = notice]

Proceeds(c, at) == control' = [control EXCEPT ![c].at = at]

(* isDirty: a commit needs something to commit, a push nothing; a pull        *)
(* request of a dirty tree needs a message to commit it with.               *)
ChecksDirty(c) ==
  LET call == control[c] IN
  /\ call.at = "dirty"
  /\ \/ call.want \in {"commit", "both"} /\ Dirty  /\ Proceeds(c, "add")
     \/ call.want \in {"commit", "both"} /\ ~Dirty /\ Answers(c, "failed")
     \/ call.want = "push" /\ Dirty  /\ Answers(c, "failed")
     \/ call.want = "push" /\ ~Dirty /\ Proceeds(c, "push")
     \/ call.want = "pr" /\ Dirty /\ call.message  /\ Proceeds(c, "add")
     \/ call.want = "pr" /\ Dirty /\ ~call.message /\ Answers(c, "needs_commit")
     \/ call.want = "pr" /\ ~Dirty /\ Proceeds(c, "push")
  /\ UNCHANGED <<tree, index, head, remote, busy, count>>

(* commitAll: git add of the paths, or of everything.                       *)
Adds(c) ==
  /\ control[c].at = "add"
  /\ index' = [f \in Files |-> IF f \in control[c].paths THEN tree[f] ELSE index[f]]
  /\ Proceeds(c, "commit")
  /\ UNCHANGED <<tree, head, remote, busy, count>>

(* git commit takes whatever is staged, and fails when that is nothing.      *)
CommitsStaged(c) ==
  /\ control[c].at = "commit"
  /\ head' = index
  /\ IF head = index THEN Answers(c, "failed")
     ELSE IF control[c].want = "pr" THEN Proceeds(c, "push") ELSE Answers(c, "committed")
  /\ UNCHANGED <<tree, index, remote, busy, count>>

PushesHead(c) ==
  /\ control[c].at = "push"
  /\ remote' = head
  /\ IF control[c].want = "pr" THEN Proceeds(c, "create") ELSE Answers(c, "pushed")
  /\ UNCHANGED <<tree, index, head, busy, count>>

(* gh, with a compare link in its stead when it is missing or fails.         *)
Creates(c) ==
  /\ control[c].at = "create"
  /\ Answers(c, "opened")
  /\ UNCHANGED <<tree, index, head, remote, busy, count>>

(* git add, git commit and git push may be refused (a lock, a hook, the      *)
(* remote), and there may be no remote at all.                               *)
Fails(c) ==
  /\ control[c].at \in {"add", "commit", "push"}
  /\ Answers(c, "failed")
  /\ UNCHANGED <<tree, index, head, remote, busy, count>>

(* The window asks for the status before it shows the outcome; a commit that *)
(* is to be pushed goes on with thread.push, unless a turn runs by then.     *)
Refreshes(c) ==
  LET call == control[c] IN
  /\ call.at = "status"
  /\ control' =
       [control EXCEPT
         !.dirty = Dirty,
         ![c] = IF call.want = "both" /\ call.notice = "committed"
                THEN IF busy THEN [Idle EXCEPT !.notice = "failed"]
                     ELSE [call EXCEPT !.want = "push", !.at = "dirty", !.notice = "none"]
                ELSE IF call.notice \in {"failed", "needs_commit"}
                     THEN [Idle EXCEPT !.notice = call.notice]
                     ELSE [call EXCEPT !.at = "none"]]
  /\ UNCHANGED <<tree, index, head, remote, busy, count>>

(* turn.diff_ready, or the thread opened again: the status is asked for.     *)
AsksStatus ==
  /\ control' = [control EXCEPT !.dirty = Dirty]
  /\ UNCHANGED <<tree, index, head, remote, busy, count>>

Agent == TurnStarts \/ TurnEnds \/ (\E f \in Files : Edits(f)) \/ Stages \/ AgentCommits
Clicks == CommitsAll \/ Pushes \/ OpensPr \/ CommitsTicked
Daemon(c) ==
  ChecksDirty(c) \/ Adds(c) \/ CommitsStaged(c) \/ PushesHead(c) \/ Creates(c) \/ Fails(c)

Next ==
  Agent \/ Clicks \/ (\E c \in Callers : Daemon(c) \/ Refreshes(c)) \/ AsksStatus

Spec == Init /\ [][Next]_vars

----------------------------------------------------------------------------
Call ==
  [want: {"none", "commit", "both", "push", "pr"},
   at: {"none", "dirty", "add", "commit", "push", "create", "status"},
   paths: SUBSET Files, message: BOOLEAN, asked: Contents,
   notice: {"none", "failed", "needs_commit", "committed", "pushed", "opened"}]

(* The variables keep their types.                                          *)
TypeOK ==
  /\ tree \in Contents /\ index \in Contents /\ head \in Contents /\ remote \in Contents
  /\ busy \in BOOLEAN
  /\ control \in [bar: Call, pane: Call, dirty: BOOLEAN]
  /\ count \in [edits: 0..MaxEdits, clicks: 0..MaxClicks]

(* What a caller is told was done was done: everything the chosen files held *)
(* when it clicked is in a commit when it reads that it was committed, and   *)
(* on the remote when it reads that it was pushed or that a pull request     *)
(* was opened, whatever the agent and the other caller did between the       *)
(* daemon's awaits.                                                          *)
DeliveredIsThere ==
  \A c \in Callers :
    LET call == control[c] IN
    /\ call.notice = "committed" => Holds(head, call.asked, call.paths)
    /\ call.notice \in {"pushed", "opened"} => Holds(remote, call.asked, Files)
=============================================================================
