--------------------------------- MODULE Lanes ---------------------------------
(***************************************************************************)
(* The lanes of one project: git worktrees that createLane adds,           *)
(* prepareLane sets up in the background and archiveLane removes, while    *)
(* agents edit them and the daemon may die between any two awaits.         *)
(*                                                                         *)
(* lane is what the log says (it survives a crash), tree, ahead and        *)
(* branches are on disk, calls is the daemon's memory.  A tree is absent,  *)
(* gone (deleted by hand, still registered with git), clean or dirty, and  *)
(* on a branch; ahead are the branches with commits nobody else has.  All  *)
(* lanes here have the same title, so they compete for the same branch     *)
(* names 1, 2, .., and a name that was deleted is given again.             *)
(* Git itself is external: the actions keep what it refuses.               *)
(***************************************************************************)
EXTENDS Naturals, FiniteSets

CONSTANTS Lanes,
          MaxActive,   \* MAX_ACTIVE_LANES
          MaxCrashes,  \* bound: crashes of the daemon
          MaxCommands  \* bound: lanes created, archived and sent to

VARIABLES lane, tree, saved, ahead, branches, removed, calls

disk == <<tree, saved, ahead, branches>>
vars == <<lane, tree, saved, ahead, branches, removed, calls>>

Names == 1..Cardinality(Lanes)
NoBranch == 0
Present == {"clean", "dirty"}

NoTree == [is |-> "absent", on |-> NoBranch]
NoCall == [op |-> "none", branch |-> NoBranch, force |-> FALSE, delete |-> FALSE]
Idle == [call |-> [l \in Lanes |-> NoCall], preparing |-> {}, turns |-> {}]

Init ==
  /\ lane = [l \in Lanes |-> [status |-> "none", branch |-> NoBranch]]
  /\ tree = [l \in Lanes |-> NoTree]
  /\ saved = [l \in Lanes |-> FALSE]
  /\ ahead = {}
  /\ branches = {}
  /\ removed = FALSE
  /\ calls = [up |-> TRUE, crashes |-> 0, commands |-> 0, daemon |-> Idle]

----------------------------------------------------------------------------
Daemon == calls.daemon
Active == {l \in Lanes : lane[l].status \in {"preparing", "ready", "error"}}

(* The one call under way at lane l moves on, and with it the daemon.       *)
Goes(l, c) == calls' = [calls EXCEPT !.daemon.call[l] = c]
(* The user asks for something, which makes the call c at lane l.           *)
Asks(l, c) ==
  /\ calls.up /\ ~removed /\ calls.commands < MaxCommands
  /\ calls' = [calls EXCEPT !.daemon.call[l] = c, !.commands = @ + 1]

At(l, op) == Daemon.call[l].op = op
Marked(l, status) == lane' = [lane EXCEPT ![l].status = status]

----------------------------------------------------------------------------
(* createLane: the ceiling is looked up before the first await.             *)
Create(l) ==
  /\ lane[l].status = "none" /\ At(l, "none") /\ tree[l] = NoTree
  /\ Cardinality(Active) < MaxActive
  /\ Asks(l, [NoCall EXCEPT !.op = "prune"])
  /\ UNCHANGED <<lane, disk, removed>>

(* git worktree prune forgets the trees that are gone.                      *)
Pruned == [m \in Lanes |-> IF tree[m].is = "gone" THEN NoTree ELSE tree[m]]

Prune(l) ==
  /\ At(l, "prune")
  /\ tree' = Pruned
  /\ Goes(l, [NoCall EXCEPT !.op = "allocate"])
  /\ UNCHANGED <<lane, saved, ahead, branches, removed>>

(* allocateBranch: the first name no branch has.                            *)
AllocateBranch(l) ==
  /\ At(l, "allocate")
  /\ \E b \in Names \ branches :
       /\ \A c \in Names \ branches : b <= c
       /\ Goes(l, [NoCall EXCEPT !.op = "add", !.branch = b])
  /\ UNCHANGED <<lane, disk, removed>>

(* git worktree add -b: refused when the branch exists by now.  Mutant: -B, *)
(* which resets the branch of somebody else.                                *)
AddTakenNever(b) == FALSE
AddTaken(b) == b \in branches

CreateWorktree(l) ==
  LET b == Daemon.call[l].branch IN
    /\ At(l, "add")
    /\ IF AddTaken(b)
       THEN Goes(l, NoCall) /\ UNCHANGED disk
       ELSE /\ tree' = [tree EXCEPT ![l] = [is |-> "clean", on |-> b]]
            /\ branches' = branches \cup {b}
            /\ Goes(l, [NoCall EXCEPT !.op = "commit", !.branch = b])
            /\ UNCHANGED <<saved, ahead>>
    /\ UNCHANGED <<lane, removed>>

(* lane.created, and the set-up starts in the background.                   *)
Created(l) ==
  /\ At(l, "commit")
  /\ lane' = [lane EXCEPT ![l] = [status |-> "preparing", branch |-> Daemon.call[l].branch]]
  /\ calls' = [calls EXCEPT !.daemon.call[l] = NoCall, !.daemon.preparing = @ \cup {l}]
  /\ UNCHANGED <<disk, removed>>

----------------------------------------------------------------------------
(* prepareLane ends with lane.status in any case.                           *)
Outcomes == {"ready", "error"}

PrepareLane(l) ==
  /\ l \in Daemon.preparing
  /\ \E s \in Outcomes : Marked(l, s)
  /\ calls' = [calls EXCEPT !.daemon.preparing = @ \ {l}]
  /\ UNCHANGED <<disk, removed>>

----------------------------------------------------------------------------
(* Turns in a lane: a thread of its own is created when it is ready, and    *)
(* works there until the lane is archived (workdirFor).                     *)
TurnStarts(l) ==
  /\ calls.up /\ ~removed /\ calls.commands < MaxCommands
  /\ lane[l].status = "ready" /\ l \notin Daemon.turns
  /\ calls' = [calls EXCEPT !.daemon.turns = @ \cup {l}, !.commands = @ + 1]
  /\ UNCHANGED <<lane, disk, removed>>

TurnEnds(l) ==
  /\ l \in Daemon.turns
  /\ calls' = [calls EXCEPT !.daemon.turns = @ \ {l}]
  /\ UNCHANGED <<lane, disk, removed>>

Edit(l) ==
  /\ l \in Daemon.turns /\ tree[l].is \in Present
  /\ tree' = [tree EXCEPT ![l].is = "dirty"]
  /\ saved' = [saved EXCEPT ![l] = FALSE]
  /\ UNCHANGED <<lane, ahead, branches, removed, calls>>

Commit(l) ==
  /\ l \in Daemon.turns /\ tree[l].is = "dirty"
  /\ tree' = [tree EXCEPT ![l].is = "clean"]
  /\ ahead' = ahead \cup {tree[l].on}
  /\ UNCHANGED <<lane, saved, branches, removed, calls>>

(* Somebody deletes the directory.                                          *)
DeletedByHand(l) ==
  /\ tree[l].is \in Present
  /\ tree' = [tree EXCEPT ![l].is = "gone"]
  /\ UNCHANGED <<lane, saved, ahead, branches, removed, calls>>

----------------------------------------------------------------------------
(* archiveLane: whether the tree is dirty is looked up once; the status of  *)
(* the lane, and whether an agent is at work in it, is not.                 *)
Archive(l, force, delete) ==
  LET dirty == tree[l].is = "dirty" IN
    /\ lane[l].status # "none" /\ At(l, "none")
    /\ dirty => force
    /\ Asks(l, [NoCall EXCEPT !.op = IF dirty THEN "capture" ELSE "stop",
                              !.branch = lane[l].branch, !.force = force,
                              !.delete = delete])
    /\ UNCHANGED <<lane, disk, removed>>

(* The snapshot may fail; that is logged.                                   *)
CaptureBeforeArchive(l) ==
  /\ At(l, "capture")
  /\ \/ saved' = [saved EXCEPT ![l] = tree[l].is \in Present]
     \/ UNCHANGED saved
  /\ Goes(l, [Daemon.call[l] EXCEPT !.op = "stop"])
  /\ UNCHANGED <<lane, tree, ahead, branches, removed>>

StopBound(l) ==
  /\ At(l, "stop")
  /\ calls' = [calls EXCEPT !.daemon.call[l].op = "remove", !.daemon.turns = @ \ {l}]
  /\ UNCHANGED <<lane, disk, removed>>

(* git worktree remove refuses a dirty tree, and one it does not know.      *)
(* Forced, the dirty one goes; for an unknown one git worktree prune then   *)
(* forgets all that are gone.  Mutant: --force whatever was confirmed.      *)
RemovableAlways(l, force) == TRUE
Removable(l, force) == force \/ tree[l].is \in {"clean", "gone"}
Left(l) ==
  [m \in Lanes |-> IF m = l THEN NoTree ELSE IF tree[l] = NoTree THEN Pruned[m] ELSE tree[m]]

(* The branch goes with -D when forced, else with -d, which keeps commits   *)
(* nobody else has; neither takes a branch a tree is on.                    *)
Deleted(l, c) ==
  IF c.delete /\ (c.force \/ c.branch \notin ahead) /\ (\A m \in Lanes : Left(l)[m].on # c.branch)
  THEN {c.branch} ELSE {}

RemoveWorktree(l) ==
  LET c == Daemon.call[l] IN
    /\ At(l, "remove")
    /\ IF Removable(l, c.force)
       THEN /\ tree' = Left(l)
            /\ branches' = branches \ Deleted(l, c)
            /\ ahead' = ahead \ Deleted(l, c)
            /\ Goes(l, [c EXCEPT !.op = "archived"])
            /\ UNCHANGED saved
       ELSE Goes(l, NoCall) /\ UNCHANGED disk
    /\ UNCHANGED <<lane, removed>>

Archived(l) ==
  /\ At(l, "archived")
  /\ Marked(l, "archived")
  /\ Goes(l, NoCall)
  /\ UNCHANGED <<disk, removed>>

----------------------------------------------------------------------------
(* removeProject hides the lanes and leaves their trees alone.              *)
RemoveProject ==
  /\ calls.up /\ ~removed /\ Daemon.turns = {}
  /\ removed' = TRUE
  /\ UNCHANGED <<lane, disk, calls>>

Crash ==
  /\ calls.up /\ calls.crashes < MaxCrashes
  /\ calls' = [calls EXCEPT !.up = FALSE, !.crashes = @ + 1, !.daemon = Idle]
  /\ UNCHANGED <<lane, disk, removed>>

(* reconcileAfterCrash sees the lanes of projects that are still there.     *)
(* Mutant: only the threads are reconciled.                                 *)
ReconciledNot(l) == lane[l]
Reconciled(l) ==
  IF lane[l].status = "preparing" /\ ~removed
  THEN [lane[l] EXCEPT !.status = "error"] ELSE lane[l]

Restart ==
  /\ ~calls.up
  /\ lane' = [l \in Lanes |-> Reconciled(l)]
  /\ calls' = [calls EXCEPT !.up = TRUE]
  /\ UNCHANGED <<disk, removed>>

----------------------------------------------------------------------------
Awaits(l) ==
  \/ Prune(l) \/ AllocateBranch(l) \/ CreateWorktree(l) \/ Created(l)
  \/ CaptureBeforeArchive(l) \/ StopBound(l) \/ RemoveWorktree(l) \/ Archived(l)

Next ==
  \/ RemoveProject \/ Crash \/ Restart
  \/ \E l \in Lanes :
       \/ Create(l) \/ Awaits(l) \/ PrepareLane(l)
       \/ TurnStarts(l) \/ TurnEnds(l) \/ Edit(l) \/ Commit(l) \/ DeletedByHand(l)
       \/ \E force, delete \in BOOLEAN : Archive(l, force, delete)

Spec == Init /\ [][Next]_vars

(* Git and the set-up command come to an end; a daemon that died is started *)
(* again.                                                                   *)
Fairness ==
  /\ WF_vars(Restart)
  /\ \A l \in Lanes : WF_vars(Awaits(l)) /\ WF_vars(PrepareLane(l))
FairSpec == Spec /\ Fairness

----------------------------------------------------------------------------
Statuses == {"none", "preparing", "ready", "error", "archived"}
Steps == {"none", "prune", "allocate", "add", "commit", "capture", "stop", "remove", "archived"}
Calls == [op : Steps, branch : Names \cup {NoBranch}, force : BOOLEAN, delete : BOOLEAN]
TypeOK ==
  /\ lane \in [Lanes -> [status : Statuses, branch : Names \cup {NoBranch}]]
  /\ tree \in [Lanes -> [is : Present \cup {"absent", "gone"}, on : Names \cup {NoBranch}]]
  /\ saved \in [Lanes -> BOOLEAN]
  /\ branches \subseteq Names /\ ahead \subseteq branches
  /\ calls \in [up : BOOLEAN, crashes : Nat, commands : Nat,
                daemon : [call : [Lanes -> Calls], preparing : SUBSET Lanes, turns : SUBSET Lanes]]

Destroyed(l) == tree[l].is = "dirty" /\ tree'[l].is = "absent"
Forgotten == ahead \ ahead'

(* "Removal must not destroy work" (worktrees.md): uncommitted changes, and *)
(* commits that are on one branch alone, go only by an archive that was     *)
(* confirmed, however the edits fall between the check and the removal.     *)
(* While a lane has its tree it is its own archive; later the branch may be *)
(* that of an older lane with the same name, which is archived once more.   *)
LosesOnlyConfirmed ==
  /\ \A l \in Lanes :
       Destroyed(l) \/ (tree[l].is \in Present /\ tree[l].on \in Forgotten) => Daemon.call[l].force
  /\ \A b \in Forgotten : \E l \in Lanes : Daemon.call[l].branch = b /\ Daemon.call[l].force
NothingLostUnasked == [][LosesOnlyConfirmed]_vars

(* Two trees are never on the same branch, and none is on one that is gone, *)
(* however the creation of lanes and the removal of others interleave.  A   *)
(* tree that is added will be on a branch.                                  *)
BranchesDistinct ==
  /\ \A l, m \in Lanes :
       tree[l] # NoTree => /\ tree[l].on \in branches
                           /\ tree[m].on = tree[l].on => l = m
  /\ \A l \in Lanes : At(l, "add") => Daemon.call[l].branch \in Names

(* A lane does not stay preparing: its set-up reports, or the daemon that   *)
(* ran it died and the next one reports.  A removed project is not looked   *)
(* at any more.                                                             *)
Preparing(l) == lane[l].status = "preparing" /\ ~removed
PreparingSettles == \A l \in Lanes : Preparing(l) ~> ~Preparing(l)

(* "Archiving a dirty lane requires explicit confirmation and leaves a      *)
(* recoverable checkpoint" (worktrees.md, W-5): what a removal destroys is  *)
(* in a checkpoint.                                                         *)
SavesWhatItDestroys == \A l \in Lanes : Destroyed(l) => saved[l]
DestroyedIsSaved == [][SavesWhatItDestroys]_vars
=============================================================================
