------------------------------- MODULE LaneSetup -------------------------------
(***************************************************************************)
(* What a new lane is given (orchestrator.ts: createLane, prepareLane;     *)
(* lane/worktree.ts): a port of its own, copies of the untracked files the *)
(* project's configuration lists, and a set-up command that is told the    *)
(* port.  Branches, commits and removals of trees are in Lanes.tla.        *)
(*                                                                         *)
(* An entry of the configuration is a path as it is spelled: one that      *)
(* leaves the project, one whose first part is on the deny list, the same  *)
(* with "./" in front of it, or a plain one.                               *)
(***************************************************************************)
EXTENDS Naturals, Sequences, FiniteSets

CONSTANTS
  Lanes,
  Ports,
  Entries,      \* what the configuration lists, in this order: a sequence of entries
  MaxChanges    \* bound: what happens to the project's files, the ports and the lanes' status

VARIABLES
  files,    \* what each entry is in the primary checkout, those that changed
  bound,    \* ports some program listens on
  lane,     \* the lanes and the calls that make them
  tree,     \* what is on disk of each lane: whether git has it, and each entry
  changes

vars == <<files, bound, lane, tree, changes>>

Places == DOMAIN Entries
EntryKinds == {"absent", "file", "large", "dir", "link"}
NoPort == 0

NewLane == [at |-> "no", status |-> "none", port |-> NoPort, next |-> 1,
            skipped |-> {}, early |-> FALSE, beside |-> FALSE]
NoTree == [git |-> FALSE, has |-> [i \in Places |-> "nothing"]]

Init ==
  /\ \E is \in [Places -> EntryKinds] : files = [is |-> is, changed |-> {}]
  /\ bound = {}
  /\ lane = [l \in Lanes |-> NewLane]
  /\ tree = [l \in Lanes |-> NoTree]
  /\ changes = 0

Changes == changes < MaxChanges /\ changes' = changes + 1
Goes(l, at) == lane' = [lane EXCEPT ![l].at = at]

----------------------------------------------------------------------------
(* createLane, from the awaits before the port on.                          *)
Creating == {l \in Lanes : lane[l].at \in {"asked", "add"}}
Create(l) ==
  /\ lane[l].at = "no"
  /\ lane' = [m \in Lanes |->
       CASE m = l -> [NewLane EXCEPT !.at = "asked", !.beside = Creating # {}]
         [] m \in Creating -> [lane[m] EXCEPT !.beside = TRUE]
         [] OTHER -> lane[m]]
  /\ UNCHANGED <<files, bound, tree, changes>>

(* allocatePort: not one of an active lane, and one that can be bound.      *)
Active == {l \in Lanes : lane[l].status \notin {"none", "archived"}}
ActivePorts == {lane[l].port : l \in Active}
Free(p) == p \notin ActivePorts /\ p \notin bound

AllocatePort(l) ==
  /\ lane[l].at = "asked"
  /\ \/ \E p \in Ports : Free(p) /\ lane' = [lane EXCEPT ![l].at = "add", ![l].port = p]
     \/ ~(\E p \in Ports : Free(p)) /\ Goes(l, "over")
  /\ UNCHANGED <<files, bound, tree, changes>>

(* git worktree add, lane.created and the start of prepareLane.             *)
CreateWorktree(l) ==
  /\ lane[l].at = "add"
  /\ lane' = [lane EXCEPT ![l].at = "carry", ![l].status = "preparing"]
  /\ tree' = [tree EXCEPT ![l].git = TRUE]
  /\ UNCHANGED <<files, bound, changes>>

CreateFails(l) ==
  /\ lane[l].at = "add"
  /\ Goes(l, "over")
  /\ UNCHANGED <<files, bound, tree, changes>>

----------------------------------------------------------------------------
(* copyCarryOver, an entry at a time: the refusals, then the copy.          *)
Entry(l)  == Entries[lane[l].next]
Denied(e) == e \in {"outside", "denied"}

Skips(l) ==
  lane' = [lane EXCEPT ![l].next = @ + 1, ![l].skipped = @ \cup {lane[l].next}]
More(l) == lane[l].at = "carry" /\ lane[l].next <= Len(Entries)

SkipDenied(l) ==
  /\ More(l) /\ Denied(Entry(l))
  /\ Skips(l)
  /\ UNCHANGED <<files, bound, tree, changes>>

Here(l) == files.is[lane[l].next]
NotThere(l) ==
  /\ More(l) /\ ~Denied(Entry(l)) /\ Here(l) = "absent"
  /\ lane' = [lane EXCEPT ![l].next = @ + 1]
  /\ UNCHANGED <<files, bound, tree, changes>>

TooLarge(l) ==
  /\ More(l) /\ ~Denied(Entry(l)) /\ Here(l) = "large"
  /\ Skips(l)
  /\ UNCHANGED <<files, bound, tree, changes>>

(* It was there and small enough; the copy awaits.                          *)
StartCopy(l) ==
  /\ More(l) /\ ~Denied(Entry(l)) /\ Here(l) \notin {"absent", "large"}
  /\ Goes(l, "copy")
  /\ UNCHANGED <<files, bound, tree, changes>>

(* cp with dereference: what a link points at is copied, never the link.    *)
CopyOf(kind) == IF kind = "link" THEN "file" ELSE kind

Copied(l) ==
  /\ lane[l].at = "copy" /\ Here(l) # "absent"
  /\ tree' = [tree EXCEPT ![l].has[lane[l].next] = CopyOf(Here(l))]
  /\ lane' = [lane EXCEPT ![l].at = "carry", ![l].next = @ + 1]
  /\ UNCHANGED <<files, bound, changes>>

CopyFails(l) ==
  /\ lane[l].at = "copy"
  /\ lane' = [lane EXCEPT ![l].at = "carry", ![l].next = @ + 1,
                          ![l].skipped = @ \cup {lane[l].next}]
  /\ UNCHANGED <<files, bound, tree, changes>>

(* runSetup, when the configuration has a command; without a directory to   *)
(* run it in the spawn throws.                                              *)
Carried(l) == lane[l].at = "carry" /\ lane[l].next > Len(Entries)
StartSetup(l) ==
  /\ Carried(l) /\ tree[l] # NoTree
  /\ Goes(l, "setup")
  /\ UNCHANGED <<files, bound, tree, changes>>

Prepared(l, ok) == lane' = [lane EXCEPT ![l].at = "over", ![l].status = IF ok THEN "ready" ELSE "error"]

SetupEnds(l) ==
  /\ lane[l].at = "setup"
  /\ \E ok \in BOOLEAN : Prepared(l, ok)
  /\ UNCHANGED <<files, bound, tree, changes>>

SpawnFails(l) ==
  /\ Carried(l) /\ tree[l] = NoTree
  /\ Prepared(l, FALSE)
  /\ UNCHANGED <<files, bound, tree, changes>>

NoSetup(l) ==
  /\ Carried(l)
  /\ Prepared(l, TRUE)
  /\ UNCHANGED <<files, bound, tree, changes>>

----------------------------------------------------------------------------
(* archiveLane, which does not look whether the lane is being prepared.     *)
Archive(l) ==
  /\ Changes /\ l \in Active
  /\ lane' = [lane EXCEPT ![l].status = "archived", ![l].early = lane[l].at # "over"]
  /\ tree' = [tree EXCEPT ![l] = NoTree]
  /\ UNCHANGED <<files, bound>>

(* The user's own work, and other programs.                                 *)
FileChanges ==
  /\ Changes
  /\ \E i \in Places, k \in EntryKinds :
       files' = [is |-> [files.is EXCEPT ![i] = k], changed |-> files.changed \cup {i}]
  /\ UNCHANGED <<bound, lane, tree>>

Listens ==
  /\ Changes
  /\ \E p \in Ports : bound' = IF p \in bound THEN bound \ {p} ELSE bound \cup {p}
  /\ UNCHANGED <<files, lane, tree>>

Prepares(l) ==
  \/ SkipDenied(l) \/ NotThere(l) \/ TooLarge(l) \/ StartCopy(l) \/ Copied(l) \/ CopyFails(l)
  \/ StartSetup(l) \/ SpawnFails(l) \/ SetupEnds(l) \/ NoSetup(l)

Next ==
  \/ FileChanges \/ Listens
  \/ \E l \in Lanes :
       Create(l) \/ AllocatePort(l) \/ CreateWorktree(l) \/ CreateFails(l) \/ Prepares(l) \/ Archive(l)

Spec == Init /\ [][Next]_vars

----------------------------------------------------------------------------
Steps == {"no", "asked", "add", "carry", "copy", "setup", "over"}
Statuses == {"none", "preparing", "ready", "error", "archived"}
Rows == [at : Steps, status : Statuses, port : Ports \cup {NoPort}, next : 1..Len(Entries) + 1,
         skipped : SUBSET Places, early : BOOLEAN, beside : BOOLEAN]
Copies == [Places -> {"nothing"} \cup EntryKinds]
TypeOK ==
  /\ files \in [is : [Places -> EntryKinds], changed : SUBSET Places]
  /\ bound \subseteq Ports /\ changes \in 0..MaxChanges
  /\ lane \in [Lanes -> Rows]
  /\ tree \in [Lanes -> [git : BOOLEAN, has : Copies]]

(* "The lane keeps this port for its lifetime": two lanes never have the    *)
(* same, the one a lane about to be added will have included, but for those *)
(* created at a time, whose ports are not in the log yet, and those         *)
(* archived while they were prepared, which become ready again when their   *)
(* set-up ends.                                                             *)
Holders == Active \cup {l \in Lanes : lane[l].at = "add"}
PortsApart ==
  /\ \A l, m \in Creating : l # m => lane[l].beside
  /\ \A l, m \in Holders :
       l # m /\ lane[l].port = lane[m].port =>
         \/ lane[l].beside /\ lane[m].beside
         \/ lane[l].early \/ lane[m].early

(* "Copy, never symlink": nothing in a lane leads back into the primary     *)
(* checkout, and nothing the refusals are about is in it, but for a file    *)
(* that grew after it was measured.  A directory of any size is copied, and *)
(* one on the deny list that is spelled with "./".                          *)
LanesApart ==
  \A l \in Lanes, i \in Places :
    /\ tree[l].has[i] # "link"
    /\ tree[l].has[i] = "large" => i \in files.changed
    /\ tree[l].has[i] # "nothing" => Entries[i] \notin {"outside", "denied"}

(* A lane that is ready has, of each entry, a copy, or it was refused or    *)
(* not there.                                                               *)
HasItsCopy(l, i) ==
  \/ tree[l].has[i] # "nothing" \/ i \in lane[l].skipped
  \/ files.is[i] = "absent" \/ i \in files.changed
ReadyIsWhole ==
  \A l \in Lanes :
    lane[l].status = "ready" /\ ~lane[l].early => \A i \in Places : HasItsCopy(l, i)

(* Nothing is left of an archived lane, unless it was being prepared: the   *)
(* copies that were still to be made make its directory again.              *)
ArchivedIsGone ==
  \A l \in Lanes : lane[l].status = "archived" /\ ~lane[l].early => tree[l] = NoTree

(* While a lane is prepared, each entry that was dealt with has its copy, the *)
(* one being copied was not refused, and an archive on the way is early.    *)
PreparedInOrder ==
  \A l \in Lanes :
    LET at == lane[l].at next == lane[l].next IN
      /\ at \in {"no", "asked", "add"} => lane[l].status = "none" /\ next = 1
      /\ at = "copy" => /\ next <= Len(Entries) /\ ~Denied(Entry(l))
                        /\ Here(l) = "large" => next \in files.changed
      /\ at = "setup" => next > Len(Entries)
      /\ at \in {"carry", "copy", "setup"} => lane[l].status \in {"preparing", "archived"}
      /\ at \in {"carry", "copy", "setup"} /\ ~lane[l].early =>
           \A i \in Places : i < next => HasItsCopy(l, i)
      /\ lane[l].status = "archived" /\ at # "over" => lane[l].early

LanesAreGiven ==
  PortsApart /\ LanesApart /\ ReadyIsWhole /\ ArchivedIsGone /\ PreparedInOrder
=============================================================================
