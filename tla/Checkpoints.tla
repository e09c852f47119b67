------------------------------ MODULE Checkpoints ------------------------------
(***************************************************************************)
(* The checkpoints of the threads that work in one checkout: the captures  *)
(* before and after a turn, and restoreTurn.  Git is external: a capture   *)
(* records every file that is not ignored under one ref, in one go.        *)
(*                                                                         *)
(* The content of a file is the number of the edit that made it, so no two *)
(* edits write the same; 0 is a file that is not there.  tracked are the   *)
(* files in git's index.  A thread has one turn, and one restore under way *)
(* at a time; the user edits files at any time.                            *)
(***************************************************************************)
EXTENDS Naturals, FiniteSets

CONSTANTS Threads, Files,
          MaxEdits,     \* bound: edits
          MaxRestores   \* bound: restores

VARIABLES files, tracked, refs, turn, restore, edits

vars == <<files, tracked, refs, turn, restore, edits>>

NoFile == 0
Tree == [Files -> 0..MaxEdits]
Phases == {"pre", "post", "undo"}

(* A ref that does not exist is the empty set.                              *)
NoRestore == [op |-> "none", target |-> [f \in Files |-> NoFile]]

Init ==
  /\ files = [f \in Files |-> NoFile]
  /\ tracked = {}
  /\ refs = [t \in Threads |-> [p \in Phases |-> {}]]
  /\ turn = [t \in Threads |-> [state |-> "none", wrote |-> {}]]
  /\ restore = [t \in Threads |-> NoRestore]
  /\ edits = [made |-> 0, restores |-> 0]

----------------------------------------------------------------------------
(* captureCheckpoint, which succeeds or leaves the ref as it was.           *)
Captured(t, p) == refs' = [refs EXCEPT ![t][p] = {files}]

Wrote(f, n) == files' = [files EXCEPT ![f] = n]
Fresh == edits.made + 1
Edits(f) ==
  /\ edits.made < MaxEdits
  /\ Wrote(f, Fresh)
  /\ edits' = [edits EXCEPT !.made = Fresh]

----------------------------------------------------------------------------
(* sendTurn: the agent gets the turn when the capture is done.              *)
SendTurn(t) ==
  /\ turn[t].state = "none"
  /\ turn' = [turn EXCEPT ![t].state = "capturing"]
  /\ UNCHANGED <<files, tracked, refs, restore, edits>>

CapturePre(t) ==
  /\ turn[t].state = "capturing"
  /\ Captured(t, "pre") \/ UNCHANGED refs
  /\ turn' = [turn EXCEPT ![t].state = "running"]
  /\ UNCHANGED <<files, tracked, restore, edits>>

(* Mutant: the capture is not awaited.                                      *)
DispatchedAtOnce(t) == turn[t].state \in {"capturing", "running"}
Dispatched(t) == turn[t].state = "running"

AgentEdits(t, f) ==
  /\ Dispatched(t) /\ Edits(f)
  /\ turn' = [turn EXCEPT ![t].wrote = @ \cup {Fresh}]
  /\ UNCHANGED <<tracked, refs, restore>>

(* The agent stages or commits a file.                                      *)
AgentAdds(t, f) ==
  /\ Dispatched(t) /\ files[f] # NoFile /\ f \notin tracked
  /\ tracked' = tracked \cup {f}
  /\ UNCHANGED <<files, refs, turn, restore, edits>>

TurnCompleted(t) ==
  /\ turn[t].state = "running"
  /\ turn' = [turn EXCEPT ![t].state = "finalizing"]
  /\ UNCHANGED <<files, tracked, refs, restore, edits>>

(* finalizeCheckpoints runs on after the turn.                              *)
FinalizeCheckpoints(t) ==
  /\ turn[t].state = "finalizing"
  /\ Captured(t, "post") \/ UNCHANGED refs
  /\ turn' = [turn EXCEPT ![t].state = "over"]
  /\ UNCHANGED <<files, tracked, restore, edits>>

UserEdits(f) ==
  /\ Edits(f)
  /\ UNCHANGED <<tracked, refs, turn, restore>>

----------------------------------------------------------------------------
(* restoreTurn: refused while a turn of this thread runs.  The undo ref is  *)
(* the thread's, one for all its restores.                                  *)
Busy(t) == turn[t].state \in {"capturing", "running"}

Restore(t, p) ==
  /\ ~Busy(t) /\ restore[t].op = "none" /\ edits.restores < MaxRestores
  /\ \E target \in refs[t][p] :
       restore' = [restore EXCEPT ![t] = [op |-> "capture", target |-> target]]
  /\ edits' = [edits EXCEPT !.restores = @ + 1]
  /\ UNCHANGED <<files, tracked, refs, turn>>

(* Without a recovery point nothing is restored.                            *)
RestoreCapture(t) ==
  /\ restore[t].op = "capture"
  /\ \/ Captured(t, "undo") /\ restore' = [restore EXCEPT ![t].op = "checkout"]
     \/ UNCHANGED refs /\ restore' = [restore EXCEPT ![t] = NoRestore]
  /\ UNCHANGED <<files, tracked, turn, edits>>

(* git checkout <tree> -- . : the files of the tree, and no others.         *)
RestoreCheckout(t) ==
  LET target == restore[t].target
      inTarget == {f \in Files : target[f] # NoFile}
  IN  /\ restore[t].op = "checkout"
      /\ files' = [f \in Files |-> IF f \in inTarget THEN target[f] ELSE files[f]]
      /\ tracked' = tracked \cup inTarget
      /\ restore' = [restore EXCEPT ![t].op = "clean"]
      /\ UNCHANGED <<refs, turn, edits>>

(* What git does not track and the checkpoint does not have is removed.     *)
RestoreClean(t) ==
  /\ restore[t].op = "clean"
  /\ files' = [f \in Files |->
                IF f \notin tracked /\ restore[t].target[f] = NoFile THEN NoFile ELSE files[f]]
  /\ restore' = [restore EXCEPT ![t] = NoRestore]
  /\ UNCHANGED <<tracked, refs, turn, edits>>

----------------------------------------------------------------------------
Next ==
  \/ \E f \in Files : UserEdits(f)
  \/ \E t \in Threads :
       \/ SendTurn(t) \/ CapturePre(t) \/ TurnCompleted(t) \/ FinalizeCheckpoints(t)
       \/ \E p \in Phases : Restore(t, p)
       \/ RestoreCapture(t) \/ RestoreCheckout(t) \/ RestoreClean(t)
       \/ \E f \in Files : AgentEdits(t, f) \/ AgentAdds(t, f)

Spec == Init /\ [][Next]_vars

----------------------------------------------------------------------------
TypeOK ==
  /\ files \in Tree /\ tracked \subseteq Files
  /\ \A t \in Threads, p \in Phases : refs[t][p] \subseteq Tree /\ Cardinality(refs[t][p]) <= 1

(* The diff of a turn shows every file its agent has edited: what of its    *)
(* edits is in the checkpoint after the turn is not in the one before,      *)
(* whatever others do to the same files meanwhile.                          *)
DiffShowsEdits ==
  \A t \in Threads : \A pre \in refs[t]["pre"] : \A post \in refs[t]["post"] :
    \A f \in Files : post[f] \in turn[t].wrote => pre[f] # post[f]

(* "A checkpoint feature that can lose work is worse than none"             *)
(* (restoreCheckpoint): what a checkpoint holds stays in a checkpoint or in *)
(* the tree; edits may overwrite it there, a restore never does.            *)
InRef(f, n) == \E t \in Threads, p \in Phases : \E tree \in refs[t][p] : tree[f] = n

KeepsCaptured ==
  edits'.made = edits.made =>
    \A f \in Files, n \in 1..edits.made : InRef(f, n) => (InRef(f, n)' \/ files'[f] = n)
RestoreKeeps == [][KeepsCaptured]_vars
=============================================================================
