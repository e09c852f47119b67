------------------------------ MODULE Transcript -------------------------------
(***************************************************************************)
(* What the daemon keeps of the text and the approvals of one thread:      *)
(* onRuntimeEvent, flushPartialAssistant and respondApproval.  Which turn  *)
(* runs when is the subject of Turns.tla and only sketched here.           *)
(*                                                                         *)
(* The agent streams the pieces 1..Pieces of a turn one by one and, like   *)
(* codex, repeats each item of PerItem pieces as one message when it is    *)
(* complete.  A message replaces what the log has for the turn (messages   *)
(* are keyed by turn and role).  An agent that was stopped may go on for a *)
(* while.                                                                  *)
(***************************************************************************)
EXTENDS Naturals, FiniteSets

CONSTANTS Turns,
          Pieces,     \* bound: pieces of text of a turn
          PerItem,    \* pieces of one message
          Approvals,
          MaxExits    \* bound: exits of the provider process

VARIABLES turn,      \* of each turn: its state, what was said and shown, what is stored
          live,      \* the session: partialByTurn, committedAssistant, pendingApprovals
          approval,  \* of each approval: its state at the agent, and the answers given
          mode, exits

vars == <<turn, live, approval, mode, exits>>

NewTurn == [state |-> "new", said |-> 0, told |-> 0, seen |-> {}, stored |-> {}]
FreshSession == [partial |-> [t \in Turns |-> {}], committed |-> {}, pending |-> {}]

Init ==
  /\ turn = [t \in Turns |-> NewTurn]
  /\ live = FreshSession
  /\ approval = [a \in Approvals |-> [state |-> "new", answers |-> 0, calls |-> 0]]
  /\ mode \in {"supervised", "full_access"}
  /\ exits = 0

----------------------------------------------------------------------------
Going(t) == turn[t].state \in {"running", "stopping"}
(* The agent still works on t: also after a Stop or an error, until its     *)
(* process exits.                                                           *)
Talking(t) == turn[t].state \in {"running", "stopping", "stopped", "failed"}

Start(t) ==
  /\ turn[t].state = "new" /\ \A u \in Turns : ~Going(u)
  /\ turn' = [turn EXCEPT ![t].state = "running"]
  /\ live' = [live EXCEPT !.pending = {}]
  /\ UNCHANGED <<approval, mode, exits>>

(* assistant.delta: shown at once, remembered in case the turn is stopped.  *)
Delta(t) ==
  /\ Talking(t) /\ turn[t].said < Pieces
  /\ LET n == turn[t].said + 1 IN
       /\ turn' = [turn EXCEPT ![t].said = n,
                               ![t].seen = IF turn[t].state = "running" THEN @ \cup {n} ELSE @]
       /\ live' = [live EXCEPT !.partial[t] = @ \cup {n}]
  /\ UNCHANGED <<approval, mode, exits>>

(* assistant.message: the first of a turn is the one that is kept.          *)
Message(t) ==
  LET end == turn[t].told + PerItem IN
    /\ Talking(t) /\ end <= turn[t].said
    /\ turn' = [turn EXCEPT ![t].told = end,
                            ![t].stored = IF t \in live.committed THEN @
                                          ELSE turn[t].told + 1 .. end]
    /\ live' = IF t \in live.committed THEN live
               ELSE [live EXCEPT !.committed = @ \cup {t}, !.partial[t] = {}]
    /\ UNCHANGED <<approval, mode, exits>>

(* flushPartialAssistant; mutants: with nothing to flush the turn is not    *)
(* marked; nothing is written for a turn that is stopped.                   *)
FlushedIfAny(t) ==
  IF t \in live.committed \/ live.partial[t] = {} THEN live
  ELSE [live EXCEPT !.committed = @ \cup {t}, !.partial[t] = {}]
Flushed(t) ==
  IF t \in live.committed THEN live
  ELSE [live EXCEPT !.committed = @ \cup {t}, !.partial[t] = {}]
StoredByNone(t) == turn[t].stored
StoredBy(t) ==
  IF t \in live.committed \/ live.partial[t] = {} THEN turn[t].stored ELSE live.partial[t]

Ends(t, state) == turn' = [turn EXCEPT ![t].state = state, ![t].stored = StoredBy(t)]

(* turn.completed, which may also come late for a turn that was given up.   *)
Completed(t) ==
  /\ Talking(t) /\ turn[t].told = turn[t].said
  /\ Ends(t, IF turn[t].state \in {"stopping", "stopped"} THEN turn[t].state ELSE "completed")
  /\ live' = [Flushed(t) EXCEPT !.pending = {}]
  /\ UNCHANGED <<approval, mode, exits>>

(* interrupt flushes before it awaits the adapter and commits               *)
(* turn.interrupted after.                                                  *)
Interrupt(t) ==
  /\ turn[t].state = "running"
  /\ Ends(t, "stopping")
  /\ live' = Flushed(t)
  /\ UNCHANGED <<approval, mode, exits>>

Interrupted(t) ==
  /\ turn[t].state = "stopping"
  /\ turn' = [turn EXCEPT ![t].state = "stopped"]
  /\ live' = [live EXCEPT !.pending = {}]
  /\ UNCHANGED <<approval, mode, exits>>

(* error: of a turn being stopped it is expected, else the turn has failed. *)
Fails(t) ==
  /\ \/ /\ turn[t].state = "stopping"
        /\ Ends(t, "stopping") /\ live' = Flushed(t)
     \/ /\ turn[t].state = "running"
        /\ turn' = [turn EXCEPT ![t].state = "failed"]
        /\ live' = [live EXCEPT !.pending = {}]
  /\ UNCHANGED <<approval, mode, exits>>

(* session.exited: everything the session remembered goes with it.          *)
Exited ==
  /\ exits < MaxExits
  /\ exits' = exits + 1
  /\ turn' = [t \in Turns |-> IF Talking(t) THEN [turn[t] EXCEPT !.state = "gone"] ELSE turn[t]]
  /\ live' = FreshSession
  /\ approval' = [a \in Approvals |->
                   IF approval[a].state = "asked" THEN [approval[a] EXCEPT !.state = "gone"]
                   ELSE approval[a]]
  /\ UNCHANGED mode

----------------------------------------------------------------------------
(* approval.requested: with full access it is approved on the spot.         *)
Ask(a) ==
  /\ approval[a].state = "new" /\ \E t \in Turns : Talking(t)
  /\ approval' = [approval EXCEPT ![a].state = "asked",
                                  ![a].calls = IF mode = "full_access" THEN 1 ELSE 0]
  /\ live' = IF mode = "full_access" THEN live ELSE [live EXCEPT !.pending = @ \cup {a}]
  /\ UNCHANGED <<turn, mode, exits>>

(* respondApproval, from any of the clients: the approval is no longer      *)
(* pending before the adapter is awaited.  Mutant: it stays pending until   *)
(* the adapter has answered.                                                *)
TakenLater(a) == live
Taken(a) == [live EXCEPT !.pending = @ \ {a}]

RespondApproval(a) ==
  /\ a \in live.pending /\ approval[a].calls < 2
  /\ live' = Taken(a)
  /\ approval' = [approval EXCEPT ![a].calls = @ + 1]
  /\ UNCHANGED <<turn, mode, exits>>

(* The adapter passes the answer on.                                        *)
Answered(a) ==
  /\ approval[a].calls > 0
  /\ approval' = [approval EXCEPT ![a].calls = @ - 1, ![a].answers = @ + 1,
                                  ![a].state = IF @ = "asked" THEN "answered" ELSE @]
  /\ UNCHANGED <<turn, live, mode, exits>>

SetMode ==
  /\ mode' \in {"supervised", "full_access"} \ {mode}
  /\ UNCHANGED <<turn, live, approval, exits>>

----------------------------------------------------------------------------
Next ==
  \/ Exited \/ SetMode
  \/ \E t \in Turns :
       \/ Start(t) \/ Delta(t) \/ Message(t) \/ Completed(t)
       \/ Interrupt(t) \/ Interrupted(t) \/ Fails(t)
  \/ \E a \in Approvals : Ask(a) \/ RespondApproval(a) \/ Answered(a)

Spec == Init /\ [][Next]_vars

----------------------------------------------------------------------------
Texts == SUBSET (1..Pieces)
TurnStates == {"new", "running", "stopping", "completed", "stopped", "failed", "gone"}
TypeOK ==
  /\ turn \in [Turns -> [state : TurnStates, said : 0..Pieces, told : 0..Pieces,
                        seen : Texts, stored : Texts]]
  /\ live \in [partial : [Turns -> Texts], committed : SUBSET Turns, pending : SUBSET Approvals]
  /\ approval \in [Approvals -> [state : {"new", "asked", "answered", "gone"},
                                answers : Nat, calls : Nat]]

(* "Persist streamed text so Stop does not throw away what the user already *)
(* saw" (flushPartialAssistant): the transcript of a turn that was stopped  *)
(* or completed has all that was shown of it by then.                       *)
TranscriptKeeps ==
  \A t \in Turns : turn[t].state \in {"stopping", "stopped", "completed"}
                   => turn[t].seen \subseteq turn[t].stored

(* A turn that is being stopped or was stopped, and whose agent may go on,   *)
(* is marked: its text is not written again.                                *)
StoppedIsMarked == \A t \in Turns : turn[t].state \in {"stopping", "stopped"} => t \in live.committed

(* "Mark the turn settled even with nothing to flush": once a turn was      *)
(* stopped or completed, a late message of its agent changes its text no    *)
(* more.                                                                    *)
KeepsSettledText ==
  \A t \in Turns : turn[t].state \in {"stopping", "stopped", "completed"}
                   => turn'[t].stored = turn[t].stored
SettledTextStays == [][KeepsSettledText]_vars

(* An agent gets one answer to what it asked, even if two clients answer or *)
(* the mode changes in between: what is pending was asked and has none yet. *)
AnsweredOnce ==
  \A a \in Approvals :
    /\ approval[a].answers + approval[a].calls <= 1
    /\ a \in live.pending => approval[a].state # "new"
    /\ a \in live.pending \/ approval[a].state = "new" => approval[a].answers + approval[a].calls = 0
=============================================================================
