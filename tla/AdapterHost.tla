----------------------------- MODULE AdapterHost -----------------------------
(***************************************************************************)
(* The orchestrator as an adapter meets it: one session, the turn it       *)
(* thinks is running, and what the adapter's runtime events do to that.    *)
(* Turns.tla models the orchestrator in full; an adapter only needs to     *)
(* know which calls may come, and when.  Every adapter module extends this *)
(* one and keeps the record in its variable host.                          *)
(***************************************************************************)
EXTENDS Naturals, Sequences, FiniteSets

CONSTANTS
  Turns,    \* the turns the orchestrator may hand to the adapter
  NoTurn    \* null

ASSUME NoTurnIsNoTurn == NoTurn \notin Turns
ASSUME TurnsAreNoPhases == Turns \cap {"none", "cancelling", "done"} = {}

(* A pipe the i-th message was taken out of.                                *)
Without(pipe, i) == SubSeq(pipe, 1, i - 1) \o SubSeq(pipe, i + 1, Len(pipe))

MaybeTurn == Turns \cup {NoTurn}

(* "over" once reported completed, "again" when reported a second time.     *)
Lives == {"fresh", "given", "refused", "over", "again"}

Hosts == [life : [Turns -> Lives], active : MaybeTurn,
          stopping : MaybeTurn, live : BOOLEAN]

FreshHost == [life |-> [t \in Turns |-> "fresh"], active |-> NoTurn,
              stopping |-> NoTurn, live |-> TRUE]

(* sendTurn is called for a turn when no other one holds the session.       *)
MaySend(h, t) == h.live /\ h.active = NoTurn /\ h.life[t] = "fresh"

Gave(h, t)    == [h EXCEPT !.life[t] = "given", !.active = t, !.stopping = NoTurn]
(* The call rejected: the session is free again and the turn has failed.    *)
Refused(h, t) == [h EXCEPT !.life[t] = "refused", !.active = NoTurn]

(* interruptTurn is called for the turn that holds the session.             *)
MayStop(h, t) == h.live /\ h.active = t
Stopped(h, t) == [h EXCEPT !.stopping = t]
(* It returned: the session is freed whatever holds it by then.             *)
StopReturned(h) == [h EXCEPT !.active = NoTurn]

(* The event turn.completed.                                                *)
HearCompleted(h, t) ==
  [h EXCEPT !.life[t]  = IF @ \in {"over", "again"} THEN "again" ELSE "over",
            !.active   = IF @ = t THEN NoTurn ELSE @,
            !.stopping = IF @ = t THEN NoTurn ELSE @]

(* The event error: charged to the active turn, swallowed if a Stop of that *)
(* turn is under way.                                                       *)
HearError(h) ==
  LET t == IF h.active # NoTurn THEN h.active ELSE h.stopping
  IN  IF t # NoTurn /\ h.stopping = t THEN h ELSE [h EXCEPT !.active = NoTurn]

(* The event session.exited, or a stopSession of the orchestrator's own.    *)
HearExited(h) == [h EXCEPT !.live = FALSE, !.active = NoTurn]

(* The life AdapterPromise sees; a second report is folded into the first   *)
(* where an adapter does not promise otherwise.                             *)
Folded(h) == [t \in Turns |-> IF h.life[t] = "again" THEN "over" ELSE h.life[t]]
=============================================================================
