-------------------------------- MODULE Handoff --------------------------------
(***************************************************************************)
(* thread.handoff: the thread's own agent is asked for a note, in a turn   *)
(* like any other, and a new thread is seeded with it.  The call waits for *)
(* that turn through turnWaiters, while users send, Stop and the provider  *)
(* ends, fails or exits as it likes.                                       *)
(*                                                                         *)
(* The turns of the source thread are a sketch of Turns.tla: each handoff  *)
(* names the turn it may start, the others are the user's.                 *)
(***************************************************************************)
EXTENDS Naturals, Sequences, FiniteSets, SequencesExt

CONSTANTS Handoffs,   \* the calls of thread.handoff
          UserTurns,
          NoTurn

VARIABLES turn,      \* of each turn: its state, and its text (said, stored in the log)
          session,   \* the LiveSession of the source thread
          waiting,   \* the keys of turnWaiters
          call       \* of each handoff: where it is, and what its waiter was told

vars == <<turn, session, waiting, call>>

AllTurns == Handoffs \cup UserTurns

Init ==
  /\ turn = [t \in AllTurns |-> [state |-> "new", text |-> "none"]]
  /\ session = [live |-> FALSE, active |-> NoTurn, queued |-> <<>>]
  /\ waiting = {}
  /\ call = [h \in Handoffs |-> [at |-> "none", told |-> "nothing", packet |-> "log"]]

----------------------------------------------------------------------------
Flushed(t) == [turn EXCEPT ![t].text = IF @ = "said" THEN "stored" ELSE @]
Goes(h, at) == call' = [call EXCEPT ![h].at = at]
Claims(t) == session' = [session EXCEPT !.live = TRUE, !.active = t]
Becomes(t, state) == turn' = [turn EXCEPT ![t].state = state]
History == \E t \in AllTurns : turn[t].state \notin {"new", "queued"}

(* drainQueue, on a session that t has left.                                *)
Drained(s, turns) ==
  IF s.queued = <<>> \/ s.active # NoTurn THEN [session |-> s, turn |-> turns]
  ELSE [session |-> [s EXCEPT !.active = Head(s.queued), !.queued = Tail(@)],
        turn |-> [turns EXCEPT ![Head(s.queued)].state = "started"]]
Without(t) == [session EXCEPT !.active = IF @ = t THEN NoTurn ELSE @]

(* The waiter of t, if there is one, is told and forgotten.                 *)
Settle(t, how) ==
  /\ waiting' = waiting \ {t}
  /\ call' = IF t \in waiting THEN [call EXCEPT ![t].at = "woken", ![t].told = how] ELSE call

----------------------------------------------------------------------------
(* handoff up to detect(), and what follows it: refused while a turn runs.  *)
Ask(h) ==
  /\ call[h].at = "none"
  /\ Goes(h, "detect")
  /\ UNCHANGED <<turn, session, waiting>>

Detected(h) ==
  /\ call[h].at = "detect"
  /\ IF session.active # NoTurn \/ ~History
     THEN Goes(h, "refused")
     ELSE \/ Goes(h, "refused")            \* the target is not available
          \/ Goes(h, "fork")               \* packet: "log"
          \/ Goes(h, "ensure")
  /\ UNCHANGED <<turn, session, waiting>>

(* The continuation once it is known whether there is a note.               *)
Noted(h, yes) ==
  call' = [call EXCEPT ![h].at = "fork", ![h].packet = IF yes THEN "agent" ELSE "log"]

(* sendTurn for the note.  A message that was queued runs some time later,  *)
(* and nobody waits for it.                                                 *)
Summarise(h) ==
  /\ call[h].at = "ensure" /\ UNCHANGED waiting
  /\ \/ /\ session.active # NoTurn
        /\ session' = [session EXCEPT !.queued = Append(@, h)]
        /\ Becomes(h, "queued") /\ Noted(h, FALSE)
     \/ /\ session.active = NoTurn
        /\ Claims(h) /\ Becomes(h, "started") /\ Goes(h, "send")
     \/ ~session.live /\ Noted(h, FALSE) /\ UNCHANGED <<turn, session>>

(* waitForTurn, when sendTurn has returned: a turn that is not active any   *)
(* more is not waited for.                                                  *)
MustWait(h) == session.active = h

Sent(h) ==
  /\ call[h].at = "send" /\ turn[h].state # "started"
  /\ IF MustWait(h)
     THEN waiting' = waiting \cup {h} /\ Goes(h, "wait")
     ELSE Noted(h, turn[h].text = "stored") /\ UNCHANGED waiting
  /\ UNCHANGED <<turn, session>>

Woken(h) ==
  /\ call[h].at = "woken"
  /\ Noted(h, call[h].told = "resolved" /\ turn[h].text = "stored")
  /\ UNCHANGED <<turn, session, waiting>>

(* The 180 s of awaitTurn.                                                 *)
MayTimeOut(h) == call[h].at = "wait"

TimesOut(h) ==
  /\ MayTimeOut(h)
  /\ waiting' = waiting \ {h}
  /\ Noted(h, FALSE)
  /\ UNCHANGED <<turn, session>>

(* createThread and thread.handed_off; then the seed is sent to the target, *)
(* which may refuse it when all that has happened.                          *)
Fork(h) ==
  /\ call[h].at = "fork"
  /\ Goes(h, "seed")
  /\ UNCHANGED <<turn, session, waiting>>

Seeded(h) ==
  /\ call[h].at = "seed"
  /\ Goes(h, "done") \/ Goes(h, "refused")
  /\ UNCHANGED <<turn, session, waiting>>

----------------------------------------------------------------------------
(* The source thread. *)

UserSends(t) ==
  /\ turn[t].state = "new"
  /\ IF session.active = NoTurn
     THEN Claims(t) /\ Becomes(t, "started")
     ELSE session' = [session EXCEPT !.queued = Append(@, t)] /\ Becomes(t, "queued")
  /\ UNCHANGED <<waiting, call>>

(* After the checkpoint: a turn stopped meanwhile is not given to anybody.  *)
Dispatch(t) ==
  /\ turn[t].state = "started"
  /\ Becomes(t, IF session.active = t THEN "given" ELSE "stopped")
  /\ UNCHANGED <<session, waiting, call>>

(* adapter.sendTurn rejects before sendTurn has returned; the queue is not  *)
(* drained.                                                                 *)
Rejected(h) ==
  /\ call[h].at = "send" /\ turn[h].state = "given"
  /\ Becomes(h, "failed")
  /\ session' = [session EXCEPT !.active = NoTurn]
  /\ Noted(h, FALSE)
  /\ UNCHANGED waiting

(* assistant.delta, assistant.message.                                      *)
Says(t) ==
  /\ turn[t].state = "given"
  /\ \/ turn[t].text = "none" /\ turn' = [turn EXCEPT ![t].text = "said"]
     \/ turn[t].text = "said" /\ turn' = Flushed(t)
  /\ UNCHANGED <<session, waiting, call>>

(* turn.completed, also late for a turn that was stopped.                   *)
Completed(t) ==
  /\ turn[t].state \in {"given", "abandoned"}
  /\ LET d == Drained(Without(t), [Flushed(t) EXCEPT ![t].state = "over"]) IN
       session' = d.session /\ turn' = d.turn
  /\ Settle(t, "resolved")

Error(t) ==
  /\ turn[t].state = "given" /\ session.active = t
  /\ LET d == Drained(Without(t), [turn EXCEPT ![t].state = "failed"]) IN
       session' = d.session /\ turn' = d.turn
  /\ Settle(t, "rejected")

(* interrupt: nobody tells the waiter.                                      *)
Stop ==
  /\ session.active # NoTurn
  /\ turn' = [t \in AllTurns |->
                IF t = session.active /\ turn[t].state = "given"
                THEN [Flushed(t)[t] EXCEPT !.state = "abandoned"]
                ELSE IF t \in ToSet(session.queued) THEN [turn[t] EXCEPT !.state = "dropped"]
                ELSE turn[t]]
  /\ session' = [session EXCEPT !.active = NoTurn, !.queued = <<>>]
  /\ UNCHANGED <<waiting, call>>

Exited ==
  /\ session.live
  /\ session' = [live |-> FALSE, active |-> NoTurn, queued |-> <<>>]
  /\ turn' = [t \in AllTurns |->
                IF turn[t].state \in {"given", "abandoned", "queued"}
                THEN [turn[t] EXCEPT !.state = "dropped"] ELSE turn[t]]
  /\ UNCHANGED <<waiting, call>>

----------------------------------------------------------------------------
Daemon(h) ==
  Detected(h) \/ Summarise(h) \/ Sent(h) \/ Woken(h) \/ TimesOut(h) \/ Fork(h) \/ Seeded(h)

Next ==
  \/ \E h \in Handoffs : Ask(h) \/ Daemon(h) \/ Rejected(h)
  \/ \E t \in UserTurns : UserSends(t)
  \/ \E t \in AllTurns : Dispatch(t) \/ Says(t) \/ Completed(t) \/ Error(t)
  \/ Stop \/ Exited

Spec == Init /\ [][Next]_vars

(* Promises settle and timers fire; the agent may do what it likes.         *)
Fairness ==
  /\ \A h \in Handoffs : WF_vars(Daemon(h))
  /\ \A t \in AllTurns : WF_vars(Dispatch(t))
FairSpec == Spec /\ Fairness

----------------------------------------------------------------------------
States == {"new", "queued", "started", "given", "abandoned", "stopped", "dropped", "over", "failed"}
TypeOK ==
  /\ \A t \in AllTurns : turn[t].state \in States /\ turn[t].text \in {"none", "said", "stored"}
  /\ session.active \in AllTurns \cup {NoTurn} /\ ToSet(session.queued) \subseteq AllTurns
  /\ waiting \subseteq Handoffs
  /\ \A h \in Handoffs : call[h].at \in
       {"none", "detect", "ensure", "send", "wait", "woken", "fork", "seed", "done", "refused"}

(* No lost wake-up: a handoff that waits is still listed to be told, and    *)
(* waits for a turn that did not end by itself yet, although the end of a   *)
(* quick turn may arrive before sendTurn has returned ("race: completion    *)
(* between sendTurn returning and waiter registration").                    *)
WaitsForOpenTurn ==
  \A h \in Handoffs : call[h].at = "wait" =>
    h \in waiting /\ turn[h].state \notin {"over", "failed"}

(* A handoff returns, even if its note turn is stopped, or its session is   *)
(* gone, and the agent is never heard of again.                             *)
Begun(h)    == call[h].at = "detect"
Returned(h) == call[h].at \in {"done", "refused"}
HandoffReturns == \A h \in Handoffs : Begun(h) ~> Returned(h)
=============================================================================
