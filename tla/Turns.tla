-------------------------------- MODULE Turns --------------------------------
(***************************************************************************)
(* The life of the turns of ONE thread in the daemon's orchestrator        *)
(* (apps/server/src/orchestrator.ts): send, queue, checkpoint, dispatch,   *)
(* complete, fail, Stop, dequeue, drain, and the sessions underneath.      *)
(*                                                                         *)
(* The daemon is a single JavaScript thread, so the code between two       *)
(* awaits is one action here and every await is a point where any other    *)
(* handler may run.  An async call that is suspended is remembered in pc   *)
(* (the sends), stop (the Stops) and warming (the prewarm), with exactly   *)
(* the local variables the rest of its body reads.                         *)
(*                                                                         *)
(* A session object (LiveSession) is an element of Sessions; the entry of  *)
(* the map `sessions` for this thread is cur.  A suspended call keeps the  *)
(* object it read before its await, while onRuntimeEvent looks cur up      *)
(* again on every event: the two may differ, and the model lets them.      *)
(*                                                                         *)
(* The provider behind a session is external.  What the orchestrator       *)
(* relies on is the adapter contract: a turn it accepted ends once, by     *)
(* turn.completed, by a rejected send, or with the process; an error event *)
(* may come at any time while the process is up and names no turn.         *)
(***************************************************************************)
EXTENDS Naturals, Sequences, SequencesExt

CONSTANTS
  Turns,       \* turn ids; also identifies the send call that mints the id
  Sessions,    \* session objects, one per startSession that succeeds
  NoTurn,      \* null in activeTurnId and stoppingTurnId
  NoSession,   \* no entry in the sessions map
  ImageTurns,  \* the sends that carry images
  LostTurns,   \* the turns whose checkpoint may throw (the directory is gone)
  BadTurns,    \* the turns whose adapter.sendTurn may reject by itself
  StopTurns,   \* the turns on which the user may press Stop (once each)
  Mortal,      \* the sessions whose process may end before the run does
  MaxErrors    \* bound on the error events that fail a turn

ASSUME NullAssumption == NoTurn \notin Turns /\ NoSession \notin Sessions
ASSUME SubsetAssumption ==
  /\ ImageTurns \subseteq Turns
  /\ LostTurns \subseteq Turns
  /\ BadTurns \subseteq Turns
  /\ StopTurns \subseteq Turns
  /\ Mortal \subseteq Sessions
ASSUME BoundAssumption == MaxErrors \in Nat

VARIABLES
  cur,      \* sessions.get(threadId)
  live,     \* the turn fields of each LiveSession
  up,       \* the provider process of each session
  handed,   \* turns the provider of a session accepted and has not ended
  pc,       \* where each send (or queued start) is suspended
  at,       \* the session object a send read before its await
  via,      \* who is starting the turn: sendTurn itself, or drainQueue
  stop,     \* the Stop call on each turn
  ev,       \* the event types committed to the log for each turn
  warming,  \* a prewarm is awaiting startSession
  switching, \* a setProvider is awaiting stopSession
  errors    \* error events so far

vars == <<cur, live, up, handed, pc, at, via, stop, ev, warming, switching, errors>>

Event    == {"queued", "started", "dequeued", "completed", "failed", "interrupted"}
Terminal == {"completed", "failed", "interrupted"}

SendPoint == {"idle", "ensuring", "writing", "queued", "checkpoint", "sending", "done"}

LiveSession ==
  [active: Turns \cup {NoTurn}, stopping: Turns \cup {NoTurn},
   cancelled: SUBSET Turns, queued: Seq(Turns)]

StopCall ==
  [phase: {"none", "waiting", "done"}, on: Sessions \cup {NoSession}, abandoned: SUBSET Turns]

NoStop == [phase |-> "none", on |-> NoSession, abandoned |-> {}]

FreshSession == [active |-> NoTurn, stopping |-> NoTurn, cancelled |-> {}, queued |-> <<>>]

Init ==
  /\ cur = NoSession
  /\ live = [s \in Sessions |-> FreshSession]
  /\ up = [s \in Sessions |-> "none"]
  /\ handed = [s \in Sessions |-> {}]
  /\ pc = [t \in Turns |-> "idle"]
  /\ at = [t \in Turns |-> NoSession]
  /\ via = [t \in Turns |-> "send"]
  /\ stop = [t \in Turns |-> NoStop]
  /\ ev = [t \in Turns |-> {}]
  /\ warming = FALSE
  /\ switching = FALSE
  /\ errors = 0

-----------------------------------------------------------------------------
(* Pieces of the handlers, on one session record or on one map.            *)

(* commit of an event of type e for every turn of T. *)
Log(log, e, T) == [t \in Turns |-> IF t \in T THEN log[t] \cup {e} ELSE log[t]]

(* The synchronous start of a turn, shared by sendTurn and startQueuedTurn. *)
(* Mutant: the stopping mark of an earlier turn survives the start.          *)
BeginKeepsStopping(r, t) == [r EXCEPT !.active = t, !.cancelled = {}]

Begin(r, t) == [r EXCEPT !.active = t, !.stopping = NoTurn, !.cancelled = {}]

(* drainQueue up to its first await, on the session the map holds: take the  *)
(* head of the queue if the thread is free.                                  *)
CanDrain(r) == r.active = NoTurn /\ r.queued # <<>>

(* Mutants: shift() off an empty queue is not noticed; the head is read but  *)
(* left in the queue.                                                        *)
DrainedUnchecked(r) ==
  IF r.active # NoTurn THEN r
  ELSE IF r.queued = <<>> THEN Begin(r, "undefined")
  ELSE [Begin(r, Head(r.queued)) EXCEPT !.queued = Tail(r.queued)]

DrainedByPeeking(r) == IF CanDrain(r) THEN Begin(r, Head(r.queued)) ELSE r

Drained(r) ==
  IF CanDrain(r) THEN [Begin(r, Head(r.queued)) EXCEPT !.queued = Tail(r.queued)] ELSE r

(* The turns this starts: none, or the head of the current session's queue.  *)
Starting(sessions) ==
  IF cur # NoSession /\ CanDrain(sessions[cur]) THEN {Head(sessions[cur].queued)} ELSE {}

Drain(sessions, log, points) ==
  /\ live' = [s \in Sessions |-> IF s = cur THEN Drained(sessions[s]) ELSE sessions[s]]
  /\ ev' = Log(log, "started", Starting(sessions))
  /\ pc' = [t \in Turns |-> IF t \in Starting(sessions) THEN "checkpoint" ELSE points[t]]
  /\ via' = [t \in Turns |-> IF t \in Starting(sessions) THEN "drain" ELSE via[t]]

-----------------------------------------------------------------------------
(* turn.send                                                               *)

(* The session is free: claim it, commit turn.started and the user message, *)
(* and await the pre-turn checkpoint.                                       *)
Start(t, s) ==
  /\ live' = [live EXCEPT ![s] = Begin(@, t)]
  /\ pc' = [pc EXCEPT ![t] = "checkpoint"]
  /\ at' = [at EXCEPT ![t] = s]
  /\ ev' = Log(ev, "started", {t})

(* The session is busy: keep the message for later. *)
Enqueue(t, s) ==
  /\ live[s].active # NoTurn
  /\ live' = [live EXCEPT ![s].queued = Append(@, t)]
  /\ pc' = [pc EXCEPT ![t] = "queued"]
  /\ at' = [at EXCEPT ![t] = s]
  /\ ev' = Log(ev, "queued", {t})

(* sendTurn once it holds its session object. *)
HasSession(t, s) ==
  \/ Enqueue(t, s)
  \/ /\ live[s].active = NoTurn
     /\ t \notin ImageTurns
     /\ Start(t, s)
  \/ /\ live[s].active = NoTurn
     /\ t \in ImageTurns
     /\ pc' = [pc EXCEPT ![t] = "writing"]
     /\ at' = [at EXCEPT ![t] = s]
     /\ UNCHANGED <<live, ev>>

(* turn.send on a thread with a live session: ensureSession returns it.     *)
(* Images on a busy session are refused before anything changes.            *)
SendWarm(t) ==
  /\ pc[t] = "idle"
  /\ cur # NoSession
  /\ ~(t \in ImageTurns /\ live[cur].active # NoTurn)
  /\ HasSession(t, cur)
  /\ UNCHANGED <<cur, up, handed, via, stop, warming, switching, errors>>

(* turn.send on a cold thread: ensureSession awaits detect and startSession. *)
SendCold(t) ==
  /\ pc[t] = "idle"
  /\ cur = NoSession
  /\ pc' = [pc EXCEPT ![t] = "ensuring"]
  /\ UNCHANGED <<cur, live, up, handed, at, via, stop, ev, warming, switching, errors>>

(* startSession succeeded: the new object replaces whatever the map held by  *)
(* now, and the send goes on with it.                                        *)
SessionReady(t) ==
  /\ pc[t] = "ensuring"
  /\ \E s \in Sessions :
       /\ up[s] = "none"
       /\ up' = [up EXCEPT ![s] = "up"]
       /\ cur' = s
       /\ HasSession(t, s)
  /\ UNCHANGED <<handed, via, stop, warming, switching, errors>>

(* The provider is unavailable or startSession threw: the command fails and  *)
(* no turn id was ever minted.                                               *)
SessionFails(t) ==
  /\ pc[t] = "ensuring"
  /\ pc' = [pc EXCEPT ![t] = "done"]
  /\ UNCHANGED <<cur, live, up, handed, at, via, stop, ev, warming, switching, errors>>

(* writeTurnImages returned.  activeTurnId is not looked at again. *)
ImagesWritten(t) ==
  /\ pc[t] = "writing"
  /\ Start(t, at[t])
  /\ UNCHANGED <<cur, up, handed, via, stop, warming, switching, errors>>

(* writeTurnImages threw: the command fails before the turn exists. *)
ImagesRefused(t) ==
  /\ pc[t] = "writing"
  /\ pc' = [pc EXCEPT ![t] = "done"]
  /\ UNCHANGED <<cur, live, up, handed, at, via, stop, ev, warming, switching, errors>>

-----------------------------------------------------------------------------
(* After the pre-turn checkpoint                                           *)

(* A Stop landed during the checkpoint: do not call the adapter. *)
CheckpointCancelled(t) ==
  /\ pc[t] = "checkpoint"
  /\ t \in live[at[t]].cancelled
  /\ live' = [live EXCEPT ![at[t]].cancelled = @ \ {t}]
  /\ pc' = [pc EXCEPT ![t] = "done"]
  /\ UNCHANGED <<cur, up, handed, at, via, stop, ev, warming, switching, errors>>

(* captureCheckpoint threw.  Nothing around it frees the session: sendTurn   *)
(* passes the error to its caller, and drainQueue reports the queued turn    *)
(* failed and goes round again.                                              *)
CheckpointThrows(t) ==
  /\ t \in LostTurns
  /\ pc[t] = "checkpoint"
  /\ \/ /\ via[t] = "send"
        /\ pc' = [pc EXCEPT ![t] = "done"]
        /\ UNCHANGED <<live, ev, via>>
     \/ /\ via[t] = "drain"
        /\ Drain(live, Log(ev, "failed", {t}), [pc EXCEPT ![t] = "done"])
  /\ UNCHANGED <<cur, up, handed, at, stop, warming, switching, errors>>

(* adapter.sendTurn is called and the provider takes the turn. *)
Dispatch(t) ==
  LET s == at[t] IN
  /\ pc[t] = "checkpoint"
  /\ t \notin live[s].cancelled
  /\ up[s] \in {"up", "stopping"}
  /\ handed[s] = {}
  /\ handed' = [handed EXCEPT ![s] = {t}]
  /\ pc' = [pc EXCEPT ![t] = "sending"]
  /\ UNCHANGED <<cur, live, up, at, via, stop, ev, warming, switching, errors>>

(* adapter.sendTurn resolved. *)
SendResolves(t) ==
  /\ pc[t] = "sending"
  /\ pc' = [pc EXCEPT ![t] = "done"]
  /\ UNCHANGED <<cur, live, up, handed, at, via, stop, ev, warming, switching, errors>>

(* The catch around adapter.sendTurn: the session is freed, whichever turn   *)
(* it holds by now, and the turn fails.  A queued start then goes round      *)
(* drainQueue's loop again; sendTurn only throws to its caller.              *)
(* Mutants: the session is freed but no turn.failed is committed; the        *)
(* session is not freed.                                                     *)
SendFailsSilently(t) ==
  LET freed == [live EXCEPT ![at[t]].active = NoTurn] IN
  /\ live' = freed /\ pc' = [pc EXCEPT ![t] = "done"]
  /\ UNCHANGED <<ev, via>>

SendFails(t) ==
  LET freed == [live EXCEPT ![at[t]].active = NoTurn]
      log   == Log(ev, "failed", {t})
      point == [pc EXCEPT ![t] = "done"]
  IN \/ via[t] = "drain" /\ Drain(freed, log, point)
     \/ /\ via[t] = "send"
        /\ live' = freed /\ ev' = log /\ pc' = point
        /\ UNCHANGED via

(* The adapter refuses the turn outright: another one is in its hands, the   *)
(* process is gone, or the provider does not want this one.                  *)
DispatchRefused(t) ==
  /\ pc[t] = "checkpoint"
  /\ t \notin live[at[t]].cancelled
  /\ t \in BadTurns \/ handed[at[t]] # {} \/ up[at[t]] # "up"
  /\ SendFails(t)
  /\ UNCHANGED <<cur, up, handed, at, stop, warming, switching, errors>>

(* The adapter took the turn and its call rejects later.  A turn it has      *)
(* already reported completed is past rejecting.                             *)
SendRejects(t) ==
  /\ pc[t] = "sending"
  /\ "completed" \notin ev[t]
  /\ t \in BadTurns \/ up[at[t]] = "down"
  /\ SendFails(t)
  /\ handed' = [handed EXCEPT ![at[t]] = @ \ {t}]
  /\ UNCHANGED <<cur, up, at, stop, warming, switching, errors>>

-----------------------------------------------------------------------------
(* turn.dequeue and turn.interrupt                                         *)

(* Mutant: turn.dequeued is committed without looking whether the message is *)
(* still waiting.                                                            *)
DequeueAnything(t) ==
  /\ cur # NoSession
  /\ "queued" \in ev[t]
  /\ live' = [live EXCEPT ![cur].queued = SelectSeq(@, LAMBDA u : u # t)]
  /\ ev' = Log(ev, "dequeued", {t})
  /\ UNCHANGED <<cur, up, handed, pc, at, via, stop, warming, switching, errors>>

Dequeue(t) ==
  /\ cur # NoSession
  /\ \E i \in DOMAIN live[cur].queued :
       /\ live[cur].queued[i] = t
       /\ live' = [live EXCEPT ![cur].queued = RemoveAt(@, i)]
  /\ ev' = Log(ev, "dequeued", {t})
  /\ pc' = [pc EXCEPT ![t] = "done"]
  /\ UNCHANGED <<cur, up, handed, at, via, stop, warming, switching, errors>>

(* Mutants: the stopping mark, the cancelled mark or the emptying of the     *)
(* queue is missing before the await.                                        *)
InterruptMarking(t, marks, cancels, takes) ==
  /\ t \in StopTurns /\ stop[t].phase = "none"
  /\ cur # NoSession
  /\ live[cur].active = t
  /\ live' = [live EXCEPT ![cur].stopping = IF marks THEN t ELSE @,
                          ![cur].cancelled = IF cancels THEN @ \cup {t} ELSE @,
                          ![cur].queued = IF takes THEN <<>> ELSE @]
  /\ stop' = [stop EXCEPT ![t] = [phase |-> "waiting", on |-> cur,
                                  abandoned |-> ToSet(live[cur].queued)]]
  /\ UNCHANGED <<cur, up, handed, pc, at, via, ev, warming, switching, errors>>

InterruptUnmarked(t)    == InterruptMarking(t, FALSE, TRUE, TRUE)
InterruptKeepsQueue(t)  == InterruptMarking(t, TRUE, TRUE, FALSE)

(* Stop on the running turn, up to the await of adapter.interruptTurn: mark  *)
(* it stopping and cancelled, and take the queue out of drainQueue's reach.  *)
Interrupt(t) ==
  /\ t \in StopTurns /\ stop[t].phase = "none"
  /\ cur # NoSession
  /\ live[cur].active = t
  /\ live' = [live EXCEPT ![cur].stopping = t,
                          ![cur].cancelled = @ \cup {t},
                          ![cur].queued = <<>>]
  /\ stop' = [stop EXCEPT ![t] = [phase |-> "waiting", on |-> cur,
                                  abandoned |-> ToSet(live[cur].queued)]]
  /\ UNCHANGED <<cur, up, handed, pc, at, via, ev, warming, switching, errors>>

(* What both outcomes of adapter.interruptTurn do with the turn and the      *)
(* messages taken from the queue.                                            *)
StopReturns(t, outcome) ==
  LET gone == stop[t].abandoned IN
  /\ stop[t].phase = "waiting"
  /\ ev' = Log(Log(ev, outcome, {t}), "dequeued", gone)
  /\ pc' = [u \in Turns |-> IF u \in gone THEN "done" ELSE pc[u]]
  /\ stop' = [stop EXCEPT ![t].phase = "done", ![t].abandoned = {}]

(* interruptTurn resolved: the session is freed, whichever turn it holds by  *)
(* now, and nothing drains its queue.                                        *)
Interrupted(t) ==
  /\ StopReturns(t, "interrupted")
  /\ live' = [live EXCEPT ![stop[t].on].active = NoTurn]
  /\ UNCHANGED <<cur, up, handed, at, via, warming, switching, errors>>

(* interruptTurn threw. *)
(* Mutant: the turn stays the session's active turn.                         *)
InterruptFailsKeepingTurn(t) ==
  /\ StopReturns(t, "failed")
  /\ UNCHANGED <<cur, live, up, handed, at, via, warming, switching, errors>>

InterruptFails(t) ==
  /\ StopReturns(t, "failed")
  /\ live' = [live EXCEPT ![stop[t].on].active = NoTurn,
                          ![stop[t].on].stopping = NoTurn]
  /\ UNCHANGED <<cur, up, handed, at, via, warming, switching, errors>>

-----------------------------------------------------------------------------
(* onRuntimeEvent: events of a session's provider, handled against cur      *)

Settled(r, t) ==
  [r EXCEPT !.active = IF r.active = t THEN NoTurn ELSE r.active,
            !.stopping = IF r.stopping = t THEN NoTurn ELSE r.stopping,
            !.cancelled = r.cancelled \ {t}]

(* turn.completed: settle the turn, commit, and drain the queue. *)
(* Mutant: the queue is not drained.                                         *)
TurnCompletedUndrained(s, t) ==
  /\ t \in handed[s]
  /\ handed' = [handed EXCEPT ![s] = @ \ {t}]
  /\ live' = [x \in Sessions |-> IF x = cur THEN Settled(live[x], t) ELSE live[x]]
  /\ ev' = Log(ev, "completed", {t})
  /\ UNCHANGED <<cur, up, pc, at, via, stop, warming, switching, errors>>

TurnCompleted(s, t) ==
  /\ t \in handed[s]
  /\ handed' = [handed EXCEPT ![s] = @ \ {t}]
  /\ Drain([x \in Sessions |-> IF x = cur THEN Settled(live[x], t) ELSE live[x]],
           Log(ev, "completed", {t}), pc)
  /\ UNCHANGED <<cur, up, at, stop, warming, switching, errors>>

(* error: it is charged to the active turn, unless the user is stopping that *)
(* turn; then, or with no turn to charge, nothing here changes.  The next    *)
(* queued turn starts before turn.failed is committed.                       *)
ProviderError(s) ==
  /\ up[s] \in {"up", "stopping"}
  /\ errors < MaxErrors
  /\ cur # NoSession
  /\ live[cur].active \notin {NoTurn, live[cur].stopping}
  /\ Drain([live EXCEPT ![cur].active = NoTurn],
           Log(ev, "failed", {live[cur].active}), pc)
  /\ errors' = errors + 1
  /\ UNCHANGED <<cur, up, handed, at, stop, warming, switching>>

(* session.exited: the process is gone, and so is the thread's map entry,    *)
(* even when that entry is another session.                                  *)
(* Mutant: the map entry outlives the process.                               *)
SessionExitedKeepingEntry(s) ==
  /\ s \in Mortal
  /\ up[s] \in {"up", "stopping"}
  /\ up' = [up EXCEPT ![s] = "down"]
  /\ handed' = [handed EXCEPT ![s] = {}]
  /\ UNCHANGED <<cur, live, pc, at, via, stop, ev, warming, switching, errors>>

SessionExited(s) ==
  /\ s \in Mortal
  /\ up[s] \in {"up", "stopping"}
  /\ up' = [up EXCEPT ![s] = "down"]
  /\ handed' = [handed EXCEPT ![s] = {}]
  /\ cur' = NoSession
  /\ UNCHANGED <<live, pc, at, via, stop, ev, warming, switching, errors>>

-----------------------------------------------------------------------------
(* Sessions started and stopped outside a turn                             *)

(* Opening a cold thread boots its CLI in the background (prewarm). *)
Prewarm ==
  /\ cur = NoSession
  /\ ~warming
  /\ warming' = TRUE
  /\ UNCHANGED <<cur, live, up, handed, pc, at, via, stop, ev, switching, errors>>

PrewarmReady ==
  /\ warming
  /\ warming' = FALSE
  /\ \E s \in Sessions :
       /\ up[s] = "none"
       /\ up' = [up EXCEPT ![s] = "up"]
       /\ cur' = s
  /\ UNCHANGED <<live, handed, pc, at, via, stop, ev, switching, errors>>

PrewarmFails ==
  /\ warming
  /\ warming' = FALSE
  /\ UNCHANGED <<cur, live, up, handed, pc, at, via, stop, ev, switching, errors>>

(* Clear the thread's map entry and stop the process of s, which need not be *)
(* that entry; the session.exited of s still comes, when the process is down. *)
DropSession(s) ==
  /\ s \in Mortal /\ up[s] # "none"
  /\ up' = [up EXCEPT ![s] = IF @ = "up" THEN "stopping" ELSE @]
  /\ cur' = NoSession
  /\ UNCHANGED <<live, handed, pc, at, via, stop, ev, warming, switching, errors>>

(* reapIdleSessions walks a copy of the map and awaits between its entries:  *)
(* the session it finds idle may have been replaced, and its successor is    *)
(* what leaves the map.                                                      *)
ReapIdle(s) ==
  /\ live[s].active = NoTurn
  /\ DropSession(s)

(* evictWarmSessionsBeyondCap chooses among the idle sessions before it      *)
(* awaits, so the one it drops may also have become busy.                    *)
EvictWarm(s) == DropSession(s)

(* thread.setPermissionMode on an adapter that bakes the mode into argv: the *)
(* session is dropped and closed, busy or not.                               *)
SetPermissionMode ==
  /\ cur # NoSession
  /\ DropSession(cur)

(* thread.setProvider on a thread without history awaits stopSession before  *)
(* it clears the map entry: a send meanwhile still gets the old session.     *)
SetProvider ==
  /\ ~switching
  /\ cur \in Mortal
  /\ live[cur].active = NoTurn
  /\ \A t \in Turns : "started" \notin ev[t]
  /\ up' = [up EXCEPT ![cur] = "stopping"]
  /\ switching' = TRUE
  /\ UNCHANGED <<cur, live, handed, pc, at, via, stop, ev, warming, errors>>

(* stopSession settled: whatever the map holds by now is dropped from it. *)
ProviderSwitched ==
  /\ switching
  /\ switching' = FALSE
  /\ cur' = NoSession
  /\ UNCHANGED <<live, up, handed, pc, at, via, stop, ev, warming, errors>>

-----------------------------------------------------------------------------

(* The continuations of the sends and Stops that are already in progress.   *)
Resume(t) ==
  \/ SessionReady(t) \/ SessionFails(t)
  \/ ImagesWritten(t) \/ ImagesRefused(t)
  \/ CheckpointCancelled(t) \/ CheckpointThrows(t)
  \/ Dispatch(t) \/ DispatchRefused(t)
  \/ SendResolves(t) \/ SendRejects(t)
  \/ Interrupted(t) \/ InterruptFails(t)

Next ==
  \/ \E t \in Turns : SendWarm(t) \/ SendCold(t) \/ Dequeue(t) \/ Interrupt(t) \/ Resume(t)
  \/ \E s \in Sessions, t \in Turns : TurnCompleted(s, t)
  \/ \E s \in Sessions : ProviderError(s) \/ SessionExited(s) \/ ReapIdle(s) \/ EvictWarm(s)
  \/ Prewarm \/ PrewarmReady \/ PrewarmFails
  \/ SetPermissionMode \/ SetProvider \/ ProviderSwitched

Spec == Init /\ [][Next]_vars

(* Fairness: promises settle (git, file writes, adapter calls), and a        *)
(* provider that accepted a turn ends it while its process lives.            *)
Fairness ==
  /\ \A t \in Turns : WF_vars(Resume(t))
  /\ \A s \in Sessions, t \in Turns : WF_vars(TurnCompleted(s, t))

FairSpec == Spec /\ Fairness

-----------------------------------------------------------------------------
(* Properties                                                              *)

TypeOK ==
  /\ cur \in Sessions \cup {NoSession}
  /\ live \in [Sessions -> LiveSession]
  /\ up \in [Sessions -> {"none", "up", "stopping", "down"}]
  /\ handed \in [Sessions -> SUBSET Turns]
  /\ pc \in [Turns -> SendPoint]
  /\ at \in [Turns -> Sessions \cup {NoSession}]
  /\ via \in [Turns -> {"send", "drain"}]
  /\ stop \in [Turns -> StopCall]
  /\ ev \in [Turns -> SUBSET Event]
  /\ warming \in BOOLEAN
  /\ switching \in BOOLEAN
  /\ errors \in 0..MaxErrors

(* A turn that the log reports over is not the running turn of the thread:   *)
(* otherwise every later send is queued behind a turn that will never end.   *)
ActiveIsOpen ==
  cur # NoSession /\ live[cur].active # NoTurn =>
    /\ "started" \in ev[live[cur].active]
    /\ ev[live[cur].active] \cap Terminal = {}

(* A busy thread has something behind it: a suspended call, the provider, or *)
(* a Stop on its way.  Otherwise nothing will ever free it, and every later  *)
(* message waits.                                                            *)
BusyHasWork ==
  cur # NoSession /\ live[cur].active # NoTurn =>
    LET t == live[cur].active IN
    \/ pc[t] \in {"checkpoint", "sending"}
    \/ t \in handed[cur]
    \/ stop[t].phase = "waiting"

(* The stopping mark belongs to the turn that holds the session, or to one   *)
(* that just let go of it; a mark on any other turn makes the error handler  *)
(* swallow the failures of a turn nobody stopped.                            *)
StoppingMatches ==
  \A s \in Sessions :
    live[s].stopping # NoTurn => live[s].active \in {live[s].stopping, NoTurn}

(* The log holds only turn.queued for t and its send has nothing left to do. *)
Waits(t) == ev[t] = {"queued"} /\ pc[t] = "queued"

(* A message accepted as queued sits in exactly one place until it is        *)
(* started, dequeued or failed: the queue of the session that took it, or    *)
(* the hands of one Stop that will drop it.  No handler can start it twice,  *)
(* start what a Stop took, or lose it in between.                            *)
QueuedInOnePlace ==
  /\ \A s \in Sessions : IsInjective(live[s].queued)
  /\ \A s \in Sessions : \A t \in ToSet(live[s].queued) :
       /\ Waits(t) /\ at[t] = s
       /\ \A u \in Turns : t \notin stop[u].abandoned
  /\ \A u \in Turns : \A t \in stop[u].abandoned :
       /\ Waits(t) /\ stop[u].phase = "waiting"
       /\ \A v \in Turns : t \in stop[v].abandoned => v = u
  /\ \A t \in Turns : pc[t] = "queued" =>
       \/ \E s \in Sessions : t \in ToSet(live[s].queued)
       \/ \E u \in Turns : t \in stop[u].abandoned

(* What makes the three above inductive.                                     *)

(* The log of a turn and the point its send has reached go together. *)
LogMatchesSend ==
  \A t \in Turns :
    /\ pc[t] \in {"idle", "ensuring", "writing"} => ev[t] = {}
    /\ pc[t] \in {"checkpoint", "sending"} => "started" \in ev[t]
    /\ "dequeued" \in ev[t] => ev[t] = {"queued", "dequeued"}
    /\ ev[t] \cap Terminal # {} => "started" \in ev[t]

(* A suspended call holds a session that was created; an object that was not *)
(* is still blank.                                                           *)
SessionsExist ==
  /\ cur # NoSession => up[cur] # "none"
  /\ \A t \in Turns : pc[t] \in {"writing", "checkpoint", "sending"} => at[t] # NoSession
  /\ \A t \in Turns : at[t] # NoSession => up[at[t]] # "none"
  /\ \A s \in Sessions : up[s] = "none" => live[s] = FreshSession /\ handed[s] = {}

(* Whatever a Stop, a provider or a session points at was started there. *)
PointersAreStarted ==
  /\ \A t \in Turns : stop[t].phase = "waiting" =>
       stop[t].on = at[t] /\ at[t] # NoSession /\ "started" \in ev[t]
  /\ \A s \in Sessions : \A t \in handed[s] : "started" \in ev[t]
  /\ \A s \in Sessions : live[s].active # NoTurn =>
       at[live[s].active] = s /\ "started" \in ev[live[s].active]

(* The running turn is open in a daemon whose checkpoints do not throw. *)
OpenUnlessLost == LostTurns = {} => ActiveIsOpen

IInv ==
  /\ TypeOK /\ LogMatchesSend /\ SessionsExist /\ PointersAreStarted
  /\ OpenUnlessLost /\ StoppingMatches /\ QueuedInOnePlace

(* What the two properties about Stops and idle threads need on top.         *)

(* A turn being stopped, as long as its session still holds it, is marked    *)
(* there and has its Stop on the way: the call ends the hold and the mark.   *)
StopsMarked ==
  /\ \A t \in Turns : stop[t].phase # "none" => "started" \in ev[t]
  /\ \A s \in Sessions : \A t \in Turns :
       live[s].active = t /\ stop[t].phase # "none" =>
         stop[t].phase = "waiting" /\ live[s].stopping = t

(* Only a Stop makes a send skip the adapter. *)
CancelledStopped ==
  \A s \in Sessions : \A t \in live[s].cancelled : stop[t].phase # "none"

(* BusyHasWork without the calls that may settle with the turn still running: *)
(* a turn past its checkpoint is kept by the provider, not by the send.      *)
WorkBehind ==
  cur # NoSession =>
    \A t \in Turns : live[cur].active = t =>
      pc[t] = "checkpoint" \/ t \in handed[cur] \/ stop[t].phase = "waiting"

WorkUnlessLost == LostTurns = {} => WorkBehind

StopInv == IInv /\ StopsMarked /\ CancelledStopped /\ WorkUnlessLost

(* A provider error that arrives while the user is stopping a turn is not    *)
(* charged to that turn: only its own rejected send or an interrupt the      *)
(* adapter could not carry out may still fail it.                            *)
StopIsNotAFailure ==
  [][\A t \in Turns :
       stop[t].phase # "none" /\ "failed" \in ev'[t] \ ev[t] =>
         \/ pc[t] # "done" /\ pc'[t] = "done"
         \/ stop'[t].phase # stop[t].phase]_vars

(* A turn is started once: no handler starts a turn whose start, end or drop *)
(* the log already holds.                                                    *)
StartsOnce ==
  [][\A t \in Turns :
       pc[t] # "checkpoint" /\ pc'[t] = "checkpoint" => ev[t] \subseteq {"queued"}]_vars

(* A turn that was reported started is eventually reported over.             *)
EveryStartedTurnEnds ==
  \A t \in Turns : "started" \in ev[t] ~> ev[t] \cap Terminal # {}

(* A queued message is eventually started or dropped, whatever happens to    *)
(* the turns in front of it, as long as nobody presses Stop and no turn sent *)
(* to a free session fails there (neither drains the queue).                 *)
QueueKeepsMoving ==
  /\ [](\A t \in Turns : stop[t].phase = "none")
  /\ [](\A t \in BadTurns : "failed" \in ev[t] => "queued" \in ev[t])
  => \A t \in Turns : "queued" \in ev[t] ~> ev[t] \cap {"started", "dequeued"} # {}

(* The refinement of TurnPromise: a turn's life as its events tell it.       *)
Status(t) ==
  IF "dequeued" \in ev[t] THEN "dropped"
  ELSE IF ev[t] \cap Terminal # {} THEN "ended"
  ELSE IF "started" \in ev[t] THEN "running"
  ELSE IF "queued" \in ev[t] THEN "queued"
  ELSE "absent"

Promise == INSTANCE TurnPromise WITH status <- [t \in Turns |-> Status(t)]

KeepsPromise == Promise!Spec

-----------------------------------------------------------------------------
(* Claims of the source's comments that the code does not keep             *)

(* A turn the user stopped before the provider had it is never handed over. *)
StoppedNeverDispatched ==
  [][\A t \in Turns, s \in Sessions :
       t \in handed'[s] \ handed[s] => "interrupted" \notin ev[t]]_vars
=============================================================================
