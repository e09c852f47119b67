------------------------------ MODULE ClaudeTurn ------------------------------
(***************************************************************************)
(* The claude adapter: one session on a long-lived `claude` process that   *)
(* is spawned again when it died.  Turns are user messages on its stdin,   *)
(* and a `result` line on its stdout ends whatever turn is active.         *)
(* Settings are changed and turns interrupted by control requests, each of *)
(* which is acknowledged, refused, or given up after a timeout.            *)
(*                                                                         *)
(* The process is external: it takes user messages one at a time, control  *)
(* requests at any time, and may exit at any time.  The text of the answer *)
(* is left out.                                                            *)
(***************************************************************************)
EXTENDS AdapterHost

CONSTANTS
  MaxSpawns,   \* bound: processes a session may spawn
  Modes,       \* permission modes the user switches between
  Models,      \* models a turn may ask for
  AskTurns,    \* turns in which the CLI asks something on the control channel
  SlowCli,     \* whether control requests may be refused or time out
  MayExit      \* whether processes may exit on their own, or not start

VARIABLES host, session, calls, proc

vars == <<host, session, calls, proc>>

Procs == 1..MaxSpawns
NoProc == 0

Msg(k, t) == [kind |-> k, turn |-> t, want |-> NoTurn]
Set(k, t, v) == [kind |-> k, turn |-> t, want |-> v]

Unborn == [alive |-> FALSE, seen |-> "unborn", inp |-> <<>>, out |-> <<>>,
           running |-> NoTurn, asking |-> FALSE, asked |-> {}, mode |-> NoTurn, model |-> NoTurn]
Born(mode, model) == [Unborn EXCEPT !.alive = TRUE, !.seen = "no", !.mode = mode, !.model = model]

(* startSession boots the process at once; a failure is left to the first   *)
(* turn.                                                                    *)
Init ==
  /\ host = FreshHost
  /\ \E mode \in Modes, ok \in {TRUE, ~MayExit} :
       /\ session = [registered |-> TRUE, active |-> NoTurn, timer |-> NoTurn,
                     cur |-> IF ok THEN 1 ELSE NoProc, mode |-> mode,
                     applied |-> IF ok THEN mode ELSE NoTurn,
                     model |-> NoTurn, pending |-> {}, rejected |-> {}]
       /\ proc = [p \in Procs |-> IF ok /\ p = 1 THEN Born(mode, NoTurn) ELSE Unborn]
  /\ calls = [send |-> [t \in Turns |-> "none"], stop |-> [t \in Turns |-> "none"],
              model |-> [t \in Turns |-> NoTurn]]

----------------------------------------------------------------------------
Current(p) == p # NoProc /\ session.cur = p
IsAlive == session.cur # NoProc /\ proc[session.cur].alive

StopIs(t, phase) == calls.stop[t] = phase
NowStop(t, phase) == [calls EXCEPT !.stop[t] = phase]

(* write: dropped when there is no process.                                 *)
Wrote(pr, p, m) ==
  IF p # NoProc /\ pr[p].alive THEN [pr EXCEPT ![p].inp = Append(@, m)] ELSE pr

Dead(pr, p) ==
  IF p = NoProc THEN pr
  ELSE [pr EXCEPT ![p] = [@ EXCEPT !.alive = FALSE, !.inp = <<>>, !.running = NoTurn]]

Settled(s, t) ==
  IF s.active = t THEN [s EXCEPT !.active = NoTurn, !.timer = NoTurn] ELSE s
(* What the orchestrator hears when the active turn ends, in error or not.  *)
EndsWith(h, t, failed) ==
  IF t = NoTurn THEN h ELSE HearCompleted(IF failed THEN HearError(h) ELSE h, t)

----------------------------------------------------------------------------
(* sendTurn *)

(* ensureProcess, when the old process is gone.                             *)
Unused == {p \in Procs : proc[p].seen = "unborn"}
NextProc == CHOOSE p \in Unused : TRUE

(* The state a call of the adapter works on between two awaits.             *)
Here == [session |-> session, calls |-> calls, proc |-> proc]
Becomes(st) == session' = st.session /\ calls' = st.calls /\ proc' = st.proc

(* control: the request waits as a member of pending.                       *)
Asking(st, m, phase) ==
  [session |-> [st.session EXCEPT !.pending = @ \cup {m}],
   calls   |-> IF m.kind = "interrupt" THEN [st.calls EXCEPT !.stop[m.turn] = phase]
               ELSE [st.calls EXCEPT !.send[m.turn] = phase],
   proc    |-> Wrote(st.proc, st.session.cur, m)]

(* The end of sendTurn: the turn becomes active and its message is written. *)
Delivered(st, t) ==
  [session |-> [st.session EXCEPT !.active = t],
   calls   |-> [st.calls EXCEPT !.send[t] = "done"],
   proc    |-> Wrote(st.proc, st.session.cur, Msg("user", t))]

(* After the mode comes the model, if it differs and there is a process to  *)
(* tell.                                                                    *)
ModeDone(st, t) ==
  LET m == st.calls.model[t]
      p == st.session.cur
  IN  IF m # st.session.model /\ p # NoProc /\ st.proc[p].alive
      THEN Asking(st, Set("setModel", t, m), "model")
      ELSE Delivered(st, t)

Send(t) ==
  /\ MaySend(host, t)
  /\ \/ /\ ~session.registered \/ session.active # NoTurn \/ (~IsAlive /\ (Unused = {} \/ MayExit))
        /\ host' = Refused(host, t)
        /\ UNCHANGED <<session, calls, proc>>
     \/ /\ session.registered /\ session.active = NoTurn
        /\ IsAlive \/ Unused # {}
        /\ \E m \in Models :
             LET st == [Here EXCEPT !.calls.model[t] = m]
                 spawned == [st EXCEPT
                   !.session.cur = NextProc, !.session.applied = session.mode, !.session.model = m,
                   !.proc[NextProc] = Born(session.mode, session.model)]
             IN  Becomes(IF ~IsAlive THEN Delivered(spawned, t)
                         ELSE IF session.applied # session.mode
                         THEN Asking(st, Set("setMode", t, session.mode), "mode")
                         ELSE ModeDone(st, t))
        /\ host' = Gave(host, t)

(* An interrupt that is not acknowledged kills the process it finds.        *)
Killing(st, t) ==
  [session |-> [st.session EXCEPT !.cur = NoProc, !.applied = NoTurn],
   calls   |-> [st.calls EXCEPT !.stop[t] = "killing"],
   proc    |-> Dead(st.proc, st.session.cur)]

(* What a control request's caller does with its answer.  The mode that is  *)
(* noted as applied is the session's by then, not the one that was sent.    *)
Resolved(st, m, acked) ==
  CASE m.kind = "setMode" ->
         ModeDone(IF acked THEN [st EXCEPT !.session.applied = st.session.mode] ELSE st, m.turn)
    [] m.kind = "setModel" ->
         Delivered(IF acked THEN [st EXCEPT !.session.model = m.want] ELSE st, m.turn)
    [] m.kind = "interrupt" /\ ~acked -> Killing(st, m.turn)
    [] m.kind = "interrupt" /\ acked ->
         [st EXCEPT !.calls.stop[m.turn] = "done",
            !.session.timer = IF st.session.active = m.turn /\ @ = NoTurn THEN m.turn ELSE @]

Gives(st, m, acked) ==
  /\ Becomes(Resolved([st EXCEPT !.session.pending = @ \ {m}, !.session.rejected = @ \ {m}], m, acked))
  /\ host' = IF m.kind = "interrupt" /\ acked THEN StopReturned(host) ELSE host

ControlTimesOut ==
  SlowCli /\ \E m \in session.pending : Gives(Here, m, FALSE)

----------------------------------------------------------------------------
(* interruptTurn *)

Stop(t) ==
  /\ MayStop(host, t) /\ StopIs(t, "none")
  /\ IF ~session.registered \/ session.active # t
     THEN /\ host' = StopReturned(Stopped(host, t))
          /\ calls' = NowStop(t, "done")
          /\ UNCHANGED <<session, proc>>
     ELSE /\ host' = Stopped(host, t)
          /\ Becomes(IF IsAlive THEN Asking(Here, Msg("interrupt", t), "asking") ELSE Killing(Here, t))

StopKilled(t) ==
  /\ StopIs(t, "killing")
  /\ session' = Settled(session, t)
  /\ host' = StopReturned(IF session.active = t THEN HearCompleted(host, t) ELSE host)
  /\ calls' = NowStop(t, "done")
  /\ UNCHANGED proc

TimerFires ==
  /\ session.timer # NoTurn
  /\ LET t == session.timer IN
       /\ session' = [Settled(session, t) EXCEPT !.timer = NoTurn]
       /\ host' = IF session.active = t THEN HearCompleted(host, t) ELSE host
  /\ UNCHANGED <<calls, proc>>

----------------------------------------------------------------------------
(* pump, handleLine *)

ReadLine(p) ==
  /\ proc[p].out # <<>>
  /\ LET m  == Head(proc[p].out)
         pr == [proc EXCEPT ![p].out = Tail(@)]
     IN  \/ /\ ~Current(p)
            /\ proc' = pr /\ UNCHANGED <<host, session, calls>>
         \/ /\ Current(p) /\ m.kind \in {"setMode", "setModel", "interrupt"}
            /\ IF m \in session.pending
               THEN \E acked \in {TRUE, ~SlowCli} : Gives([Here EXCEPT !.proc = pr], m, acked)
               ELSE proc' = pr /\ UNCHANGED <<host, session, calls>>
         \/ /\ Current(p) /\ m.kind = "ask"
            /\ proc' = Wrote(pr, p, Msg("unsupported", NoTurn))
            /\ UNCHANGED <<host, session, calls>>
         \/ /\ Current(p) /\ m.kind = "result"
            /\ proc' = pr
            /\ session' = Settled(session, session.active)
            /\ \E failed \in BOOLEAN : host' = EndsWith(host, session.active, failed)
            /\ UNCHANGED calls

(* watchExit: looks whether the process is the current one, reads stderr,   *)
(* and then resets the session whatever is current.                         *)
WatchExit(p) ==
  /\ proc[p].seen = "no" /\ ~proc[p].alive
  /\ proc' = [proc EXCEPT ![p].seen = IF Current(p) THEN "reading" ELSE "done"]
  /\ UNCHANGED <<host, session, calls>>

ExitReported(p) ==
  /\ proc[p].seen = "reading"
  /\ proc' = [proc EXCEPT ![p].seen = "done"]
  /\ LET t == session.active IN
       /\ session' = [Settled(session, t) EXCEPT !.cur = NoProc, !.applied = NoTurn,
                       !.pending = {}, !.rejected = @ \cup session.pending]
       /\ \E failed \in BOOLEAN : host' = EndsWith(host, t, failed)
  /\ UNCHANGED calls

(* The callers of the requests it rejected go on as if refused.             *)
ControlRejected == \E m \in session.rejected : Gives(Here, m, FALSE)

SetPermissionMode ==
  /\ host.live /\ session.registered
  /\ \E mode \in Modes \ {session.mode} : session' = [session EXCEPT !.mode = mode]
  /\ UNCHANGED <<host, calls, proc>>

StopSession ==
  /\ MayExit /\ host.live
  /\ session' = [session EXCEPT !.registered = FALSE, !.cur = NoProc, !.timer = NoTurn]
  /\ proc' = Dead(proc, session.cur)
  /\ host' = HearExited(host)
  /\ UNCHANGED calls

----------------------------------------------------------------------------
(* claude *)

Takes(p, i) ==
  /\ i \in DOMAIN proc[p].inp
  /\ \A j \in 1..(i - 1) : proc[p].inp[j].kind = "user" /\ proc[p].running # NoTurn
Taken(p, i) == [proc[p] EXCEPT !.inp = Without(@, i)]

CliTakesTurn(p) ==
  /\ Takes(p, 1) /\ proc[p].inp[1].kind = "user" /\ proc[p].running = NoTurn
  /\ proc' = [proc EXCEPT ![p] = [Taken(p, 1) EXCEPT !.running = proc[p].inp[1].turn]]
  /\ UNCHANGED <<host, session, calls>>

(* Control requests are acknowledged or refused; an interrupt ends the turn *)
(* that is running, which says so with a result.                            *)
CliControls(p) ==
  /\ \E i \in DOMAIN proc[p].inp :
       LET m == proc[p].inp[i] IN
       /\ Takes(p, i) /\ m.kind # "user"
       /\ proc' = [proc EXCEPT ![p] =
            CASE m.kind = "setMode"  -> [Taken(p, i) EXCEPT !.mode = m.want, !.out = Append(@, m)]
              [] m.kind = "setModel" -> [Taken(p, i) EXCEPT !.model = m.want, !.out = Append(@, m)]
              [] m.kind = "interrupt" ->
                   [Taken(p, i) EXCEPT !.running = NoTurn, !.asking = FALSE,
                      !.out = IF proc[p].running = NoTurn THEN Append(@, m)
                              ELSE @ \o <<m, Msg("result", proc[p].running)>>]
              [] m.kind = "unsupported" -> [Taken(p, i) EXCEPT !.asking = FALSE]]
  /\ UNCHANGED <<host, session, calls>>

CliResult(p) ==
  /\ proc[p].running # NoTurn /\ ~proc[p].asking
  /\ proc' = [proc EXCEPT ![p].running = NoTurn, ![p].out = Append(@, Msg("result", proc[p].running))]
  /\ UNCHANGED <<host, session, calls>>

CliAsks(p) ==
  /\ proc[p].running \in AskTurns \ proc[p].asked
  /\ proc' = [proc EXCEPT ![p].asking = TRUE, ![p].asked = @ \cup {proc[p].running},
                          ![p].out = Append(@, Msg("ask", NoTurn))]
  /\ UNCHANGED <<host, session, calls>>

CliExits(p) ==
  /\ MayExit /\ proc[p].alive
  /\ proc' = Dead(proc, p)
  /\ UNCHANGED <<host, session, calls>>

----------------------------------------------------------------------------
Adapter ==
  \/ \E t \in Turns : StopKilled(t)
  \/ TimerFires \/ ControlRejected
  \/ \E p \in Procs : ReadLine(p) \/ WatchExit(p) \/ ExitReported(p)

User ==
  \/ \E t \in Turns : Send(t) \/ Stop(t)
  \/ SetPermissionMode \/ StopSession

Cli == \E p \in Procs : CliTakesTurn(p) \/ CliControls(p) \/ CliResult(p)

Next ==
  \/ Adapter \/ User \/ Cli
  \/ ControlTimesOut
  \/ \E p \in Procs : CliAsks(p) \/ CliExits(p)

Spec == Init /\ [][Next]_vars

(* Pipes are read, timers fire, continuations run, and claude works on what *)
(* it was given.                                                            *)
Fairness == WF_vars(Adapter) /\ WF_vars(Cli)
FairSpec == Spec /\ Fairness

----------------------------------------------------------------------------
TypeOK ==
  /\ host \in Hosts
  /\ session.active \in MaybeTurn /\ session.timer \in MaybeTurn
  /\ session.cur \in Procs \cup {NoProc}
  /\ calls.send \in [Turns -> {"none", "mode", "model", "done"}]
  /\ calls.stop \in [Turns -> {"none", "asking", "killing", "done"}]
  /\ \A p \in Procs : proc[p].running \in MaybeTurn

(* An active turn whose process is there will end: its message is on its    *)
(* way to claude, claude is running something, a result is to be read, or   *)
(* the exit of the process is.                                              *)
Working(p) ==
  \/ proc[p].running # NoTurn
  \/ \E i \in DOMAIN proc[p].inp : proc[p].inp[i].kind = "user"
  \/ \E i \in DOMAIN proc[p].out : proc[p].out[i].kind = "result"
  \/ ~proc[p].alive /\ proc[p].seen # "done"
ActiveWillSettle ==
  session.active # NoTurn /\ session.cur # NoProc => Working(session.cur)

(* The active turn was given and has not ended.  A turn that is still being *)
(* configured waits for the one request in flight for it, and has not been  *)
(* active yet.                                                              *)
InFlight == {m \in session.pending \cup session.rejected : m.kind \in {"setMode", "setModel"}}
RunningIsGiven ==
  /\ session.active # NoTurn => host.life[session.active] = "given"
  /\ \A t \in Turns : calls.send[t] \in {"mode", "model"} =>
                       host.life[t] = "given" /\ session.active # t
  /\ \A m \in InFlight : calls.send[m.turn] \in {"mode", "model"}
  /\ \A m, n \in InFlight : m.turn = n.turn => m = n

(* "Emit turn-end events exactly once": the adapter keeps the contract.     *)
Promise == INSTANCE AdapterPromise WITH life <- host.life
KeepsPromise == Promise!Spec

(* A turn claude was given ends or is stopped, as long as processes live.   *)
GivenTurnEnds ==
  \A t \in Turns : host.life[t] = "given" ~> (host.life[t] = "over" \/ StopIs(t, "done"))
=============================================================================
