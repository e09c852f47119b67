------------------------------ MODULE StreamTurn ------------------------------
(***************************************************************************)
(* The adapters that spawn one process per turn and read its output to the *)
(* end: print mode of grok and cursor, opencode, qwen and the community    *)
(* adapters.  They share one shape: session.proc is the process of the     *)
(* running turn, a pump reads it, and every report of the pump's end is    *)
(* made only while the process is still session.proc.                      *)
(*                                                                         *)
(* A process is named after its turn.  It is external: it prints lines,    *)
(* some of which the normalizer turns into an error event, and exits.      *)
(***************************************************************************)
EXTENDS AdapterHost

CONSTANT ErrorTurns    \* turns whose process prints an error line

VARIABLES host, session, calls, proc

vars == <<host, session, calls, proc>>

NoProcess == [alive |-> FALSE, pump |-> "none", out |-> <<>>]

PrintInit ==
  /\ session = [registered |-> TRUE, cur |-> NoTurn]
  /\ calls = [stop |-> [t \in Turns |-> "none"]]
  /\ proc = [t \in Turns |-> NoProcess]

Init == host = FreshHost /\ PrintInit

StopIs(t, phase) == calls.stop[t] = phase
NowStop(t, phase) == [calls EXCEPT !.stop[t] = phase]

----------------------------------------------------------------------------
(* Mutant: a second process beside the running one.                         *)
SendBeside(t) ==
  /\ MaySend(host, t) /\ session.registered
  /\ host' = Gave(host, t)
  /\ session' = [session EXCEPT !.cur = t]
  /\ proc' = [proc EXCEPT ![t] = [alive |-> TRUE, pump |-> "reading", out |-> <<>>]]
  /\ UNCHANGED calls

(* sendTurn: one process at a time.                                         *)
Send(t) ==
  /\ MaySend(host, t)
  /\ \/ /\ ~session.registered \/ session.cur # NoTurn
        /\ host' = Refused(host, t)
        /\ UNCHANGED <<session, proc>>
     \/ /\ session.registered /\ session.cur = NoTurn
        /\ host' = Gave(host, t)
        /\ session' = [session EXCEPT !.cur = t]
        /\ proc' = [proc EXCEPT ![t] = [alive |-> TRUE, pump |-> "reading", out |-> <<>>]]
  /\ UNCHANGED calls

(* A line of output.  What it says is passed on whether or not the process  *)
(* is still the current one.                                                *)
PumpLine(t) ==
  /\ proc[t].pump = "reading" /\ proc[t].out # <<>>
  /\ proc' = [proc EXCEPT ![t].out = Tail(@)]
  /\ host' = IF Head(proc[t].out) = "error" THEN HearError(host) ELSE host
  /\ UNCHANGED <<session, calls>>

(* Mutant: the pump of a stopped process reports its turn once more.        *)
PumpEndsUngated(t) ==
  /\ proc[t].pump = "reading" /\ proc[t].out = <<>> /\ ~proc[t].alive
  /\ proc' = [proc EXCEPT ![t].pump = "done"]
  /\ session' = [session EXCEPT !.cur = IF @ = t THEN NoTurn ELSE @]
  /\ host' = HearCompleted(host, t)
  /\ UNCHANGED calls

(* The end of the pump: the output is exhausted and the process gone, maybe *)
(* with a bad exit code.  That, and the end of the turn, are reported only  *)
(* by the current process.                                                  *)
PumpEnds(t) ==
  /\ proc[t].pump = "reading"
  /\ proc[t].out = <<>> /\ ~proc[t].alive
  /\ proc' = [proc EXCEPT ![t].pump = "done"]
  /\ IF session.cur = t
     THEN /\ session' = [session EXCEPT !.cur = NoTurn]
          /\ \E failed \in BOOLEAN :
               host' = HearCompleted(IF failed THEN HearError(host) ELSE host, t)
     ELSE UNCHANGED <<session, host>>
  /\ UNCHANGED calls

(* Reading throws: the pipe breaks, or the normalizer is given a line it    *)
(* does not expect.  The turn is over, and nobody kills the process or      *)
(* reads it any more.                                                       *)
PumpFails(t) ==
  /\ proc[t].pump = "reading"
  /\ proc' = [proc EXCEPT ![t].pump = "failed"]
  /\ IF session.cur = t
     THEN /\ session' = [session EXCEPT !.cur = NoTurn]
          /\ host' = HearCompleted(HearError(host), t)
     ELSE UNCHANGED <<session, host>>
  /\ UNCHANGED calls

(* interruptTurn takes the process away from the pump before it kills it,   *)
(* waits for it to exit, and reports the turn itself.                       *)
Stop(t) ==
  /\ MayStop(host, t) /\ StopIs(t, "none")
  /\ IF ~session.registered \/ session.cur = NoTurn
     THEN /\ host' = StopReturned(Stopped(host, t))
          /\ calls' = NowStop(t, "done")
          /\ UNCHANGED session
     ELSE /\ host' = Stopped(host, t)
          /\ calls' = NowStop(t, session.cur)
          /\ session' = [session EXCEPT !.cur = NoTurn]
  /\ UNCHANGED proc

Killing(t) == calls.stop[t] \in Turns
BeingKilled(t) == \E s \in Turns : calls.stop[s] = t

(* Mutant: the Stop leaves the report to the pump.                          *)
StopKilledSilently(t) ==
  /\ Killing(t) /\ ~proc[calls.stop[t]].alive
  /\ host' = StopReturned(host)
  /\ calls' = NowStop(t, "done")
  /\ UNCHANGED <<session, proc>>

StopKilled(t) ==
  /\ Killing(t) /\ ~proc[calls.stop[t]].alive
  /\ host' = StopReturned(HearCompleted(host, t))
  /\ calls' = NowStop(t, "done")
  /\ UNCHANGED <<session, proc>>

(* stopSession: the process is killed while it still is the current one, so *)
(* its pump may report the turn before the session is gone.                 *)
StopSession ==
  /\ host.live
  /\ host' = HearExited(host)
  /\ session' = [session EXCEPT !.registered = FALSE]
  /\ proc' = [t \in Turns |-> IF session.cur = t THEN [proc[t] EXCEPT !.alive = FALSE] ELSE proc[t]]
  /\ UNCHANGED calls

----------------------------------------------------------------------------
(* The process *)
CliPrints(t) ==
  /\ proc[t].alive /\ t \in ErrorTurns /\ proc[t].out = <<>>
  /\ proc' = [proc EXCEPT ![t].out = <<"error">>]
  /\ UNCHANGED <<host, session, calls>>

CliExits(t) ==
  /\ proc[t].alive
  /\ proc' = [proc EXCEPT ![t].alive = FALSE]
  /\ UNCHANGED <<host, session, calls>>

----------------------------------------------------------------------------
(* Of its own accord a process exits while somebody takes its output.       *)
CliLeaves(t) == CliExits(t) /\ (proc[t].pump = "reading" \/ BeingKilled(t))

Pump(t) == PumpLine(t) \/ PumpEnds(t) \/ PumpFails(t) \/ StopKilled(t) \/ CliExits(t)

Next ==
  \/ \E t \in Turns : Send(t) \/ Stop(t) \/ Pump(t) \/ CliPrints(t)
  \/ StopSession

Spec == Init /\ [][Next]_vars

(* Output is read, and a process that is read exits of its own accord, one  *)
(* that is killed anyhow: terminateSubprocess follows SIGTERM with SIGKILL. *)
Fairness ==
  \A t \in Turns : /\ WF_vars(PumpLine(t)) /\ WF_vars(PumpEnds(t))
                   /\ WF_vars(StopKilled(t)) /\ WF_vars(CliLeaves(t))
FairSpec == Spec /\ Fairness

----------------------------------------------------------------------------
TypeOK ==
  /\ host \in Hosts
  /\ session \in [registered : BOOLEAN, cur : MaybeTurn]
  /\ calls.stop \in [Turns -> Turns \cup {"none", "done"}]
  /\ proc \in [Turns -> [alive : BOOLEAN, pump : {"none", "reading", "done", "failed"},
                     out : {<<>>, <<"error">>}]]

(* Only the current process, or one a Stop is killing, runs: no turn works  *)
(* on in the background once the session has moved on.  Does not hold of a  *)
(* process whose output could not be read: its turn has been reported over, *)
(* and it is nobody's.                                                      *)
NoStrayProcess ==
  \A t \in Turns : proc[t].alive =>
    session.cur = t \/ BeingKilled(t) \/ (proc[t].pump = "failed" /\ host.life[t] = "over")

(* The turn of the current process was taken and not reported, and so was   *)
(* one a Stop is killing, which is not the current one any more.  If the    *)
(* orchestrator believes that some turn runs, it is the current one.        *)
RunningIsGiven ==
  /\ session.cur # NoTurn =>
       host.life[session.cur] = "given" /\ host.active \in {session.cur, NoTurn}
  /\ \A t \in Turns : Killing(t) => host.life[t] = "given" /\ session.cur # t

(* Each turn is reported at most once: by its pump or by its Stop.          *)
Promise == INSTANCE AdapterPromise WITH life <- host.life
KeepsPromise == Promise!Spec

(* Every turn that got a process is reported over.                          *)
GivenTurnEnds == \A t \in Turns : host.life[t] = "given" ~> host.life[t] = "over"
=============================================================================
