------------------------------- MODULE MockTurn -------------------------------
(***************************************************************************)
(* The mock peer the orchestrator's tests run against: no process, a timer *)
(* and then a script, which may stop at an approval and wait for it.  The  *)
(* script is external: a turn asks at most once before it ends.            *)
(***************************************************************************)
EXTENDS AdapterHost

CONSTANT Limits     \* failAfterTurns: the turns that are sent before one is refused

VARIABLES host, session, calls, proc

vars == <<host, session, calls, proc>>

(* proc is where the script of a turn stands, which outlives a Stop.        *)
Scripts == {"none", "asks", "decided", "done"}

Init ==
  /\ host = FreshHost
  /\ \E n \in Limits :
       session = [registered |-> TRUE, active |-> NoTurn, cancelled |-> FALSE,
                  timer |-> NoTurn, waiter |-> NoTurn, sent |-> 0, limit |-> n]
  /\ calls = [stop |-> [t \in Turns |-> "none"]]
  /\ proc = [t \in Turns |-> "none"]

(* The message over the limit is counted, then refused.                     *)
Send(t) ==
  /\ MaySend(host, t)
  /\ IF ~session.registered \/ session.active # NoTurn
     THEN host' = Refused(host, t) /\ UNCHANGED session
     ELSE IF session.sent >= session.limit
     THEN host' = Refused(host, t) /\ session' = [session EXCEPT !.sent = @ + 1]
     ELSE /\ host' = Gave(host, t)
          /\ session' = [session EXCEPT !.sent = @ + 1, !.active = t, !.cancelled = FALSE,
                                        !.timer = t]
  /\ UNCHANGED <<calls, proc>>

Current(t) == ~session.cancelled /\ session.active = t

(* runScript up to its next wait, or to its end.                            *)
GivesUp(t) ==
  /\ ~Current(t)
  /\ proc' = [proc EXCEPT ![t] = "done"]
  /\ session' = [session EXCEPT !.timer = IF @ = t THEN NoTurn ELSE @]
  /\ UNCHANGED host

AsksApproval(t) ==
  /\ Current(t) /\ proc[t] = "none"
  /\ proc' = [proc EXCEPT ![t] = "asks"]
  /\ session' = [session EXCEPT !.timer = NoTurn, !.waiter = t]
  /\ UNCHANGED host

Completes(t) ==
  /\ Current(t)
  /\ proc' = [proc EXCEPT ![t] = "done"]
  /\ session' = [session EXCEPT !.timer = NoTurn, !.active = NoTurn]
  /\ host' = HearCompleted(host, t)

RunScript(t) ==
  /\ session.timer = t \/ proc[t] = "decided"
  /\ GivesUp(t) \/ AsksApproval(t) \/ Completes(t)
  /\ UNCHANGED calls

RespondToApproval ==
  /\ session.registered /\ session.waiter # NoTurn
  /\ session' = [session EXCEPT !.waiter = NoTurn]
  /\ proc' = [proc EXCEPT ![session.waiter] = "decided"]
  /\ UNCHANGED <<host, calls>>

(* interruptTurn reports an error, denies what is asked and ends the turn,  *)
(* all before it returns.                                                   *)
Stop(t) ==
  /\ MayStop(host, t) /\ calls.stop[t] = "none"
  /\ calls' = [calls EXCEPT !.stop[t] = "done"]
  /\ IF session.registered /\ session.active = t
     THEN /\ host' = StopReturned(HearCompleted(HearError(Stopped(host, t)), t))
          /\ session' = [session EXCEPT !.active = NoTurn, !.cancelled = TRUE,
                                        !.timer = NoTurn, !.waiter = NoTurn]
          /\ proc' = [u \in Turns |-> IF u = session.waiter THEN "decided" ELSE proc[u]]
     ELSE host' = StopReturned(Stopped(host, t)) /\ UNCHANGED <<session, proc>>

StopSession ==
  /\ host.live
  /\ host' = HearExited(host)
  /\ session' = [session EXCEPT !.registered = FALSE, !.cancelled = TRUE, !.timer = NoTurn]
  /\ UNCHANGED <<calls, proc>>

Adapter == \E t \in Turns : RunScript(t)
Next == Adapter \/ RespondToApproval \/ StopSession \/ \E t \in Turns : Send(t) \/ Stop(t)

Spec == Init /\ [][Next]_vars
Fairness == WF_vars(Adapter) /\ WF_vars(RespondToApproval)
FairSpec == Spec /\ Fairness

----------------------------------------------------------------------------
TypeOK ==
  /\ host \in Hosts
  /\ session \in [registered : BOOLEAN, active : MaybeTurn, cancelled : BOOLEAN,
                  timer : MaybeTurn, waiter : MaybeTurn, sent : 0..Cardinality(Turns), limit : Limits]
  /\ calls \in [stop : [Turns -> {"none", "done"}]]
  /\ proc \in [Turns -> Scripts]

(* A script that waits for an approval can be answered, unless its session  *)
(* is gone; no other waits beside it.                                       *)
AskedCanBeAnswered ==
  \A t \in Turns : proc[t] = "asks" => session.waiter = t \/ ~session.registered

(* The turn a session runs was taken and not reported.                      *)
RunningIsGiven == session.active # NoTurn => host.life[session.active] = "given"

(* Each turn is reported over at most once, and only if it was taken.       *)
Promise == INSTANCE AdapterPromise WITH life <- host.life
KeepsPromise == Promise!Spec

GivenTurnEnds ==
  \A t \in Turns : host.life[t] = "given" ~> (host.life[t] = "over" \/ ~host.live)
=============================================================================
