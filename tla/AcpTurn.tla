------------------------------- MODULE AcpTurn -------------------------------
(***************************************************************************)
(* The grok and cursor adapters: turns go to a long-lived agent over the   *)
(* Agent Client Protocol, and to one process per turn (StreamTurn) when    *)
(* the agent does not speak it, or once it has exited.                     *)
(*                                                                         *)
(* The agent is external: it reads its input in order, runs one prompt at  *)
(* a time and answers it when it is done or cancelled, may ask for a       *)
(* permission once a turn, and may exit.  What it says is left out.        *)
(***************************************************************************)
EXTENDS AdapterHost, SequencesExt

CONSTANTS
  ErrorTurns,  \* turns whose print-mode process prints an error line
  AskTurns,    \* turns in which the agent asks for a permission
  MayExit      \* whether the agent may exit on its own, or refuse

VARIABLES host, session, calls, proc, agent

vars == <<host, session, calls, proc, agent>>

PerTurn == INSTANCE StreamTurn

Msg(k, t) == [kind |-> k, turn |-> t]

Opening == {"initialize", "load", "new", "auth", "new again"}

Init ==
  /\ host = [FreshHost EXCEPT !.live = FALSE]
  /\ session = [registered |-> TRUE, cur |-> NoTurn, acp |-> "initialize",
                active |-> NoTurn, pending |-> {}]
  /\ calls = [stop |-> [t \in Turns |-> "none"]]
  /\ proc = [t \in Turns |-> PerTurn!NoProcess]
  /\ agent = [alive |-> TRUE, inp |-> <<>>, out |-> <<>>, running |-> NoTurn,
              asking |-> NoTurn, asked |-> {}]

----------------------------------------------------------------------------
(* startSession: open the protocol, or fall back to print mode.             *)

OnAcp == session.acp = "open"

Opened(s, phase) == [s EXCEPT !.acp = phase]
Answers(phase) ==
  CASE phase = "initialize" -> {"load", "new"}
    [] phase = "auth" -> {"new again"}
    [] OTHER -> {"open"}
(* A stale conversation is replaced by a new one, and a demand to sign in   *)
(* is met once.                                                             *)
Refusals(phase) ==
  CASE phase = "load" -> {"new"} [] phase = "new" -> {"auth", "none"} [] OTHER -> {"none"}

Open ==
  /\ session.acp \in Opening
  /\ \E next \in Answers(session.acp) \cup IF MayExit THEN Refusals(session.acp) ELSE {} :
       /\ session' = Opened(session, next)
       /\ agent' = [agent EXCEPT !.alive = next # "none"]
       /\ host' = [host EXCEPT !.live = next \in {"open", "none"}]
  /\ UNCHANGED <<calls, proc>>

----------------------------------------------------------------------------
(* sendTurn *)

Wrote(msgs) == [agent EXCEPT !.inp = IF agent.alive THEN @ \o msgs ELSE @]

AcpSend(t) ==
  /\ OnAcp /\ session.registered /\ session.cur = NoTurn
  /\ MaySend(host, t)
  /\ IF session.active # NoTurn
     THEN host' = Refused(host, t) /\ UNCHANGED <<session, agent>>
     ELSE /\ host' = Gave(host, t)
          /\ session' = [session EXCEPT !.active = t]
          /\ agent' = Wrote(<<Msg("prompt", t)>>)
  /\ UNCHANGED <<calls, proc>>

Send(t) == AcpSend(t) \/ (~OnAcp /\ PerTurn!Send(t) /\ UNCHANGED agent)

(* settleTurn: once, and whatever permissions are pending are forgotten.    *)
Settled(s, t) ==
  IF s.active = t THEN [s EXCEPT !.active = NoTurn, !.pending = {}] ELSE s
SettleTurn(t) ==
  /\ session' = Settled(session, t)
  /\ host' = IF session.active = t THEN HearCompleted(host, t) ELSE host

----------------------------------------------------------------------------
(* interruptTurn: over the protocol the permissions are declined, which is  *)
(* awaited, and then the agent is told to stop, whatever it runs by then;   *)
(* the turn ends when the agent says so.                                    *)
AcpStop(t) ==
  /\ OnAcp /\ session.registered
  /\ MayStop(host, t) /\ PerTurn!StopIs(t, "none")
  /\ IF session.active # t
     THEN /\ host' = StopReturned(Stopped(host, t))
          /\ calls' = PerTurn!NowStop(t, "done")
          /\ UNCHANGED <<session, agent>>
     ELSE /\ host' = Stopped(host, t)
          /\ calls' = PerTurn!NowStop(t, "cancelling")
          /\ session' = [session EXCEPT !.pending = {}]
          /\ agent' = Wrote(SetToSeq({Msg("decline", n) : n \in session.pending}))
  /\ UNCHANGED proc

Cancel(t) ==
  /\ PerTurn!StopIs(t, "cancelling")
  /\ host' = StopReturned(host)
  /\ calls' = PerTurn!NowStop(t, "done")
  /\ agent' = Wrote(<<Msg("cancel", t)>>)
  /\ UNCHANGED <<session, proc>>

Stop(t) == AcpStop(t) \/ (~OnAcp /\ PerTurn!Stop(t) /\ UNCHANGED agent)

(* The user's answer to a permission request.                               *)
RespondToApproval(n) ==
  /\ host.live /\ OnAcp /\ n \in session.pending
  /\ session' = [session EXCEPT !.pending = @ \ {n}]
  /\ agent' = Wrote(<<Msg("decline", n)>>)
  /\ UNCHANGED <<host, calls, proc>>

----------------------------------------------------------------------------
(* onInbound and the answer of session/prompt                               *)

Reads(k) == agent.out # <<>> /\ Head(agent.out).kind = k
Read == [agent EXCEPT !.out = Tail(@)]

PromptAnswered ==
  /\ Reads("prompt done")
  /\ SettleTurn(Head(agent.out).turn)
  /\ agent' = Read
  /\ UNCHANGED <<calls, proc>>

(* Without an active turn, or when nothing presentable is asked, the        *)
(* request is cancelled at once.                                            *)
PermissionRequest ==
  /\ Reads("ask")
  /\ LET n == Head(agent.out).turn
         cancelled == [Wrote(<<Msg("decline", n)>>) EXCEPT !.out = Tail(@)]
     IN  \/ /\ session.active # NoTurn
            /\ session' = [session EXCEPT !.pending = @ \cup {n}]
            /\ agent' = Read
         \/ agent' = cancelled /\ UNCHANGED session
  /\ UNCHANGED <<host, calls, proc>>

(* The agent exits: the prompt is rejected, the turn fails and is settled,  *)
(* and from now on turns run in print mode.                                 *)
AgentExits ==
  /\ MayExit /\ agent.alive /\ session.acp = "open"
  /\ agent' = [agent EXCEPT !.alive = FALSE, !.inp = <<>>, !.running = NoTurn, !.asking = NoTurn]
  /\ session' = [Settled(session, session.active) EXCEPT !.acp = "none"]
  /\ host' = IF session.active = NoTurn THEN host
             ELSE HearCompleted(HearError(host), session.active)
  /\ UNCHANGED <<calls, proc>>

(* stopSession: close declines what is pending and drops the turn unsettled. *)
StopSession ==
  \/ /\ OnAcp /\ host.live
     /\ session' = [session EXCEPT !.registered = FALSE, !.acp = "none",
                      !.active = NoTurn, !.pending = {}]
     /\ agent' = [agent EXCEPT !.alive = FALSE, !.inp = <<>>, !.running = NoTurn, !.asking = NoTurn]
     /\ host' = HearExited(host)
     /\ UNCHANGED <<calls, proc>>
  \/ ~OnAcp /\ session.acp = "none" /\ PerTurn!StopSession /\ UNCHANGED agent

----------------------------------------------------------------------------
(* The agent *)

AgentTakes(k) == agent.alive /\ agent.inp # <<>> /\ Head(agent.inp).kind = k
Took == [agent EXCEPT !.inp = Tail(@)]
Done(a) == [a EXCEPT !.running = NoTurn, !.asking = NoTurn,
                     !.out = Append(@, Msg("prompt done", a.running))]

AgentPrompted ==
  /\ AgentTakes("prompt") /\ agent.running = NoTurn
  /\ agent' = [Took EXCEPT !.running = Head(agent.inp).turn]

AgentCancelled ==
  /\ AgentTakes("cancel")
  /\ agent' = IF agent.running = NoTurn THEN Took ELSE Done(Took)

AgentAnswered ==
  /\ AgentTakes("decline")
  /\ agent' = [Took EXCEPT !.asking = IF @ = Head(agent.inp).turn THEN NoTurn ELSE @]

AgentFinishes ==
  /\ agent.running # NoTurn /\ agent.asking = NoTurn
  /\ agent' = Done(agent)

AgentAsks ==
  /\ agent.running \in AskTurns \ agent.asked /\ agent.asking = NoTurn
  /\ agent' = [agent EXCEPT !.asking = agent.running, !.asked = @ \cup {agent.running},
                            !.out = Append(@, Msg("ask", agent.running))]

AgentWorks == AgentPrompted \/ AgentCancelled \/ AgentAnswered \/ AgentFinishes
Agent == (AgentWorks \/ AgentAsks) /\ UNCHANGED <<host, session, calls, proc>>

----------------------------------------------------------------------------
Inbound == PromptAnswered \/ PermissionRequest
Processes == (\E t \in Turns : PerTurn!Pump(t) \/ PerTurn!CliPrints(t)) /\ UNCHANGED agent

Next ==
  \/ \E t \in Turns : Send(t) \/ Stop(t) \/ Cancel(t) \/ RespondToApproval(t)
  \/ Open \/ Inbound \/ Agent \/ AgentExits \/ Processes \/ StopSession

Spec == Init /\ [][Next]_vars

Fairness ==
  /\ WF_vars(Open) /\ WF_vars(Inbound)
  /\ WF_vars(AgentWorks /\ UNCHANGED <<host, session, calls, proc>>)
  /\ WF_vars(\E n \in Turns : RespondToApproval(n))
  /\ \A t \in Turns : /\ WF_vars(Cancel(t))
                      /\ WF_vars(PerTurn!PumpLine(t) /\ UNCHANGED agent)
                      /\ WF_vars(PerTurn!PumpEnds(t) /\ UNCHANGED agent)
                      /\ WF_vars(PerTurn!StopKilled(t) /\ UNCHANGED agent)
                      /\ WF_vars(PerTurn!CliLeaves(t) /\ UNCHANGED agent)
FairSpec == Spec /\ Fairness

----------------------------------------------------------------------------
TypeOK ==
  /\ host \in Hosts
  /\ session.acp \in Opening \cup {"open", "none"}
  /\ session.cur \in MaybeTurn /\ session.active \in MaybeTurn
  /\ session.pending \subseteq Turns
  /\ agent.running \in MaybeTurn /\ agent.asking \in MaybeTurn

(* A session that refuses sends has a prompt whose answer is still to come. *)
BusyWillFree ==
  session.active # NoTurn =>
    \/ agent.running = session.active
    \/ Msg("prompt", session.active) \in Range(agent.inp)
    \/ Msg("prompt done", session.active) \in Range(agent.out)

(* The agent never waits for a permission nobody can give any more, though  *)
(* a settled turn forgets what was asked in it.                             *)
AskedCanBeAnswered ==
  agent.asking # NoTurn =>
    \/ Msg("ask", agent.asking) \in Range(agent.out)
    \/ agent.asking \in session.pending
    \/ Range(agent.inp) \cap {Msg("decline", agent.asking), Msg("cancel", agent.asking)} # {}

(* No turn runs in a process of its own while the protocol is open.         *)
OneTransport == OnAcp => \A t \in Turns : ~proc[t].alive

(* On either transport the turn that runs was taken and not reported, and   *)
(* the other transport has none.                                            *)
RunningIsGiven ==
  /\ PerTurn!RunningIsGiven
  /\ session.active # NoTurn => host.life[session.active] = "given"
  /\ session.acp = "none" => session.active = NoTurn
  /\ session.acp # "none" => session.cur = NoTurn /\ \A t \in Turns : ~PerTurn!Killing(t)

(* "Report turn end exactly once", on either transport.                     *)
Promise == INSTANCE AdapterPromise WITH life <- host.life
KeepsPromise == Promise!Spec

(* Every turn that was taken is reported over, unless the session is closed *)
(* under it.                                                                *)
GivenTurnEnds == \A t \in Turns : host.life[t] = "given" ~> (host.life[t] = "over" \/ ~host.live)
=============================================================================
