------------------------------ MODULE CodexTurn ------------------------------
(***************************************************************************)
(* The codex adapter: one session on one `codex app-server` process.       *)
(*                                                                         *)
(* A turn has two names, the orchestrator's and the one codex answers      *)
(* turn/start with; the model names a codex turn after the turn that asked *)
(* for it.  Notifications carry codex's name, and the adapter charges them *)
(* to norm.turn, the turn it believes is running.                          *)
(*                                                                         *)
(* The process is external: it reads requests in order, runs one turn at a *)
(* time, asks for approval at most once a turn, and may exit at any time.  *)
(* The texts of messages and tools pass through untouched and are left     *)
(* out.                                                                    *)
(***************************************************************************)
EXTENDS AdapterHost

CONSTANTS
  ErrorTurns,  \* codex turns that send an error notification before they end
  RefuseTurns, \* codex turns whose turn/start may be answered with an error
  AskTurns,    \* codex turns that ask for an approval
  MayExit      \* whether the process may exit on its own

VARIABLES host, session, calls, proc

vars == <<host, session, calls, proc>>

Idle == [turn |-> NoTurn, native |-> NoTurn]

Msg(k, t) == [kind |-> k, turn |-> t]

Init ==
  /\ host = [FreshHost EXCEPT !.live = FALSE]
  /\ session = [phase |-> "initialize", registered |-> TRUE, client |-> TRUE,
                norm |-> Idle, map |-> [t \in Turns |-> NoTurn],
                interrupted |-> {}, approvals |-> {}]
  /\ calls = [send |-> [t \in Turns |-> "none"], stop |-> [t \in Turns |-> "none"]]
  /\ proc = [alive |-> TRUE, inp |-> <<>>, out |-> <<>>, running |-> NoTurn,
             asking |-> NoTurn, said |-> {}]

----------------------------------------------------------------------------
(* Pieces of the adapter *)

SendIs(t, phase) == calls.send[t] = phase
StopIs(t, phase) == calls.stop[t] = phase
NowSend(t, phase) == [calls EXCEPT !.send[t] = phase]
NowStop(t, phase) == [calls EXCEPT !.stop[t] = phase]

Wrote(msgs) == [proc EXCEPT !.inp = IF proc.alive THEN @ \o msgs ELSE @]
Read == [proc EXCEPT !.out = Tail(@)]
Answered(k, t) == proc.out # <<>> /\ Head(proc.out) = Msg(k, t)

(* settleTurn: forget the turn and report it, whether it was reported or    *)
(* not.                                                                     *)
SettledSession(s, t) ==
  [s EXCEPT !.norm = IF s.norm.turn = t THEN Idle ELSE @, !.map[t] = NoTurn]
SettleTurn(t) ==
  /\ session' = SettledSession(session, t)
  /\ host' = HearCompleted(host, t)

Closed(s) == [s EXCEPT !.registered = FALSE, !.client = FALSE]

----------------------------------------------------------------------------
(* startSession *)

BootAnswered ==
  /\ session.phase \in {"initialize", "resume", "start"} /\ proc.alive
  /\ \/ /\ session.phase = "initialize"
        /\ \E p \in {"resume", "start"} : session' = [session EXCEPT !.phase = p]
        /\ UNCHANGED host
     \/ /\ session.phase # "initialize"
        /\ session' = [session EXCEPT !.phase = "ready"]
        /\ host' = [host EXCEPT !.live = TRUE]
  /\ UNCHANGED <<calls, proc>>

(* A refused resume falls back to a new codex thread, any other refusal     *)
(* stops the session.                                                       *)
BootRefused ==
  /\ session.phase \in {"initialize", "resume", "start"}
  /\ IF session.phase = "resume" /\ proc.alive
     THEN session' = [session EXCEPT !.phase = "start"] /\ UNCHANGED proc
     ELSE /\ session' = [Closed(session) EXCEPT !.phase = "failed"]
          /\ proc' = [proc EXCEPT !.alive = FALSE]
  /\ UNCHANGED <<host, calls>>

----------------------------------------------------------------------------
(* sendTurn *)

Send(t) ==
  /\ MaySend(host, t)
  /\ IF ~session.client \/ session.norm.turn # NoTurn
     THEN /\ host' = Refused(host, t)
          /\ UNCHANGED <<session, calls, proc>>
     ELSE /\ host' = Gave(host, t)
          /\ session' = [session EXCEPT !.norm = [turn |-> t, native |-> NoTurn]]
          /\ calls' = NowSend(t, "starting")
          /\ proc' = Wrote(<<Msg("start", t)>>)

(* turn/start returned codex's id.  It is written into whatever norm is by  *)
(* then.  A Stop that found no id is honoured now.                          *)
StartAnswered(t) ==
  /\ SendIs(t, "starting") /\ Answered("startOk", t)
  /\ session' = [session EXCEPT !.norm.native = t, !.map[t] = t, !.interrupted = @ \ {t}]
  /\ IF t \in session.interrupted
     THEN calls' = NowSend(t, "stopping") /\ proc' = [Wrote(<<Msg("interrupt", t)>>) EXCEPT !.out = Tail(@)]
     ELSE calls' = NowSend(t, "done") /\ proc' = Read
  /\ UNCHANGED host

(* Mutant: a refused turn/start leaves the turn running for the session.    *)
StartRefusedKeepingNorm(t) ==
  /\ SendIs(t, "starting") /\ Answered("startErr", t) /\ proc' = Read
  /\ host' = HearCompleted(HearError(host), t)
  /\ calls' = NowSend(t, "done")
  /\ UNCHANGED session

StartRefused(t) ==
  /\ \/ SendIs(t, "starting") /\ Answered("startErr", t) /\ proc' = Read
     \/ SendIs(t, "rejected") /\ UNCHANGED proc
  /\ session' = [session EXCEPT !.norm = Idle]
  /\ host' = HearCompleted(HearError(host), t)
  /\ calls' = NowSend(t, "done")

----------------------------------------------------------------------------
(* interruptTurn *)

Stop(t) ==
  /\ MayStop(host, t) /\ StopIs(t, "none")
  /\ IF ~session.client
     THEN /\ host' = StopReturned(Stopped(host, t))
          /\ calls' = NowStop(t, "done")
          /\ UNCHANGED <<session, proc>>
     ELSE /\ host' = Stopped(host, t)
          /\ calls' = NowStop(t, "cancelling")
          /\ session' = [session EXCEPT !.approvals = {}]
          /\ proc' = IF session.approvals = {} THEN proc ELSE Wrote(<<Msg("answer", NoTurn)>>)

NativeOf(t) ==
  IF session.map[t] # NoTurn THEN session.map[t]
  ELSE IF session.norm.turn = t THEN session.norm.native ELSE NoTurn

(* The approvals are cancelled: ask codex to interrupt the turn, or, when   *)
(* its id is not known yet, leave a note for sendTurn and settle.           *)
StopGoesOn(t) ==
  /\ StopIs(t, "cancelling")
  /\ IF NativeOf(t) = NoTurn
     THEN /\ session' = [SettledSession(session, t) EXCEPT
                           !.interrupted = IF session.norm.turn = t THEN @ \cup {t} ELSE @]
          /\ host' = StopReturned(HearCompleted(host, t))
          /\ calls' = NowStop(t, "done")
          /\ UNCHANGED proc
     ELSE /\ calls' = NowStop(t, IF proc.alive THEN "interrupting" ELSE "rejected")
          /\ proc' = Wrote(<<Msg("interrupt", NativeOf(t))>>)
          /\ UNCHANGED <<host, session>>

(* stopCodexTurn: whatever turn/interrupt answered, the turn is settled.    *)
InterruptAnswered(t) ==
  \/ /\ SendIs(t, "stopping") /\ Answered("interruptOk", t)
     /\ calls' = NowSend(t, "done") /\ proc' = Read
     /\ SettleTurn(t)
  \/ /\ StopIs(t, "interrupting")
     /\ \E n \in Turns : Answered("interruptOk", n) /\ ~SendIs(n, "stopping")
     /\ calls' = NowStop(t, "done") /\ proc' = Read
     /\ session' = SettledSession(session, t)
     /\ host' = StopReturned(HearCompleted(host, t))

(* The same after the process went away.                                    *)
InterruptRejected(t) ==
  \/ /\ SendIs(t, "gone")
     /\ calls' = NowSend(t, "done")
     /\ SettleTurn(t)
     /\ UNCHANGED proc
  \/ /\ StopIs(t, "rejected")
     /\ calls' = NowStop(t, "done")
     /\ session' = SettledSession(session, t)
     /\ host' = StopReturned(HearCompleted(host, t))
     /\ UNCHANGED proc

----------------------------------------------------------------------------
(* onInbound *)

(* A notification, with what normalizeCodexNotification makes of it.        *)
Notification ==
  /\ proc.out # <<>> /\ Head(proc.out).kind \in {"started", "completed", "error"}
  /\ LET m == Head(proc.out)
         running == session.norm.turn
     IN  \/ /\ m.kind = "started"
            /\ session' = [session EXCEPT !.norm.native = m.turn,
                             !.map = IF running = NoTurn THEN @ ELSE [@ EXCEPT ![running] = m.turn]]
            /\ UNCHANGED host
         \/ /\ m.kind = "completed" /\ running = NoTurn
            /\ UNCHANGED <<session, host>>
         \/ /\ m.kind = "completed" /\ running # NoTurn
            /\ session' = [session EXCEPT !.norm = Idle, !.map[running] = NoTurn,
                             !.interrupted = @ \ {running}]
            /\ \E failed \in BOOLEAN :
                 host' = HearCompleted(IF failed THEN HearError(host) ELSE host, running)
         \/ /\ m.kind = "error"
            /\ host' = HearError(host)
            /\ UNCHANGED session
  /\ proc' = Read
  /\ UNCHANGED calls

(* Mutant: a request that comes without a running turn is dropped.          *)
ApprovalRequestDropped ==
  /\ proc.out # <<>> /\ Head(proc.out).kind = "approval"
  /\ session' = IF session.norm.turn = NoTurn THEN session
                ELSE [session EXCEPT !.approvals = @ \cup {Head(proc.out).turn}]
  /\ proc' = Read
  /\ UNCHANGED <<host, calls>>

(* A request for approval; without a running turn it is answered at once.   *)
ApprovalRequest ==
  /\ proc.out # <<>> /\ Head(proc.out).kind = "approval"
  /\ LET n == Head(proc.out).turn
     IN  IF session.norm.turn # NoTurn
         THEN session' = [session EXCEPT !.approvals = @ \cup {n}] /\ proc' = Read
         ELSE /\ proc' = IF session.client THEN [Wrote(<<Msg("answer", n)>>) EXCEPT !.out = Tail(@)] ELSE Read
              /\ UNCHANGED session
  /\ UNCHANGED <<host, calls>>

(* An answer nobody waits for any more.                                     *)
StrayAnswer ==
  /\ proc.out # <<>>
  /\ LET m == Head(proc.out)
     IN  \/ m.kind \in {"startOk", "startErr"} /\ ~SendIs(m.turn, "starting")
         \/ /\ m.kind = "interruptOk" /\ ~SendIs(m.turn, "stopping")
            /\ \A t \in Turns : ~StopIs(t, "interrupting")
  /\ proc' = Read
  /\ UNCHANGED <<host, session, calls>>

RespondToApproval(n) ==
  /\ host.live /\ session.client /\ n \in session.approvals
  /\ session' = [session EXCEPT !.approvals = @ \ {n}]
  /\ proc' = Wrote(<<Msg("answer", n)>>)
  /\ UNCHANGED <<host, calls>>

----------------------------------------------------------------------------
(* The end of the session *)

(* Mutant: the two callers of a turn/interrupt are mixed up.                *)
RejectedSwapped(c) ==
  [c EXCEPT !.stop = [t \in Turns |-> IF c.stop[t] = "interrupting" THEN "gone" ELSE c.stop[t]]]

(* JsonRpcStdioClient.watchExit: every call that waits is rejected.         *)
Rejected(c) ==
  [send |-> [t \in Turns |-> CASE c.send[t] = "starting" -> "rejected"
                               [] c.send[t] = "stopping" -> "gone"
                               [] OTHER -> c.send[t]],
   stop |-> [t \in Turns |-> IF c.stop[t] = "interrupting" THEN "rejected" ELSE c.stop[t]]]

Gone(p) == [p EXCEPT !.alive = FALSE, !.inp = <<>>, !.running = NoTurn, !.asking = NoTurn]

Exit ==
  /\ MayExit /\ proc.alive /\ session.phase = "ready"
  /\ proc' = Gone(proc)
  /\ calls' = Rejected(calls)
  /\ IF session.registered
     THEN session' = Closed(session) /\ host' = HearExited(host)
     ELSE UNCHANGED <<session, host>>

(* stopSession of the orchestrator: approvals are declined and the client   *)
(* closed, which rejects what waits.                                        *)
StopSession ==
  /\ MayExit /\ host.live
  /\ session' = [Closed(session) EXCEPT !.approvals = {}]
  /\ host' = HearExited(host)
  /\ calls' = Rejected(calls)
  /\ proc' = Gone(proc)

----------------------------------------------------------------------------
(* codex app-server *)

Says(p, msgs) == [p EXCEPT !.out = @ \o msgs]

(* Requests are taken in order, but a turn/start waits for the turn that is *)
(* running while answers and interrupts go past it.                         *)
Takes(i) ==
  /\ i \in DOMAIN proc.inp
  /\ \A j \in 1..(i - 1) : proc.inp[j].kind = "start" /\ proc.running # NoTurn
Taken(i) == [proc EXCEPT !.inp = Without(@, i)]

CliStarts ==
  /\ Takes(1) /\ proc.inp[1].kind = "start"
  /\ LET t == proc.inp[1].turn
     IN  \/ t \in RefuseTurns /\ proc' = Says(Taken(1), <<Msg("startErr", t)>>)
         \/ /\ proc.running = NoTurn
            /\ \E msgs \in { <<Msg("startOk", t), Msg("started", t)>>,
                             <<Msg("started", t), Msg("startOk", t)>> } :
                 proc' = Says([Taken(1) EXCEPT !.running = t], msgs)
  /\ UNCHANGED <<host, session, calls>>

(* turn/interrupt of the running turn ends it; of any other, nothing.       *)
CliInterrupts ==
  /\ \E i \in DOMAIN proc.inp :
       /\ Takes(i) /\ proc.inp[i].kind = "interrupt"
       /\ LET n  == proc.inp[i].turn
              ok == Msg("interruptOk", n)
          IN  IF proc.running = n
              THEN \E msgs \in { <<ok, Msg("completed", n)>>, <<Msg("completed", n), ok>> } :
                     proc' = Says([Taken(i) EXCEPT !.running = NoTurn, !.asking = NoTurn], msgs)
              ELSE proc' = Says(Taken(i), <<ok>>)
  /\ UNCHANGED <<host, session, calls>>

CliGetsAnswer ==
  /\ \E i \in DOMAIN proc.inp :
       /\ Takes(i) /\ proc.inp[i].kind = "answer"
       /\ proc' = [Taken(i) EXCEPT
                     !.asking = IF proc.inp[i].turn \in {proc.asking, NoTurn} THEN NoTurn ELSE @]
  /\ UNCHANGED <<host, session, calls>>

CliCompletes ==
  /\ proc.alive /\ proc.running # NoTurn /\ proc.asking = NoTurn
  /\ proc' = Says([proc EXCEPT !.running = NoTurn], <<Msg("completed", proc.running)>>)
  /\ UNCHANGED <<host, session, calls>>

CliSays(k, chosen) ==
  /\ proc.running \in chosen /\ proc.asking = NoTurn
  /\ <<k, proc.running>> \notin proc.said
  /\ proc' = [Says(proc, <<Msg(k, proc.running)>>) EXCEPT
                !.said = @ \cup {<<k, proc.running>>},
                !.asking = IF k = "approval" THEN proc.running ELSE @]
  /\ UNCHANGED <<host, session, calls>>

----------------------------------------------------------------------------
Adapter ==
  \/ BootAnswered \/ BootRefused
  \/ Notification \/ ApprovalRequest \/ StrayAnswer
  \/ \E t \in Turns : \/ StartAnswered(t) \/ StartRefused(t) \/ StopGoesOn(t)
                      \/ InterruptAnswered(t) \/ InterruptRejected(t)

User ==
  \/ \E t \in Turns : Send(t) \/ Stop(t)
  \/ StopSession

Cli ==
  \/ CliStarts \/ CliInterrupts \/ CliGetsAnswer \/ CliCompletes

Next ==
  \/ Adapter \/ User \/ Cli \/ Exit
  \/ \E n \in Turns : RespondToApproval(n)
  \/ CliSays("error", ErrorTurns) \/ CliSays("approval", AskTurns)

Spec == Init /\ [][Next]_vars

(* Promises settle and pipes are read, codex works on what it was asked,    *)
(* and the user answers the approvals that are shown.                       *)
Fairness ==
  /\ WF_vars(Adapter) /\ WF_vars(Cli)
  /\ WF_vars(\E n \in Turns : RespondToApproval(n))
FairSpec == Spec /\ Fairness

----------------------------------------------------------------------------
TypeOK ==
  /\ host \in Hosts
  /\ session.norm \in [turn : MaybeTurn, native : MaybeTurn]
  /\ session.map \in [Turns -> MaybeTurn]
  /\ session.interrupted \subseteq Turns /\ session.approvals \subseteq Turns
  /\ calls.send \in [Turns -> {"none", "starting", "stopping", "rejected", "gone", "done"}]
  /\ calls.stop \in [Turns -> {"none", "cancelling", "interrupting", "rejected", "done"}]
  /\ proc.running \in MaybeTurn /\ proc.asking \in MaybeTurn

InFlight(kinds, n) == \E i \in DOMAIN proc.out : proc.out[i].kind \in kinds /\ proc.out[i].turn = n

(* A session that refuses sends with "turn already running" has something   *)
(* that will free it: the turn/start of the turn it believes is running is  *)
(* under way, or codex runs that turn, or its end is in the pipe.           *)
BusyWillFree ==
  session.norm.turn # NoTurn /\ session.client =>
    \/ SendIs(session.norm.turn, "starting")
    \/ proc.running = session.norm.turn
    \/ InFlight({"completed"}, session.norm.turn)

(* Codex never waits for an approval that can no longer be answered: the    *)
(* request is still to be read, or the user can answer it, or the answer is *)
(* under way.                                                               *)
AskedCanBeAnswered ==
  proc.asking # NoTurn /\ session.client =>
    \/ InFlight({"approval"}, proc.asking)
    \/ proc.asking \in session.approvals
    \/ \E i \in DOMAIN proc.inp : /\ proc.inp[i].kind = "answer"
                                  /\ proc.inp[i].turn \in {proc.asking, NoTurn}

(* A refused turn is never reported over, and none is before it was given.  *)
(* A stopped turn may be reported over twice, which Folded makes one.       *)
Promise == INSTANCE AdapterPromise WITH life <- Folded(host)
KeepsPromise == Promise!Spec

(* A call is made for a turn that was given, though it may have ended.      *)
Handed(t) == host.life[t] \in {"given", "over", "again"}
CallsAreGiven ==
  /\ \A t \in {session.norm.turn, host.active} \ {NoTurn} : Handed(t)
  /\ \A t \in Turns : calls.send[t] # "none" \/ calls.stop[t] # "none" => Handed(t)

(* A turn codex was given ends, as long as its process lives.               *)
GivenTurnEnds ==
  \A t \in Turns : host.life[t] = "given" ~> (host.life[t] \in {"over", "again"} \/ ~session.client)
=============================================================================
