------------------------------- MODULE ThreadView -------------------------------
(***************************************************************************)
(* What one window shows of a thread beside its transcript (Feed.tla): the *)
(* turn that runs, the messages that wait and the approval that is asked   *)
(* for.  App keeps them from the events it is pushed and from the answers  *)
(* to its own requests; the snapshot says nothing of the last two.         *)
(*                                                                         *)
(* The daemon is a sketch of Turns.tla and Transcript.tla: the commands    *)
(* and events of one thread, in the order the code commits and answers.    *)
(* The socket stays up and both directions are FIFO.                       *)
(***************************************************************************)
EXTENDS Naturals, Sequences, SequencesExt

CONSTANTS Turns, NoTurn,
          Approvals, NoApproval,
          MaxFrames,  \* bound: frames under way when the daemon does something by itself
          MaxOpens,   \* bound: times the thread is opened again
          MaxClicks   \* bound: Stops, answers and cancellations

VARIABLES daemon,  \* the LiveSession, and the calls of it that await the adapter
          down,    \* frames on their way to the window
          up,      \* frames on their way to the daemon
          view,    \* the state of App
          used     \* how often the user did something

vars == <<daemon, down, up, view, used>>

Evt(type, id) == [t |-> "evt", type |-> type, id |-> id]
Res(type, id) == [t |-> "res", type |-> type, id |-> id]
Req(type, id) == [type |-> type, id |-> id]

Init ==
  /\ daemon = [active |-> NoTurn, queue |-> <<>>, asked |-> {}, new |-> Turns,
               unasked |-> Approvals, sending |-> {}, stopping |-> NoTurn,
               abandoned |-> <<>>, answering |-> {}]
  /\ down = <<>> /\ up = <<>>
  /\ view = [open |-> TRUE, loading |-> FALSE, active |-> NoTurn, queued |-> <<>>,
             approval |-> NoApproval]
  /\ used = [opens |-> 0, clicks |-> 0]

----------------------------------------------------------------------------
(* The daemon. *)

Pushed(fs) == down' = down \o fs
Quiet == Len(down) < MaxFrames /\ UNCHANGED <<up, view, used>>

(* A turn takes the session: whatever was asked for before is void.         *)
Begun(d, t) == [d EXCEPT !.active = t, !.asked = {}]
Ended(d) == [d EXCEPT !.active = NoTurn, !.asked = {}]

(* drainQueue after the turn.                                               *)
Next1(d) == IF d.queue = <<>> THEN d ELSE [Begun(d, Head(d.queue)) EXCEPT !.queue = Tail(@)]
Started1(d) == IF d.queue = <<>> THEN <<>> ELSE <<Evt("turn.started", Head(d.queue))>>

OnSend(t) ==
  IF daemon.active # NoTurn
  THEN /\ daemon' = [daemon EXCEPT !.queue = Append(@, t)]
       /\ Pushed(<<Evt("turn.queued", t), Res("turn.send", t)>>)
  ELSE /\ daemon' = [Begun(daemon, t) EXCEPT !.sending = @ \cup {t}]
       /\ Pushed(<<Evt("turn.started", t)>>)

OnInterrupt(t) ==
  IF daemon.active # t \/ daemon.stopping # NoTurn
  THEN Pushed(<<Res("err", NoTurn)>>) /\ UNCHANGED daemon
  ELSE /\ daemon' = [daemon EXCEPT !.stopping = t, !.abandoned = daemon.queue, !.queue = <<>>]
       /\ UNCHANGED down

OnDequeue(t) ==
  IF t \in ToSet(daemon.queue)
  THEN /\ daemon' = [daemon EXCEPT !.queue = SelectSeq(@, LAMBDA u : u # t)]
       /\ Pushed(<<Evt("turn.dequeued", t), Res("turn.dequeue", t)>>)
  ELSE Pushed(<<Res("err", NoTurn)>>) /\ UNCHANGED daemon

OnRespond(a) ==
  IF a \in daemon.asked
  THEN /\ daemon' = [daemon EXCEPT !.asked = @ \ {a}, !.answering = @ \cup {a}]
       /\ UNCHANGED down
  ELSE Pushed(<<Res("err", NoTurn)>>) /\ UNCHANGED daemon

OnSnapshot == Pushed(<<Res("thread.snapshot", daemon.active)>>) /\ UNCHANGED daemon

Message ==
  /\ up # <<>>
  /\ up' = Tail(up)
  /\ LET r == Head(up) IN
       \/ r.type = "turn.send" /\ OnSend(r.id)
       \/ r.type = "turn.interrupt" /\ OnInterrupt(r.id)
       \/ r.type = "turn.dequeue" /\ OnDequeue(r.id)
       \/ r.type = "approval.respond" /\ OnRespond(r.id)
       \/ r.type = "thread.snapshot" /\ OnSnapshot
  /\ UNCHANGED <<view, used>>

(* What awaited the adapter resolves.                                       *)
SendResolves ==
  /\ \E t \in daemon.sending :
       /\ daemon' = [daemon EXCEPT !.sending = @ \ {t}]
       /\ Pushed(<<Res("turn.send", t)>>)
  /\ Quiet

AnswerResolves ==
  /\ \E a \in daemon.answering :
       /\ daemon' = [daemon EXCEPT !.answering = @ \ {a}]
       /\ Pushed(<<Evt("approval.resolved", a), Res("approval.respond", a)>>)
  /\ Quiet

(* interruptTurn resolves or throws.                                        *)
StopResolves ==
  /\ daemon.stopping # NoTurn
  /\ daemon' = [Ended(daemon) EXCEPT !.stopping = NoTurn, !.abandoned = <<>>]
  /\ \E type \in {"turn.interrupted", "turn.failed"} :
       Pushed(<<Evt(type, daemon.stopping)>>
              \o [i \in DOMAIN daemon.abandoned |-> Evt("turn.dequeued", daemon.abandoned[i])]
              \o <<Res("turn.interrupt", daemon.stopping)>>)
  /\ Quiet

(* turn.completed or an error, unless the error is of a turn being stopped. *)
TurnEnds ==
  /\ daemon.active # NoTurn
  /\ daemon' = Next1(Ended(daemon))
  /\ \E type \in {"turn.completed", "turn.failed"} :
       /\ type = "turn.failed" => daemon.stopping = NoTurn
       /\ Pushed(<<Evt(type, daemon.active)>> \o Started1(daemon))
  /\ Quiet

(* approval.requested                                                       *)
Asks ==
  /\ daemon.active # NoTurn
  /\ \E a \in daemon.unasked :
       /\ daemon' = [daemon EXCEPT !.asked = @ \cup {a}, !.unasked = @ \ {a}]
       /\ Pushed(<<Evt("approval.requested", a)>>)
  /\ Quiet

----------------------------------------------------------------------------
(* The window.  While another thread is open, onEvent ignores this one.     *)

(* onEvent; mutant: the end of a turn leaves the approval alone.  The       *)
(* session.status of a turn boundary clears the active turn, as the event   *)
(* of the turn beside it does.                                              *)
Dropping(s, t) == SelectSeq(s, LAMBDA u : u # t)
OnEndedNoApproval(v) == [v EXCEPT !.active = NoTurn]
OnEnded(v) == [v EXCEPT !.active = NoTurn, !.approval = NoApproval]
OnStarted(v, t) ==
  [v EXCEPT !.active = t, !.approval = NoApproval, !.queued = Dropping(@, t)]

OnEvent(type, id) ==
  CASE type = "turn.queued" -> [view EXCEPT !.queued = Append(@, id)]
    [] type = "turn.dequeued" -> [view EXCEPT !.queued = Dropping(@, id)]
    [] type = "turn.started" -> OnStarted(view, id)
    [] type \in {"turn.completed", "turn.interrupted", "turn.failed"} -> OnEnded(view)
    [] type = "approval.requested" -> [view EXCEPT !.approval = id]
    [] type = "approval.resolved" ->
         [view EXCEPT !.approval = IF @ = id THEN NoApproval ELSE @]

(* The answers: of openThread, send and respondApproval.                    *)
OnAnswer(type, id) ==
  CASE type = "thread.snapshot" ->
         IF view.open THEN [view EXCEPT !.loading = FALSE, !.active = id, !.queued = <<>>]
         ELSE view
    [] type = "turn.send" -> [view EXCEPT !.active = id]
    [] type = "approval.respond" -> [view EXCEPT !.approval = NoApproval]
    [] OTHER -> view

Receive ==
  /\ down # <<>>
  /\ down' = Tail(down)
  /\ LET f == Head(down) IN
       view' = IF f.t = "res" THEN OnAnswer(f.type, f.id)
               ELSE IF view.open THEN OnEvent(f.type, f.id) ELSE view
  /\ UNCHANGED <<daemon, up, used>>

Asked(type, id) == up' = Append(up, Req(type, id)) /\ UNCHANGED <<daemon, down>>
Clicked == used.clicks < MaxClicks /\ used' = [used EXCEPT !.clicks = @ + 1]

Send ==
  /\ view.open
  /\ \E t \in daemon.new :
       /\ up' = Append(up, Req("turn.send", t))
       /\ daemon' = [daemon EXCEPT !.new = @ \ {t}]
  /\ UNCHANGED <<down, view, used>>

(* Without an active turn: the one of a message in the transcript.          *)
Interrupt ==
  /\ view.open /\ Clicked
  /\ \E t \in IF view.active # NoTurn THEN {view.active} ELSE Turns \ daemon.new :
       Asked("turn.interrupt", t)
  /\ UNCHANGED view

RespondApproval ==
  /\ view.open /\ view.approval # NoApproval /\ Clicked
  /\ Asked("approval.respond", view.approval)
  /\ UNCHANGED view

CancelQueued ==
  /\ view.open /\ Clicked
  /\ \E t \in ToSet(view.queued) :
       /\ view' = [view EXCEPT !.queued = Dropping(@, t)]
       /\ Asked("turn.dequeue", t)

Leave ==
  /\ view.open
  /\ view' = [view EXCEPT !.open = FALSE]
  /\ UNCHANGED <<daemon, down, up, used>>

(* openThread *)
Opened(v) == [v EXCEPT !.open = TRUE, !.loading = TRUE, !.active = NoTurn, !.approval = NoApproval]

OpenThread ==
  /\ used.opens < MaxOpens
  /\ used' = [used EXCEPT !.opens = @ + 1]
  /\ view' = Opened(view)
  /\ Asked("thread.snapshot", NoTurn)

----------------------------------------------------------------------------
Next ==
  \/ Message \/ SendResolves \/ AnswerResolves \/ StopResolves \/ TurnEnds \/ Asks
  \/ Receive \/ Send \/ Interrupt \/ RespondApproval \/ CancelQueued \/ Leave \/ OpenThread

Spec == Init /\ [][Next]_vars

----------------------------------------------------------------------------
TypeOK ==
  /\ daemon.active \in Turns \cup {NoTurn} /\ daemon.asked \subseteq Approvals
  /\ view.active \in Turns \cup {NoTurn} /\ view.approval \in Approvals \cup {NoApproval}
  /\ ToSet(view.queued) \subseteq Turns

(* The window has everything there is to be had.                            *)
CaughtUp == view.open /\ down = <<>> /\ up = <<>> /\ ~view.loading
            /\ daemon.stopping = NoTurn /\ daemon.answering = {}

(* No dialog asks for an approval nobody waits for any more, and no message *)
(* is shown as waiting that does not wait ("the turn events will correct    *)
(* the list"), whatever the order of clicks, answers and events was.        *)
NothingStale ==
  CaughtUp =>
    /\ view.approval # NoApproval => view.approval \in daemon.asked
    /\ ToSet(view.queued) \subseteq ToSet(daemon.queue)
=============================================================================
