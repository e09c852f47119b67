------------------------------ MODULE OpenaiTurn ------------------------------
(***************************************************************************)
(* The OpenAI-compatible adapter: no process, one streaming HTTP request   *)
(* per turn, and the conversation kept in the session, because the         *)
(* endpoint keeps none.                                                    *)
(*                                                                         *)
(* The endpoint is external: it streams text, finishes, or fails.          *)
(***************************************************************************)
EXTENDS AdapterHost

VARIABLES host, session, calls, proc

vars == <<host, session, calls, proc>>

Said(role, t) == [role |-> role, turn |-> t]

(* session.running stands for abort and abortTurnId, calls for the Stops,   *)
(* proc for the request: whether it was aborted and whether text came.      *)
Init ==
  /\ host = FreshHost
  /\ session = [registered |-> TRUE, running |-> NoTurn, messages |-> <<>>]
  /\ calls = [stop |-> [t \in Turns |-> "none"]]
  /\ proc = [aborted |-> FALSE, text |-> FALSE]

Send(t) ==
  /\ MaySend(host, t)
  /\ IF ~session.registered \/ session.running # NoTurn
     THEN host' = Refused(host, t) /\ UNCHANGED <<session, proc>>
     ELSE /\ host' = Gave(host, t)
          /\ session' = [session EXCEPT !.running = t, !.messages = Append(@, Said("user", t))]
          /\ proc' = [aborted |-> FALSE, text |-> FALSE]
  /\ UNCHANGED calls

Delta ==
  /\ session.running # NoTurn /\ ~proc.aborted
  /\ proc' = [proc EXCEPT !.text = TRUE]
  /\ UNCHANGED <<host, session, calls>>

(* The turn's text, if there is any, joins the conversation.                *)
Kept(t) == IF proc.text THEN Append(session.messages, Said("assistant", t)) ELSE session.messages

Ends(messages, failed) ==
  LET t == session.running IN
    /\ t # NoTurn
    /\ session' = [session EXCEPT !.running = NoTurn, !.messages = messages]
    /\ host' = HearCompleted(IF failed THEN HearError(host) ELSE host, t)
    /\ UNCHANGED <<calls, proc>>

(* The stream ended; an answer without text is an error.                    *)
Answered == ~proc.aborted /\ Ends(Kept(session.running), ~proc.text)

(* Mutant: a failed request drops its message and keeps the partial answer. *)
FailedKeepingText ==
  LET n == Len(session.messages) IN
    /\ ~proc.aborted /\ n > 0
    /\ Ends(Without(Kept(session.running), n), TRUE)

(* The request failed: the message just pushed is dropped again.            *)
Failed ==
  LET n == Len(session.messages) IN
    /\ ~proc.aborted /\ n > 0
    /\ Ends(IF session.messages[n].role = "user" THEN SubSeq(session.messages, 1, n - 1)
            ELSE session.messages, TRUE)

Aborted == proc.aborted /\ Ends(Kept(session.running), FALSE)

(* interruptTurn aborts the turn it names and no other, and returns.        *)
Stop(t) ==
  /\ MayStop(host, t) /\ calls.stop[t] = "none"
  /\ host' = StopReturned(Stopped(host, t))
  /\ calls' = [calls EXCEPT !.stop[t] = "done"]
  /\ proc' = IF session.registered /\ session.running = t
             THEN [proc EXCEPT !.aborted = TRUE] ELSE proc
  /\ UNCHANGED session

StopSession ==
  /\ host.live
  /\ host' = HearExited(host)
  /\ session' = [session EXCEPT !.registered = FALSE]
  /\ proc' = [proc EXCEPT !.aborted = @ \/ session.running # NoTurn]
  /\ UNCHANGED calls

Request == Answered \/ Failed \/ Aborted
Next == (\E t \in Turns : Send(t) \/ Stop(t)) \/ Delta \/ Request \/ StopSession

Spec == Init /\ [][Next]_vars
Fairness == WF_vars(Request)
FairSpec == Spec /\ Fairness

----------------------------------------------------------------------------
TypeOK ==
  /\ host \in Hosts
  /\ session.registered \in BOOLEAN /\ session.running \in MaybeTurn
  /\ session.messages \in Seq([role : {"user", "assistant"}, turn : Turns])
  /\ proc \in [aborted : BOOLEAN, text : BOOLEAN]

(* What the endpoint is shown next time makes sense: an answer stands       *)
(* behind the question it answers, a question stands there once, and the    *)
(* question being answered stands last.                                     *)
ConversationMakesSense ==
  LET M == session.messages IN
    /\ \A i \in DOMAIN M : M[i].role = "assistant" => i > 1 /\ M[i - 1] = Said("user", M[i].turn)
    /\ \A i, j \in DOMAIN M : M[i] = M[j] => i = j
    /\ session.running # NoTurn => M # <<>> /\ M[Len(M)] = Said("user", session.running)

(* The turn a session runs was taken and not reported, and every turn it    *)
(* remembers was taken.                                                     *)
RunningIsGiven ==
  /\ session.running # NoTurn => host.life[session.running] = "given"
  /\ \A i \in DOMAIN session.messages : host.life[session.messages[i].turn] # "fresh"

(* Each turn is reported over at most once, and only if it was taken.       *)
Promise == INSTANCE AdapterPromise WITH life <- host.life
KeepsPromise == Promise!Spec

GivenTurnEnds == \A t \in Turns : host.life[t] = "given" ~> host.life[t] = "over"
=============================================================================
