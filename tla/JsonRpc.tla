------------------------------- MODULE JsonRpc -------------------------------
(***************************************************************************)
(* The JSON-RPC client over the pipes of a child process, which the codex  *)
(* and acp adapters wait on: every request is settled by its answer, by a  *)
(* write that fails, by close(), or by the exit of the process.            *)
(*                                                                         *)
(* The server is external: it answers requests in any order, or not at     *)
(* all before it exits.                                                    *)
(***************************************************************************)
EXTENDS Naturals, FiniteSets, Sequences

CONSTANT MaxCalls    \* bound: requests made of one client

VARIABLES session, calls, proc

vars == <<session, calls, proc>>

Ids == 1..MaxCalls
Outcomes == {"resolved", "rejected"}

Init ==
  /\ session = [nextId |-> 1, pending |-> {}, closed |-> FALSE, closing |-> FALSE]
  /\ calls = [i \in Ids |-> "none"]
  /\ proc = [alive |-> TRUE, asked |-> {}, out |-> <<>>, watched |-> FALSE]

(* request: refused once closed; a write to a process that died may fail.   *)
Request ==
  /\ session.nextId \in Ids
  /\ LET i == session.nextId IN
       \/ /\ session.closed
          /\ calls' = [calls EXCEPT ![i] = "rejected"]
          /\ session' = [session EXCEPT !.nextId = @ + 1]
          /\ UNCHANGED proc
       \/ /\ ~session.closed
          /\ calls' = [calls EXCEPT ![i] = "waiting"]
          /\ session' = [session EXCEPT !.nextId = @ + 1, !.pending = @ \cup {i}]
          /\ proc' = IF proc.alive THEN [proc EXCEPT !.asked = @ \cup {i}] ELSE proc
       \/ /\ ~session.closed /\ ~proc.alive
          /\ calls' = [calls EXCEPT ![i] = "rejected"]
          /\ session' = [session EXCEPT !.nextId = @ + 1]
          /\ UNCHANGED proc

(* dispatchLine: an answer settles the request it names, if it still waits. *)
Dispatch ==
  /\ proc.out # <<>>
  /\ LET i == Head(proc.out) IN
       IF i \in session.pending
       THEN /\ \E o \in Outcomes : calls' = [calls EXCEPT ![i] = o]
            /\ session' = [session EXCEPT !.pending = @ \ {i}]
       ELSE UNCHANGED <<session, calls>>
  /\ proc' = [proc EXCEPT !.out = Tail(@)]

RejectAll(c, pending) == [i \in Ids |-> IF i \in pending THEN "rejected" ELSE c[i]]

(* close: no request from here on; the process is ended, then what waits is *)
(* rejected.                                                                *)
Close ==
  /\ ~session.closed
  /\ session' = [session EXCEPT !.closed = TRUE, !.closing = TRUE]
  /\ UNCHANGED <<calls, proc>>
Terminated ==
  /\ session.closing /\ ~proc.alive
  /\ calls' = RejectAll(calls, session.pending)
  /\ session' = [session EXCEPT !.closing = FALSE, !.pending = {}]
  /\ UNCHANGED proc

(* Mutant: only a client that was not closed looks after what waits.        *)
WatchExitUnlessClosed ==
  /\ ~proc.alive /\ ~proc.watched
  /\ proc' = [proc EXCEPT !.watched = TRUE]
  /\ session' = [session EXCEPT !.closed = TRUE]
  /\ UNCHANGED calls

(* watchExit, whether the client was closed or not.                         *)
WatchExit ==
  /\ ~proc.alive /\ ~proc.watched
  /\ proc' = [proc EXCEPT !.watched = TRUE]
  /\ calls' = RejectAll(calls, session.pending)
  /\ session' = [session EXCEPT !.closed = TRUE, !.pending = {}]

Answer ==
  /\ proc.alive
  /\ \E i \in proc.asked :
       proc' = [proc EXCEPT !.asked = @ \ {i}, !.out = Append(@, i)]
  /\ UNCHANGED <<session, calls>>

(* It exits by itself, or because close() ended it.                         *)
Exit ==
  /\ proc.alive
  /\ proc' = [proc EXCEPT !.alive = FALSE, !.asked = {}]
  /\ UNCHANGED <<session, calls>>

Next == Request \/ Dispatch \/ Close \/ Terminated \/ WatchExit \/ Answer \/ Exit

Spec == Init /\ [][Next]_vars

(* A server that is asked answers; terminateSubprocess ends one that does   *)
(* not; output is read and the exit is seen.                                *)
Fairness ==
  /\ WF_vars(Dispatch) /\ WF_vars(WatchExit) /\ WF_vars(Terminated)
  /\ WF_vars(Answer) /\ WF_vars(session.closing /\ Exit)
FairSpec == Spec /\ Fairness

----------------------------------------------------------------------------
TypeOK ==
  /\ session.nextId \in 1..(MaxCalls + 1) /\ session.pending \subseteq Ids
  /\ session.closed \in BOOLEAN /\ session.closing \in BOOLEAN
  /\ calls \in [Ids -> {"none", "waiting"} \cup Outcomes]

(* Nobody waits for an answer the client has forgotten, and nobody waits    *)
(* once the exit of the process was seen.                                   *)
WaitingIsPending ==
  /\ {i \in Ids : calls[i] = "waiting"} = session.pending
  /\ proc.watched => session.pending = {}

(* Every request is settled.                                                *)
RequestSettles == \A i \in Ids : calls[i] = "waiting" ~> calls[i] \in Outcomes
=============================================================================
