----------------------------- MODULE TurnPromise -----------------------------
(***************************************************************************)
(* What the orchestrator promises a client about one turn id, whatever     *)
(* happens to sessions, providers, queues and Stop buttons behind it: the  *)
(* id moves forward through its life and never back.                       *)
(*                                                                         *)
(*    absent --> queued --> running --> ended                              *)
(*       |          |          ^                                           *)
(*       |          +--> dropped (dequeued, or abandoned by a Stop)        *)
(*       +---------------------+                                           *)
(*                                                                         *)
(* In particular a dropped message never runs, and a turn that has been    *)
(* reported over (completed, failed or interrupted) never starts again.    *)
(***************************************************************************)
CONSTANT Turns
VARIABLE status

Life == {"absent", "queued", "running", "ended", "dropped"}

TypeOK == status \in [Turns -> Life]

Init == status = [t \in Turns |-> "absent"]

(* The steps of one turn's life. *)
Forward == { <<"absent", "queued">>,  <<"absent", "running">>,
             <<"queued", "running">>, <<"queued", "dropped">>,
             <<"running", "ended">> }

(* One handler may move several turns at once: the completion of one turn   *)
(* starts the next queued one, a Stop ends one turn and drops those behind. *)
Next ==
  /\ DOMAIN status' = Turns
  /\ \A t \in Turns :
       status'[t] # status[t] => <<status[t], status'[t]>> \in Forward

Spec == Init /\ [][Next]_status
=============================================================================
