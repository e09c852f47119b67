---------------------------- MODULE AdapterPromise ----------------------------
(***************************************************************************)
(* What the adapter contract promises the orchestrator about one turn it   *)
(* is asked to run on one session: it is refused or taken, and a turn that *)
(* was taken is reported over at most once.                                *)
(***************************************************************************)
CONSTANT Turns
VARIABLE life

Life == {"fresh", "given", "refused", "over"}

Init == life = [t \in Turns |-> "fresh"]

Forward == { <<"fresh", "given">>, <<"fresh", "refused">>, <<"given", "over">> }

Next ==
  /\ DOMAIN life' = Turns
  /\ \A t \in Turns :
       life'[t] # life[t] => <<life[t], life'[t]>> \in Forward

Spec == Init /\ [][Next]_life
=============================================================================
