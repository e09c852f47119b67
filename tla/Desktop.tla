-------------------------------- MODULE Desktop --------------------------------
(***************************************************************************)
(* The desktop shell and the daemon on one machine: several launches of    *)
(* the shell, each of which attaches to the daemon that has the port or    *)
(* starts one of its own, and daemons that come up, lose the port, are     *)
(* killed with their window or follow their shell when it is gone.         *)
(*                                                                         *)
(* There is one port.  A daemon answers /health while its store is open;   *)
(* during a shutdown the port stays taken for a while after that.  Daemons *)
(* of Old are of an earlier generation, started by hand.                   *)
(***************************************************************************)
EXTENDS Naturals, FiniteSets

CONSTANTS Apps, Daemons,
          Old,     \* the daemons started by hand that no shell may attach to
          NoApp, NoDaemon

VARIABLES app,     \* of each shell: where bootstrap_daemon is, and its child
          daemon   \* of each daemon: its state and its parent

vars == <<app, daemon>>

Init ==
  /\ app = [a \in Apps |-> [at |-> "new", child |-> NoDaemon]]
  /\ daemon = [d \in Daemons |-> [state |-> "none", parent |-> NoApp]]

----------------------------------------------------------------------------
HasPort  == {"listening", "stopping", "closing"}
Serving(d)  == daemon[d].state \in {"listening", "stopping"}
PortOpen == \E d \in Daemons : daemon[d].state \in HasPort
Healthy  == \E d \in Daemons : Serving(d)
Compatible == \E d \in Daemons \ Old : Serving(d)

Goes(a, at) == app' = [app EXCEPT ![a].at = at]
Dead(d) == daemon' = [daemon EXCEPT ![d].state = "dead"]
Spawned(d, a) == daemon' = [daemon EXCEPT ![d] = [state |-> "booting", parent |-> a]]

----------------------------------------------------------------------------
(* wait_to_attach_or_free *)
Launch(a) ==
  /\ app[a].at = "new"
  /\ Goes(a, "probe")
  /\ UNCHANGED daemon

Probe(a) ==
  /\ app[a].at = "probe"
  /\ \/ /\ ~PortOpen
        /\ \/ \E d \in Daemons \ Old :
                /\ daemon[d].state = "none" /\ Spawned(d, a)
                /\ app' = [app EXCEPT ![a] = [at |-> "spawned", child |-> d]]
           \/ Goes(a, "failed") /\ UNCHANGED daemon
     \/ Compatible /\ Goes(a, "attached") /\ UNCHANGED daemon
     \/ Healthy /\ ~Compatible /\ Goes(a, "failed") /\ UNCHANGED daemon

(* The port stayed taken by something that does not answer.                 *)
ProbeTimesOut(a) ==
  /\ app[a].at = "probe" /\ PortOpen /\ ~Healthy
  /\ Goes(a, "failed")
  /\ UNCHANGED daemon

(* The loop of bootstrap_daemon: whose port it is that is open is not       *)
(* looked at.  What is not adopted is not kept as the child.                *)
Poll(a) ==
  LET d == app[a].child IN
    /\ app[a].at = "spawned"
    /\ \/ /\ daemon[d].state = "dead"
          /\ app' = [app EXCEPT ![a] = [at |-> IF Compatible THEN "attached" ELSE "failed",
                                        child |-> NoDaemon]]
       \/ daemon[d].state # "dead" /\ PortOpen /\ Goes(a, "adopted")
    /\ UNCHANGED daemon

SpawnTimesOut(a) ==
  /\ app[a].at = "spawned" /\ ~PortOpen /\ daemon[app[a].child].state # "dead"
  /\ Dead(app[a].child)
  /\ app' = [app EXCEPT ![a] = [at |-> "failed", child |-> NoDaemon]]

(* WindowEvent::Destroyed *)
CloseWindow(a) ==
  /\ app[a].at \in {"attached", "adopted", "failed"}
  /\ Goes(a, "gone")
  /\ IF app[a].at = "adopted" THEN Dead(app[a].child) ELSE UNCHANGED daemon

(* The shell is killed, at any point, and closes nothing.                   *)
Killed(a) ==
  /\ app[a].at \notin {"new", "gone"}
  /\ Goes(a, "gone")
  /\ UNCHANGED daemon

----------------------------------------------------------------------------
StartedByHand(d) ==
  /\ d \in Old /\ daemon[d].state = "none"
  /\ Spawned(d, NoApp)
  /\ UNCHANGED app

(* The top level of index.ts, up to Bun.serve; with the port taken the      *)
(* process exits.                                                           *)
Bind(d) ==
  /\ daemon[d].state = "booting"
  /\ daemon' = [daemon EXCEPT ![d].state = IF PortOpen THEN "dead" ELSE "listening"]
  /\ UNCHANGED app

(* Mutant: a shell that got no further than spawning is not watched.        *)
ParentClosed(d) ==
  LET p == daemon[d].parent IN p # NoApp /\ app[p].at = "gone" /\ app[p].child # d

(* watchDesktopParent, and signals.                                         *)
ParentGone(d) ==
  LET p == daemon[d].parent IN p # NoApp /\ app[p].at = "gone"

WatchParent(d) ==
  /\ daemon[d].state = "listening" /\ ParentGone(d)
  /\ daemon' = [daemon EXCEPT ![d].state = "stopping"]
  /\ UNCHANGED app

Signal(d) ==
  /\ daemon[d].state = "listening" /\ d \in Old
  /\ daemon' = [daemon EXCEPT ![d].state = "stopping"]
  /\ UNCHANGED app

(* shutdown: sessions and store first, then the port.                       *)
StoreClosed(d) ==
  /\ daemon[d].state = "stopping"
  /\ daemon' = [daemon EXCEPT ![d].state = "closing"]
  /\ UNCHANGED app

ServerStopped(d) ==
  /\ daemon[d].state = "closing"
  /\ Dead(d)
  /\ UNCHANGED app

----------------------------------------------------------------------------
Bootstrap(a) == Probe(a) \/ ProbeTimesOut(a) \/ Poll(a) \/ SpawnTimesOut(a)
Runs(d) == WatchParent(d) \/ StoreClosed(d) \/ ServerStopped(d)

Next ==
  \/ \E a \in Apps : Launch(a) \/ Bootstrap(a) \/ CloseWindow(a) \/ Killed(a)
  \/ \E d \in Daemons : StartedByHand(d) \/ Bind(d) \/ Runs(d) \/ Signal(d)

Spec == Init /\ [][Next]_vars

(* The loops poll, and a daemon gets on with its watch and its shutdown; it *)
(* may hang before it listens.  Nobody has to close a window.               *)
Fairness == /\ \A a \in Apps : WF_vars(Bootstrap(a))
            /\ \A d \in Daemons : WF_vars(Runs(d))
FairSpec == Spec /\ Fairness

----------------------------------------------------------------------------
TypeOK ==
  /\ app \in [Apps -> [at : {"new", "probe", "spawned", "attached", "adopted", "failed", "gone"},
                       child : Daemons \cup {NoDaemon}]]
  /\ daemon \in [Daemons -> [state : HasPort \cup {"none", "booting", "dead"},
                             parent : Apps \cup {NoApp}]]

Stray(d) ==
  /\ daemon[d].state \in HasPort
  /\ daemon[d].parent # NoApp /\ app[daemon[d].parent].at = "gone"
Ended(d) == daemon[d].state = "dead"

(* "Poll the parent; if it is gone, shut down" (index.ts): a daemon a shell *)
(* has started does not keep the port when the shell is gone, however far   *)
(* the launch had got and whether or not the window was closed in order.    *)
OrphanStops == \A d \in Daemons : Stray(d) ~> Ended(d)

(* Every launch comes to an end: a daemon, or an error to show.             *)
Probing(a) == app[a].at = "probe"
Settled(a) == app[a].at \in {"attached", "adopted", "failed", "gone"}
LaunchSettles == \A a \in Apps : Probing(a) ~> Settled(a)
=============================================================================
