------------------------------ MODULE SessionPool ------------------------------
(***************************************************************************)
(* The provider sessions of several threads of one project: who starts     *)
(* them, who stops them, and what the log keeps of them.  Turns.tla        *)
(* follows the turns of one thread; here a turn is the flag busy, and the  *)
(* subject is what happens between threads and across awaits.              *)
(*                                                                         *)
(* The adapters are external.  Like codex they know a session by its       *)
(* thread: startSession overwrites the entry, stopSession(handle) stops    *)
(* whatever the entry holds, and the end of a process is reported for the  *)
(* thread.  The native id a session resumes with is left out.              *)
(***************************************************************************)
EXTENDS Naturals, FiniteSets

CONSTANTS
  Threads,
  Providers,
  NoProvider,   \* null
  Sessions,     \* the sessions that may ever be started
  NoSession,
  MaxWarm,      \* MAX_WARM_SESSIONS
  MaxCommands   \* bound: commands of the user

VARIABLES threads, pool, sess, registry, calls

vars == <<threads, pool, sess, registry, calls>>

Unborn == [state |-> "unborn", thread |-> CHOOSE t \in Threads : TRUE,
           provider |-> NoProvider, busy |-> FALSE, old |-> FALSE]

(* A loop that awaits: what it listed before its first await.               *)
Resting == [on |-> FALSE, left |-> {}, over |-> 0]

Init ==
  /\ threads = [t \in Threads |-> [provider |-> CHOOSE p \in Providers : TRUE,
                                   history |-> FALSE, gone |-> FALSE]]
  /\ pool = [t \in Threads |-> NoSession]
  /\ sess = [s \in Sessions |-> Unborn]
  /\ registry = [t \in Threads |-> [p \in Providers |-> NoSession]]
  /\ calls = [start |-> [t \in Threads |-> [who \in {"send", "warm"} |-> NoSession]],
              evict |-> [t \in Threads |-> Resting], sweep |-> Resting,
              remove |-> Resting, stops |-> {}, commands |-> 0]

----------------------------------------------------------------------------
Pooled  == {pool[t] : t \in Threads} \ {NoSession}
Fresh   == {s \in Sessions : sess[s].state = "unborn"}
Commanded == [calls EXCEPT !.commands = @ + 1]

Mapped(t) == pool[t] # NoSession
Busy(t) == Mapped(t) /\ sess[pool[t]].busy

(* adapter.stopSession of s, by an operation at a thread (and with the      *)
(* provider it switches to): what dies is what the adapter knows under the  *)
(* thread of s.                                                             *)
StopCall(op, at, to, s) ==
  [op |-> op, at |-> at, to |-> to, thread |-> sess[s].thread,
   victim |-> registry[sess[s].thread][sess[s].provider]]

Stopping(op, at, to, s, c) ==
  LET call == StopCall(op, at, to, s) IN
    /\ sess' = [v \in Sessions |->
                  IF v = call.victim THEN [sess[v] EXCEPT !.state = "stopping"] ELSE sess[v]]
    /\ registry' = [registry EXCEPT ![sess[s].thread][sess[s].provider] = NoSession]
    /\ calls' = [c EXCEPT !.stops = @ \cup {call}]

Waits(op) == \E c \in calls.stops : c.op = op
WaitsAt(op, t) == \E c \in calls.stops : c.op = op /\ c.at = t

(* session.exited: whatever is mapped for the thread goes.                  *)
Unmapped(t) == [pool EXCEPT ![t] = NoSession]

----------------------------------------------------------------------------
(* ensureSession *)

(* Up to startSession, c being the calls otherwise under way: the thread is *)
(* read here and not again.                                                 *)
StartCall(who, t, c) ==
  /\ ~threads[t].gone /\ calls.start[t][who] = NoSession
  /\ \E s \in Fresh :
       /\ sess' = [sess EXCEPT ![s].state = "starting", ![s].thread = t,
                               ![s].provider = threads[t].provider]
       /\ registry' = [registry EXCEPT ![t][threads[t].provider] = s]
       /\ calls' = [c EXCEPT !.start[t][who] = s]

(* The new session replaces whatever is mapped.  A send begins its turn on  *)
(* it.                                                                      *)
StartDone(who, t) ==
  LET s == calls.start[t][who] IN
    /\ s # NoSession /\ sess[s].state = "starting"
    /\ pool' = [pool EXCEPT ![t] = s]
    /\ sess' = [sess EXCEPT ![s].state = "live", ![s].busy = who = "send"]
    /\ threads' = [threads EXCEPT ![t].history = @ \/ who = "send"]
    /\ calls' = [calls EXCEPT !.start[t][who] = NoSession]
    /\ UNCHANGED registry

(* A start that fails stops what the adapter knows by then, which may be    *)
(* another session of the thread, and the end of that one is reported.      *)
StartFails(who, t) ==
  LET s == calls.start[t][who]
      v == registry[t][sess[s].provider]
  IN  /\ s # NoSession
      /\ sess' = [u \in Sessions |->
                    IF u \in {s, v} THEN [sess[u] EXCEPT !.state = "dead", !.busy = FALSE]
                    ELSE sess[u]]
      /\ registry' = [registry EXCEPT ![t][sess[s].provider] = NoSession]
      /\ pool' = IF v = NoSession THEN pool ELSE Unmapped(t)
      /\ calls' = [calls EXCEPT !.start[t][who] = NoSession]
      /\ UNCHANGED threads

----------------------------------------------------------------------------
(* sendTurn, and the end of a turn.  A message to a busy session is queued  *)
(* (Turns.tla).                                                             *)

Send(t) ==
  /\ UNCHANGED pool
  /\ \/ /\ Mapped(t) /\ ~Busy(t)
        /\ sess' = [sess EXCEPT ![pool[t]].busy = TRUE, ![pool[t]].old = FALSE]
        /\ threads' = [threads EXCEPT ![t].history = TRUE]
        /\ calls' = Commanded
        /\ UNCHANGED registry
     \/ ~Mapped(t) /\ StartCall("send", t, Commanded) /\ UNCHANGED threads

TurnEnds(s) ==
  /\ sess[s].busy
  /\ sess' = [sess EXCEPT ![s].busy = FALSE]
  /\ UNCHANGED <<threads, pool, registry, calls>>

----------------------------------------------------------------------------
(* prewarm, evictWarmSessionsBeyondCap *)

Used(t) == sess' = [sess EXCEPT ![pool[t]].old = FALSE]

(* The idle sessions are listed before the first await, and how many have   *)
(* to go.                                                                   *)
Open(t) ==
  /\ ~threads[t].gone /\ ~calls.evict[t].on
  /\ IF Mapped(t)
     THEN Used(t) /\ calls' = Commanded
     ELSE /\ calls' = [Commanded EXCEPT !.evict[t] =
                         [on   |-> TRUE,
                          left |-> {s \in Pooled : ~sess[s].busy},
                          over |-> Cardinality(Pooled) - (MaxWarm - 1)]]
          /\ UNCHANGED sess
  /\ UNCHANGED <<threads, pool, registry>>

(* The least recently used goes first: which one that is, is left open.     *)
Evict(t) ==
  LET e == calls.evict[t] IN
    /\ e.on /\ ~WaitsAt("evict", t) /\ e.over > 0
    /\ \E s \in e.left :
         /\ Stopping("evict", t, NoProvider, s,
                     [calls EXCEPT !.evict[t].left = @ \ {s}, !.evict[t].over = @ - 1])
         /\ pool' = [pool EXCEPT ![sess[s].thread] = NoSession]
    /\ UNCHANGED threads

Prewarm(t) ==
  LET e == calls.evict[t]
      rest == [calls EXCEPT !.evict[t] = Resting]
  IN  /\ e.on /\ ~WaitsAt("evict", t) /\ (e.over <= 0 \/ e.left = {})
      /\ \/ Mapped(t) /\ Used(t) /\ calls' = rest /\ UNCHANGED registry
         \/ ~Mapped(t) /\ StartCall("warm", t, rest)
         \/ ~Mapped(t) /\ calls' = rest /\ UNCHANGED <<sess, registry>>
      /\ UNCHANGED <<threads, pool>>

----------------------------------------------------------------------------
(* reapIdleSessions: walks a copy of the map, and looks at each session     *)
(* again when it gets there.                                                *)
Age(s) ==
  /\ s \in Pooled /\ ~sess[s].old
  /\ sess' = [sess EXCEPT ![s].old = TRUE]
  /\ UNCHANGED <<threads, pool, registry, calls>>

Sweep ==
  /\ ~calls.sweep.on
  /\ calls' = [calls EXCEPT !.sweep.on = TRUE, !.sweep.left = Pooled]
  /\ UNCHANGED <<threads, pool, sess, registry>>

(* Mutant: sessions of deleted threads are passed over.                     *)
ReapableKnown(s) == ~sess[s].busy /\ sess[s].old /\ ~threads[sess[s].thread].gone
Reapable(s) == ~sess[s].busy /\ sess[s].old

SweepNext ==
  /\ calls.sweep.on /\ ~Waits("sweep")
  /\ \/ /\ calls.sweep.left = {}
        /\ calls' = [calls EXCEPT !.sweep.on = FALSE]
        /\ UNCHANGED <<pool, sess, registry>>
     \/ \E s \in calls.sweep.left :
          LET c == [calls EXCEPT !.sweep.left = @ \ {s}] IN
            \/ ~Reapable(s) /\ calls' = c /\ UNCHANGED <<pool, sess, registry>>
            \/ /\ Reapable(s)
               /\ Stopping("sweep", sess[s].thread, NoProvider, s, c)
               /\ pool' = [pool EXCEPT ![sess[s].thread] = NoSession]
  /\ UNCHANGED threads

----------------------------------------------------------------------------
(* deleteThread, setProvider, removeProject: refused while a turn runs;     *)
(* the session stays mapped until the adapter has stopped it.               *)

Deleted(t) == [threads EXCEPT ![t].gone = TRUE]
Switched(t, p) == [threads EXCEPT ![t].provider = p]
Removed == [t \in Threads |-> [threads[t] EXCEPT !.gone = TRUE]]

DeleteThread(t) ==
  /\ ~threads[t].gone /\ ~Busy(t) /\ UNCHANGED pool
  /\ \/ Mapped(t) /\ Stopping("delete", t, NoProvider, pool[t], Commanded) /\ UNCHANGED threads
     \/ ~Mapped(t) /\ threads' = Deleted(t) /\ calls' = Commanded /\ UNCHANGED <<sess, registry>>

SetProvider(t) ==
  /\ ~threads[t].gone /\ ~Busy(t) /\ ~threads[t].history /\ UNCHANGED pool
  /\ \E p \in Providers \ {threads[t].provider} :
       \/ Mapped(t) /\ Stopping("switch", t, p, pool[t], Commanded) /\ UNCHANGED threads
       \/ ~Mapped(t) /\ threads' = Switched(t, p) /\ calls' = Commanded /\ UNCHANGED <<sess, registry>>

RemoveProject ==
  /\ ~calls.remove.on /\ \A t \in Threads : ~Busy(t)
  /\ calls' = [Commanded EXCEPT !.remove.on = TRUE, !.remove.left = {t \in Threads : ~threads[t].gone}]
  /\ calls'.remove.left # {}
  /\ UNCHANGED <<threads, pool, sess, registry>>

RemoveNext ==
  LET left == calls.remove.left IN
    /\ calls.remove.on /\ ~Waits("remove") /\ UNCHANGED pool
    /\ \/ \E t \in left :
            /\ Mapped(t)
            /\ Stopping("remove", t, NoProvider, pool[t], [calls EXCEPT !.remove.left = @ \ {t}])
            /\ UNCHANGED threads
       \/ /\ \A t \in left : ~Mapped(t)
          /\ threads' = Removed
          /\ calls' = [calls EXCEPT !.remove = Resting]
          /\ UNCHANGED <<sess, registry>>

(* setPermissionMode, when the mode is baked into the process: the entry    *)
(* goes at once and the process is closed in the background.                *)
SetPermissionMode(t) ==
  /\ Mapped(t) /\ ~threads[t].gone
  /\ Stopping("mode", t, NoProvider, pool[t], Commanded)
  /\ pool' = [pool EXCEPT ![t] = NoSession]
  /\ UNCHANGED threads

----------------------------------------------------------------------------
(* A stopSession resolves, and its caller goes on: deleteThread, setProvider *)
(* and removeProject take the entry out now.                                *)
Stopped ==
  \E c \in calls.stops :
    /\ pool' = IF c.victim # NoSession \/ c.op \in {"delete", "switch", "remove"}
               THEN Unmapped(c.thread) ELSE pool
    /\ sess' = [v \in Sessions |-> IF v = c.victim THEN [sess[v] EXCEPT !.state = "dead"] ELSE sess[v]]
    /\ threads' = CASE c.op = "delete" -> Deleted(c.at)
                    [] c.op = "switch" -> Switched(c.at, c.to)
                    [] OTHER -> threads
    /\ calls' = [calls EXCEPT !.stops = @ \ {c}]
    /\ UNCHANGED registry

(* A process exits by itself.                                               *)
Exit(s) ==
  LET t == sess[s].thread
      known == registry[t][sess[s].provider] # NoSession
  IN  /\ sess[s].state = "live"
      /\ sess' = [sess EXCEPT ![s].state = "dead", ![s].busy = FALSE]
      /\ pool' = IF known THEN Unmapped(t) ELSE pool
      /\ registry' = [registry EXCEPT ![t][sess[s].provider] = NoSession]
      /\ UNCHANGED <<threads, calls>>

----------------------------------------------------------------------------
Start == \E t \in Threads, who \in {"send", "warm"} : StartDone(who, t) \/ StartFails(who, t)

Warming == \E t \in Threads : Evict(t) \/ Prewarm(t)

User ==
  /\ calls.commands < MaxCommands
  /\ \/ RemoveProject
     \/ \E t \in Threads : \/ Send(t) \/ Open(t) \/ DeleteThread(t) \/ SetProvider(t)
                           \/ SetPermissionMode(t)

Next ==
  \/ User \/ Start \/ Stopped \/ Warming \/ Sweep \/ SweepNext \/ RemoveNext
  \/ \E s \in Sessions : TurnEnds(s) \/ Age(s) \/ Exit(s)

Spec == Init /\ [][Next]_vars

(* Promises settle, turns end, time passes and the sweep comes round.       *)
Fairness ==
  /\ WF_vars(Start) /\ WF_vars(Stopped) /\ WF_vars(Sweep) /\ WF_vars(SweepNext)
  /\ WF_vars(RemoveNext) /\ WF_vars(Warming)
  /\ \A s \in Sessions : WF_vars(TurnEnds(s)) /\ WF_vars(Age(s))
FairSpec == Spec /\ Fairness

----------------------------------------------------------------------------
TypeOK ==
  /\ pool \in [Threads -> Sessions \cup {NoSession}]
  /\ \A t \in Threads : threads[t].provider \in Providers
  /\ \A s \in Sessions : sess[s].state \in {"unborn", "starting", "live", "stopping", "dead"}

(* A deleted thread lets go of its session, also of one that was still      *)
(* being started.                                                           *)
Gone(t)     == threads[t].gone
Released(t) == pool[t] = NoSession
GoneIsReleased == \A t \in Threads : Gone(t) ~> []Released(t)
=============================================================================
