------------------------------ MODULE Providers ------------------------------
(***************************************************************************)
(* Endpoints the user adds: the file that holds them, the registry of      *)
(* adapters made from it, the sessions on those adapters, and the lists a  *)
(* window shows of them.                                                   *)
(*                                                                         *)
(* An endpoint is an id with a version that grows with every edit of its   *)
(* label, URL, model or key.  Every edit of any endpoint makes all         *)
(* adapters anew (syncCustomAdapters), so an adapter is known by the       *)
(* number of the edit that made it; its sessions stay behind with it.      *)
(* Thread t always uses endpoint Home[t].  A turn is its number.           *)
(*                                                                         *)
(* One window edits; another one would not be told of the edits.  The      *)
(* adapters that are built in or loaded from modules are not touched by    *)
(* this and are left out, but their detection may take long, which is why  *)
(* an answer to provider.detect may come late.                             *)
(***************************************************************************)
EXTENDS Integers, FiniteSets

CONSTANTS
  Ids,        \* endpoints
  Threads,    \* threads, each on the endpoint Home[t]
  Home,       \* a function from Threads to Ids
  MaxEdits,   \* bound on edits and removals
  MaxTurns,   \* bound on turns
  MaxDetects  \* bound on provider.detect requests

VARIABLES
  file,    \* [id -> version, 0 when it is not there]: custom-providers.json
  reg,     \* [id -> [inst, ver]]: the registered adapter, inst 0 when none is
  sess,    \* [thread -> [phase, turn, inst]]: the orchestrator's session
  known,   \* [thread -> adapters that have a session of the thread]
  run,     \* streams that run: [thread, on, turn, saved], saved is the version
           \* the file had when the turn was handed over
  count,   \* edits, turns and detects so far
  window   \* the lists, the command awaited, detects under way

vars == <<file, reg, sess, known, run, count, window>>

NoAdapter == [inst |-> 0, ver |-> 0]
NoSession == [phase |-> "none", turn |-> 0]
Versions  == [i \in Ids |-> reg[i].ver]

Init ==
  /\ file = [i \in Ids |-> 0]
  /\ reg = [i \in Ids |-> NoAdapter]
  /\ sess = [t \in Threads |-> NoSession]
  /\ known = [t \in Threads |-> {}]
  /\ run = {}
  /\ count = [edits |-> 0, turns |-> 0, detects |-> 0]
  /\ window = [list |-> [i \in Ids |-> 0], customs |-> [i \in Ids |-> 0], awaits |-> "none",
               detects |-> {}, latest |-> 0, overtaken |-> FALSE]

----------------------------------------------------------------------------
(* The daemon *)

(* syncCustomAdapters: unregister every custom adapter, register the file's.*)
Synced(f, n) == [i \in Ids |-> IF f[i] = 0 THEN NoAdapter ELSE [inst |-> n, ver |-> f[i]]]

Rewrites(f) ==
  /\ file' = f
  /\ reg' = Synced(f, count.edits + 1)
  /\ count' = [count EXCEPT !.edits = @ + 1]

(* upsertCustomProvider, of input it takes: a refusal changes nothing, and  *)
(* the window asks for nothing after it.                                    *)
Upserts(i) == Rewrites([file EXCEPT ![i] = count.edits + 1])

Deletes(i) ==
  IF file[i] = 0 THEN UNCHANGED <<file, reg, count>> ELSE Rewrites([file EXCEPT ![i] = 0])

(* sendTurn: a session is started when there is none, and its adapter must  *)
(* be registered.  The turn is claimed, and a checkpoint is awaited.        *)
Send(t) ==
  /\ sess[t].turn = 0 /\ count.turns < MaxTurns
  /\ LET a == reg[Home[t]] IN
       \/ /\ sess[t].phase = "none" /\ a.inst # 0
          /\ known' = [known EXCEPT ![t] = @ \cup {a}]
       \/ sess[t].phase # "none" /\ UNCHANGED known
  /\ sess' = [sess EXCEPT ![t] = [phase |-> "checkpoint", turn |-> count.turns + 1]]
  /\ count' = [count EXCEPT !.turns = @ + 1]
  /\ UNCHANGED <<file, reg, run, window>>

(* Mutant: the adapter the session was started on is used.                  *)
StartedOn(t, a) == a \in known[t]

(* The adapter is looked up by its kind when the checkpoint is done.  One   *)
(* made since the session was started does not know the thread, and refuses *)
(* the turn; the session stays.                                             *)
AdapterFor(t, a) == a = reg[Home[t]]

Streams(t, a) == \E r \in run : r.thread = t /\ r.on = a

Dispatch(t) ==
  /\ sess[t].phase = "checkpoint"
  /\ \E a \in [inst : 0..MaxEdits, ver : 0..MaxEdits] :
       /\ AdapterFor(t, a)
       /\ IF a \in known[t] /\ ~Streams(t, a)
          THEN /\ run' = run \cup {[thread |-> t, on |-> a, turn |-> sess[t].turn, saved |-> file[Home[t]]]}
               /\ sess' = [sess EXCEPT ![t].phase = "running"]
          ELSE /\ sess' = [sess EXCEPT ![t] = [phase |-> "idle", turn |-> 0]]
               /\ UNCHANGED run
  /\ UNCHANGED <<file, reg, known, count, window>>

(* A stream ends, or fails: its turn is over.                               *)
StreamEnds(r) ==
  /\ run' = run \ {r}
  /\ sess' = [sess EXCEPT ![r.thread] =
                IF @.phase = "running" /\ @.turn = r.turn THEN [phase |-> "idle", turn |-> 0] ELSE @]
  /\ UNCHANGED <<file, reg, known, count, window>>

(* interrupt: the registered adapter aborts the stream if it runs it; the   *)
(* turn is over for the orchestrator either way.                            *)
Stop(t) ==
  /\ sess[t].phase = "running"
  /\ sess' = [sess EXCEPT ![t] = [phase |-> "idle", turn |-> 0]]
  /\ run' = {r \in run : ~(r.thread = t /\ r.on = reg[Home[t]] /\ r.turn = sess[t].turn)}
  /\ UNCHANGED <<file, reg, known, count, window>>

(* reapIdleSessions: the session is forgotten, and ended on the registered  *)
(* adapter if that one knows it.                                            *)
Reap(t) ==
  /\ sess[t].phase = "idle"
  /\ sess' = [sess EXCEPT ![t] = NoSession]
  /\ known' = [known EXCEPT ![t] = @ \ {reg[Home[t]]}]
  /\ run' = {r \in run : ~(r.thread = t /\ r.on = reg[Home[t]])}
  /\ UNCHANGED <<file, reg, count, window>>

----------------------------------------------------------------------------
(* The window *)

(* refreshProviders: the daemon notes the adapters that are registered when *)
(* the request comes, and answers when all of them have been detected.      *)
Detects(w) ==
  [w EXCEPT !.detects = @ \cup {[n |-> count.detects + 1, list |-> Versions]}]

Refresh ==
  /\ count.detects < MaxDetects
  /\ window' = Detects(window)
  /\ count' = [count EXCEPT !.detects = @ + 1]
  /\ UNCHANGED <<file, reg, sess, known, run>>

DetectAnswered(d) ==
  /\ window' = [window EXCEPT !.list = d.list, !.detects = @ \ {d},
                              !.overtaken = d.n < window.latest,
                              !.latest = IF d.n > @ THEN d.n ELSE @]
  /\ UNCHANGED <<file, reg, sess, known, run, count>>

(* saveDraft, removeCustom: one at a time (busy).  Then the list of         *)
(* endpoints is asked for, and when it is there, the providers.             *)
Saves ==
  /\ window.awaits = "none" /\ count.edits < MaxEdits
  /\ \E i \in Ids :
       \/ Upserts(i)
       \/ window.customs[i] # 0 /\ Deletes(i)
  /\ window' = [window EXCEPT !.awaits = "saved"]
  /\ UNCHANGED <<sess, known, run>>

Listed ==
  /\ window.awaits = "saved"
  /\ window' = [window EXCEPT !.awaits = "listed", !.customs = file]
  /\ UNCHANGED <<file, reg, sess, known, run, count>>

AsksProviders ==
  /\ window.awaits = "listed" /\ count.detects < MaxDetects
  /\ window' = [Detects(window) EXCEPT !.awaits = "none"]
  /\ count' = [count EXCEPT !.detects = @ + 1]
  /\ UNCHANGED <<file, reg, sess, known, run>>

Next ==
  \/ Saves \/ Listed \/ AsksProviders \/ Refresh
  \/ \E d \in window.detects : DetectAnswered(d)
  \/ \E t \in Threads : Send(t) \/ Dispatch(t) \/ Stop(t) \/ Reap(t)
  \/ \E r \in run : StreamEnds(r)

Spec == Init /\ [][Next]_vars

----------------------------------------------------------------------------
TypeOK ==
  /\ file \in [Ids -> 0..MaxEdits]
  /\ reg \in [Ids -> [inst : 0..MaxEdits, ver : 0..MaxEdits]]
  /\ \A t \in Threads : /\ sess[t].phase \in {"none", "idle", "checkpoint", "running"}
                        /\ sess[t].turn \in 0..MaxTurns /\ known[t] \subseteq [inst : 1..MaxEdits, ver : 1..MaxEdits]
  /\ window.awaits \in {"none", "saved", "listed"}

(* A stream nobody waits for any more, which no Stop can reach, belongs to  *)
(* an adapter that an edit has replaced while it ran.                       *)
NoStrayStream ==
  \A r \in run : r.turn # sess[r.thread].turn => r.on # reg[Home[r.thread]]

(* Every adapter is the one the file describes, and every turn was handed   *)
(* to an endpoint as it was saved then.                                     *)
RunsAsSaved ==
  /\ \A i \in Ids : reg[i].ver = file[i]
  /\ \A r \in run : r.on.ver = r.saved

(* A window that awaits nothing lists the endpoints there are, unless an    *)
(* older answer came after a newer one: nothing orders them.                *)
WindowAgrees ==
  window.awaits = "none" /\ window.detects = {} /\ ~window.overtaken
    => window.list = Versions /\ window.customs = file

ProvidersAgree == RunsAsSaved /\ WindowAgrees
=============================================================================
