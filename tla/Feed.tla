-------------------------------- MODULE Feed --------------------------------
(***************************************************************************)
(* How one client follows the event log: the hub of the daemon             *)
(* (apps/server/src/ws.ts), the connection of the web interface            *)
(* (apps/web/src/client.ts) and what App.tsx does with it.                 *)
(*                                                                         *)
(* The daemon appends events to a log and pushes each one to the sockets   *)
(* subscribed to its thread.  A client keeps one number, its cursor seq,   *)
(* and asks on reconnect for the events after it.  A socket is two FIFO    *)
(* channels; whatever is in them when it drops is gone.  Every action of   *)
(* the server and of the client handles one frame, as their handlers run   *)
(* to the end without an await.                                            *)
(*                                                                         *)
(* A log entry is the thread of an event, or Env for the events without a  *)
(* thread, which every client receives.  Text deltas are numbered chunks.  *)
(***************************************************************************)
EXTENDS Naturals, FiniteSets, Sequences, SequencesExt

CONSTANTS
  Threads,     \* thread ids
  Env,         \* the null threadId of project and lane events
  NoThread,    \* no thread is open
  Known,       \* threads the client knows to be mid-turn, always subscribed
  Sources,     \* the threads (or Env) whose events are committed in this run
  Window,      \* replayWindow
  Overlaps,    \* what this run lets overlap: see below
  MaxEvents, MaxChunks, MaxDrops, MaxOpens  \* bounds

ASSUME ThreadsAssumption ==
  /\ IsFiniteSet(Threads)
  /\ Env \notin Threads /\ NoThread \notin Threads
  /\ Known \subseteq Threads
  /\ Sources \subseteq Threads \cup {Env}
ASSUME FeedBounds ==
  /\ Window \in Nat
  /\ Overlaps \subseteq {"effect", "open"}
  /\ {MaxEvents, MaxChunks, MaxDrops, MaxOpens} \subseteq Nat

(* Two overlaps the code allows and a run may leave out: "effect", App's     *)
(* subscription effect runs before the client has handled ready; "open", a   *)
(* thread is opened that the daemon does not yet push to this socket.        *)

VARIABLES
  log,        \* the events table: [thread, text], its index is the seq
  chunks,     \* text chunks each thread has streamed
  up,         \* the socket is open on both ends
  subscribed, \* ws.data.threads
  pending,    \* ws.data.pending: text not flushed yet, in insertion order
  toClient, toServer,  \* the two directions of the socket
  seq,        \* Client.seq
  threads,    \* Client.threads
  resuming,   \* the client awaits the answer to session.resume
  effect,     \* App's subscription effect is due
  active,     \* App's open thread
  view,       \* the events shown in its transcript
  loaded,     \* its snapshot has arrived
  last,       \* the newest event handed to App, per thread
  drops, opens

server == <<log, chunks, subscribed, pending>>
client == <<seq, threads, resuming, effect, active, view, loaded, last>>
bounds == <<drops, opens>>
vars == <<server, client, bounds, up, toClient, toServer>>

Ready(n)       == [t |-> "ready", seq |-> n]
Evt(n)         == [t |-> "evt", seq |-> n]
Delta(p)       == [t |-> "delta", thread |-> p.thread, upto |-> p.upto]
Replayed       == [t |-> "res", mode |-> "replay"]
SnapshotNeeded == [t |-> "res", mode |-> "snapshot_required"]
Snapshot(u, n) == [t |-> "snap", thread |-> u, seq |-> n]

Sub(S)       == [t |-> "sub", threads |-> S]
Resume(n, S) == [t |-> "resume", since |-> n, threads |-> S]
GetThread(u) == [t |-> "get", thread |-> u]

head == Len(log)  \* store.head(): the seq of the newest event

EventsOf(u, n) == {i \in 1..n : log[i].thread = u}

Init ==
  /\ \E order \in SetToSeqs(Threads) :
       log = [i \in DOMAIN order |-> [thread |-> order[i], text |-> 0]]
  /\ chunks = [u \in Threads |-> 0]
  /\ up = FALSE
  /\ subscribed = {} /\ pending = <<>>
  /\ toClient = <<>> /\ toServer = <<>>
  /\ seq = 0 /\ threads = {} /\ resuming = FALSE /\ effect = FALSE
  /\ active = NoThread /\ view = {} /\ loaded = FALSE
  /\ last = [u \in Threads \cup {Env} |-> 0]
  /\ drops = 0 /\ opens = 0

-----------------------------------------------------------------------------
(* The daemon                                                              *)

Flushed == [i \in DOMAIN pending |-> Delta(pending[i])]

Relevant(u) == u = Env \/ u \in subscribed

(* Mutant: the event overtakes the text in front of it. *)
CommitUnflushed(u) ==
  /\ u \in Sources /\ Len(log) < MaxEvents
  /\ log' = Append(log, [thread |-> u, text |-> IF u = Env THEN 0 ELSE chunks[u]])
  /\ toClient' = IF up /\ Relevant(u) THEN Append(toClient, Evt(Len(log) + 1)) ELSE toClient
  /\ UNCHANGED <<chunks, subscribed, pending, client, bounds, up, toServer>>

(* commit of one event: append it, and push it to a subscribed socket behind *)
(* the text that is still unsent.                                            *)
Commit(u) ==
  /\ u \in Sources /\ Len(log) < MaxEvents
  /\ log' = Append(log, [thread |-> u, text |-> IF u = Env THEN 0 ELSE chunks[u]])
  /\ IF up /\ Relevant(u)
     THEN /\ toClient' = toClient \o Flushed \o <<Evt(Len(log) + 1)>>
          /\ pending' = <<>>
     ELSE UNCHANGED <<toClient, pending>>
  /\ UNCHANGED <<chunks, subscribed, client, bounds, up, toServer>>

(* A chunk of streamed text joins what is pending for its thread. *)
Stream(u) ==
  /\ u \in Sources \ {Env} /\ chunks[u] < MaxChunks
  /\ chunks' = [chunks EXCEPT ![u] = @ + 1]
  /\ pending' =
       IF ~up \/ u \notin subscribed THEN pending
       ELSE IF \E i \in DOMAIN pending : pending[i].thread = u
       THEN [i \in DOMAIN pending |->
               IF pending[i].thread = u THEN [pending[i] EXCEPT !.upto = chunks[u] + 1] ELSE pending[i]]
       ELSE Append(pending, [thread |-> u, upto |-> chunks[u] + 1])
  /\ UNCHANGED <<log, subscribed, client, bounds, up, toClient, toServer>>

(* The flush timer. *)
Tick ==
  /\ pending # <<>>
  /\ toClient' = toClient \o Flushed
  /\ pending' = <<>>
  /\ UNCHANGED <<log, chunks, subscribed, client, bounds, up, toServer>>

Received(t) == toServer # <<>> /\ Head(toServer).t = t /\ toServer' = Tail(toServer)

(* A sub frame replaces the set of threads outright. *)
OnSub ==
  /\ Received("sub")
  /\ subscribed' = Head(toServer).threads
  /\ UNCHANGED <<log, chunks, pending, client, bounds, up, toClient>>

(* session.resume: the gap of the threads asked for, or snapshot_required.   *)
TooOld(since) == since > head \/ head - since > Window

(* Mutants: the gap starts at, or two behind, the cursor. *)
GapFromCursor(since, S) == {n \in 1..head : n >= since /\ log[n].thread \in S \cup {Env}}
GapSkippingOne(since, S) == {n \in 1..head : n > since + 1 /\ log[n].thread \in S \cup {Env}}

Gap(since, S) == {n \in 1..head : n > since /\ log[n].thread \in S \cup {Env}}

Ascending(s) == \A i, j \in DOMAIN s : i < j => s[i] < s[j]

Events(s) == [i \in DOMAIN s |-> Evt(s[i])]

OnResume ==
  LET f == Head(toServer) IN
  /\ Received("resume")
  /\ subscribed' = f.threads
  /\ \/ /\ TooOld(f.since)
        /\ toClient' = Append(toClient, SnapshotNeeded)
     \/ /\ ~TooOld(f.since)
        /\ \E order \in SetToSeqs(Gap(f.since, f.threads)) :
             /\ Ascending(order)
             /\ toClient' = Append(toClient, Replayed) \o Events(order)
  /\ UNCHANGED <<log, chunks, pending, client, bounds, up>>

(* thread.snapshot. *)
OnGetThread ==
  /\ Received("get")
  /\ toClient' = Append(toClient, Snapshot(Head(toServer).thread, head))
  /\ UNCHANGED <<server, client, bounds, up>>

-----------------------------------------------------------------------------
(* The socket                                                              *)

(* The socket opens: the hub greets it with the head of the log; the client  *)
(* tells App, whose subscription effect becomes due.                         *)
(* Mutant: the greeting carries the seq the next event will get. *)
ConnectAhead ==
  /\ ~up
  /\ up' = TRUE
  /\ subscribed' = {} /\ pending' = <<>>
  /\ toClient' = <<Ready(head + 1)>> /\ toServer' = <<>>
  /\ effect' = TRUE
  /\ UNCHANGED <<log, chunks, seq, threads, resuming, active, view, loaded, last, bounds>>

Connect ==
  /\ ~up
  /\ up' = TRUE
  /\ subscribed' = {} /\ pending' = <<>>
  /\ toClient' = <<Ready(head)>> /\ toServer' = <<>>
  /\ effect' = TRUE
  /\ UNCHANGED <<log, chunks, seq, threads, resuming, active, view, loaded, last, bounds>>

(* The socket drops (or the daemon restarts: the log survives it).  Requests *)
(* in flight are rejected; a rejected resume calls onResync, whose own       *)
(* requests are refused because there is no socket.                          *)
Drop ==
  /\ up /\ drops < MaxDrops
  /\ up' = FALSE /\ drops' = drops + 1
  /\ toClient' = <<>> /\ toServer' = <<>> /\ pending' = <<>> /\ subscribed' = {}
  /\ resuming' = FALSE /\ effect' = FALSE
  /\ UNCHANGED <<log, chunks, seq, threads, active, view, loaded, last, opens>>

-----------------------------------------------------------------------------
(* The client                                                              *)

Delivered(t) == toClient # <<>> /\ Head(toClient).t = t /\ toClient' = Tail(toClient)

(* ready: the first connection starts at the head, a later one asks for its  *)
(* gap; then the subscriptions are sent again.                               *)
(* Mutant: every connection starts at the head. *)
OnReadyAtHead ==
  /\ Delivered("ready")
  /\ seq' = Head(toClient).seq
  /\ toServer' = Append(toServer, Sub(threads))
  /\ UNCHANGED <<server, threads, resuming, effect, active, view, loaded, last, bounds, up>>

OnReady ==
  /\ Delivered("ready")
  /\ IF seq = 0
     THEN /\ seq' = Head(toClient).seq
          /\ toServer' = Append(toServer, Sub(threads))
          /\ UNCHANGED resuming
     ELSE /\ resuming' = TRUE
          /\ toServer' = toServer \o <<Resume(seq, threads), Sub(threads)>>
          /\ UNCHANGED seq
  /\ UNCHANGED <<server, threads, effect, active, view, loaded, last, bounds, up>>

Larger(a, b) == IF a > b THEN a ELSE b

(* evt: move the cursor, hand the event to App, which shows it if its thread *)
(* is the open one.                                                          *)
OnEvent ==
  LET n == Head(toClient).seq
      u == log[n].thread
  IN /\ Delivered("evt")
     /\ seq' = Larger(seq, n)
     /\ last' = [last EXCEPT ![u] = Larger(@, n)]
     /\ view' = IF u = active THEN view \cup {n} ELSE view
     /\ UNCHANGED <<server, threads, resuming, effect, active, loaded, bounds, up, toServer>>

OnDelta ==
  /\ Delivered("delta")
  /\ UNCHANGED <<server, client, bounds, up, toServer>>

(* onResync: App fetches the open thread again. *)
Refetch == IF active = NoThread THEN toServer ELSE Append(toServer, GetThread(active))

(* The answer to session.resume; a late one, after its timeout, is ignored.  *)
OnResumed ==
  /\ Delivered("res")
  /\ resuming' = FALSE
  /\ IF resuming /\ Head(toClient).mode = "snapshot_required"
     THEN seq' = 0 /\ toServer' = Refetch
     ELSE UNCHANGED <<seq, toServer>>
  /\ UNCHANGED <<server, threads, effect, active, view, loaded, last, bounds, up>>

(* 30 seconds without an answer. *)
ResumeTimesOut ==
  /\ resuming
  /\ resuming' = FALSE
  /\ toServer' = Refetch
  /\ UNCHANGED <<server, seq, threads, effect, active, view, loaded, last, bounds, up, toClient>>

(* The answer to thread.snapshot replaces the transcript, unless another     *)
(* thread has been opened since.  Its seq is not used.                       *)
OnSnapshot ==
  LET f == Head(toClient) IN
  /\ Delivered("snap")
  /\ IF f.thread = active
     THEN view' = EventsOf(active, f.seq) /\ loaded' = TRUE
     ELSE UNCHANGED <<view, loaded>>
  /\ UNCHANGED <<server, seq, threads, resuming, effect, active, last, bounds, up, toServer>>

(* openThread: the snapshot is requested at once; the subscription effect    *)
(* runs after the next render, when the thread is another one.  Without a    *)
(* socket the request is refused.                                            *)
OpenThread(u) ==
  /\ opens < MaxOpens
  /\ "open" \in Overlaps \/ u \in subscribed
  /\ opens' = opens + 1
  /\ active' = u
  /\ IF u = active
     THEN UNCHANGED <<view, loaded, effect>>
     ELSE view' = {} /\ loaded' = FALSE /\ effect' = up
  /\ toServer' = IF up THEN Append(toServer, GetThread(u)) ELSE toServer
  /\ UNCHANGED <<server, seq, threads, resuming, last, drops, up, toClient>>

(* The subscription effect: the open thread and every thread mid-turn. *)
Greeted == \A i \in DOMAIN toClient : toClient[i].t # "ready"

Subscribe ==
  LET wanted == Known \cup ({active} \ {NoThread}) IN
  /\ effect /\ up
  /\ "effect" \in Overlaps \/ Greeted
  /\ effect' = FALSE
  /\ threads' = wanted
  /\ toServer' = Append(toServer, Sub(wanted))
  /\ UNCHANGED <<server, seq, resuming, active, view, loaded, last, bounds, up, toClient>>

-----------------------------------------------------------------------------

Serve == OnSub \/ OnResume \/ OnGetThread

Handle == OnReady \/ OnEvent \/ OnDelta \/ OnResumed \/ OnSnapshot

Next ==
  \/ \E u \in Threads \cup {Env} : Commit(u)
  \/ \E u \in Threads : Stream(u) \/ OpenThread(u)
  \/ Tick \/ Serve \/ Handle
  \/ Connect \/ Drop \/ ResumeTimesOut \/ Subscribe

Spec == Init /\ [][Next]_vars

(* Frames are handled, the flush timer and the render happen, the client     *)
(* reconnects for as long as it is disconnected.                             *)
FairSpec ==
  /\ Spec
  /\ WF_vars(Serve) /\ WF_vars(Handle) /\ WF_vars(Tick)
  /\ WF_vars(Connect) /\ WF_vars(Subscribe)

-----------------------------------------------------------------------------
(* Properties                                                              *)

ServerFrame ==
  [t: {"ready"}, seq: 0..Len(log)] \cup [t: {"evt"}, seq: 1..Len(log)]
    \cup [t: {"delta"}, thread: Threads, upto: Nat]
    \cup [t: {"res"}, mode: {"replay", "snapshot_required"}]
    \cup [t: {"snap"}, thread: Threads, seq: 0..Len(log)]

ClientFrame ==
  [t: {"sub"}, threads: SUBSET Threads] \cup [t: {"get"}, thread: Threads]
    \cup [t: {"resume"}, since: 1..Len(log), threads: SUBSET Threads]

TypeOK ==
  /\ log \in Seq([thread: Threads \cup {Env}, text: Nat])
  /\ chunks \in [Threads -> Nat]
  /\ up \in BOOLEAN /\ resuming \in BOOLEAN /\ effect \in BOOLEAN /\ loaded \in BOOLEAN
  /\ subscribed \subseteq Threads /\ threads \subseteq Threads
  /\ pending \in Seq([thread: Threads, upto: Nat])
  /\ toClient \in Seq(ServerFrame) /\ toServer \in Seq(ClientFrame)
  /\ seq \in 0..Len(log)
  /\ active \in Threads \cup {NoThread}
  /\ view \subseteq 1..Len(log)
  /\ last \in [Threads \cup {Env} -> 0..Len(log)]

(* Nothing is on its way between the client and the daemon. *)
Quiet ==
  up /\ toClient = <<>> /\ toServer = <<>> /\ ~resuming /\ ~effect

(* A transcript that was loaded is the whole history of its thread whenever  *)
(* nothing is on its way: what a dropped socket swallowed has come back.     *)
Current == Quiet /\ loaded => view = EventsOf(active, Len(log))

(* The next event handed to App is newer than every event of its thread that *)
(* App was handed before: the order of the log, and nothing twice.           *)
InOrderOnce ==
  toClient # <<>> /\ Head(toClient).t = "evt" =>
    Head(toClient).seq > last[log[Head(toClient).seq].thread]

(* Text streamed before an event was committed does not arrive behind it.    *)
NoLateText ==
  \A i \in DOMAIN toClient : toClient[i].t = "evt" =>
    LET e == log[toClient[i].seq] IN
    /\ \A j \in i..Len(toClient) :
         toClient[j].t = "delta" /\ toClient[j].thread = e.thread => toClient[j].upto > e.text
    /\ \A j \in DOMAIN pending : pending[j].thread = e.thread => pending[j].upto > e.text

(* What makes InOrderOnce inductive, without the "effect" overlap and        *)
(* without Env events.                                                       *)

Frames(c, t) == {i \in DOMAIN c : c[i].t = t}

(* Until session.resume is served, nothing but answers to thread.snapshot is *)
(* pushed to the socket: it is not subscribed, and nothing it asked for goes *)
(* in front of its resume.                                                   *)
Unsynced == Frames(toClient, "ready") # {} \/ Frames(toServer, "resume") # {}

NothingBeforeResume ==
  /\ Unsynced => subscribed = {} /\ pending = <<>>
  /\ Unsynced => \A i \in DOMAIN toClient : toClient[i].t \in {"ready", "snap"}
  /\ Frames(toClient, "ready") # {} => \A i \in DOMAIN toServer : toServer[i].t = "get"
  /\ \A i \in Frames(toServer, "resume") : \A j \in 1..(i - 1) : toServer[j].t = "get"
  /\ \A i \in Frames(toClient, "ready") : i = 1
  /\ ~up => /\ toClient = <<>> /\ toServer = <<>> /\ ~resuming
            /\ subscribed = {} /\ pending = <<>>

(* The cursor, the one a greeting offers and the one of a resume on its way  *)
(* cover every event App was handed.                                         *)
CursorCovers ==
  \A u \in Threads :
    /\ seq # 0 => last[u] <= seq
    /\ \A i \in Frames(toClient, "ready") : last[u] <= toClient[i].seq
    /\ \A i \in Frames(toServer, "resume") : last[u] <= toServer[i].since

(* The events in the channel ascend, and are newer than what App was handed. *)
ChannelAscends ==
  \A i \in Frames(toClient, "evt") :
    /\ \A u \in Threads : last[u] < toClient[i].seq
    /\ \A j \in Frames(toClient, "evt") : i < j => toClient[i].seq < toClient[j].seq

(* Events are stamped with the text that was streamed before them. *)
Stamped ==
  /\ \A n \in DOMAIN log : log[n].thread \in Threads /\ log[n].text <= chunks[log[n].thread]
  /\ \A i \in DOMAIN pending : pending[i].upto <= chunks[pending[i].thread]

OrderInv ==
  /\ TypeOK /\ NothingBeforeResume /\ CursorCovers /\ ChannelAscends /\ Stamped /\ NoLateText

(* When sockets stop dropping and users stop clicking, a loaded transcript   *)
(* becomes current.                                                          *)
CatchesUp == <>[](loaded => view = EventsOf(active, Len(log)))

(* Threads are interchangeable.                                             *)
ThreadSymmetry == Permutations(Threads)
=============================================================================
