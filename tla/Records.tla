-------------------------------- MODULE Records --------------------------------
(***************************************************************************)
(* The event log and the rows derived from it: what the commands that       *)
(* outlive an await write about threads and their sessions, and what a      *)
(* restart or a rebuild makes of it.  One project; a session is followed    *)
(* as far as its rows go (SessionPool follows the processes).               *)
(*                                                                         *)
(* The adapters are external: a session has a native id of its own, from    *)
(* the start or with its first turn.  startSession reports ready before it  *)
(* returns; the two are one step here.                                      *)
(***************************************************************************)
EXTENDS Naturals, Sequences, FiniteSets, SequencesExt

CONSTANTS
  Threads,
  Providers,
  First,        \* the provider of new threads
  Null,
  Batch,        \* the rows a rebuild reads at a time
  MaxEvents,    \* bound: events
  MaxForeign,   \* bound: events of a newer daemon
  MaxRestarts,  \* bound: restarts
  MaxCommands   \* bound: commands

VARIABLES
  log,      \* events
  rows,     \* projects, threads
  session,  \* Orchestrator.sessions
  calls,    \* the commands under way
  daemon,   \* whether it runs, and how often it was restarted
  seen      \* history: threads switched under a start, or left with a stray process

vars == <<log, rows, session, calls, daemon, seen>>

NoSession == [provider |-> Null, resumed |-> Null, native |-> FALSE, saved |-> FALSE,
              busy |-> FALSE]
NoThread  == [state |-> "none", provider |-> Null, status |-> "closed", vendor |-> Null,
              resume |-> Null, said |-> FALSE]
NoRows    == [project |-> "none", thread |-> [t \in Threads |-> NoThread]]

Event(type, t, value) == [type |-> type, thread |-> t, value |-> value]
Status(t, s) == Event("session.status", t, s)

----------------------------------------------------------------------------
(* EventStore *)

(* Mutant: the id of the last provider is kept.                             *)
SwitchedKeeping(r, to) == [r EXCEPT !.provider = to]
Switched(r, to) ==
  [r EXCEPT !.provider = to,
            !.vendor = IF r.provider = to THEN @ ELSE Null,
            !.resume = IF r.provider = to THEN @ ELSE Null]

OfThread(r, e) ==
  CASE e.type = "thread.created"  -> [NoThread EXCEPT !.state = "listed", !.provider = e.value,
                                                      !.status = "ready"]
    [] e.type = "thread.deleted"  -> [r EXCEPT !.state = "deleted"]
    [] e.type = "thread.provider_set"       -> Switched(r, e.value)
    [] e.type = "thread.vendor_session_set" -> [r EXCEPT !.vendor = e.value]
    [] e.type = "session.resume_outcome"    -> [r EXCEPT !.resume = e.value]
    [] e.type = "session.status"            -> [r EXCEPT !.status = e.value]
    [] e.type = "turn.message"              -> [r EXCEPT !.said = TRUE]
    [] OTHER -> r

(* An update of a row that is not there changes nothing.                    *)
Project(rs, e) ==
  CASE e.type = "project.created" -> [rs EXCEPT !.project = "listed"]
    [] e.type = "project.removed" ->
         [project |-> "removed",
          thread |-> [t \in Threads |-> IF rs.thread[t].state = "listed"
                                        THEN [rs.thread[t] EXCEPT !.state = "deleted"]
                                        ELSE rs.thread[t]]]
    [] e.thread # Null /\ (e.type = "thread.created" \/ rs.thread[e.thread].state # "none") ->
         [rs EXCEPT !.thread[e.thread] = OfThread(@, e)]
    [] OTHER -> rs

Projected(rs, es) == FoldLeft(Project, rs, es)

Append1(es) ==
  /\ Len(log) + Len(es) <= MaxEvents
  /\ log' = log \o es
  /\ rows' = Projected(rows, es)

(* isReadable *)
Readable(e) == e.type # "foreign"

(* readSince: the next rows behind a cursor, and those of them a daemon can *)
(* read.                                                                    *)
ReadSince(since) == {i \in DOMAIN log : since < i /\ i <= since + Batch /\ Readable(log[i])}

SetMax(S) == CHOOSE i \in S : \A j \in S : j <= i

(* The events a rebuild replays, in order of the log: it stops at a batch   *)
(* with none.  A cursor is the last event read.                             *)
Replayed ==
  LET read[c \in 0 .. Len(log)] ==
        LET b == ReadSince(c) IN IF b = {} THEN {} ELSE b \cup read[SetMax(b)]
  IN  read[0]

Rebuilt ==
  LET replayed == Replayed
  IN  FoldLeft(LAMBDA rs, i : IF i \in replayed THEN Project(rs, log[i]) ELSE rs,
               NoRows, [i \in DOMAIN log |-> i])

----------------------------------------------------------------------------
Init ==
  /\ log = <<Event("project.created", Null, Null)>>
  /\ rows = [NoRows EXCEPT !.project = "listed"]
  /\ session = [t \in Threads |-> NoSession]
  /\ calls = [open |-> {}, commands |-> 0]
  /\ daemon = [up |-> TRUE, closing |-> FALSE, restarts |-> 0]
  /\ seen = [crossed |-> {}, stray |-> {}]

Listed(t) == rows.thread[t].state = "listed"
Mapped(t) == session[t] # NoSession
Busy(t)   == session[t].busy

Commanded == [calls EXCEPT !.commands = @ + 1]
Command   == daemon.up /\ calls.commands < MaxCommands
With(c)   == [Commanded EXCEPT !.open = @ \cup {c}]
Done(c)   == [calls EXCEPT !.open = @ \ {c}]

Call(op, t, provider) ==
  [op |-> op, thread |-> t, provider |-> provider, resume |-> Null, who |-> Null]
In(op, t) == \E c \in calls.open : c.op = op /\ c.thread = t

(* persistVendorSession: the new id of the mapped session, whatever provider *)
(* the thread has by now.                                                   *)
Unsaved(t, s) == s.native /\ ~s.saved /\ s.resumed # s.provider
SaveEvents(t, s) == IF Unsaved(t, s) THEN <<Event("thread.vendor_session_set", t, s.provider)>>
                    ELSE <<>>
Saved(s) == [s EXCEPT !.saved = @ \/ s.native]

----------------------------------------------------------------------------
(* createThread: also the last step of a handoff, which checks again.       *)

CreateThread(t) ==
  /\ Command /\ rows.project = "listed" /\ rows.thread[t].state = "none"
  /\ Append1(<<Event("thread.created", t, First)>>)
  /\ calls' = Commanded
  /\ UNCHANGED <<session, daemon, seen>>

(* deleteThread and setProvider stop the session first; the thread is not   *)
(* looked at again behind that await.                                       *)
Stops(op, t, to) ==
  /\ Command /\ Listed(t) /\ ~Busy(t) /\ ~In(op, t)
  /\ Append1(SaveEvents(t, session[t]))
  /\ session' = [session EXCEPT ![t] = Saved(@)]
  /\ calls' = With(Call(op, t, to))
  /\ UNCHANGED <<daemon, seen>>

Deleted(t) == Append1(<<Event("thread.deleted", t, Null)>>)
DeleteThread(t) ==
  \/ /\ Command /\ Listed(t) /\ ~Mapped(t) /\ Deleted(t) /\ calls' = Commanded
     /\ UNCHANGED <<session, daemon, seen>>
  \/ Mapped(t) /\ Stops("delete", t, Null)

Crosses(t, to) ==
  \/ \E c \in calls.open : c.op \in {"detect", "start"} /\ c.thread = t /\ c.provider # to
  \/ Mapped(t) /\ session[t].provider # to

ProviderSet(t, to) == Append1(<<Event("thread.provider_set", t, to)>>)
SetProvider(t, to) ==
  LET changing == to # rows.thread[t].provider IN
    /\ changing => ~rows.thread[t].said
    /\ \/ /\ Command /\ Listed(t) /\ ~(Mapped(t) /\ changing) /\ ~Busy(t)
          /\ ProviderSet(t, to) /\ calls' = Commanded
          /\ seen' = [seen EXCEPT !.crossed = IF Crosses(t, to) THEN @ \cup {t} ELSE @]
          /\ UNCHANGED <<session, daemon>>
       \/ Mapped(t) /\ changing /\ Stops("switch", t, to)

(* After stopSession: what is mapped by now goes from the map.              *)
Stopped(c) ==
  /\ daemon.up /\ c \in calls.open /\ c.op \in {"delete", "switch"}
  /\ session' = [session EXCEPT ![c.thread] = NoSession]
  /\ IF c.op = "delete" THEN Deleted(c.thread) ELSE ProviderSet(c.thread, c.provider)
  /\ seen' = [crossed |-> IF c.op = "switch" /\ \E d \in calls.open :
                              d.op \in {"detect", "start"} /\ d.thread = c.thread
                              /\ d.provider # c.provider
                          THEN seen.crossed \cup {c.thread} ELSE seen.crossed,
              stray |-> IF Mapped(c.thread) THEN seen.stray \cup {c.thread} ELSE seen.stray]
  /\ calls' = Done(c)
  /\ UNCHANGED daemon

RemoveProject ==
  /\ Command /\ rows.project = "listed" /\ \A t \in Threads : ~Mapped(t)
  /\ Append1(<<Event("project.removed", Null, Null)>>)
  /\ calls' = Commanded
  /\ UNCHANGED <<session, daemon, seen>>

----------------------------------------------------------------------------
(* ensureSession, for a turn and for a prewarm.  The thread is read once,   *)
(* before detect.                                                           *)

StartSession(t, who) ==
  /\ Command /\ Listed(t) /\ ~Mapped(t)
  /\ \A c \in calls.open : c.op \in {"detect", "start"} /\ c.thread = t => c.who # who
  /\ calls' = With([Call("detect", t, rows.thread[t].provider)
                      EXCEPT !.resume = rows.thread[t].vendor, !.who = who])
  /\ UNCHANGED <<log, rows, session, daemon, seen>>

Detected(c) ==
  /\ daemon.up /\ c \in calls.open /\ c.op = "detect"
  /\ \/ calls' = Done(c) /\ UNCHANGED <<log, rows>>
     \/ /\ Append1(<<Status(c.thread, "connecting")>>)
        /\ calls' = [calls EXCEPT !.open = (@ \ {c}) \cup {[c EXCEPT !.op = "start"]}]
  /\ UNCHANGED <<session, daemon, seen>>

Started(c) ==
  \E native \in BOOLEAN :
    LET s == [provider |-> c.provider, resumed |-> c.resume, native |-> native,
              saved |-> FALSE, busy |-> FALSE]
        t == c.thread
    IN  /\ daemon.up /\ c \in calls.open /\ c.op = "start"
        /\ session' = [session EXCEPT ![t] = Saved(s)]
        /\ Append1(<<Status(t, "ready")>> \o SaveEvents(t, s)
                   \o <<Event("session.resume_outcome", t,
                              IF c.resume = Null THEN "cold" ELSE "resumed")>>)
        /\ calls' = Done(c)
        /\ seen' = [seen EXCEPT !.stray = IF Mapped(t) THEN @ \cup {t} ELSE @]
        /\ UNCHANGED daemon

StartFails(c) ==
  /\ daemon.up /\ c \in calls.open /\ c.op = "start"
  /\ Append1((IF c.resume = Null THEN <<>>
              ELSE <<Event("session.resume_outcome", c.thread, "failed")>>)
             \o <<Status(c.thread, "error")>>)
  /\ calls' = Done(c)
  /\ UNCHANGED <<session, daemon, seen>>

----------------------------------------------------------------------------
(* What the sessions report                                                 *)

SendTurn(t) ==
  /\ Command /\ Listed(t) /\ Mapped(t) /\ ~Busy(t)
  /\ Append1(<<Event("turn.message", t, Null), Status(t, "running")>>)
  /\ session' = [session EXCEPT ![t].busy = TRUE]
  /\ calls' = Commanded
  /\ UNCHANGED <<daemon, seen>>

(* Every event of a session saves its native id first.                      *)
TurnEnds(t) ==
  LET s == [session[t] EXCEPT !.native = TRUE, !.busy = FALSE] IN
    /\ daemon.up /\ Busy(t)
    /\ Append1(SaveEvents(t, s) \o <<Status(t, "ready")>>)
    /\ session' = [session EXCEPT ![t] = Saved(s)]
    /\ UNCHANGED <<calls, daemon, seen>>

Exited(t) ==
  /\ Append1(SaveEvents(t, session[t]) \o <<Status(t, "closed")>>)
  /\ session' = [session EXCEPT ![t] = NoSession]

Exits(t) ==
  /\ daemon.up /\ Mapped(t) /\ Exited(t)
  /\ UNCHANGED <<calls, daemon, seen>>

(* reapIdleSessions, evictWarmSessionsBeyondCap: out of the map first, the   *)
(* process ends later and its end is that of whatever is mapped by then.    *)
Reap(t) ==
  /\ daemon.up /\ Mapped(t) /\ ~Busy(t) /\ ~In("reap", t)
  /\ Append1(SaveEvents(t, session[t]))
  /\ session' = [session EXCEPT ![t] = NoSession]
  /\ calls' = [calls EXCEPT !.open = @ \cup {Call("reap", t, Null)}]
  /\ UNCHANGED <<daemon, seen>>

Reaped(c) ==
  /\ daemon.up /\ c \in calls.open /\ c.op = "reap"
  /\ Exited(c.thread)
  /\ calls' = Done(c)
  /\ seen' = [seen EXCEPT !.stray = IF Mapped(c.thread) \/ In("start", c.thread)
                                    THEN @ \cup {c.thread} ELSE @]
  /\ UNCHANGED daemon

----------------------------------------------------------------------------
(* The end and the start of the daemon                                      *)

Down == /\ daemon' = [daemon EXCEPT !.up = FALSE, !.closing = FALSE]
        /\ session' = [t \in Threads |-> NoSession]
        /\ calls' = [calls EXCEPT !.open = {}]

Crash ==
  /\ daemon.up /\ daemon.restarts < MaxRestarts /\ Down
  /\ UNCHANGED <<log, rows, seen>>

Shutdown ==
  /\ daemon.up /\ ~daemon.closing /\ daemon.restarts < MaxRestarts
  /\ daemon' = [daemon EXCEPT !.closing = TRUE]
  /\ UNCHANGED <<log, rows, session, calls, seen>>

ShutdownNext ==
  /\ daemon.closing
  /\ IF \E t \in Threads : Mapped(t)
     THEN \E t \in Threads :
            /\ Mapped(t)
            /\ Append1(SaveEvents(t, session[t])
                       \o <<Status(t, "closed"), Status(t, IF Busy(t) THEN "error" ELSE "ready")>>)
            /\ session' = [session EXCEPT ![t] = NoSession]
            /\ UNCHANGED <<calls, daemon, seen>>
     ELSE Down /\ UNCHANGED <<log, rows, seen>>

(* A newer daemon has run in between.                                       *)
Foreign ==
  /\ ~daemon.up /\ Cardinality({i \in DOMAIN log : ~Readable(log[i])}) < MaxForeign
  /\ Append1(<<Event("foreign", Null, Null)>>)
  /\ UNCHANGED <<session, calls, daemon, seen>>

Live == {"connecting", "running"}

(* reconcileAfterCrash                                                      *)
Unsettled == {t \in Threads : Listed(t) /\ rows.thread[t].status \in Live}

Restart ==
  /\ ~daemon.up
  /\ Append1(SetToSeq({Status(t, "error") : t \in Unsettled}))
  /\ daemon' = [daemon EXCEPT !.up = TRUE, !.restarts = @ + 1]
  /\ UNCHANGED <<session, calls, seen>>

----------------------------------------------------------------------------
Next ==
  \/ RemoveProject \/ Crash \/ Shutdown \/ ShutdownNext \/ Foreign \/ Restart
  \/ \E t \in Threads : \/ CreateThread(t) \/ DeleteThread(t) \/ SendTurn(t)
                         \/ TurnEnds(t) \/ Exits(t) \/ Reap(t)
                         \/ \E who \in {"send", "warm"} : StartSession(t, who)
                         \/ \E to \in Providers : SetProvider(t, to)
  \/ \E c \in calls.open : Stopped(c) \/ Detected(c) \/ Started(c) \/ StartFails(c) \/ Reaped(c)

Spec == Init /\ [][Next]_vars

----------------------------------------------------------------------------
TypeOK ==
  /\ Len(log) <= MaxEvents
  /\ \A t \in Threads : /\ rows.thread[t].state \in {"none", "listed", "deleted"}
                         /\ rows.thread[t].provider \in Providers \cup {Null}
                         /\ session[t].provider \in Providers \cup {Null}
  /\ calls.commands <= MaxCommands

(* A rebuild gives the rows back, unless a batch holds nothing readable.    *)
RebuildAgrees ==
  (\A i \in 0 .. Len(log) - Batch : \E j \in i + 1 .. i + Batch : Readable(log[j]))
    => Rebuilt = rows

(* The native id of a thread is one of its provider, unless the provider    *)
(* was set while a session of another one was starting.                     *)
VendorMatches ==
  \A t \in Threads \ seen.crossed :
    rows.thread[t].vendor \in {Null, rows.thread[t].provider}

(* A listed thread that is shown connecting or running has a session or a   *)
(* start behind it, unless the end of another process took it away.         *)
LiveStatusIsLive ==
  \A t \in Threads \ seen.stray :
    daemon.up /\ Listed(t) /\ rows.thread[t].status \in Live => Mapped(t) \/ In("start", t)

ListedHaveProject == \A t \in Threads : Listed(t) => rows.project = "listed"

RecordsAgree == RebuildAgrees /\ VendorMatches /\ LiveStatusIsLive /\ ListedHaveProject
=============================================================================
