----------------------------- MODULE CliSessions -----------------------------
(***************************************************************************)
(* One thread of a CLI that is run once per turn: which flags and which    *)
(* conversation each process is given, over the sessions that are started, *)
(* dropped by a change of the permission mode, stopped when idle, and      *)
(* started anew (setPermissionMode, ensureSession and persistVendorSession *)
(* of orchestrator.ts; gemini, copilot, antigravity, qwen, opencode and,   *)
(* without their protocol, cursor and grok).  Adapters know a session by   *)
(* its thread, the orchestrator by its own record of it.                   *)
(*                                                                         *)
(* A conversation is named after the turn whose process began it.          *)
(***************************************************************************)
EXTENDS Naturals, FiniteSets

CONSTANTS
  Clis,         \* the adapters, one of which is the thread's
  Turns,
  Sessions,     \* session objects of the adapter
  None,         \* null
  MaxChanges    \* bound: changes of the mode

VARIABLES
  thread,       \* the row: cli, permission mode, vendorSessionId
  live,         \* Orchestrator.sessions: the adapter session, the turn, the id saved
  starts,       \* ensureSession under way, each with the row it has read
  map,          \* the adapter's sessions: the one of this thread
  sess,         \* the session objects
  proc,         \* the process of each turn
  changes       \* changes of the mode so far

vars == <<thread, live, starts, map, sess, proc, changes>>

PermissionModes == {"supervised", "full_access"}

NoLive    == [s |-> None, active |-> None, saved |-> None]
NoSession == [used |-> FALSE, mode |-> "supervised", native |-> None, cur |-> None,
              stale |-> FALSE, closing |-> None]
NoProcess ==
  [state |-> "none", of |-> None, asks |-> FALSE, approve |-> FALSE, conv |-> None,
   beside |-> FALSE, dropped |-> FALSE, after |-> {}, pump |-> "none", over |-> FALSE]

Init ==
  /\ \E cli \in Clis : thread = [cli |-> cli, mode |-> "supervised", saved |-> None]
  /\ live = NoLive /\ starts = {} /\ map = None
  /\ sess = [s \in Sessions |-> NoSession]
  /\ proc = [t \in Turns |-> NoProcess]
  /\ changes = 0

----------------------------------------------------------------------------
(* What the adapters differ in.                                             *)
Resumes == thread.cli # "copilot"

(* Those that take a new mode while their session lives.                    *)
TakesMode == thread.cli \in {"cursor", "grok"}

(* The flags of a process, from its session.                                *)
Approves(s) == sess[s].mode = "full_access"
GeminiArgs(s)      == [approve |-> Approves(s), from |-> sess[s].native]
CopilotArgs(s)     == [approve |-> Approves(s), from |-> None]
AntigravityArgs(s) == [approve |-> Approves(s), from |-> sess[s].native]
CursorArgs(s)      == [approve |-> Approves(s), from |-> sess[s].native]
GrokArgs(s)        == [approve |-> Approves(s), from |-> sess[s].native]
QwenArgs(s)        == [approve |-> FALSE, from |-> sess[s].native]
OpencodeArgs(s)    == [approve |-> FALSE, from |-> sess[s].native]

Args(s) ==
  CASE thread.cli = "gemini" -> GeminiArgs(s) [] thread.cli = "copilot"     -> CopilotArgs(s)
    [] thread.cli = "cursor" -> CursorArgs(s) [] thread.cli = "antigravity" -> AntigravityArgs(s)
    [] thread.cli = "grok"   -> GrokArgs(s)   [] thread.cli = "qwen"        -> QwenArgs(s)
    [] thread.cli = "opencode" -> OpencodeArgs(s)

(* What the thread's mode makes of a process.                               *)
HasFlag == thread.cli \notin {"qwen", "opencode"}

----------------------------------------------------------------------------
(* persistVendorSession: the id of the session the orchestrator has, as     *)
(* sessions ss have it, with live session l and row r.                      *)
Unsaved(l, ss) ==
  l.s # None /\ ss[l.s].native # None /\ ss[l.s].native # l.saved
SavedRow(r, l, ss) ==
  IF Unsaved(l, ss) THEN [r EXCEPT !.saved = ss[l.s].native] ELSE r
SavedLive(l, ss) == IF Unsaved(l, ss) THEN [l EXCEPT !.saved = ss[l.s].native] ELSE l

(* An event of a session: the id is saved, then it does what it does.       *)
Hears(l, ss) == thread' = SavedRow(thread, live, ss) /\ live' = l

(* stopSession of the thread: without a process it is over at once, with one *)
(* it waits for it to end.  m is whom the adapter has under the thread.      *)
StopsAtOnce == map # None /\ sess[map].cur = None
StopsLater  == map # None /\ sess[map].cur # None

Kills(t) == [proc EXCEPT ![t].state = IF @ = "runs" THEN "killed" ELSE @]

StopSession ==
  /\ map' = IF StopsAtOnce THEN None ELSE map
  /\ sess' = IF StopsLater THEN [sess EXCEPT ![map].closing = sess[map].cur] ELSE sess
  /\ proc' = IF StopsLater THEN Kills(sess[map].cur) ELSE proc

----------------------------------------------------------------------------
(* ensureSession reads the row, awaits the adapter's detect, then starts a   *)
(* session with what it has read; for a turn, or to be warm.                *)
Ensure(t) ==
  /\ live.s = None /\ ~\E c \in starts : c.turn = t
  /\ starts' = starts \cup {[turn |-> t, row |-> thread]}
  /\ UNCHANGED <<thread, live, map, sess, proc, changes>>

(* Turns and session objects are taken in an order.                         *)
Fresh(t) ==
  LET unsent == {u \in Turns : proc[u].state = "none" /\ \A c \in starts : c.turn # u} IN
  /\ live.active = None /\ t \in unsent
  /\ t = CHOOSE u \in unsent : TRUE

Send(t) == Fresh(t) /\ ~(\E c \in starts : c.turn \in Turns) /\ Ensure(t)

Prewarm == Ensure(None)

(* What the CLI resumes.                                                    *)
From(row) == IF Resumes THEN row.saved ELSE None

(* A session that comes when there is one already takes its place.          *)
Started(c) ==
  \E s \in Sessions :
    /\ c \in starts /\ ~sess[s].used /\ s = CHOOSE n \in {n \in Sessions : ~sess[n].used} : TRUE
    /\ starts' = starts \ {c}
    /\ map' = s
    /\ sess' = [sess EXCEPT ![s] =
         [NoSession EXCEPT !.used = TRUE, !.mode = c.row.mode, !.native = From(c.row),
            !.stale = live.s # None \/ c.row.mode # thread.mode \/ From(c.row) # From(thread)]]
    /\ live' = [s |-> s, active |-> c.turn, saved |-> From(c.row)]
    /\ proc' = IF c.turn = None THEN proc ELSE [proc EXCEPT ![c.turn].state = "sending"]
    /\ UNCHANGED <<thread, changes>>

StartFails(c) ==
  /\ c \in starts
  /\ starts' = starts \ {c}
  /\ proc' = IF c.turn = None THEN proc ELSE [proc EXCEPT ![c.turn].state = "failed"]
  /\ UNCHANGED <<thread, live, map, sess, changes>>

(* A message to a session that is there.                                    *)
SendNow(t) ==
  /\ Fresh(t) /\ live.s # None
  /\ live' = [live EXCEPT !.active = t]
  /\ proc' = [proc EXCEPT ![t].state = "sending"]
  /\ UNCHANGED <<thread, starts, map, sess, changes>>

(* After the checkpoint, whatever became of the session: the adapter takes   *)
(* the one it has under the thread by now.                                  *)
Refuses == ~\E s \in Sessions : map = s /\ sess[s].cur = None

(* The turn is over for the orchestrator.                                   *)
Idle(l, t) == IF l.active = t THEN [l EXCEPT !.active = None] ELSE l

DispatchRefused(t) ==
  /\ Refuses
  /\ proc' = [proc EXCEPT ![t].state = "failed"]
  /\ live' = Idle(live, t)
  /\ UNCHANGED <<thread, starts, map, sess, changes>>

Spawns(t) ==
  LET args == Args(map) IN
  /\ ~Refuses
  /\ proc' = [proc EXCEPT ![t] =
       [state |-> "runs", of |-> map, asks |-> thread.mode = "full_access",
        approve |-> args.approve,
        conv |-> IF args.from = None THEN t ELSE args.from,
        beside |-> \E u \in Turns : proc[u].pump = "reading", dropped |-> live.s # map,
        after |-> {u \in Turns : proc[u].over}, pump |-> "reading", over |-> FALSE]]
  /\ sess' = [sess EXCEPT ![map].cur = t]
  /\ UNCHANGED <<thread, live, starts, map, changes>>

Dispatch(t) ==
  /\ proc[t].state = "sending"
  /\ DispatchRefused(t) \/ Spawns(t)

(* The process names its conversation; the pump passes that on, whether or   *)
(* not the process still is the session's.                                  *)
PumpLine(t) ==
  /\ proc[t].pump = "reading" /\ sess[proc[t].of].native # proc[t].conv
  /\ sess' = [sess EXCEPT ![proc[t].of].native = proc[t].conv]
  /\ Hears(SavedLive(live, sess'), sess')
  /\ UNCHANGED <<starts, map, proc, changes>>

Exits(t) ==
  /\ proc[t].state \in {"runs", "killed"}
  /\ proc' = [proc EXCEPT ![t].state = IF @ = "runs" THEN "exited" ELSE "dead"]
  /\ UNCHANGED <<thread, live, starts, map, sess, changes>>

Ended(t) == proc[t].state \in {"exited", "dead"}

(* The pump is through: with the output and the process, or because reading  *)
(* throws, which leaves the process to itself.                              *)
PumpEnds(t) ==
  /\ proc[t].pump = "reading"
  /\ LET s == proc[t].of
         mine == sess[s].cur = t IN
     /\ proc' = [proc EXCEPT ![t].pump = "done",
          ![t].over = mine /\ live.s = s /\ proc[t].state = "exited" /\ sess[s].native = proc[t].conv]
     /\ sess' = IF mine THEN [sess EXCEPT ![s].cur = None] ELSE sess
     /\ IF mine THEN Hears(Idle(SavedLive(live, sess), t), sess) ELSE UNCHANGED <<thread, live>>
  /\ UNCHANGED <<starts, map, changes>>

(* interruptTurn, and what it reports when the process has ended.           *)
Interrupt(t) ==
  /\ live.active = t /\ map # None /\ sess[map].cur = t
  /\ sess' = [sess EXCEPT ![map].cur = None]
  /\ proc' = Kills(t)
  /\ UNCHANGED <<thread, live, starts, map, changes>>

Interrupted(t) ==
  /\ live.active = t /\ Ended(t) /\ \A s \in Sessions : sess[s].cur # t
  /\ Hears(Idle(SavedLive(live, sess), t), sess)
  /\ UNCHANGED <<starts, map, sess, proc, changes>>

(* A session that waited for its process is gone: the adapter forgets the   *)
(* thread, and session.exited makes the orchestrator forget it, too.        *)
Closed(s) ==
  /\ \E t \in Turns : sess[s].closing = t /\ Ended(t)
  /\ sess' = [sess EXCEPT ![s].closing = None]
  /\ map' = None
  /\ Hears(NoLive, sess)
  /\ UNCHANGED <<starts, proc, changes>>

----------------------------------------------------------------------------
(* setPermissionMode: a live session takes the mode, or is dropped without   *)
(* a wait so that the next turn starts another one.                         *)
Change ==
  /\ changes < MaxChanges /\ changes' = changes + 1
  /\ \E m \in PermissionModes \ {thread.mode} : thread' = [thread EXCEPT !.mode = m]
  /\ UNCHANGED starts

SetMode ==
  /\ Change
  /\ \/ live.s = None /\ UNCHANGED <<live, map, sess, proc>>
     \/ /\ live.s # None /\ TakesMode
        /\ sess' = IF map = None THEN sess ELSE [sess EXCEPT ![map].mode = thread'.mode]
        /\ UNCHANGED <<live, map, proc>>
     \/ /\ live.s # None /\ ~TakesMode
        /\ live' = NoLive
        /\ StopSession

(* reapIdleSessions and evictWarmSessionsBeyondCap.                         *)
Reap ==
  /\ live.s # None /\ live.active = None
  /\ Hears(NoLive, sess)
  /\ StopSession
  /\ UNCHANGED <<starts, changes>>

Commands == SetMode \/ Reap \/ Prewarm \/ \E t \in Turns : Send(t) \/ SendNow(t) \/ Interrupt(t)
Daemon ==
  \/ \E c \in starts : Started(c) \/ StartFails(c)
  \/ \E t \in Turns :
       Dispatch(t) \/ PumpLine(t) \/ PumpEnds(t) \/ Interrupted(t) \/ Exits(t)
  \/ \E s \in Sessions : Closed(s)

Next == Commands \/ Daemon

Spec == Init /\ [][Next]_vars

----------------------------------------------------------------------------
MaybeTurn == Turns \cup {None}
MaybeSession == Sessions \cup {None}
Rows == [cli: Clis, mode: PermissionModes, saved: MaybeTurn]

(* The variables keep their types.                                          *)
TypeOK ==
  /\ thread \in Rows
  /\ live \in [s: MaybeSession, active: MaybeTurn, saved: MaybeTurn]
  /\ starts \subseteq [turn: MaybeTurn, row: Rows]
  /\ map \in MaybeSession
  /\ sess \in [Sessions -> [used: BOOLEAN, mode: PermissionModes, native: MaybeTurn, cur: MaybeTurn,
                            stale: BOOLEAN, closing: MaybeTurn]]
  /\ proc \in [Turns ->
       [state: {"none", "failed", "sending", "runs", "killed", "exited", "dead"}, of: MaybeSession,
        asks: BOOLEAN, approve: BOOLEAN, conv: MaybeTurn, beside: BOOLEAN, dropped: BOOLEAN,
        after: SUBSET Turns, pump: {"none", "reading", "done"}, over: BOOLEAN]]
  /\ changes \in 0..MaxChanges

Spawned(t) == proc[t].pump # "none"

(* The mode of the thread when a process is spawned is the mode it runs in,  *)
(* for the adapters that pass it on ("so the next turn starts a process that *)
(* actually honors the new mode").  Does not hold for a session started from *)
(* a row that was changed while the start awaited detect, or beside another, *)
(* nor for a turn that the adapter was given after its session was dropped.  *)
ModeIsHonoured ==
  \A t \in Turns :
    Spawned(t) /\ HasFlag /\ ~proc[t].dropped /\ ~sess[proc[t].of].stale =>
      proc[t].approve = proc[t].asks

(* Turns that ended of themselves, in a session that was not dropped before,  *)
(* are all in one conversation, the one the CLI is asked to go on with,       *)
(* whatever sessions were dropped between them.  Does not hold once a session *)
(* was started from a row that had changed or in the place of another, or a   *)
(* process ran beside the late output of a stopped one.                       *)
ConversationIsKept ==
  Resumes /\ (\A s \in Sessions : ~sess[s].stale) /\ (\A t \in Turns : ~proc[t].beside)
    => \A u \in Turns : \A t \in proc[u].after : proc[u].conv = proc[t].conv

SessionsFit == ModeIsHonoured /\ ConversationIsKept
=============================================================================
