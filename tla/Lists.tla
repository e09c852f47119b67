------------------------------- MODULE Lists -------------------------------
(***************************************************************************)
(* The thread list of a window (App.tsx: refresh, onEvent, createThread,   *)
(* renameThread, deleteThread, openThread and the effects around them)     *)
(* against the rows of the daemon (orchestrator.ts).  The window patches   *)
(* its list from answers and events and asks for all of it when something  *)
(* came or went; events of a thread reach it only while its socket follows *)
(* that thread: the open one, and those it shows as running.               *)
(* The rows are what the log of the daemon adds up to, so a frame that     *)
(* carries rows names the length of the log they were read at.  refresh    *)
(* also fetches the lanes, which are left out.                             *)
(***************************************************************************)
EXTENDS Naturals, Sequences, SequencesExt, FiniteSets

CONSTANTS
  Threads,
  First,        \* the thread that exists at the start
  MaxEvents,    \* bound: events of the log
  MaxClicks,    \* bound: requests the user causes
  MaxDrops      \* bound: lost connections

VARIABLES
  log,          \* events, each of a thread
  sock,         \* the daemon's socket: whether it is open, the threads it follows
  up,           \* frames to the daemon
  down,         \* frames to the window
  win,          \* the window's list, open thread, cursor and subscription
  deleting,     \* deletions that await a session's end
  count         \* clicks and drops so far

vars == <<log, sock, up, down, win, deleting, count>>

Nobody == "nobody"

----------------------------------------------------------------------------
(* What a thread's row is after the first n events of l.                    *)
NoRow == [is |-> "none", title |-> 0]

Of(l, t)    == SelectSeq(l, LAMBDA e : e.of = t)
Has(l, w)   == \E i \in DOMAIN l : l[i].what = w
LastRuns(l) == \E i \in DOMAIN l :
  l[i].what = "running" /\ \A j \in DOMAIN l : j > i => l[j].what # "idle"

Row(l, t) ==
  LET es == Of(l, t) IN
  IF ~Has(es, "created") \/ Has(es, "deleted") THEN NoRow
  ELSE [is |-> IF LastRuns(es) THEN "running" ELSE "idle",
        title |-> Len(SelectSeq(es, LAMBDA e : e.what = "renamed"))]

RowsAt(n) == [t \in Threads |-> Row(SubSeq(log, 1, n), t)]
Rows      == [t \in Threads |-> Row(log, t)]
There(t)  == Rows[t] # NoRow

(* Frames.                                                                  *)
List(opens)   == [what |-> "list", of |-> opens, at |-> 0, set |-> {}]
Req(what, t)  == [what |-> what, of |-> t, at |-> 0, set |-> {}]
Sub(s)        == [what |-> "sub", of |-> Nobody, at |-> 0, set |-> s]
Resume(n, s)  == [what |-> "resume", of |-> Nobody, at |-> n, set |-> s]
Res(what, t, n) == [what |-> what, of |-> t, at |-> n, set |-> {}]
Evt(i)        == Res("evt", Nobody, i)

Shown(l)       == {t \in Threads : l[t] # NoRow}
Wanted(l, o)   == {t \in Threads : t = o \/ l[t].is = "running"}

Init ==
  /\ log = <<[of |-> First, what |-> "created"]>>
  /\ sock = [open |-> TRUE, follows |-> {First}]
  /\ up = <<>> /\ down = <<>>
  /\ win = [list |-> RowsAt(1), open |-> First, cursor |-> 1, follows |-> {First}]
  /\ deleting = {}
  /\ count = [clicks |-> 0, drops |-> 0]

----------------------------------------------------------------------------
(* The user, whose clicks come after the effects of the last render.         *)
Settled == Wanted(win.list, win.open) = win.follows

Clicks ==
  /\ sock.open /\ Settled /\ count.clicks < MaxClicks
  /\ count' = [count EXCEPT !.clicks = @ + 1]

Asks(frame) ==
  /\ Clicks /\ up' = Append(up, frame)
  /\ UNCHANGED <<log, sock, down, deleting>>

OpenThread(t) ==
  /\ t \in Shown(win.list) /\ t # win.open
  /\ Asks(Req("snapshot", t))
  /\ win' = [win EXCEPT !.open = t]

Send ==
  /\ win.open # Nobody /\ win.list[win.open].is = "idle"
  /\ Asks(Req("send", win.open)) /\ UNCHANGED win

CreateThread(t) ==
  /\ ~Has(Of(log, t), "created") /\ ~\E i \in DOMAIN up : up[i] = Req("create", t)
  /\ Asks(Req("create", t)) /\ UNCHANGED win

RenameThread(t) == t \in Shown(win.list) /\ Asks(Req("rename", t)) /\ UNCHANGED win
DeleteThread(t) == t \in Shown(win.list) /\ Asks(Req("delete", t)) /\ UNCHANGED win

(* The subscription effect.                                                 *)
Subscribe ==
  /\ sock.open /\ ~Settled
  /\ win' = [win EXCEPT !.follows = Wanted(win.list, win.open)]
  /\ up' = Append(up, Sub(Wanted(win.list, win.open)))
  /\ UNCHANGED <<log, sock, down, deleting, count>>

----------------------------------------------------------------------------
(* The daemon.  Events of one commit, and the answer behind them.           *)
Room(n) == Len(log) + n <= MaxEvents

Commits(t, whats, answer) ==
  LET new == [i \in 1..Len(whats) |-> [of |-> t, what |-> whats[i]]]
      evs == [i \in 1..Len(whats) |-> Evt(Len(log) + i)] IN
  /\ Room(Len(whats))
  /\ log' = log \o new
  /\ down' = down \o (IF t \in sock.follows THEN evs ELSE <<>>) \o answer

Replies(answer) == down' = down \o answer /\ UNCHANGED log

Serves(r) ==
  /\ IF r.what \in {"sub", "resume"} THEN sock' = [sock EXCEPT !.follows = r.set]
     ELSE UNCHANGED sock
  /\ IF r.what = "delete" /\ There(r.of) /\ Rows[r.of].is = "idle"
     THEN deleting' = deleting \cup {[of |-> r.of, waits |-> TRUE]}
     ELSE UNCHANGED deleting
  /\ CASE r.what = "list" -> Replies(<<Res("list", r.of, Len(log))>>)
       [] r.what = "snapshot" /\ There(r.of) -> Replies(<<Res("row", r.of, Len(log))>>)
       [] r.what = "send" /\ There(r.of) /\ Rows[r.of].is = "idle" ->
            Commits(r.of, <<"running">>, <<>>)
       [] r.what = "create" -> Commits(r.of, <<"created">>, <<Res("created", r.of, 0)>>)
       [] r.what = "rename" /\ There(r.of) ->
            Commits(r.of, <<"renamed">>, <<Res("row", r.of, Len(log) + 1)>>)
       [] r.what = "resume" ->
            Replies(SelectSeq([i \in 1..(Len(log) - r.at) |-> Evt(r.at + i)],
                              LAMBDA f : log[f.at].of \in r.set))
       [] OTHER -> Replies(<<>>)

Serve ==
  /\ up # <<>>
  /\ up' = Tail(up)
  /\ Serves(Head(up))
  /\ UNCHANGED <<win, count>>

(* A turn ends; a message that waited starts the next one at once.          *)
TurnEnds(t) ==
  /\ Rows[t].is = "running"
  /\ \E more \in {<<>>, <<"running">>} : Commits(t, <<"idle">> \o more, <<>>)
  /\ UNCHANGED <<sock, up, win, deleting, count>>

(* deleteThread after stopSession: whatever runs by then.                    *)
Deleted(d) ==
  /\ Commits(d.of, <<"deleted">>, IF d.waits THEN <<Res("gone", d.of, 0)>> ELSE <<>>)
  /\ deleting' = deleting \ {d}
  /\ UNCHANGED <<sock, up, win, count>>

----------------------------------------------------------------------------
(* The window.                                                              *)
Without(t) ==
  [win EXCEPT !.list[t] = NoRow, !.open = IF @ = t THEN Nobody ELSE @]

Patched(t, row) == IF t \in Shown(win.list) THEN [win EXCEPT !.list[t] = row] ELSE win

OnList(f) ==
  LET got == [win EXCEPT !.list = RowsAt(f.at)] IN
  IF f.of = Nobody THEN win' = got /\ UNCHANGED up
  ELSE win' = [got EXCEPT !.open = f.of] /\ up' = Append(up, Req("snapshot", f.of))

(* Statuses are patched; a thread that came, went or was renamed makes the   *)
(* window ask for the whole list.                                           *)
OnEvent(i) ==
  LET e == log[i]
      seen == [win EXCEPT !.cursor = IF i > @ THEN i ELSE @] IN
  IF e.what \in {"running", "idle"}
  THEN /\ win' = IF e.of \in Shown(win.list) THEN [seen EXCEPT !.list[e.of].is = e.what] ELSE seen
       /\ UNCHANGED up
  ELSE /\ win' = IF e.what = "deleted" /\ win.open = e.of
                 THEN [seen EXCEPT !.open = Nobody] ELSE seen
       /\ up' = Append(up, List(Nobody))

Receive ==
  /\ down # <<>>
  /\ down' = Tail(down)
  /\ LET f == Head(down) IN
     CASE f.what = "list"    -> OnList(f)
       [] f.what = "row"     -> win' = Patched(f.of, RowsAt(f.at)[f.of]) /\ UNCHANGED up
       [] f.what = "created" -> UNCHANGED win /\ up' = Append(up, List(f.of))
       [] f.what = "gone"    -> win' = Without(f.of) /\ UNCHANGED up
       [] f.what = "evt"     -> OnEvent(f.at)
  /\ UNCHANGED <<log, sock, deleting, count>>

(* The connection is lost with everything under way; the daemon's own work   *)
(* goes on.                                                                 *)
Drop ==
  /\ sock.open /\ count.drops < MaxDrops
  /\ count' = [count EXCEPT !.drops = @ + 1]
  /\ sock' = [open |-> FALSE, follows |-> {}]
  /\ up' = <<>> /\ down' = <<>>
  /\ deleting' = {[d EXCEPT !.waits = FALSE] : d \in deleting}
  /\ UNCHANGED <<log, win>>

(* The client resumes when it is greeted, the window refreshes and           *)
(* subscribes when it has rendered: either may be first.                    *)
Connect ==
  LET w == Wanted(win.list, win.open) IN
  /\ ~sock.open
  /\ sock' = [sock EXCEPT !.open = TRUE]
  /\ \/ up' = <<Resume(win.cursor, win.follows), Sub(win.follows), List(Nobody), Sub(w)>>
     \/ up' = <<List(Nobody), Sub(w), Resume(win.cursor, w), Sub(w)>>
  /\ win' = [win EXCEPT !.follows = w]
  /\ UNCHANGED <<log, down, deleting, count>>

User == \/ \E t \in Threads : OpenThread(t) \/ CreateThread(t) \/ RenameThread(t) \/ DeleteThread(t)
        \/ Send

Next ==
  \/ User \/ Subscribe \/ Serve \/ Receive \/ Drop \/ Connect
  \/ \E t \in Threads : TurnEnds(t)
  \/ \E d \in deleting : Deleted(d)

Spec == Init /\ [][Next]_vars

----------------------------------------------------------------------------
RowType == [is: {"none", "idle", "running"}, title: 0..MaxEvents]
Someone == Threads \cup {Nobody}
Frames  == [what: {"list", "snapshot", "send", "create", "rename", "delete", "sub", "resume",
                   "row", "created", "gone", "evt"},
            of: Someone, at: 0..MaxEvents, set: SUBSET Threads]

(* The variables keep their types.                                          *)
TypeOK ==
  /\ \A i \in DOMAIN log :
       log[i] \in [of: Threads, what: {"created", "renamed", "running", "idle", "deleted"}]
  /\ sock \in [open: BOOLEAN, follows: SUBSET Threads]
  /\ \A i \in DOMAIN up : up[i] \in Frames
  /\ \A i \in DOMAIN down : down[i] \in Frames
  /\ win \in [list: [Threads -> RowType], open: Someone, cursor: 0..MaxEvents,
              follows: SUBSET Threads]
  /\ deleting \subseteq [of: Threads, waits: BOOLEAN]
  /\ count \in [clicks: 0..MaxClicks, drops: 0..MaxDrops]

AtRest ==
  sock.open /\ Settled /\ up = <<>> /\ down = <<>> /\ deleting = {}

(* Once everything under way has arrived, the window lists the threads there *)
(* are under the names they have, and shows every thread that works as       *)
(* working; over drops, and whatever order answers and events came in.  A    *)
(* thread shown as working may have ended: the event is lost when it comes   *)
(* before the socket follows the thread.  A thread listed may be gone, but   *)
(* only after a drop: a deletion that awaited a session's end goes on, and   *)
(* nobody who follows the thread is left to be told.                         *)
ListsThreads ==
  AtRest =>
    \A t \in Threads :
      /\ There(t) => win.list[t] # NoRow /\ win.list[t].title = Rows[t].title
      /\ Rows[t].is = "running" => win.list[t].is = "running"
      /\ win.list[t] # NoRow /\ count.drops = 0 => There(t)
=============================================================================
