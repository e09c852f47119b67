# Divisio in TLA+

Divisio runs coding agents (Claude Code, Codex, Cursor, Grok, Qwen, OpenCode,
any OpenAI-compatible endpoint) behind one local daemon. Clients (the web
interface, the desktop shell, a paired phone) talk to the daemon over one
WebSocket; the daemon turns commands into provider calls, provider output into
events, commits events to a SQLite log, and streams them back.

This directory holds the specifications of the parts whose correctness depends
on the order in which things happen: TLA+ modules translated from the source,
TLC configurations that check them on small instances, and TLAPS proofs of the
theorems that hold for every instance. Paths below are relative to the
repository.

## Contents

| file | what it is |
| --- | --- |
| `Turns.tla` | the turns of one thread in the orchestrator: the core model |
| `TurnPromise.tla` | what a client may rely on about one turn id (abstract) |
| `MCTurns.tla`, `turns_*.cfg` | the instances TLC checks |
| `TurnsProofs.tla` | type correctness, the inductive invariant, start-once, the refinement of `TurnPromise`; that a busy thread has work behind it and a Stop is no failure |
| `Feed.tla`, `feed_*.cfg` | the event feed and the instances TLC checks: the hub, one socket at a time, the client's cursor and its open thread |
| `FeedProofs.tla` | type correctness, the order of the feed, and that a transcript at rest is current |
| `AdapterPromise.tla`, `AdapterHost.tla` | what an adapter promises about a turn (abstract); the orchestrator as an adapter meets it |
| `CodexTurn.tla`, `ClaudeTurn.tla`, `AcpTurn.tla`, `StreamTurn.tla`, `OpenaiTurn.tla`, `MockTurn.tla` | the adapters |
| `CliSessions.tla` | the sessions, permission modes and conversations of CLIs that run once per turn |
| `Normalizers.tla` | what the adapters make of the lines their CLIs print |
| `JsonRpc.tla` | the JSON-RPC client over a child's pipes |
| `SessionPool.tla` | the sessions of several threads: start, prewarm, evict, reap, remove |
| `Providers.tla` | custom endpoints: the file, the adapters, the sessions and windows that use them |
| `Updates.tla` | the lookups of newer CLI releases, their cache and the notice |
| `Lanes.tla` | lanes and their worktrees, with crashes of the daemon |
| `LaneSetup.tla` | what a new lane is given: its port, the files carried over, its set-up command |
| `Delivery.tla` | commit, push and pull request, from the pane to git |
| `Transcript.tla` | streamed text and approvals of one thread |
| `Checkpoints.tla` | captures around turns, and restores, in a shared checkout |
| `Handoff.tla` | `thread.handoff` and its waiter |
| `Packets.tla` | what a handed-off thread is told, over chains of handoffs |
| `Patches.tla` | a patch as the windows draw it: marks, counts, folds |
| `ThreadView.tla` | what a window shows of a thread beside its transcript |
| `Lists.tla` | a window's list of threads, over events, refreshes and drops |
| `Panes.tla` | the file, diff and status panes of a window while threads are switched |
| `Compose.tla` | a new conversation: the choices, the images, the chain of calls of a Send |
| `Welcome.tla` | adding and cloning projects; the first run |
| `Desktop.tla` | launches of the desktop shell and the life of the daemon |
| `Sockets.tla` | pairing links, devices, their sockets and their shells |
| `Records.tla` | the event log and the rows projected from it, over crashes, shutdowns and unreadable events |
| `Usage.tla` | the usage statistics read from the CLIs' own files |
| `Activity.tla` | turns by day, streaks, shares and the grids drawn from them |
| `DaemonParts.tla`, `AdapterParts.tla` | the instances the theorems are about: sockets, text, lanes and their set-up, endpoints, handoffs, the JSON-RPC client, the parts that take their constants as arguments; the adapters |
| `MCParts.tla`, `parts*.cfg`, `transcript_lost.cfg`, `restore_loses.cfg`, `lane_unsaved.cfg` | the instances TLC checks of everything from the adapters down |
| `DaemonProofs.tla`, `AdapterProofs.tla`, `AdapterLives.tla`, `WindowProofs.tla`, `PartsProofs.tla` | the theorems of the parts (those of the daemon; that adapters keep their promise; that busy sessions will be free and agents answered; that panes, updates, deliveries and the welcome screen tell the truth), and that they hold of the specification of `MCParts` |
| `PROJECT.json` | components, runs, mutants, the map from definitions to source lines, hazards, theorems |

Run a model with `tlc -config turns_queue.cfg MCTurns`, a proof with
`tlapm TurnsProofs.tla` or `tlapm DaemonProofs.tla`.

## The system

The daemon is one JavaScript thread. Code between two `await`s is atomic;
every `await` is a point where any other handler, timer or child-process
callback may run. That is the concurrency of this program, and it is where
almost all of its hazards are.

| component | source | state it keeps | operations | talks to |
| --- | --- | --- | --- | --- |
| turn lifecycle | `apps/server/src/orchestrator.ts` | per live session: active turn, stopping turn, cancelled set, queue | `turn.send`, `turn.dequeue`, `turn.interrupt`, the queue drain, provider events | adapters, log, checkpoints |
| session pool | same | the map thread -> live session | ensure, prewarm, reap, evict, permission and provider changes, exit | adapters |
| text, approvals, handoff | same, `handoff.ts` | text being assembled, pending approvals, turn waiters | deltas, `approval.respond`, `handoff.*` | adapters, log |
| lanes | same, `lane/worktree.ts` | lane rows, worktrees, ports | create, prepare, archive | git, log |
| event log | `store/log.ts`, `packages/contracts/src/{events,upcast}.ts` | events, projections, meta | append, read since, rebuild, reconcile after a crash | SQLite |
| hub and client feed | `ws.ts`, `apps/web/src/{client.ts,App.tsx}` | subscriptions and unsent deltas per socket; the client's cursor | broadcast, resume, subscribe, snapshot | log |
| checkpoints | `checkpoint/store.ts` | captures in flight | capture, restore | git |
| adapters | `packages/adapters/src` | one provider session each: process, turn, pending requests | start, send, interrupt, respond, stop | provider CLIs |
| JSON-RPC | `packages/adapters/src/jsonrpc/stdio.ts` | pending requests | request, notify, close | a child process |
| pairing, auth | `pairing/*.ts`, `auth.ts` | links, paired devices | mint, redeem, revoke | sockets |
| terminal | `terminal/pty.ts` | shells per socket | open, write, resize, close | a pty |
| usage | `usage/`, `store/usage.ts`, `packages/adapters/src/usage` | parsed files, results per range | scan, collect | the CLIs' own files |
| files, diffs, delivery | `files/`, `git/`, `lane/worktree.ts` | none; the panes keep what they were told | read, write, status, commit, push | file system, git |
| catalog, endpoints, updates | `models.ts`, `customProviders.ts`, `providers/` | a file of endpoints, a cache of releases | edit, detect, look up | adapters, npm |
| projects | orchestrator, `AddProjectDialog.tsx`, `Onboarding.tsx` | the list of projects | create, clone, remove | git |
| a window | `apps/web/src` | open thread, lists, panes, drafts | everything above, by request | the daemon |
| desktop shell | `apps/desktop/src-tauri/src/lib.rs` | the supervised daemon | probe, spawn, attach | the daemon |

What makes each of them correct, and what is hard about it:

* **Turn lifecycle.** A turn that was reported started gets exactly one end; a
  queued message is started once or dropped, never lost and never run after a
  Stop took it; a thread is never busy with a turn that is over; a Stop takes
  effect even while the pre-turn checkpoint is running; an error is charged to
  the turn it belongs to. Hard: a send is suspended at up to five awaits, a Stop
  at one, provider events arrive at any of them, and a suspended call keeps the
  session object it read before its await while the event handler looks the
  session up again.
* **Session pool.** A thread that is deleted lets go of its process; warm
  processes are bounded. Hard: two starts may both find no session; the exit of a
  replaced process removes its successor from the map; every loop over the map
  awaits between its entries.
* **Text and approvals.** What was shown is kept, a settled turn's text stays, an
  approval is answered once. Hard: text arrives in pieces and as messages, late
  and after Stops; several clients answer.
* **Handoff.** It returns, with the note if there is one. Hard: its turn may end
  before anybody waits for it, or never.
* **Lanes.** No two lanes share a branch, nothing unconfirmed is destroyed, no lane
  stays preparing. Hard: every check is separated from its effect by awaits on
  git, agents edit meanwhile, and the daemon may die in between.
* **Checkpoints.** The diff of a turn shows what its agent wrote; a restore can be
  undone. Hard: several threads and the user share a checkout.
* **Event log.** A total order, projections equal to a replay. Hard: a crash at any
  point, events of another version, and sessions the log cannot see.
* **Pairing, terminals.** Only paired devices are connected, no shell without its
  pane. Hard: a revocation, a drop or a closed pane overtakes an answer.
* **Usage.** Each request counted once. Hard: the files grow, are copied and repeat
  themselves while they are read.
* **Hub and feed.** Every subscribed client sees every event of its threads once
  and in order across reconnects. Hard: the resume, the subscription and live
  traffic overlap.
* **Window.** No approval nobody waits for, no waiting message that does not wait, no
  thread that is gone, no pane with another thread's text; the first message goes
  with what its user chose. Hard: events, answers and clicks all edit the same state.
* **Files and delivery.** What is reported saved, committed or pushed is. Hard: every
  check is separated from its effect by an await, and agents edit meanwhile.
* **Catalog and projects.** Adapters, windows and the file of endpoints agree; a
  listed project is a whole folder. Hard: edits under live sessions, clones that
  outlive the window's patience.
* **Adapters.** Each turn accepted ends once, whatever the CLI answers, late
  answers included; no session stays busy for good. Hard: a CLI answers, exits,
  asks and is killed at any time, and Stop races all of it.
* **JSON-RPC.** Every request is answered or rejected.
* **Desktop shell.** A launch ends with a daemon or an error, and an orphaned daemon
  stops. Hard: several launches and a daemon's shutdown share one port.

`PROJECT.json` lists each hazard at the line where it bites, with the property
that covers it or the reason why none does.

## Turns: the model

One thread, with the sessions it goes through.

| variable | in the code |
| --- | --- |
| `cur` | `this.sessions.get(threadId)`, as the identity of a `LiveSession` |
| `live[s]` | `activeTurnId`, `stoppingTurnId`, `cancelledTurns`, `queuedTurns` of that object |
| `up[s]`, `handed[s]` | the adapter's process, and the turn it accepted and has not ended (external) |
| `pc[t]`, `at[t]`, `via[t]` | where the call that carries turn `t` is suspended, the session object it holds, and whether `sendTurn` or `drainQueue` is its caller |
| `stop[t]` | the `interrupt` call on `t` across `adapter.interruptTurn`: its session and the messages it took |
| `ev[t]` | the `turn.*` events committed for `t` |
| `warming` | a `prewarm` awaiting `startSession` |
| `switching` | a `setProvider` awaiting `stopSession` |
| `errors` | bound on error events |

The actions follow the code from await to await:

| action | code |
| --- | --- |
| `SendWarm`, `SendCold`, `SessionReady`, `SessionFails` | `sendTurn` through `ensureSession`: a live session, a cold start, its result |
| `Enqueue`, `Start`, `ImagesWritten`, `ImagesRefused` | the busy branch, the claim of a free session, the write of images in between |
| `CheckpointCancelled`, `CheckpointThrows`, `Dispatch`, `DispatchRefused`, `SendResolves`, `SendRejects` | after `captureCheckpoint`: what it throws (only for the turns in `LostTurns`), the cancelled check, `adapter.sendTurn`, its outcomes. Both `sendTurn` and `startQueuedTurn` run through these; they differ in what the catch does (`via`) |
| `Dequeue`, `Interrupt`, `Interrupted`, `InterruptFails` | `dequeueTurn`; `interrupt` up to its await, and after it |
| `TurnCompleted`, `ProviderError`, `SessionExited` | `onRuntimeEvent` |
| `Prewarm*`, `ReapIdle`, `EvictWarm`, `SetPermissionMode`, `SetProvider`, `ProviderSwitched` | sessions started and dropped outside a turn |

`drainQueue` runs synchronously inside the handler that triggers it, up to the
first await of the turn it starts, so `Drain` is part of `TurnCompleted`,
`ProviderError` and the failing dispatch of a queued turn and is not an action.
`ReapIdle` and `EvictWarm` take the session they stop as a parameter: the code
walks a copy of the map and awaits between its entries, so what it deletes from
the map may be a successor of the session it looked at.

What is abstracted: message texts, models, efforts and attachments (a send is a
turn id and whether it carries images); `turn.delta`, tool and approval events;
checkpoint ids; timestamps. What is assumed of the outside: an adapter ends each
turn it accepted at most once and reports no turn it was not given (the adapter
contract, `packages/contracts/src/adapter.ts`); an adapter that still runs a turn
refuses another one, as every adapter in `packages/adapters/src` does.

## Feed: the model

One client and the daemon, with the socket between them as two FIFO channels. A
drop empties both. Every handler of `ws.ts` and of `client.ts` runs to its end
without an await, so each action takes one frame, and the model keeps the order
in which a handler sends.

| variable | in the code |
| --- | --- |
| `log`, `chunks` | the `events` table (each event by its thread, and by how much text was streamed before it); text streamed per thread |
| `subscribed`, `pending` | `ws.data.threads`, `ws.data.pending` |
| `toClient`, `toServer`, `up` | the socket |
| `seq`, `threads`, `resuming` | `Client.seq`, `Client.threads`, a `session.resume` in `Client.pending` |
| `effect` | App's subscription effect is due: it runs after a render in which the socket opened or the open thread changed |
| `active`, `view`, `loaded` | the open thread, the events its transcript shows, whether its snapshot arrived |
| `last` | history: the newest event of each thread App was handed |
| `drops`, `opens` | bounds on drops and clicks |

| action | code |
| --- | --- |
| `Commit`, `Stream`, `Tick` | `WsHub.events`, `delta`, the flush timer |
| `OnSub`, `OnResume`, `OnGetThread` | `message`: a sub, `session.resume`, `thread.snapshot` |
| `Connect`, `Drop` | `WsHub.open` with `ws.onopen`; `ws.onclose` with `WsHub.close` |
| `OnReady`, `OnEvent`, `OnDelta` | `handleFrame` |
| `OnResumed`, `ResumeTimesOut` | the continuation of `Client.resume` and its timeout |
| `OnSnapshot`, `OpenThread`, `Subscribe` | `openThread` after and up to its await; the subscription effect |

Four constants choose the instance. `Known`: the threads the client knows to be
mid-turn, which it always subscribes to. `Sources`: whose events are committed;
`Env` stands for the null thread of project and lane events. `Window`: the replay
window. `Overlaps`: which of two overlaps the run allows, `"effect"` (the
subscription effect runs before the greeting is handled) and `"open"` (a thread is
opened that this socket is not subscribed to). Both are real; leaving one out says
what holds when it does not happen.

What is abstracted: event contents (a transcript is the set of its events; the
upserts of `onEvent` make a repeated event harmless to the transcript, which is
why order and repetition are asked of what App is *handed*); a turn's deltas are
numbered chunks of its thread, as a thread runs one turn at a time;
`thread.snapshot` is answered in one step; the drop is seen by both ends at once.
The re-subscriptions after `refresh` repeat the set of threads. Left out:
terminals, all other requests, revoked sockets, `reconnect()` on a live socket.

## The parts around the turns

Each of these modules follows its source from await to await, like `Turns`, and
is a system of its own; `MCParts` puts them into one run, choosing at the start
which of them moves (`kind`). It extends `AdapterParts` (the adapters), which
extends `DaemonParts` (sockets, text, lanes, set-up, endpoints, handoffs, JSON-RPC): those two have the parts with
theorems and a specification each, `AdapterSpec` and `DaemonSpec`, whose steps are
disjuncts of the steps of `MCParts`. At its end `DaemonParts` has the parts whose
theorems are about every choice of their constants, as instances with arguments:
`Check` (checkpoints), `Com` (new conversations), `CliSes` (CLI sessions), `Upd`
(updates), `Dlv` (delivery), `Pan` (panes) and `Wel` (the welcome screen); `MCParts`
gives them the arguments TLC checks.

**Adapters.** An adapter module keeps four variables: `host` (what the orchestrator
knows of the turns: `AdapterHost`), `session` (the adapter's own record), `calls`
(where its `sendTurn` and `interruptTurn` are suspended) and `proc` (the CLI and
its pipes). `AdapterHost` says when the orchestrator calls and what it does with
`turn.completed`, `error` and `session.exited`; it is a sketch of `Turns`, from the
other side. The CLI is external and may answer, refuse, ask, work on, be slow and
exit; the constants `ErrorTurns`, `RefuseTurns`, `AskTurns`, `MayExit`, `SlowCli`
choose which.

| module | code | what is followed |
| --- | --- | --- |
| `CodexTurn` | `codex.ts`, `codex/normalize.ts` | boot, `turn/start` and its answer, the native turn id, `turn/interrupt`, notifications, approvals cancelled at a Stop, exit, `stopSession` |
| `ClaudeTurn` | `claude.ts` | a session with a sequence of processes; `set_model` and mode over the control channel with its timeout; interrupt, the interrupt timer, kill; the two awaits of `watchExit` |
| `AcpTurn` | `acp/session.ts`, `acp/transport.ts`, `grok.ts` | opening, `session/prompt`, cancel in its two steps (`AcpStop` declines what is asked, `Cancel` tells the agent), permission requests, exit, and the fall back to a process per turn, which it takes from `StreamTurn` |
| `StreamTurn` | `shared/streamPump.ts`, `cursor.ts`, `opencode.ts` | one process per turn, its pump with the reads that throw (`PumpFails`), `interruptProcess` |
| `OpenaiTurn` | `openaiCompat.ts` | one request per turn, abort, and the conversation the adapter keeps |
| `MockTurn` | `mock.ts` | the test double: its timers, approvals and usage limit |
| `JsonRpc` | `jsonrpc/stdio.ts` | requests, answers, `close`, `watchExit` |

**CliSessions.** The per-turn adapters and the orchestrator together, for one thread:
`starts` the suspended `ensureSession` calls, `map` the orchestrator's session,
`sess` the adapters' records with the mode and the conversation id each spawns
with, `proc` the processes. A mode change, a drop and a late line of a stopped
process meet starts and turns.

**Normalizers.** One agent at a time prints the lines it can print (external) and
`norm` is the state its normalizer keeps between them, `out` the events it has made.
Each format has an operator that maps a line to events; texts are pieces of one
answer, a tool call is its name.

**Providers.** `file` is the list of endpoints, `reg` the adapters made from it,
`sess` the sessions that hold one of them, `known` what the window has been told.
**Updates** has the daemon's `cache`, the detect calls under way, and the window's
list and dismissals; releases are numbers with a pre-release mark.

**SessionPool.** `threads` and `pool` are the log's and the orchestrator's view,
`sess` and `registry` the processes and what the adapter knows under each thread;
`calls` holds every suspended start, eviction, sweep, removal and `stopSession`.
`Open` is `thread.snapshot`, which prewarms. A turn is a flag here.

**Lanes.** `lane` is the log, `tree`, `ahead`, `branches` the disk, `calls` the
daemon's memory, which `Crash` empties. `createLane` is `Create`, `Prune`,
`AllocateBranch`, `CreateWorktree`, `Created`; `archiveLane` is `Archive`,
`CaptureBeforeArchive`, `StopBound`, `RemoveWorktree`, `Archived`; `Restart` is
`reconcileAfterCrash`. All lanes want the same branch name; a tree says which branch
it has checked out, and a branch can be deleted only once its tree has left it.

**LaneSetup.** `files` is the project's directory as `copyCarryOver` meets it (absent,
a file, too large, a directory, a link), `lane` the log with the entry the copy has
reached, `tree` what the lane has got. Files change, other programs listen on ports
and archives come between any two steps. **Delivery** follows commit, push and pull
request from the pane's status through the orchestrator's check to git, with the
tree, the index, the head and the remote; the agent edits between any two steps.

**Transcript.** `turn[t].seen` is what was shown while the turn ran, `stored` what
the log has; `live` holds `partialByTurn`, `committedAssistant` and
`pendingApprovals`. An agent that was stopped may go on talking.

**Checkpoints.** The content of a file is the number of the edit that made it;
`refs` are the three refs of a thread; the actions are the captures of `sendTurn`
and `finalizeCheckpoints`, and the three steps of a restore.

**Handoff.** `call` follows `handoff` and `askSourceForHandoffNote`, `waiting` is
`turnWaiters`; the turns of the source thread are sketched.

**Packets.** A text is its length and the requests of the user it tells of. `threads`
is a chain of handed-off threads, each with the seed it began with.

**Patches.** A patch grows line by line from its hunk header, `truth` is what the
lines did to the file; the marks of `changedRanges.ts`, the counts and the folds of
`DiffHunkView.tsx` are operators over it.

**ThreadView.** `view` is App's `activeTurn`, queued list and approval, `down` and
`up` the socket, which stays up here; the daemon is the commands of one thread in
the order the code commits and answers. It complements `Feed`, which has drops but
only the transcript.

**Lists**, **Panes**, **Compose** and **Welcome** are the rest of what a window keeps:
its rows of threads against the log, over a socket with its two channels; the open
thread's panel, editor and diff with the requests they have under way (`haste` is
history: an answer or a save the user did not wait for); the draft of a new
conversation with its images and the awaited chain of `createAndSend`; the welcome
screen, the dialog that adds projects, and the calls of both as the daemon and git
carry them out (`late`, `early`, `hasty` are history of the same sort).

**Sockets.** `link`, `device` are the tables of the pairing store, `open` the
sockets the daemon has, `client` the windows on the other side, `up` and `down`
the frames between them, `shell` the processes of the pty. A window opens a
terminal pane, which asks for a shell; the answer may find the pane closed, the
socket gone or the device revoked.

**Records.** `log` is the events table, `rows` the projections, `session` what the
daemon has in memory, `calls` its suspended starts, stops and the shutdown. Every
commit appends and projects in one transaction; `Rebuilt` is
`rebuildProjections` over the log as it stands, in batches, and `Restart` the
start of a daemon after a crash or a shutdown. `Foreign` is an event of a newer
version. `seen` is history: the threads whose provider was set during a start, or
that lost their session to the end of another process.

**Usage.** `file` is what the CLIs write (external), `cache` the parsed files
under their stat, `scan` a collection under way, `stats` the cached result per
range, `view` the settings page. Requests are numbers of one token, time is days.

**Activity.** `turns` and `messages` are the log by day; everything else is computed
from them as the code does. A turn and its message are committed together, a queued
one when it is started (`Send`). `truth` keeps the streak the other way, day by day.

**Desktop.** `app[a]` is where `bootstrap_daemon` of one launch is, `daemon[d]` one
daemon: booting, listening, stopping (`/health` still answers), closing (the port
is still taken), dead.

What is abstracted in these modules: the wording of texts and the content of files,
names, timestamps, paths, layout. Git, file systems, CLIs,
users and the operating system are external: their actions are what they can do at
that point, marked external in the map.

## The abstract specifications

`TurnPromise` is the client's view of one turn id: absent, queued, running,
ended, dropped, moving only forward. `Turns` implements it under the mapping
`Status`, which reads a turn's events the way a client does. Its two
consequences are the ones a user would complain about: a dropped message never
runs, and a turn that was reported over never comes back.

`AdapterPromise` is the orchestrator's view of one turn it hands to an adapter:
refused, or given and then reported over at most once. `Turns` assumes just this of
its adapters; the six adapter modules implement it (`KeepsPromise` of
`parts`). For codex a second report is folded into the first: a stopped turn whose
`turn/interrupt` is answered after its `turn/completed` is reported twice
(`settleTurn` has no guard), which the orchestrator ignores unless it is about the
turn that is active.

## The properties

| property | in words |
| --- | --- |
| `ActiveIsOpen` | the running turn of the thread was reported started and not over |
| `BusyHasWork` | a busy thread has a suspended call, the provider or a Stop behind it that will free it |
| `StoppingMatches` | the stopping mark is on the turn that holds the session, or on one that just let go |
| `QueuedInOnePlace` | a queued message is in exactly one queue or in the hands of exactly one Stop |
| `StopInv` | the inductive invariant behind `BusyHasWork` and `StopIsNotAFailure` |
| `StopIsNotAFailure` | an error event during a Stop does not fail the stopped turn |
| `StartsOnce` | only a turn that was at most queued is started |
| `EveryStartedTurnEnds` | liveness: a started turn gets its terminal event |
| `QueueKeepsMoving` | liveness: a queued message is started or dropped, if nobody presses Stop and no turn sent to a free session fails there |
| `KeepsPromise` | the refinement of `TurnPromise` |

| property of the feed | in words |
| --- | --- |
| `Current` | with nothing on its way, a loaded transcript is the whole history of its thread |
| `InOrderOnce` | App is handed the events of a thread in log order, each at most once |
| `OrderInv` | the inductive invariant behind `InOrderOnce`; in it, text streamed before an event was committed does not arrive behind it (`NoLateText`) |
| `CatchesUp` | liveness: a loaded transcript becomes and stays current |

| property of the parts | in words |
| --- | --- |
| `BusyWillFree` | a session that refuses turns as busy has something under way that will free it (codex, acp, and claude as long as the session has a process, see [below](#findings)); what an adapter believes is running, or has a call under way for, was given to it and is not over (all adapters) |
| `NobodyWaitsInVain` | a permission an agent waits for is still shown or its answer is on its way (codex, acp, mock); no caller waits for an answer the JSON-RPC client has forgotten or once the exit was seen, no handoff for a turn that ended by itself or without being listed to be told |
| `NoStrayProcess` | a process of a turn that runs is its session's current one, is being killed, or is one whose output could not be read, and then its turn was reported over (see [below](#findings)); a shell runs only for a pane of an open socket, or for one that will close it |
| `ConversationMakesSense` | the conversation repeated to an OpenAI-compatible endpoint has each question once and answers behind their questions |
| `KeepsPromise` | every adapter implements `AdapterPromise` |
| `RelaysTurn` | the events of a turn say its text once and whole, pair the start and the end of each tool call, hand a click on a permission to the option it was made on, and say why a turn failed |
| `ProvidersAgree` | endpoints: a session runs as it was saved, windows and adapters have the endpoints there are once edits have settled; per-turn CLIs: a process runs in the thread's mode and continues its conversation; a new thread: provider, model, mode and images are those that were chosen |
| `BranchesDistinct` | two lanes never have one branch checked out; the ports of settled lanes differ, a ready lane has what could be carried over and nothing that was denied, an archived one is gone |
| `NothingLostUnasked` | uncommitted changes and commits of a lane go only by a confirmed archive |
| `TranscriptKeeps` | the transcript of a stopped or completed turn has all that was shown of it; the packet of a handoff is bounded, tells the beginning, and leaves out only what came later and did not fit |
| `SettledTextStays` | a late message does not change the text of a settled turn |
| `AnsweredOnce` | an agent gets one answer to what it asked |
| `DiffShowsEdits` | the diff of a turn shows every file its agent edited; the marks beside a file are its changed lines, the counts are git's, and a fold hides no change |
| `WindowTellsTruth` | with nothing on its way: no approval and no waiting message that is none, the list of threads is the log's; what is called saved is on disk and a pane shows the thread that is open, for a user who waits; what is reported committed or pushed is; an update on offer is newer; a project is a whole folder, and the welcome screen waits only for calls of its own |
| `OnlyPairedConnect` | an open socket is this machine's or a paired device's; a link paired at most one device |
| `RecordsAgree` | a rebuild gives the rows back; a thread's native id is of its provider; a thread shown live has a session or a start behind it; a listed thread has its project |
| `UsageAddsUp` | every request on disk is counted once, caches included, compactions do not lose or double tokens, and the page shows the range that was picked last; streaks, shares and the grid agree with the log day by day |
| `GivenTurnEnds` | liveness: a turn an adapter took is reported over, unless its session is gone |
| `CallsReturn` | liveness: every JSON-RPC request is settled, a handoff returns whatever becomes of its note turn, a launch of the shell ends |
| `GoneIsReleased` | liveness: a deleted thread lets go of its session, for good |
| `PreparingSettles` | liveness: a lane does not stay preparing, crashes included |
| `OrphanStops` | liveness: a daemon whose shell is gone gives up the port |
| `RestoreKeeps`, `DestroyedIsSaved` | stated by the source's comments and docs, not kept: findings 4 and 5 |

## The runs

| run | instance | shows |
| --- | --- | --- |
| `turns_queue` | 3 turns, 1 session that may exit or be dropped, every turn stoppable, every dispatch may fail, 1 error event | the queue with one turn running and two behind it, under every order of completion, failure, Stop and dequeue |
| `turns_sessions` | 2 turns (one with images), 2 sessions | sessions that replace each other while sends and Stops hold the old one, and checkpoints that may throw; the inductive invariants of the proofs (`StopInv`, which contains `IInv`) |
| `turns_ends` | 3 turns (one with images, two refusable, one stoppable), 1 immortal session, 1 error, fairness | `EveryStartedTurnEnds`, `QueueKeepsMoving` |
| `feed_order` | 2 threads, opened at any time, none always subscribed, window 1, 4 events, 1 chunk per thread, 2 drops, 2 clicks | `InOrderOnce`, `OrderInv` with replays and snapshots mixed |
| `feed_catches_up` | 2 threads, always subscribed, 4 events, 2 drops, 2 clicks, window larger than every gap, fairness | `Current` and `CatchesUp` when every gap is replayed |
| `parts` | each part in turn; 2 turns per adapter with errors, refusals, one that asks, exits and a slow CLI | the safety properties of the parts |
| `parts_end` | each part with fairness; a CLI that keeps working | their liveness |
| `turns_stop_dispatch`, `feed_lost`, `transcript_lost`, `restore_loses`, `lane_unsaved` | smallest instances | findings 1 to 5 |

Why the bounds of the turns. Three turns are one running and a queue of two, enough for the
order of the queue, a drain that skips and a message dropped from behind another.
Two sessions are the current one and the one a suspended call still holds. A
second error event adds only repetition: each one clears the state the next
would need. A turn is stopped at most once, one prewarm and one `setProvider`
are in flight at a time: a second Stop of the same turn finds it no longer
active or repeats the marks it made; further prewarms only create further
sessions. All sends are distinct turns, as every send mints its id.

`QueueKeepsMoving` holds under restrictions, and they say something: the catch of a
direct send and the end of `interrupt` free the session without draining, so what
was queued behind them waits for the next turn that completes. The runs keep
exactly what the code does guarantee.

Why the bounds of the feed. The first event of each thread is its creation, so
four events leave two to be lost; two of them make a gap longer than a window of
one, and a gap with an inside. Two drops are a replay interrupted by a drop and
asked for again. Two clicks are one thread opened over another. Two threads are a
subscription that covers one and not the other. `Current` is checked with a window
that covers every gap: for a gap that is too old the cursor is reset to 0, which
also means "first connection", so with a second drop the next greeting asks for
nothing and the open transcript keeps its hole.

Why the bounds of the parts. Two turns per adapter are the one that is stopped,
fails or lingers and the one that starts on its remains; `MaxSpawns = 2` is a
process and its successor; `MaxCalls = 3` requests are an answered, a rejected and
a late one. The instance `switch` is `ClaudeTurn` with two permission modes and a
process that does not exit, the only one whose control requests are refused or late
in `parts`. Two lanes with a ceiling of one, four commands and one
crash are two concurrent creates, an archive and a turn in between (`parts_end`
has two commands: a create and an archive over a crash). The pool has two threads,
two providers, two sessions, a cap of one and two commands of the user
(`PoolCommands`), so that a delete meets a start, a prewarm with its eviction, or
the sweep; it is run for its liveness only. Transcripts have two turns of two
pieces (`Pieces`), one approval and one exit (`MaxExits`); `PerItem` is how many pieces one message of the agent repeats: 2 (one
message per turn) in `parts`, 1 in `transcript_lost`. Checkpoints have two threads and
one file edited twice (`check1`) or two files of which one is edited (`check2`), and `MaxRestores` 1 or, in `restore_loses`, 2. Two handoffs
(`Notes`; one in `parts_end`) and one turn of the user are a note that runs, one
that is queued behind it, and a turn that is neither. Two shells and two daemons
next to one started by hand are two launches that race for the port. A window has
two turns, one approval, one reopening, one click (`MaxClicks`) and at most two
frames under way when the daemon acts by itself (`MaxFrames`). Sockets have this
machine, a window on a phone and another device, one link, two shells, one drop and
two panes. Records have one thread, two providers, four commands, ten events of
which two cannot be read, batches of two and one restart: enough for a start that
crosses a switch and for a rebuild over a gap. Usage takes the files of one CLI at a
time (`use1` .. `use4`): one claude file under two ranges, two claude files (a resumed
session), two codex files (a fork), one grok file; two days, two to five lines.
Normalizers have nine formats, an answer of three pieces, two tool calls and one line
that comes again. Two endpoints, two edits, two turns and three detections are an
edit under a running turn beside a stale answer. Delivery has two clicks
and one file edited twice, committed and changed meanwhile (`delivery1`), or two files
of which one is edited (`delivery2`). Panes have
two threads, one file and four clicks (open, type, save, switch). Lists have two
threads, four events, three clicks and a drop. Per-turn CLIs are one that keeps its
mode in the command line and one that does not, with two turns, two sessions and one
change of mode (the theorem has any number). A patch has six lines, one line of context between
hunks and folds above two. `compose1` is one Send with four changes around it,
`compose2` two Sends and one image drop. The set-up has two lanes on one port and
two entries, one of them denied. Updates have three releases (one of them a
pre-release), two lookups and three clicks. Activity has five days under a range of
three, in weeks of two, and four turns: a streak that is broken, resumed or longer than
the range. Packets have three threads, two requests and a bound that two messages
exceed. The first run has one folder, three calls and five events: a clone, a folder
adopted beside it, and a dialog closed under them.

Deadlock is not checked: when every turn is over, the thread rests; so do the feed
and the parts once their bounds are used up.

Fairness. `Turns`: a suspended call resumes (promises of git, the file
system and adapters settle; the adapters bound their own waits with timeouts),
and a provider that accepted a turn ends it. Nothing is assumed about users,
errors, exits or prewarms. The liveness run uses a session that does not exit:
when the process of a running turn exits, the orchestrator commits only
`session.status`, so neither property holds then, and no comment claims it. The
weak fairness of `Resume` is on the disjunction of a call's continuations,
because which one is enabled depends on how the promise settles.

`Feed`: an open socket delivers (`Serve`, `Handle`), the flush timer fires, a
render is followed by its effects and a closed client reconnects, which
`scheduleReconnect` does without a limit of attempts. Drops, clicks and commits are
only possible, and bounded: a client whose socket drops for ever need not catch up.

The parts: promises settle, timers fire, polling loops come round, pipes deliver.
The adapters assume in addition that a CLI goes on with what it was given, that a
process of a turn exits of its own accord only while its output is read or it is being
killed (`CliLeaves`; one that writes to a pipe nobody reads may stay for ever), and that
the user answers what is asked; for this `parts_end` has a CLI that neither exits
nor hangs. `SessionPool` assumes the idle sweep, so `GoneIsReleased` needs
`IDLE_SESSION_STOP_MS > 0` (the default), and that turns end. `Lanes` assumes that a
daemon that died is started again, `Handoff` nothing of the agent, `Desktop`
nothing of users and nothing of a daemon that has not begun to listen.

## Findings

1. `turns_stop_dispatch`: `cancelledTurns.clear()` at the start of a turn
   forgets a Stop whose checkpoint is still running. The stopped turn, already
   reported interrupted, is then handed to the provider, which the comment at
   `orchestrator.ts:1492` says must not happen.
2. `feed_lost`: events without a thread reach every socket at once and move the
   cursor. One that arrives while a gap is being asked for hides the gap from the
   next resume if the socket drops before the replay: the open transcript then
   misses events for good.
3. `transcript_lost`: the first message of the agent settles the turn's text. Codex
   sends one message per item, so the text of a second item is shown and never
   stored, against the comment at `orchestrator.ts:1703`.
4. `restore_loses`: a restore keeps what it replaces under one ref per thread; a
   second restore overwrites it, and what the first one took away is gone, against
   the comment at `checkpoint/store.ts:244`.
5. `lane_unsaved`: an archive removes a lane although its capture failed or the
   agent wrote on behind it, against `docs/specs/worktrees.md:166` (W-5).

Met on the way, and left out of the runs that would fail for them:

* a claude process that exits while `sendTurn` waits for the CLI to take a model or a
  mode leaves the session busy: the request is rejected, the turn becomes the active
  one (`claude.ts:298`) and its message is written to nobody. Later turns are refused
  until the user stops that one, against the comment at `claude.ts:406` ("let the next
  turn respawn"). An interrupt that times out after the result of the stopped turn came
  has the same effect: it kills the process the next turn runs in (`claude.ts:456`).
  Found when `BusyWillFree` was to be proved of claude without the condition that there
  is a process;
* a throw while the output of a per-turn CLI is read, normalized or emitted
  (`streamPump.ts:106`, `opencode.ts:156`, `cursor.ts:245`; a line `null` is enough)
  ends the turn and clears the session's process, which nothing kills: it is nobody's
  from then on, and the next turn starts another one beside it. `PumpFails` does this,
  and `NoStrayProcess` excepts exactly these processes: without the exception TLC finds
  one at once;
* what `captureCheckpoint` throws is caught by nothing that frees the session, so
  the thread stays busy with no turn behind it (`LostTurns`; only `turns_sessions`
  and the proofs include such turns);
* when App's subscription effect runs before the greeting is handled, the hub pushes
  an event live and then replays it (`Overlaps`, `"effect"`);
* a prepared lane is set ready even if it was archived meanwhile, concurrent creates
  pass the ceiling of active lanes, concurrent prewarms pass the cap of warm
  processes, and a hidden process may run beside the mapped one;
* a provider set while a session of another one starts gets that one's native id
  (`seen.crossed`); a resume that fails never clears the native id;
* a batch of the rebuild with nothing readable ends it (`store/log.ts:432`);
* `closeForThread` is never called, so a shell outlives its thread until
  its pane or socket goes;
* a launch of the shell may attach to a daemon that is shutting down, or take
  another launch's daemon for its own;
* reopening a thread hides an approval that is still asked for, and a `turn.send`
  answered after its turn ended marks that turn active again in the window;
* opencode starts a tool with every pending or running update, and may finish one
  that never started (`normalize.ts` of opencode), which doubles work rows;
* text codex or claude prints for a turn stopped on this side may be charged to the
  next one;
* editing any custom endpoint makes all custom adapters anew: sends on their live
  sessions fail until these are reaped, and Stop does not reach a running stream;
  overlapping `provider.detect` answers may leave an old list;
* a mode set while `ensureSession` awaits `detect` is lost (`orchestrator.ts:1313`,
  against the comment at 500); switching it under a running turn closes the old
  session late, and its `sessions.delete(threadId)` removes the newer one; the
  conversation of a running turn that is dropped is not saved, and a late line of a
  stopped process may overwrite the next conversation's id;
* `commitAll` with paths also commits what was staged before; `git()` trims its
  output, so the first path of a porcelain status loses its first character
  (`worktree.ts:54`); a commit of everything ticked names no paths and takes files
  edited after the list was read; `openPr` does not ask for a running turn;
* late answers of diffs, files and lists are applied after a thread switch, so the
  editor can save one thread's text into another's file; text typed during a save is
  marked saved (`FilePane.tsx:103`, against `docs/design/components.md:99`); marks
  that arrive re-read the file and overwrite what was typed;
* windows ignore `lane.status` (`docs/specs/worktrees.md:84`), do not see the threads
  other windows create until they refresh, and may show a thread running or listed
  for good when its end or deletion falls between a refresh and a subscription;
* an emptied file gets no deletion marks (`+0,0`), content lines that begin with `++`
  or `--` are not counted, and with a blank not drawn;
* the model of a draft outlives its provider when the effect moves the provider;
  overlapping image drops pass the limit of eight, and the Send that is then refused
  loses text and images; images of a message that is queued because a turn began
  meanwhile are dropped (`orchestrator.ts:1418`, against the comment at 1406);
* the limit on carried-over bytes is measured of plain files only, `./node_modules`
  passes the deny list, and a set-up that ends after an archive makes the lane's
  directory again and marks it ready;
* a failed lookup renews the cache for twelve hours, a package installed after it is
  not looked up until it expires, and a pre-release is not followed by its release;
* the share card calls the turns of the last 371 days "lifetime turns", while the
  agents' shares count the whole log; a streak longer than the range shrinks by one at
  midnight until the first turn of the day;
* the transcript of a handoff keeps the oldest messages and stops at the first that
  does not fit, so "continue the user's last request" may be without that request,
  and a thread seeded by a packet near the bound hands off an empty transcript; what
  was asked while the note was being written is in neither;
* the last step of the welcome screen is never reached on a first run, as the screen
  goes when its project is listed (`LastStepIsReplay` states it), and nothing then
  marks the user as onboarded; Enter and native drops do not wait for what is under
  way; a folder can be adopted while it is being cloned and vanish with a failed
  clone; the answer to a closed dialog closes the newer one.

## The proofs

### The turns

`TurnsProofs` proves, for every set of turns and sessions and every choice of the
other constants:

* `Spec => []TypeOK`;
* `Spec => []IInv`, hence `StoppingMatches` and `QueuedInOnePlace`, and
  `ActiveIsOpen` when no checkpoint throws (`LostTurns = {}`; with a throwing
  checkpoint a queued turn is reported failed and stays active);
* `Spec => StartsOnce`;
* `Spec => KeepsPromise`: the refinement.

They rest on the module's three assumptions only: the null values are not
elements of their sets, the parameter sets are subsets, the bound is a number.

The argument. None of the three safety invariants is inductive alone.
`ActiveIsOpen` could be broken by an end event committed for the active turn
while a different session is freed; that cannot happen because the active turn
was started *on that session* (`PointersAreStarted`), and whoever ends a turn
frees the session the turn holds (`at`). `QueuedInOnePlace` could be broken by an
end event for a queued message; that cannot happen because only started turns
are ended, and a turn in a queue has nothing but `turn.queued` in its log
(`LogMatchesSend`). A new session could bring an old record into the map; it
cannot because an object that was not created is blank (`SessionsExist`). The
inductive invariant `IInv` is the conjunction, and TLC checks it first (as a part
of `StopInv`, in `turns_sessions`).

The proof goes through the log: each action adds to a turn's events one fact
that its earlier events allow (`LogStep`). What depends on the log alone follows
once for all actions (`LogKeeps`); each conjunct has a lemma that says what a
step owes it (`LogMatchesSendKept`, `SessionsExistKept`, `PointersKept`,
`ActiveKept`, `QueueFrame`); each action then has a lemma that pays
(`StartKeeps`, `EnqueueKeeps`, `FreeingKeeps` for everything that frees a session
and may drain, `DequeueKeeps`, `InterruptKeeps`, `StopReturnsKeeps`,
`QuietKeeps` for the rest). The refinement follows from `LogStep` and
`LogMatchesSend` alone.

The second half of `TurnsProofs` proves `Spec => []StopInv`, hence `[]BusyHasWork` when no checkpoint
throws, and `Spec => StopIsNotAFailure`. Neither follows from `IInv`. `BusyHasWork`
lists everything that may free a busy thread, and some of it goes away while the
thread stays busy: the send of a running turn resolves, and from then on only the
provider is left. `WorkBehind` is the part that stays until the turn is over: a send
at its checkpoint, the provider's `handed`, or a Stop that waits.
`StopIsNotAFailure` depends on `onRuntimeEvent` seeing the stopping mark, so
`StopsMarked` says that a session that holds a stopped turn carries the mark and
`CancelledStopped` that only stopped turns are in a cancelled set. A step is judged by
what it does to the hold of a session on its turn (`HoldsMove`), and `Owed` lists what
each action then has to show.

### The feed

`FeedProofs` proves `Spec => []TypeOK` for the feed and, for every set of threads,
every window, every `Known` and the `"open"` overlap, when `Env` is not among the
`Sources` and the `"effect"` overlap is left out: `Spec => []OrderInv`, hence
`[]InOrderOnce`. The two conditions are needed: with the overlap
an event arrives live and again in the replay, and an event without a thread
reaches a socket in front of its resume.

The argument. `InOrderOnce` needs the events in the channel to ascend and to be
newer than what App was handed (`ChannelAscends`). A commit appends the newest
event, so only a replay could break it; a replay starts behind the cursor of the
resume, which covers what App was handed (`CursorCovers`), and joins a channel
without events, because nothing is pushed to a socket before its resume is served
(`NothingBeforeResume`): it is not subscribed until then, as the greeting sends the
resume in front of the subscriptions and nothing but requests for a thread goes in
front of the greeting's. `NoLateText` needs that events are stamped with no more
text than was streamed (`Stamped`) and that pending text is newer than every event
in the channel. One lemma per action (`CommitOrder`, `StreamOrder`, `TickOrder`,
`ServeOrder`, `HandleOrder`, `SocketOrder`, `ClientOrder`) shows that it preserves
the conjunction.

`Current` is proved when `Env` is not among the `Sources` and neither overlap happens
(a thread is opened once the socket follows the known threads), twice: of every
behaviour whose resumes are all young enough for the window (`FeedCurrentWithinWindow`:
`Spec /\ []WithinWindow => []Current`), and of every instance whose log fits in the
window (`FeedCurrent`). The first two conditions and the window are needed, as
`feed_lost` and the cursor that is reset to 0 show.

The argument. With nothing on its way a transcript can lack an event only if no frame
and no replay will bring it: `Coming` says that the event is in the channel or newer
than the cursor while the next replay is still ahead (`Behind`), and the invariant
`CurrentInv` that whatever a loaded transcript lacks is coming (`Shows`), as is
whatever a snapshot on its way does not hold (`Snaps`). A commit is pushed because a
socket that is not behind follows every known thread (`Opened`), which it does because
subscriptions name all of them or none, and none only before the client knows any
(`Sessions`). A replay brings everything past the cursor, because the cursor it was
asked for is still the client's (`Cursor`) and it is no reset (`Replays`, where the
window is needed); and the client asks for one, because a greeting never reads like a
first connection once there are threads (`Started`). One lemma per action and kind of
frame shows that the conjunction, with `OrderInv`, is kept. `CatchesUp` is checked only.

### The parts

`PartsProofs` proves fourteen properties of the specification that is model-checked.
A behaviour of `MCParts` in which a part of the daemon was chosen is a behaviour of
`DaemonSpec`, one in which an adapter was chosen is one of `AdapterSpec`, and one in
which a part with arguments (`Check`, `Com`, `CliSes`, `Upd`, `Dlv`, `Pan`, `Wel`) was
chosen is one of that instance; in every other behaviour the properties say nothing.
Three of the fourteen leave a part to TLC: `DiffShowsEdits` the patches as they are
drawn, `TranscriptKeeps` the packets of handoffs, `WindowTellsTruth` the thread view
and the list of threads. The work is in the four modules below it.

`DaemonProofs`, for any number of devices, links, windows, shells, panes, turns, pieces,
approvals, lanes, crashes, commands, endpoints, handoffs and requests, and any list of
files to carry over:

* `OnlyPairedConnect`. What `Redeem` does to the link and `Revoke` to the sockets is
  one step each; the invariant adds that a link that is not used paired nobody.
* `AnsweredOnce` and `SettledTextStays`. An approval that is pending was asked and has
  no answer and no call under way, and only one action makes it pending. The text of
  a turn is written by a message, which leaves a marked turn alone, and by a flush,
  which marks it; so a settled turn is marked (`StoppedIsMarked`).
* `TranscriptKeeps` of `Transcript` for agents that say a turn in one message
  (`PerItem = Pieces`; finding 3 is what happens otherwise). Until a turn is marked as
  settled, `partialByTurn` has all that was shown of it; once it is marked, all of that
  is stored, and while it runs on it has said everything (`KeepsTurn`).
* `NoStrayShell`, the shells in `NoStrayProcess`. The answer to `terminal.open` names no
  request: the window takes it for the oldest one it still waits for. So the
  invariant counts: a connected window has as many requests in its list as answers are
  on their way to it and requests on their way to the daemon (`DeviceFits`); a frame
  that is sent, taken or answered moves one of the two and the list together
  (`OpeningAppend`, `OpeningTail`). Hence an answer always finds its request, which
  says what becomes of the shell: shown, closed again by a frame that is sent in the
  same step, or given up (`Tied`). A socket that goes takes its shells along, and a
  device that comes back is on a socket that has carried no frame yet.
* `NoStrayStream`, the streams in it: a turn has one stream, none before it is
  dispatched, and a session that is idle has forgotten its turn, so a stream of an
  earlier turn is nobody's; all adapters in reach are older than the next edit
  (`EndsInv`).
* `BranchesDistinct` of `Lanes`: each worktree is on a branch that exists, and two on
  different ones. A new worktree takes a name that no branch has at that moment, and
  a branch is deleted only when its tree is gone. The attempt to prove this found an
  error of the model: it let an archive delete a branch that the lane's own
  registered worktree still had checked out, which git refuses.
  `NothingLostUnasked`: of all actions only the removal destroys, and what it was
  asked with decides whether it may.
* `BranchesDistinct` of `LaneSetup`: which copies a lane must have depends on how far
  its preparation has come (`PreparedInOrder`: everything in front of the entry that
  is next is copied or skipped); two holders of a port (`Holders`) were created beside
  each other or one was archived while it was prepared (`PortsApart`).

* `ProvidersAgree` of `Providers`: a turn is handed to an endpoint as it was saved
  then, as every edit makes all adapters anew; the newest list a window asked for is on
  its way or was answered, and unless an edit is being saved it has the endpoints there
  are (`EndsListed`).
* `DiffShowsEdits` of `Checkpoints`, for any threads, files, edits and restores: a
  capture in front of a turn has nothing that turn wrote (`BeforeIsBefore`), since its
  agent has not begun and edits are numbered as they are made (`CheckTyped`).
* `MessagesAsChosen` of `Compose`, the new conversations in `ProvidersAgree`, for any
  providers, Sends and limits: a row has what the requests answered so far have set
  (`RowIsSet`), the images in the box and the room of the drop that is read fit
  together (`RoomIsKept`), and a window's turn is of the thread it shows.
* `SessionsFit` of `CliSessions`, the CLIs in it, for any turns, sessions, changes of
  mode and CLIs: the mapped session is the adapter's and has the thread's mode
  (`CliLinked`), a turn has no process before it is dispatched and the flags of its
  thread's mode from then on (`CliRun`), a turn whose session is being started is not
  sent (`CliAwaited`), and unless two processes ran beside each other or a stopped one
  went on talking there is one conversation that the row, the session and the process
  being read all name (`CliOne`). The attempt found an error of the model, which
  could send a turn whose Send still awaited its session, and a case the property had
  not excepted: a turn that was being sent when its session was dropped is dispatched
  into the session that is being closed, which after a second change of mode is not
  the thread's (`dropped`).
* `CallersAnswered`, the callers in `NobodyWaitsInVain`. A request that waits is in
  `pending`, and its number is below the next one, so no later request can take its
  place; a client whose exit was seen is closed and refuses (`RpcInv`). A handoff that
  waits is listed in `turnWaiters` and its turn is not over: it is listed only while
  its turn is the session's active one, which has not ended, and every end wakes it
  (`NoteInv`, which also says that a queue holds each of its turns once and only
  queued ones, so that a drain never starts a turn that has been over).

`AdapterProofs`, for any number of turns, processes, modes and models:

* `KeepsPromise`, the refinement of `AdapterPromise` by all six adapters. With
  `Forwards` a step moves the lives of turns along the promise or not at all. What an
  adapter needs for that is that it only ever reports the end of a turn it was given
  and that is not over. For the mock, the per-turn adapters and openai this is
  `RunningIsGiven` of the turn the session runs; for acp the same on both transports,
  with print mode taken from `StreamTurn`, whose proof is used through the instance
  `PrintMode`; for claude it must also cover sends that wait on the control channel
  and the requests in flight that will wake them (`InFlight`: one request per turn,
  and its send is still waiting); for codex it is `CallsAreGiven`, of the turn
  of the normalizer, of the orchestrator's active turn and of every suspended call,
  and a second report is folded. `claude` and `switch` are one module under
  two choices of constants and share one proof (`SameAdapter`).
* `ConversationMakesSense` of the openai-compatible adapter, from the same invariant:
  every question is of a turn that was given, so a new one is not there yet.

`AdapterLives`, on top of it:

* `BusyWillFree`. `RunningIsGiven` and `CallsAreGiven` are the invariants above; the
  rest says of each adapter with a process of its own where the turn it believes is
  running can be. For codex (`CodexFrees`) the turn of the normalizer is still being
  started, is running, or has its completion in the pipe; this holds because the
  completion of a turn is always behind the answer that said it started
  (`StartsEnd`). For acp (`PromptIs`) exactly one of these holds: the prompt is to be
  read, is being worked on, or is answered. For claude (`Lively`) the current process
  has a user's message to read, runs one, has a result to be read, or its exit is
  still to be reported; a result that is read leaves the session without an active
  turn. Lemmas about pipes (`Holds`, `Sole`, `Never`, `Followed`: what an append, a
  read or a removal does to them) carry all three.
* `AgentsAnswered`, the agents in `NobodyWaitsInVain`: a permission that is asked for is
  on its way to the user, shown, or its answer is on its way back, also when a Stop,
  the end of the turn or a restart answers it (`CodexAsks`, `AskIs`, `MockAsks`).

And again in `AdapterProofs`:

* `NoStrayTurn`, the processes of turns in `NoStrayProcess`: a process lives as the one
  its session points at, as one that a Stop has in hand until it is dead, or as one
  whose output could not be read and whose turn was reported over, which nothing takes
  back (`StreamStray`, `OrphansStay`); an acp session that has not fallen back to print mode has no process
  of a turn at all (`AcpStray`).

`WindowProofs`, for any packages, files, threads, folders, clicks and calls; these are
`WindowTellsTruth` but for the thread view and the list of threads:

* `UpdatesAreTrue`. Versions read from npm or from the file have come out (`CameOut`); what
  a request answers is newer than what it saw installed and leaves nothing out
  (`AnswersAreNewer`, `AnswersAreWhole`); and the request a window waits for is of this
  connection and saw what is installed, but for what was changed since it asked
  (`AskedSees`). A greater version string is a later release only if releases are
  numbered upwards, which is assumed (`InOrder`); `NewerIsLater` is that step.
* `DeliveredIsThere`. What is edited, staged, committed and on the remote contain each
  other in this order (`InTurn`) and nothing is taken back (`Grew`), so what a call
  has found at one stage still holds after the next await (`CallIsSo`).
* `PanesTellTruth`. As long as no thread was left in haste, everything shown or asked for
  is of the open thread (`AllOfOpen`); as long as the user did nothing the property
  excepts, a text is being saved or a file is being read but not both, and what was
  answered and not yet read is what the disk has (`EditorIsSaved`).
* `WelcomeIsTrue`. How far a call may have come, and what it has left behind (`WelFits`); a
  folder is being cloned by one call at most, and one clone at most made a project of it
  (`ClonesOnce`); the calls of the screen that is there: none when it is away, one when
  the user waits (`ScreenFits`).

The invariants are checked by TLC before they are proved: `TypeOK` of each module,
`RunningIsGiven`, `CallsAreGiven` and what will free a session (in `BusyWillFree`), `LanesAreGiven`,
`StoppedIsMarked` (in `TypeOK` of the parts) and the rest in `parts`.

Assumptions: `NoTurnIsNoTurn` (null is no turn) and `TurnsAreNoPhases` (a turn id is
none of the three words a call record uses for its phases: ids are random), `TextBounds`,
`SetupBounds`, `SocketBounds`, `EndpointBounds`, `ProcessBounds` and `CallBounds` (the
bounds are numbers, a claude session may have at least one process, the entries are a
list of strings, no shell is the answer that nothing was started, this machine is a
device, every thread has an endpoint it is at home on, and the turns of handoffs are
not the user's). `UpdatesTrue` and its lemmas also assume `InOrder` of the releases.

### What is only model-checked

Liveness (`EveryStartedTurnEnds`, `QueueKeepsMoving`, `CatchesUp` and the properties
of `parts_end`) is out of the prover's reach (fairness and ENABLED). `RecordsAgree`,
`UsageAddsUp` and `RelaysTurn`, the patches in `DiffShowsEdits`, the packets in
`TranscriptKeeps` and the thread view and lists in `WindowTellsTruth` compare a computed result with what it was computed from
(folds over a log, a file or a patch): that needs induction over data, which the
installed provers cannot do. `TypeOK` of `MCParts` is proved of the parts with theorems,
as a conjunct of their invariants, and not of the others. Without the conditions its
theorems name, `Current` is false (findings 2) or, for the overlap of an effect,
left to TLC.

## Plan

Done: the turns, the feed, the adapters, the pool, lanes, transcripts, checkpoints,
handoffs with their packets, sockets, records, usage and activity, formats, endpoints,
delivery, the window with its lists, panes, composer and first run, the desktop
shell; the theorems of the turns, of the feed's order, of sockets, text, lanes and
their set-up, that the adapters keep their promise, that no process, stream or
shell is left behind, that busy sessions will be free and that nobody waits in vain,
that transcripts are kept and current, that diffs show the edits, that providers,
windows, sessions and new threads agree, and that panes, updates, deliveries and the
welcome screen tell the truth. Every module is written to
be proved about (constants with assumptions, one action per operation, named
invariants, no RECURSIVE operator).
Left, in this order:

1. The parts of `WindowTellsTruth` and `RecordsAgree` that need no induction over data
   (the thread view's approvals and waiting messages, native ids, live threads).
2. The coalescing of captures; removals of projects in `Welcome`; the order of the
   daemon's shutdown beyond its sessions.

## Not modelled

* Of the event log the rows of provider sessions and skills, and migrations; of
  pairing the checks of one request (stateless) and the names of the network.
* Process spawning: control of operating-system processes; what callers see of it is in
  the adapters. Of the files and the catalog what is a query without state of its own:
  listing, searching, the checks of paths, the model lists, the toolchain.
* Of the usage statistics the homes kept in sqlite (opencode, cursor).
* Of the web interface rendering, shortcuts, themes, and settings that change nothing
  but what is drawn; of the desktop shell the updater, menus and windows; of the
  orchestrator renames, skills and settings, which commit one event each.
