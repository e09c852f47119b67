------------------------------- MODULE MCParts -------------------------------
(***************************************************************************)
(* The parts around the turn lifecycle on small sets, in one run: the      *)
(* adapters, the session pool, lanes, transcript, checkpoints, handoff,    *)
(* the desktop shell, a window's view of a thread, its list and its panes, *)
(* sockets, records, usage, output formats, endpoints, delivery by git,    *)
(* the sessions of CLIs that run once per turn, diffs as they are drawn, a *)
(* new conversation, the set-up of a lane, the notice of updates, the      *)
(* activity grid, the packets of handoffs and the first run.               *)
(*                                                                         *)
(* DaemonParts and AdapterParts have the parts with a specification of     *)
(* their own, and those that take arguments; they are joined here.         *)
(***************************************************************************)
EXTENDS AdapterParts

CONSTANTS
  t1, t2, Kinds, PoolCommands, MaxRestores, MaxClicks

Two  == {t1, t2}
One  == {t1}
None == {}
AllOnE == [t \in {"a"} |-> "e"]
CarryOver == <<"denied", "plain">>

(* What the parts of DaemonParts that take arguments are given: checkpoints *)
(* and git one file edited twice or an edit among two, new conversations    *)
(* one Send with many choices around it or two Sends beside one another,    *)
(* updates a release, the candidate of the next one and that one.           *)
TwoThreads  == {"a", "b"}
OneFile     == {"f"}
TwoFiles    == {"f", "g"}
OneFolder   == {"f"}
TwoKinds    == {"p", "q"}
OneSend     == {"s1"}
TwoSends    == {"s1", "s2"}
TwoTurns    == {"t1", "t2"}
TwoSessions == {"s1", "s2"}
TwoClis     == {"gemini", "cursor"}
OnePackage  == {"p"}
Release(a, b, pre) == [core |-> <<a, b>>, pre |-> pre]
FirstReleases == <<Release(1, 9, FALSE), Release(1, 10, TRUE), Release(1, 10, FALSE)>>

Pool == INSTANCE SessionPool WITH
  threads <- x1, pool <- x2, sess <- x3, registry <- x4, calls <- x5,
  Threads <- {"a", "b"}, Providers <- {"p", "q"}, NoProvider <- "none",
  Sessions <- {"s1", "s2"}, NoSession <- "none", MaxWarm <- 1, MaxCommands <- PoolCommands

AppIds == {"a", "b"}
DaemonIds == {"d", "e", "old"}
Shell == INSTANCE Desktop WITH
  app <- x1, daemon <- x2, Apps <- AppIds, Daemons <- DaemonIds, Old <- {"old"},
  NoApp <- "none", NoDaemon <- "none"

View == INSTANCE ThreadView WITH
  daemon <- x1, down <- x2, up <- x3, view <- x4, used <- x5,
  Approvals <- {"a1"}, NoApproval <- "none", MaxFrames <- 2, MaxOpens <- 1

Rec == INSTANCE Records WITH
  log <- x1, rows <- x2, session <- x3, calls <- x4, daemon <- x5, seen <- x6,
  Threads <- {"a"}, Providers <- {"x", "y"}, First <- "x", Null <- "null", Batch <- 2,
  MaxEvents <- 10, MaxForeign <- 2, MaxRestarts <- 1, MaxCommands <- 4

(* The files of one CLI at a time; two ranges on a file that grows.         *)
Use1 == INSTANCE Usage WITH
  today <- x1, file <- x2, cache <- x3, scan <- x4, stats <- x5, view <- x6,
  ClaudeFiles <- {"c"}, CodexFiles <- {}, GrokFiles <- {}, Ranges <- {1, 2}, Slack <- 0, MaxDay <- 2,
  MaxLines <- 2, MaxPicks <- 2
Use2 == INSTANCE Usage WITH
  today <- x1, file <- x2, cache <- x3, scan <- x4, stats <- x5, view <- x6,
  ClaudeFiles <- {"c", "d"}, CodexFiles <- {}, GrokFiles <- {}, Ranges <- {2}, Slack <- 0, MaxDay <- 2,
  MaxLines <- 3, MaxPicks <- 1
Use3 == INSTANCE Usage WITH
  today <- x1, file <- x2, cache <- x3, scan <- x4, stats <- x5, view <- x6,
  ClaudeFiles <- {}, CodexFiles <- {"x", "y"}, GrokFiles <- {}, Ranges <- {2}, Slack <- 0, MaxDay <- 2,
  MaxLines <- 4, MaxPicks <- 1
Use4 == INSTANCE Usage WITH
  today <- x1, file <- x2, cache <- x3, scan <- x4, stats <- x5, view <- x6,
  ClaudeFiles <- {}, CodexFiles <- {}, GrokFiles <- {"g"}, Ranges <- {2}, Slack <- 0, MaxDay <- 2,
  MaxLines <- 5, MaxPicks <- 1

RelayAgents ==
  {"claude", "grok", "cursor", "opencode", "codex", "acp", "gemini", "copilot", "antigravity"}
Relay == INSTANCE Normalizers WITH
  agent <- x1, norm <- x2, out <- x3, Agents <- RelayAgents, Tools <- {"c1", "c2"},
  MaxPieces <- 3, MaxAgain <- 1

Patch == INSTANCE Patches WITH
  patch <- x1, at <- x2, truth <- x3, MaxLines <- 6, MaxGap <- 1, Keep <- 1, FoldAbove <- 2


Act == INSTANCE Activity WITH
  today <- x1, turns <- x2, messages <- x3, truth <- x4,
  Agents <- {"p", "q"}, RangeDays <- 3, Week <- 2, ShareWeeks <- 1, First <- 1,
  MaxDay <- 4, MaxTurns <- 4

Pack == INSTANCE Packets WITH
  threads <- x1, asked <- x2, ask <- x3, MaxChars <- 7, Heading <- 1, Wording <- 1,
  MaxFiles <- 1, MaxTouched <- 2, MaxText <- 3, MaxRequests <- 2, MaxThreads <- 3

List == INSTANCE Lists WITH
  log <- x1, sock <- x2, up <- x3, down <- x4, win <- x5, deleting <- x6, count <- x7,
  Threads <- {"a", "b"}, First <- "a", MaxEvents <- 4, MaxClicks <- 3, MaxDrops <- 1

----------------------------------------------------------------------------
Init ==
  \/ DaemonInit
  \/ AdapterInit
  \/ Is("pool")   /\ Pool!Init   /\ Free6
  \/ Is("check1") /\ Check(TwoThreads, OneFile, 2, MaxRestores)!Init /\ x7 = 0
  \/ Is("check2") /\ Check(TwoThreads, TwoFiles, 1, MaxRestores)!Init /\ x7 = 0
  \/ Is("shell")  /\ Shell!Init  /\ Free3
  \/ Is("view")   /\ View!Init   /\ Free6
  \/ Is("records") /\ Rec!Init  /\ x7 = 0
  \/ Is("use1")   /\ Use1!Init   /\ x7 = 0
  \/ Is("use2")   /\ Use2!Init   /\ x7 = 0
  \/ Is("use3")   /\ Use3!Init   /\ x7 = 0
  \/ Is("use4")   /\ Use4!Init   /\ x7 = 0
  \/ Is("relay")  /\ Relay!Init  /\ Free4
  \/ Is("delivery1") /\ Dlv(OneFile, 2, 2)!Init
  \/ Is("delivery2") /\ Dlv(TwoFiles, 1, 2)!Init
  \/ Is("panes")  /\ Pan(TwoThreads, "a", OneFile, 1, 4)!Init
  \/ Is("lists")  /\ List!Init
  \/ Is("clis")   /\ CliSes(TwoTurns, TwoSessions, "none", 1, TwoClis)!Init
  \/ Is("patches") /\ Patch!Init /\ Free4
  \/ Is("compose1") /\ Com(TwoKinds, "p", OneSend, 2, 2, 0, 4)!Init
  \/ Is("compose2") /\ Com(TwoKinds, "p", TwoSends, 2, 2, 1, 1)!Init
  \/ Is("updates") /\ Upd(OnePackage, FirstReleases, 1, 2, 2, 3)!Init /\ Free6
  \/ Is("activity") /\ Act!Init  /\ Free5
  \/ Is("packets") /\ Pack!Init  /\ Free4
  \/ Is("welcome") /\ Wel(OneFolder, 3, 5)!Init /\ x7 = 0

ChosenInit == kind \in Kinds /\ Init

Next ==
  \/ DaemonNext
  \/ AdapterNext
  \/ Of("pool", From6)   /\ Pool!Next
  \/ Of("check1", x7)    /\ Check(TwoThreads, OneFile, 2, MaxRestores)!Next
  \/ Of("check2", x7)    /\ Check(TwoThreads, TwoFiles, 1, MaxRestores)!Next
  \/ Of("shell", From3)  /\ Shell!Next
  \/ Of("view", From6)   /\ View!Next
  \/ Of("records", x7)   /\ Rec!Next
  \/ Of("use1", x7)      /\ Use1!Next
  \/ Of("use2", x7)      /\ Use2!Next
  \/ Of("use3", x7)      /\ Use3!Next
  \/ Of("use4", x7)      /\ Use4!Next
  \/ Of("relay", From4)  /\ Relay!Next
  \/ Of("delivery1", <<>>) /\ Dlv(OneFile, 2, 2)!Next
  \/ Of("delivery2", <<>>) /\ Dlv(TwoFiles, 1, 2)!Next
  \/ Of("panes", <<>>)  /\ Pan(TwoThreads, "a", OneFile, 1, 4)!Next
  \/ Of("lists", <<>>)  /\ List!Next
  \/ Of("clis", <<>>)   /\ CliSes(TwoTurns, TwoSessions, "none", 1, TwoClis)!Next
  \/ Of("patches", From4) /\ Patch!Next
  \/ Of("compose1", <<>>) /\ Com(TwoKinds, "p", OneSend, 2, 2, 0, 4)!Next
  \/ Of("compose2", <<>>) /\ Com(TwoKinds, "p", TwoSends, 2, 2, 1, 1)!Next
  \/ Of("updates", From6) /\ Upd(OnePackage, FirstReleases, 1, 2, 2, 3)!Next
  \/ Of("activity", From5) /\ Act!Next
  \/ Of("packets", From4) /\ Pack!Next
  \/ Of("welcome", x7) /\ Wel(OneFolder, 3, 5)!Next

Spec == ChosenInit /\ [][Next]_vars

(* The fairness each module states, of the part that was chosen.            *)
Does(k, rest, A) == Of(k, rest) /\ A

FairSpec ==
  /\ Spec
  /\ WF_vars(Does("codex", From5, Codex!Adapter)) /\ WF_vars(Does("codex", From5, Codex!Cli))
  /\ WF_vars(Does("codex", From5, \E n \in Turns : Codex!RespondToApproval(n)))
  /\ WF_vars(Does("claude", From5, Claude!Adapter)) /\ WF_vars(Does("claude", From5, Claude!Cli))
  /\ WF_vars(Does("switch", From5, Switch!Adapter)) /\ WF_vars(Does("switch", From5, Switch!Cli))
  /\ WF_vars(Does("acp", From6, Acp!Open)) /\ WF_vars(Does("acp", From6, Acp!Inbound))
  /\ WF_vars(Does("acp", From6, Acp!AgentWorks /\ UNCHANGED <<x1, x2, x3, x4>>))
  /\ WF_vars(Does("acp", From6, \E n \in Turns : Acp!RespondToApproval(n)))
  /\ \A t \in Turns :
       /\ WF_vars(Does("acp", From6, Acp!Cancel(t)))
       /\ WF_vars(Does("stream", From5, Stream!PumpLine(t)))
       /\ WF_vars(Does("stream", From5, Stream!PumpEnds(t)))
       /\ WF_vars(Does("stream", From5, Stream!StopKilled(t)))
       /\ WF_vars(Does("stream", From5, Stream!CliLeaves(t)))
       /\ WF_vars(Does("acp", From5, Stream!PumpLine(t)))
       /\ WF_vars(Does("acp", From5, Stream!PumpEnds(t)))
       /\ WF_vars(Does("acp", From5, Stream!StopKilled(t)))
       /\ WF_vars(Does("acp", From5, Stream!CliLeaves(t)))
  /\ WF_vars(Does("openai", From5, Openai!Request))
  /\ WF_vars(Does("mock", From5, Mock!Adapter))
  /\ WF_vars(Does("mock", From5, Mock!RespondToApproval))
  /\ WF_vars(Does("rpc", <<x1, From5>>, Rpc!Dispatch))
  /\ WF_vars(Does("rpc", <<x1, From5>>, Rpc!WatchExit))
  /\ WF_vars(Does("rpc", <<x1, From5>>, Rpc!Terminated))
  /\ WF_vars(Does("rpc", <<x1, From5>>, Rpc!Answer))
  /\ WF_vars(Does("rpc", <<x1, From5>>, x2.closing /\ Rpc!Exit))
  /\ WF_vars(Does("pool", From6, Pool!Start)) /\ WF_vars(Does("pool", From6, Pool!Stopped))
  /\ WF_vars(Does("pool", From6, Pool!Sweep)) /\ WF_vars(Does("pool", From6, Pool!SweepNext))
  /\ WF_vars(Does("pool", From6, Pool!RemoveNext)) /\ WF_vars(Does("pool", From6, Pool!Warming))
  /\ \A s \in {"s1", "s2"} : /\ WF_vars(Does("pool", From6, Pool!TurnEnds(s)))
                             /\ WF_vars(Does("pool", From6, Pool!Age(s)))
  /\ WF_vars(Does("lanes", <<>>, Lane!Restart))
  /\ \A l \in LaneIds : /\ WF_vars(Does("lanes", <<>>, Lane!Awaits(l)))
                        /\ WF_vars(Does("lanes", <<>>, Lane!PrepareLane(l)))
  /\ \A h \in Notes : WF_vars(Does("note", From5, Note!Daemon(h)))
  /\ \A t \in Notes \cup {"u"} : WF_vars(Does("note", From5, Note!Dispatch(t)))
  /\ \A a \in AppIds : WF_vars(Does("shell", From3, Shell!Bootstrap(a)))
  /\ \A d \in DaemonIds : WF_vars(Does("shell", From3, Shell!Runs(d)))

----------------------------------------------------------------------------
(* Every part keeps its variables in their types.                           *)
TypeOK ==
  CASE Is("codex")  -> Codex!TypeOK  [] Is("claude") -> Claude!TypeOK
    [] Is("switch") -> Switch!TypeOK [] Is("acp")    -> Acp!TypeOK
    [] Is("stream") -> Stream!TypeOK [] Is("openai") -> Openai!TypeOK
    [] Is("mock")   -> Mock!TypeOK
    [] Is("rpc")    -> Rpc!TypeOK    [] Is("pool")   -> Pool!TypeOK
    [] Is("lanes")  -> Lane!TypeOK   [] Is("note")   -> Note!TypeOK
    [] Is("text")   -> Text!TypeOK /\ Text!StoppedIsMarked
    [] Is("check1") -> Check(TwoThreads, OneFile, 2, MaxRestores)!TypeOK
    [] Is("check2") -> Check(TwoThreads, TwoFiles, 1, MaxRestores)!TypeOK
    [] Is("shell")  -> Shell!TypeOK  [] Is("view")   -> View!TypeOK
    [] Is("sockets") -> Sock!TypeOK  [] Is("records") -> Rec!TypeOK
    [] Is("use1")   -> Use1!TypeOK   [] Is("use2")   -> Use2!TypeOK
    [] Is("use3")   -> Use3!TypeOK   [] Is("use4")   -> Use4!TypeOK
    [] Is("relay")  -> Relay!TypeOK  [] Is("endpoints") -> Ends!TypeOK
    [] Is("delivery1") -> Dlv(OneFile, 2, 2)!TypeOK
    [] Is("delivery2") -> Dlv(TwoFiles, 1, 2)!TypeOK
    [] Is("clis")   -> CliSes(TwoTurns, TwoSessions, "none", 1, TwoClis)!TypeOK
    [] Is("panes")  -> Pan(TwoThreads, "a", OneFile, 1, 4)!TypeOK
    [] Is("lists")  -> List!TypeOK
    [] Is("patches") -> Patch!TypeOK [] Is("setup") -> Setup!TypeOK
    [] Is("compose1") -> Com(TwoKinds, "p", OneSend, 2, 2, 0, 4)!TypeOK
    [] Is("compose2") -> Com(TwoKinds, "p", TwoSends, 2, 2, 1, 1)!TypeOK
    [] Is("updates") -> Upd(OnePackage, FirstReleases, 1, 2, 2, 3)!TypeOK
    [] Is("activity") -> Act!TypeOK
    [] Is("packets") -> Pack!TypeOK
    [] Is("welcome") -> Wel(OneFolder, 3, 5)!TypeOK

(* Nobody waits in vain: no agent for a permission that can no longer be    *)
(* given, no caller for an answer the JSON-RPC client has forgotten, no      *)
(* handoff for a turn that has ended.                                       *)
NobodyWaitsInVain == CallersAnswered /\ AgentsAnswered

(* No process or stream of a turn the session has moved on from works on,   *)
(* none at all beside an open protocol session, and no shell without its    *)
(* pane.                                                                    *)
NoStrayProcess == NoStrayShell /\ NoStrayStream /\ NoStrayTurn

(* What an archive destroys is in a checkpoint.                             *)
DestroyedIsSaved == [][Is("lanes") => Lane!SavesWhatItDestroys]_vars

(* The transcript of a turn keeps what was shown of it, and is settled when *)
(* the turn is; what is handed off of it is the beginning that fits.        *)
TranscriptKeeps ==
  CASE Is("text") -> Text!TranscriptKeeps
    [] Is("packets") -> Pack!PacketsAreTrue
    [] OTHER -> TRUE

(* The diff of a turn shows every file its agent has edited, and what the   *)
(* windows draw from its patch is what the patch says.                      *)
DiffShowsEdits ==
  CASE Is("check1") -> Check(TwoThreads, OneFile, 2, MaxRestores)!DiffShowsEdits
    [] Is("check2") -> Check(TwoThreads, TwoFiles, 1, MaxRestores)!DiffShowsEdits
    [] Is("patches") -> Patch!PatchesAreTrue
    [] OTHER -> TRUE

(* A restore loses nothing that a checkpoint held.                          *)
RestoreKeeps == [][Is("check1") => Check(TwoThreads, OneFile, 2, MaxRestores)!KeepsCaptured]_vars

(* A window tells the truth: it shows no approval and no waiting message     *)
(* that is none, the panes of its thread and the texts of its files, the     *)
(* threads there are, as committed or pushed what is, and as an update what  *)
(* is one.                                                                  *)
WindowTellsTruth ==
  CASE Is("view")  -> View!NothingStale
    [] Is("panes") -> Pan(TwoThreads, "a", OneFile, 1, 4)!PanesTellTruth
    [] Is("lists") -> List!ListsThreads
    [] Is("delivery1") -> Dlv(OneFile, 2, 2)!DeliveredIsThere
    [] Is("delivery2") -> Dlv(TwoFiles, 1, 2)!DeliveredIsThere
    [] Is("updates") -> Upd(OnePackage, FirstReleases, 1, 2, 2, 3)!UpdatesAreTrue
    [] Is("welcome") -> Wel(OneFolder, 3, 5)!WelcomeIsTrue
    [] OTHER -> TRUE

(* The rows agree with the log, with each other and with the sessions.      *)
RecordsAgree == Is("records") => Rec!RecordsAgree

(* Usage counts every request once, and shows the range that was picked;    *)
(* activity counts every turn on its day.                                   *)
UsageAddsUp ==
  CASE Is("use1") -> Use1!UsageAddsUp [] Is("use2") -> Use2!UsageAddsUp
    [] Is("use3") -> Use3!UsageAddsUp [] Is("use4") -> Use4!UsageAddsUp
    [] Is("activity") -> Act!ActivityIsTrue
    [] OTHER -> TRUE

(* The events of a turn relay what its agent printed, once.                 *)
RelaysTurn == Is("relay") => Relay!RelaysTurn

(* Adapters and windows have the endpoints there are, the process of a turn  *)
(* has the permission mode and the conversation of its thread, and a thread *)
(* what its user had chosen for it.                                         *)
ProvidersAgree ==
  CASE Is("endpoints") -> Ends!ProvidersAgree
    [] Is("clis") -> CliSes(TwoTurns, TwoSessions, "none", 1, TwoClis)!SessionsFit
    [] Is("compose1") -> Com(TwoKinds, "p", OneSend, 2, 2, 0, 4)!MessagesAsChosen
    [] Is("compose2") -> Com(TwoKinds, "p", TwoSends, 2, 2, 1, 1)!MessagesAsChosen
    [] OTHER -> TRUE

----------------------------------------------------------------------------
(* Every turn an adapter took is reported over, unless the session is gone. *)
(* A stopped turn may be missed by one adapter: claude forgets one stopped  *)
(* before it was configured when the next one overwrites it (the            *)
(* orchestrator ends it itself, once interruptTurn returns).                *)
StopDone(t) == kind \in {"claude", "switch"} /\ x3.stop[t] = "done"
Given(t)    == kind \in Adapters /\ x1.life[t] = "given"
GivenTurnEnds ==
  \A t \in Turns :
    Given(t) ~> (kind \in Adapters
                 /\ (x1.life[t] \in {"over", "again"} \/ ~x1.live \/ StopDone(t)))

(* What was called comes back: a JSON-RPC request is settled, a handoff      *)
(* returns, a launch of the shell ends.                                     *)
Asked(i)   == Is("rpc") /\ i \in x2.pending
Settled(i) == Is("rpc") /\ x3[i] \in {"resolved", "rejected"}
CallsReturn ==
  /\ \A i \in 1..MaxCalls : Asked(i) ~> Settled(i)
  /\ \A h \in Notes : (Is("note") /\ Note!Begun(h)) ~> (Is("note") => Note!Returned(h))
  /\ \A a \in AppIds : (Is("shell") /\ Shell!Probing(a)) ~> (Is("shell") => Shell!Settled(a))

(* A deleted thread lets go of its session, for good.                       *)
GoneIsReleased ==
  \A t \in {"a", "b"} :
    (Is("pool") /\ Pool!Gone(t)) ~> [](Is("pool") => Pool!Released(t))

(* A lane does not stay preparing.                                          *)
PreparingSettles ==
  \A l \in LaneIds :
    (Is("lanes") /\ Lane!Preparing(l)) ~> (Is("lanes") => ~Lane!Preparing(l))

(* A daemon whose shell is gone gives up the port.                          *)
OrphanStops ==
  \A d \in DaemonIds : (Is("shell") /\ Shell!Stray(d)) ~> (Is("shell") => Shell!Ended(d))
=============================================================================
