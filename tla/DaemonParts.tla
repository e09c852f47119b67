---------------------------- MODULE DaemonParts -----------------------------
(***************************************************************************)
(* Seven parts of the daemon in one specification: sockets and pairing,    *)
(* the text of a turn, lanes and their set-up, endpoints, handoffs, and    *)
(* the JSON-RPC client the adapters use.                                   *)
(*                                                                         *)
(* kind is chosen once and only that part moves, so a run visits the sum   *)
(* of the state spaces, not the product.  A part keeps its variables in    *)
(* x1, x2, .. and leaves the others at 0.  The parts at the end take their *)
(* constants as arguments: what DaemonProofs and WindowProofs prove of them *)
(* holds for all.  AdapterParts adds the adapters; MCParts chooses those   *)
(* arguments and adds the parts that are only model-checked.               *)
(***************************************************************************)
EXTENDS AdapterHost

CONSTANTS
  LaneIds, MaxActive, MaxCrashes, LaneCommands, Ports, Entries, SetupChanges,
  Pieces, PerItem, Approvals, MaxExits,
  Devices, Windows, Local, Links, Shells, NoShell, NoLink, MaxDrops, MaxPanes,
  EndpointIds, EndpointThreads, EndpointHome, MaxEdits, MaxTurns, MaxDetects,
  MaxCalls, Notes

ASSUME TextBounds == Pieces \in Nat /\ PerItem \in Nat \ {0}
ASSUME SetupBounds == Entries \in Seq(STRING) /\ SetupChanges \in Nat
ASSUME SocketBounds == NoShell \notin Shells /\ Local \in Devices /\ MaxDrops \in Nat
ASSUME EndpointBounds ==
  EndpointHome \in [EndpointThreads -> EndpointIds] /\ {MaxEdits, MaxTurns, MaxDetects} \subseteq Nat
ASSUME CallBounds == MaxCalls \in Nat /\ Notes \cap {"u", NoTurn} = {} /\ NoTurn # "u"

VARIABLES kind, x1, x2, x3, x4, x5, x6, x7

vars == <<kind, x1, x2, x3, x4, x5, x6, x7>>

Sock == INSTANCE Sockets WITH
  link <- x1, client <- x2, device <- x3, open <- x4, up <- x5, down <- x6, shell <- x7

Text == INSTANCE Transcript WITH
  turn <- x1, live <- x2, approval <- x3, mode <- x4, exits <- x5

Lane == INSTANCE Lanes WITH
  lane <- x1, tree <- x2, saved <- x3, ahead <- x4, branches <- x5, removed <- x6, calls <- x7,
  Lanes <- LaneIds, MaxCommands <- LaneCommands

Setup == INSTANCE LaneSetup WITH
  files <- x1, bound <- x2, lane <- x3, tree <- x4, changes <- x5,
  Lanes <- LaneIds, MaxChanges <- SetupChanges

Ends == INSTANCE Providers WITH
  file <- x1, reg <- x2, sess <- x3, known <- x4, run <- x5, count <- x6, window <- x7,
  Ids <- EndpointIds, Threads <- EndpointThreads, Home <- EndpointHome

Note == INSTANCE Handoff WITH
  turn <- x1, session <- x2, waiting <- x3, call <- x4, Handoffs <- Notes, UserTurns <- {"u"}

Rpc == INSTANCE JsonRpc WITH session <- x2, calls <- x3, proc <- x4

(* Parts that take their constants as arguments: MCParts runs them with     *)
(* some, DaemonProofs and WindowProofs show them right with any.            *)
Check(CheckThreads, CheckFiles, CheckEdits, CheckRestores) == INSTANCE Checkpoints WITH
  files <- x1, tracked <- x2, refs <- x3, turn <- x4, restore <- x5, edits <- x6,
  Threads <- CheckThreads, Files <- CheckFiles, MaxEdits <- CheckEdits, MaxRestores <- CheckRestores

Com(ComKinds, ComInitial, ComSends, ComImages, ComFiles, ComDrops, ComChanges) ==
  INSTANCE Compose WITH
    world <- x1, draft <- x2, box <- x3, call <- x4, rows <- x5, win <- x6, count <- x7,
    Kinds <- ComKinds, Initial <- ComInitial, Sends <- ComSends, MaxImages <- ComImages,
    MaxFiles <- ComFiles, MaxDrops <- ComDrops, MaxChanges <- ComChanges

CliSes(CliTurns, CliSessionIds, CliNone, CliChanges, CliKinds) ==
  INSTANCE CliSessions WITH
    thread <- x1, live <- x2, starts <- x3, map <- x4, sess <- x5, proc <- x6, changes <- x7,
    Clis <- CliKinds, Turns <- CliTurns, Sessions <- CliSessionIds, None <- CliNone,
    MaxChanges <- CliChanges

Upd(UpPackages, UpReleases, UpTtl, UpTime, UpCalls, UpClicks) ==
  INSTANCE Updates WITH
    world <- x1, cache <- x2, call <- x3, win <- x4, clicks <- x5,
    Packages <- UpPackages, Releases <- UpReleases, Ttl <- UpTtl, MaxTime <- UpTime,
    MaxCalls <- UpCalls, MaxClicks <- UpClicks

Dlv(DlvFiles, DlvEdits, DlvClicks) ==
  INSTANCE Delivery WITH
    tree <- x1, index <- x2, head <- x3, remote <- x4, busy <- x5, control <- x6, count <- x7,
    Files <- DlvFiles, MaxEdits <- DlvEdits, MaxClicks <- DlvClicks

Pan(PanThreads, PanFirst, PanPaths, PanTexts, PanClicks) ==
  INSTANCE Panes WITH
    open <- x1, panel <- x2, pane <- x3, asks <- x4, disk <- x5, clicks <- x6, haste <- x7,
    Threads <- PanThreads, First <- PanFirst, Paths <- PanPaths, MaxTexts <- PanTexts,
    MaxClicks <- PanClicks

Wel(WelFolders, WelMaxCalls, WelEvents) ==
  INSTANCE Welcome WITH
    disk <- x1, rows <- x2, call <- x3, win <- x4, ob <- x5, events <- x6,
    Folders <- WelFolders, MaxCalls <- WelMaxCalls, MaxEvents <- WelEvents

----------------------------------------------------------------------------
Is(k) == kind = k

Free3 == x3 = 0 /\ x4 = 0 /\ x5 = 0 /\ x6 = 0 /\ x7 = 0
Free4 == x4 = 0 /\ x5 = 0 /\ x6 = 0 /\ x7 = 0
Free5 == x5 = 0 /\ x6 = 0 /\ x7 = 0
Free6 == x6 = 0 /\ x7 = 0

(* A step of part k, which has the variables before rest.                   *)
Of(k, rest) == Is(k) /\ UNCHANGED <<kind, rest>>
From3 == <<x3, x4, x5, x6, x7>>
From4 == <<x4, x5, x6, x7>>
From5 == <<x5, x6, x7>>
From6 == <<x6, x7>>

DaemonInit ==
  \/ Is("sockets") /\ Sock!Init
  \/ Is("text")   /\ Text!Init   /\ Free6
  \/ Is("lanes")  /\ Lane!Init
  \/ Is("setup")  /\ Setup!Init  /\ Free6
  \/ Is("endpoints") /\ Ends!Init
  \/ Is("note")   /\ Note!Init   /\ Free5
  \/ Is("rpc")    /\ Rpc!Init    /\ x1 = 0 /\ Free5

DaemonNext ==
  \/ Of("sockets", <<>>) /\ Sock!Next
  \/ Of("text", From6)   /\ Text!Next
  \/ Of("lanes", <<>>)   /\ Lane!Next
  \/ Of("setup", From6) /\ Setup!Next
  \/ Of("endpoints", <<>>) /\ Ends!Next
  \/ Of("note", From5)  /\ Note!Next
  \/ Of("rpc", <<x1, From5>>) /\ Rpc!Next

DaemonSpec == DaemonInit /\ [][DaemonNext]_vars

----------------------------------------------------------------------------
(* An open socket belongs to this machine or to a device that is paired.    *)
OnlyPairedConnect == Is("sockets") => Sock!OnlyPairedConnect

(* A shell goes with the pane that shows it, or with its socket.            *)
NoStrayShell == Is("sockets") => Sock!NoStrayShell

(* A stream of a turn that is over is out of reach only since an edit.      *)
NoStrayStream == Is("endpoints") => Ends!NoStrayStream

(* An approval is answered once.                                            *)
AnsweredOnce == Is("text") => Text!AnsweredOnce

(* The text of a settled turn is changed no more.                           *)
SettledTextStays == [][Is("text") => Text!KeepsSettledText]_vars

(* No caller waits for an answer the JSON-RPC client has forgotten, and no  *)
(* handoff for a turn that has ended.                                       *)
CallersAnswered ==
  CASE Is("rpc") -> Rpc!WaitingIsPending [] Is("note") -> Note!WaitsForOpenTurn
    [] OTHER -> TRUE

(* Lanes never share a branch or a port, and are given what they should     *)
(* have and nothing else; they lose nothing that was not confirmed.         *)
BranchesDistinct ==
  CASE Is("lanes") -> Lane!BranchesDistinct [] Is("setup") -> Setup!LanesAreGiven
    [] OTHER -> TRUE
NothingLostUnasked == [][Is("lanes") => Lane!LosesOnlyConfirmed]_vars
=============================================================================
