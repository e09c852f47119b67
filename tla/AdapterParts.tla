---------------------------- MODULE AdapterParts ----------------------------
(***************************************************************************)
(* The adapters in one specification, beside the parts of DaemonParts.     *)
(***************************************************************************)
EXTENDS DaemonParts

CONSTANTS
  ErrorTurns, RefuseTurns, AskTurns, MayExit, SlowCli, MaxSpawns, Modes, Models

ASSUME ProcessBounds == MaxSpawns \in Nat \ {0}

Codex  == INSTANCE CodexTurn WITH host <- x1, session <- x2, calls <- x3, proc <- x4
(* Its control requests are refused or late only where there are two modes  *)
(* to switch between, on a process that never exits by itself.              *)
Claude == INSTANCE ClaudeTurn WITH host <- x1, session <- x2, calls <- x3, proc <- x4,
            SlowCli <- FALSE
Switch == INSTANCE ClaudeTurn WITH host <- x1, session <- x2, calls <- x3, proc <- x4,
            Modes <- {"supervised", "full_access"}, AskTurns <- {}, MayExit <- FALSE
Acp    == INSTANCE AcpTurn WITH
            host <- x1, session <- x2, calls <- x3, proc <- x4, agent <- x5
Stream == INSTANCE StreamTurn WITH host <- x1, session <- x2, calls <- x3, proc <- x4
Openai == INSTANCE OpenaiTurn WITH host <- x1, session <- x2, calls <- x3, proc <- x4
Mock   == INSTANCE MockTurn WITH host <- x1, session <- x2, calls <- x3, proc <- x4,
            Limits <- {1, 2}

----------------------------------------------------------------------------
AdapterInit ==
  \/ Is("codex")  /\ Codex!Init  /\ Free5
  \/ Is("claude") /\ Claude!Init /\ Free5
  \/ Is("switch") /\ Switch!Init /\ Free5
  \/ Is("acp")    /\ Acp!Init    /\ Free6
  \/ Is("stream") /\ Stream!Init /\ Free5
  \/ Is("openai") /\ Openai!Init /\ Free5
  \/ Is("mock")   /\ Mock!Init   /\ Free5

AdapterNext ==
  \/ Of("codex", From5)  /\ Codex!Next
  \/ Of("claude", From5) /\ Claude!Next
  \/ Of("switch", From5) /\ Switch!Next
  \/ Of("acp", From6)    /\ Acp!Next
  \/ Of("stream", From5) /\ Stream!Next
  \/ Of("openai", From5) /\ Openai!Next
  \/ Of("mock", From5)   /\ Mock!Next

AdapterSpec == AdapterInit /\ [][AdapterNext]_vars

----------------------------------------------------------------------------
(* No process of a turn works on once the session has moved on, and none at *)
(* all beside an open protocol session.                                     *)
NoStrayTurn ==
  CASE Is("stream") -> Stream!NoStrayProcess [] Is("acp") -> Acp!OneTransport [] OTHER -> TRUE

(* No session stays busy for good: what it believes is running was given to *)
(* it, has not ended and will end.                                          *)
BusyWillFree ==
  CASE Is("codex")  -> Codex!BusyWillFree /\ Codex!CallsAreGiven
    [] Is("claude") -> Claude!ActiveWillSettle /\ Claude!RunningIsGiven
    [] Is("switch") -> Switch!ActiveWillSettle /\ Switch!RunningIsGiven
    [] Is("acp")    -> Acp!BusyWillFree /\ Acp!RunningIsGiven
    [] Is("stream") -> Stream!RunningIsGiven [] Is("openai") -> Openai!RunningIsGiven
    [] Is("mock")   -> Mock!RunningIsGiven
    [] OTHER -> TRUE

(* No agent waits for a permission that can no longer be given.             *)
AgentsAnswered ==
  CASE Is("codex") -> Codex!AskedCanBeAnswered [] Is("acp") -> Acp!AskedCanBeAnswered
    [] Is("mock")  -> Mock!AskedCanBeAnswered  [] OTHER -> TRUE

(* The conversation the openai-compatible adapter repeats makes sense.      *)
ConversationMakesSense == Is("openai") => Openai!ConversationMakesSense

(* Every adapter implements the contract: refused turns never end, turns    *)
(* that were taken end at most once.  The codex adapter may report an end   *)
(* twice, which is folded into one here.                                    *)
Adapters == {"codex", "claude", "switch", "acp", "stream", "openai", "mock"}
Promise == INSTANCE AdapterPromise WITH
  life <- CASE Is("codex") -> Folded(x1) [] kind \in Adapters \ {"codex"} -> x1.life
            [] OTHER -> FreshHost.life
KeepsPromise == Promise!Spec
=============================================================================
