----------------------------- MODULE Normalizers -----------------------------
(***************************************************************************)
(* The normalizers: each agent prints its answer in a format of its own,   *)
(* and a pure function per format turns a line into runtime events.  Most  *)
(* formats say things twice: text as it is made and again as a finished    *)
(* message, a tool call in several updates.  This module runs one turn of  *)
(* one agent and looks at what the events say of it.                       *)
(*                                                                         *)
(* The agent is external and prints what the formats' notes and fixtures   *)
(* show: it makes the pieces 1, 2, .. of its answer in messages, calls     *)
(* tools between them, and ends.  style says how it prints: "partial" as   *)
(* the pieces come, "whole" a message at a time, "compact" (opencode) in   *)
(* bare text lines.  A line is read in the step that prints it: the        *)
(* functions keep no queue.  Session ids, names, inputs, outputs, usage    *)
(* counters and the space put between two messages are left out.           *)
(***************************************************************************)
EXTENDS Integers, Sequences, FiniteSets, SequencesExt

CONSTANTS
  Agents,     \* formats to try
  Tools,      \* ids of tool calls
  MaxPieces,  \* bound on the pieces of an answer
  MaxAgain    \* bound on lines that say nothing new

VARIABLES
  agent,  \* which format, style, pieces made, first piece of the message, tools
  norm,   \* the state a normalizer carries from line to line
  out     \* what the events said, and the text the adapter has gathered

vars == <<agent, norm, out>>

AllAgents == {"claude", "grok", "cursor", "opencode", "codex", "acp", "gemini", "copilot", "antigravity"}

Styles(a) ==
  CASE a \in {"claude", "cursor", "copilot", "antigravity", "codex"} -> {"partial", "whole"}
    [] a = "grok"     -> {"partial", "whole", "text"}
    [] a = "opencode" -> {"partial", "compact"}
    [] OTHER          -> {"partial"}

FreshNorm == [partial |-> FALSE, lens |-> <<>>, text |-> <<>>, started |-> {}, writes |-> {},
              paths |-> [c \in Tools |-> FALSE], edited |-> FALSE]

Init ==
  /\ \E a \in Agents : \E s \in Styles(a) :
       agent = [is |-> a, style |-> s, made |-> 0, from |-> 1, msg |-> 1, ended |-> FALSE, failed |-> FALSE,
                again |-> 0,
                tool |-> [c \in Tools |-> "none"], writes |-> {}, paths |-> {}]
  /\ norm = FreshNorm
  /\ out = [shown |-> <<>>, text |-> <<>>, saved |-> <<>>, started |-> [c \in Tools |-> 0],
            finished |-> [c \in Tools |-> 0], edits |-> 0, errors |-> 0]

Is(a) == agent.is = a
Open  == [i \in 1..(agent.made - agent.from + 1) |-> agent.from + i - 1]
Busy  == \E c \in Tools : agent.tool[c] \in {"called", "running"}

----------------------------------------------------------------------------
(* Runtime events, as they change what was said of the turn *)

(* assistant.delta, which the adapter also gathers for the saved message.   *)
Delta(o, ps)     == [o EXCEPT !.shown = @ \o ps, !.text = @ \o ps]
(* assistant.message: what the transcript keeps.                            *)
Message(o, ps)   == [o EXCEPT !.saved = @ \o ps]
ToolStarted(o, c)  == [o EXCEPT !.started[c] = @ + 1]
ToolFinished(o, c) == [o EXCEPT !.finished[c] = @ + 1]
(* error: the orchestrator reports the turn failed.                         *)
Failed(o)          == [o EXCEPT !.errors = @ + 1]

(* A line and what is made of it: norm and out after it.                    *)
Text(ps)      == [kind |-> "text", text |-> ps]
Whole(ps)     == [kind |-> "whole", text |-> ps]
Call(k, c)    == [kind |-> k, tool |-> c]
After(n, o)   == [norm |-> n, out |-> o]
Same(o)       == After(norm, o)

(* Mutant: finished messages repeat the text that was streamed.             *)
ClaudeRepeats(l) ==
  CASE l.kind = "text"     -> After([norm EXCEPT !.partial = TRUE], Delta(out, l.text))
    [] l.kind = "whole"    -> Same(Delta(out, l.text))
    [] l.kind = "started"  -> Same(ToolStarted(out, l.tool))
    [] l.kind = "finished" -> Same(ToolFinished(out, l.tool))
    [] l.kind = "error"    -> Same(Failed(out))
    [] OTHER -> Same(out)

(* Claude, and qwen and older grok that speak its format: a finished        *)
(* message counts only if nothing was streamed.                             *)
ClaudeLine(l) ==
  CASE l.kind = "text"     -> After([norm EXCEPT !.partial = TRUE], Delta(out, l.text))
    [] l.kind = "whole"    -> Same(IF norm.partial THEN out ELSE Delta(out, l.text))
    [] l.kind = "started"  -> Same(ToolStarted(out, l.tool))
    [] l.kind = "finished" -> Same(ToolFinished(out, l.tool))
    [] l.kind = "error"    -> Same(Failed(out))
    [] OTHER -> Same(out)

(* Grok: bare text lines of its own, any other line read as claude's.       *)
GrokLine(l) ==
  CASE l.kind = "bare" -> After([norm EXCEPT !.partial = TRUE], Delta(out, l.text))
    [] l.kind \in {"thought", "end"} -> Same(out)
    [] OTHER -> ClaudeLine(l)

(* Cursor: only lines with a time and no model call are new text; the flush *)
(* before a tool has both, the flush at the end has neither.                *)
CursorLine(l) ==
  CASE l.kind \in {"text", "whole"} ->
         LET timed == l.kind = "text" \/ l.flush
         IN  IF (l.kind = "whole" /\ l.flush) \/ (~timed /\ norm.partial) THEN Same(out)
             ELSE After([norm EXCEPT !.partial = @ \/ timed], Delta(out, l.text))
    [] l.kind = "started"  -> Same(ToolStarted(out, l.tool))
    [] l.kind = "finished" -> Same(ToolFinished(out, l.tool))
    [] l.kind = "error"    -> Same(Failed(out))
    [] OTHER -> Same(out)

(* Opencode: a part repeats its text from the start; what is beyond the     *)
(* length seen is new.  Every update of a tool that still runs starts it.   *)
Seen(m) == IF m <= Len(norm.lens) THEN norm.lens[m] ELSE 0
OpencodeLine(l) ==
  CASE l.kind = "part" /\ Len(l.text) >= Seen(l.msg) ->
         After([norm EXCEPT !.lens = [m \in 1..l.msg |-> IF m = l.msg THEN Len(l.text) ELSE Seen(m)]],
               Delta(out, SubSeq(l.text, Seen(l.msg) + 1, Len(l.text))))
    [] l.kind = "bare"     -> Same(Delta(out, l.text))
    [] l.kind \in {"started", "running"} -> Same(ToolStarted(out, l.tool))
    [] l.kind = "finished" -> Same(ToolFinished(out, l.tool))
    [] l.kind = "error"    -> Same(Failed(out))
    [] OTHER -> Same(out)

(* Codex: the finished item carries its text, or stands for what was        *)
(* streamed; text without one is kept when the turn completes.              *)
CodexLine(l) ==
  CASE l.kind = "text" ->
         After([norm EXCEPT !.text = @ \o l.text], [out EXCEPT !.shown = @ \o l.text])
    [] l.kind = "whole" ->
         After([norm EXCEPT !.text = <<>>], Message(out, IF l.text # <<>> THEN l.text ELSE norm.text))
    [] l.kind = "end"      -> After([norm EXCEPT !.text = <<>>], Message(out, norm.text))
    [] l.kind = "started"  -> Same(ToolStarted(out, l.tool))
    [] l.kind = "finished" -> Same(ToolFinished(out, l.tool))
    [] l.kind = "error"    -> After([norm EXCEPT !.text = <<>>], Message(Failed(out), norm.text))
    [] OTHER -> Same(out)

(* ACP: the first update of a call starts it, whatever the update is.  What *)
(* kind it is and which file it touches come with any update, and a         *)
(* completed write is reported once for its file.                           *)
AcpTool(l) ==
  LET writes == IF l.writes THEN norm.writes \cup {l.tool} ELSE norm.writes
      path   == norm.paths[l.tool] \/ l.path
      edit   == l.status = "completed" /\ l.tool \in writes /\ path /\ ~norm.edited
      begun  == IF l.tool \in norm.started THEN out ELSE ToolStarted(out, l.tool)
      edited == [begun EXCEPT !.edits = IF edit THEN @ + 1 ELSE @]
      over   == l.status \in {"completed", "failed"}
  IN  After([norm EXCEPT !.started = @ \cup {l.tool}, !.edited = @ \/ edit,
                         !.writes = IF over THEN writes \ {l.tool} ELSE writes,
                         !.paths[l.tool] = path /\ ~over],
            IF over THEN ToolFinished(edited, l.tool) ELSE edited)

AcpLine(l) ==
  CASE l.kind = "text" -> Same(Delta(out, l.text))
    [] l.kind = "tool" -> AcpTool(l)
    [] OTHER -> Same(out)

(* A permission request of ACP offers options of four kinds, in any order;  *)
(* selectAcpOptionId takes the first kind wanted that is offered.           *)
OptionKinds == {"allow_once", "allow_always", "reject_once", "reject_always"}
Wanted(decision) ==
  IF decision = "approve" THEN <<"allow_once", "allow_always">> ELSE <<"reject_once", "reject_always">>
Option(offered, decision) ==
  LET fits == SelectSeq(Wanted(decision), LAMBDA k : k \in offered)
  IN  IF fits = <<>> THEN "cancelled" ELSE Head(fits)

(* Gemini: every message is new text.                                       *)
GeminiLine(l) ==
  CASE l.kind = "text"     -> Same(Delta(out, l.text))
    [] l.kind = "started"  -> Same(ToolStarted(out, l.tool))
    [] l.kind = "finished" -> Same(ToolFinished(out, l.tool))
    [] l.kind = "error"    -> Same(Failed(out))
    [] OTHER -> Same(out)

(* Copilot: like claude's rule, with lines of its own.                      *)
CopilotLine(l) ==
  CASE l.kind = "text"     -> After([norm EXCEPT !.partial = TRUE], Delta(out, l.text))
    [] l.kind = "whole"    -> Same(IF norm.partial THEN out ELSE Delta(out, l.text))
    [] l.kind = "started"  -> Same(ToolStarted(out, l.tool))
    [] l.kind = "finished" -> Same(ToolFinished(out, l.tool))
    [] l.kind = "error"    -> Same(Failed(out))
    [] OTHER -> Same(out)

(* Antigravity: the result repeats the answer, and counts only if no text   *)
(* came before; a tool may be done without having been active.              *)
AntigravityLine(l) ==
  CASE l.kind = "text" -> After([norm EXCEPT !.partial = TRUE], Delta(out, l.text))
    [] l.kind = "end"  ->
         IF l.text # <<>> /\ ~norm.partial
         THEN After([norm EXCEPT !.partial = TRUE], Delta(out, l.text)) ELSE Same(out)
    [] l.kind = "started"  ->
         After([norm EXCEPT !.started = @ \cup {l.tool}], ToolStarted(out, l.tool))
    [] l.kind = "finished" ->
         After([norm EXCEPT !.started = @ \ {l.tool}],
               ToolFinished(IF l.tool \in norm.started THEN out ELSE ToolStarted(out, l.tool), l.tool))
    [] l.kind = "error" -> Same(Failed(out))
    [] OTHER -> Same(out)

Normalized(l) ==
  CASE Is("claude")   -> ClaudeLine(l)   [] Is("grok")    -> GrokLine(l)
    [] Is("cursor")   -> CursorLine(l)   [] Is("codex")   -> CodexLine(l)
    [] Is("opencode") -> OpencodeLine(l) [] Is("acp")     -> AcpLine(l)
    [] Is("gemini")   -> GeminiLine(l)   [] Is("copilot") -> CopilotLine(l)
    [] OTHER          -> AntigravityLine(l)

Prints(l) == norm' = Normalized(l).norm /\ out' = Normalized(l).out
Silent    == UNCHANGED <<norm, out>>

----------------------------------------------------------------------------
(* The agent, which is external *)

(* The next piece, streamed unless messages are printed whole.              *)
MakesPiece ==
  /\ ~agent.ended /\ ~Busy /\ agent.made < MaxPieces
  /\ agent' = [agent EXCEPT !.made = @ + 1]
  /\ CASE agent.style = "whole" -> Silent
       [] Is("grok") /\ agent.style = "text" -> Prints([kind |-> "bare", text |-> <<agent.made + 1>>])
       [] Is("opencode") /\ agent.style = "compact" ->
            Prints([kind |-> "bare", text |-> <<agent.made + 1>>])
       [] Is("opencode") ->
            \/ Prints([kind |-> "part", msg |-> agent.msg, text |-> Append(Open, agent.made + 1)])
            \/ Silent   \* comes with a later update of the part
       [] OTHER -> Prints(Text(<<agent.made + 1>>))

(* The message is finished: formats with finished messages print it whole,  *)
(* codex with or without its text.  calling: a tool comes next, which       *)
(* cursor marks on the flush.                                               *)
NextMessage == [agent EXCEPT !.from = agent.made + 1, !.msg = @ + 1]
EndsMessage(calling) ==
  /\ ~agent.ended /\ Open # <<>>
  /\ agent' = NextMessage
  /\ CASE Is("claude") \/ Is("copilot") \/ (Is("grok") /\ agent.style # "text") -> Prints(Whole(Open))
       [] Is("cursor") ->
            IF agent.style = "whole" THEN Prints([kind |-> "whole", text |-> Open, flush |-> FALSE])
            ELSE IF calling THEN Prints([kind |-> "whole", text |-> Open, flush |-> TRUE]) ELSE Silent
       [] Is("codex") ->
            \/ Prints(Whole(Open))
            \/ agent.style = "partial" /\ Prints(Whole(<<>>))
       [] Is("opencode") /\ agent.style = "partial" ->
            Prints([kind |-> "part", msg |-> agent.msg, text |-> Open])
       [] OTHER -> Silent

(* A line without news: thinking, or the same part once more.               *)
SaysNothingNew ==
  /\ ~agent.ended /\ agent.again < MaxAgain
  /\ agent' = [agent EXCEPT !.again = @ + 1]
  /\ \/ Prints([kind |-> "thought"])
     \/ /\ Is("opencode") /\ agent.style = "partial" /\ Open # <<>>
        /\ Prints([kind |-> "part", msg |-> agent.msg, text |-> Open])

(* An update of an ACP call, which may say that it writes and name its file.*)
Update(c, status, stage) ==
  \E w, p \in BOOLEAN :
    /\ agent' = [agent EXCEPT !.tool[c] = stage,
                               !.writes = IF w THEN @ \cup {c} ELSE @,
                               !.paths = IF p THEN @ \cup {c} ELSE @]
    /\ Prints([kind |-> "tool", tool |-> c, status |-> status, writes |-> w, path |-> p])

(* A tool between two messages.  Opencode prints pending and running, or    *)
(* only the end; antigravity may print only the end.                        *)
CallsTool(c) ==
  /\ ~agent.ended /\ Open = <<>> /\ agent.tool[c] = "none"
  /\ IF Is("acp") THEN Update(c, "pending", "called")
     ELSE /\ agent' = [agent EXCEPT !.tool[c] = "called"]
          /\ \/ Prints(Call("started", c))
             \/ agent.is \in {"antigravity", "opencode"} /\ Silent

ToolGoesOn(c) ==
  /\ agent.tool[c] = "called"
  /\ \/ Is("acp") /\ Update(c, "in_progress", "running")
     \/ /\ Is("opencode")
        /\ agent' = [agent EXCEPT !.tool[c] = "running"]
        /\ Prints(Call("running", c))

ToolReturns(c) ==
  /\ agent.tool[c] \in {"called", "running"}
  /\ IF Is("acp") THEN Update(c, "completed", "done") \/ Update(c, "failed", "failed")
     ELSE agent' = [agent EXCEPT !.tool[c] = "done"] /\ Prints(Call("finished", c))

(* The end of the turn.  Cursor flushes the last message, antigravity       *)
(* repeats the answer; codex may complete a turn whose last item it never   *)
(* completed, the others finish their message first.  The adapter then      *)
(* saves what it has gathered (settleTurn, the end of the pump).            *)
LastLine ==
  CASE Is("cursor") /\ agent.made > 0 ->
         [kind |-> "whole", text |-> [i \in 1..agent.made |-> i], flush |-> FALSE]
    [] Is("antigravity") -> [kind |-> "end", text |-> [i \in 1..agent.made |-> i]]
    [] OTHER -> [kind |-> "end", text |-> <<>>]

Ended(r, failed) ==
  /\ ~agent.ended /\ ~Busy
  /\ Open = <<>> \/ (Is("codex") /\ agent.style = "partial")
  /\ agent' = [agent EXCEPT !.ended = TRUE, !.failed = failed]
  /\ norm' = r.norm

Ends ==
  LET r == IF Is("cursor") /\ agent.style = "whole" THEN Same(out) ELSE Normalized(LastLine)
  IN  Ended(r, FALSE) /\ out' = Message(r.out, r.out.text)

(* The turn fails (an ACP agent answers the prompt instead, which is no     *)
(* line).  A process that also exits with a code has its text shown but not *)
(* saved by the pump, which reports the code as one more error.             *)
Pumped == agent.is \in {"grok", "cursor", "opencode", "gemini", "copilot", "antigravity"}
Fails ==
  LET r == Normalized([kind |-> "error"])
  IN  /\ ~Is("acp") /\ Ended(r, TRUE)
      /\ \/ out' = Message(r.out, r.out.text)
         \/ Pumped /\ out' = Failed(r.out)

Next ==
  \/ MakesPiece
  \/ \E calling \in BOOLEAN : EndsMessage(calling)
  \/ SaysNothingNew
  \/ \E c \in Tools : CallsTool(c) \/ ToolGoesOn(c) \/ ToolReturns(c)
  \/ Ends \/ Fails

Spec == Init /\ [][Next]_vars

----------------------------------------------------------------------------
Answer == [i \in 1..agent.made |-> i]

TypeOK ==
  /\ agent.is \in AllAgents /\ agent.made \in 0..MaxPieces /\ agent.ended \in BOOLEAN
  /\ \A c \in Tools : agent.tool[c] \in {"none", "called", "running", "done", "failed"}
  /\ norm.started \subseteq Tools /\ norm.writes \subseteq Tools
  /\ \A c \in Tools : out.started[c] \in 0..2 /\ out.finished[c] \in 0..1

(* What is shown is the answer from its beginning, nothing twice, nothing   *)
(* left out once its message is finished; and what is saved at the end is   *)
(* the answer.  Codex shows nothing of a message it sends only whole, and   *)
(* antigravity nothing before its result, in that style.                    *)
ShownOnce ==
  /\ IsPrefix(out.shown, Answer)
  /\ IsPrefix(out.saved, Answer)
  /\ agent.style # "whole" /\ Open = <<>> => out.shown = Answer
  /\ agent.ended /\ ~agent.failed => out.saved = Answer

(* A tool that finished has started, and once only; a file is reported      *)
(* when a write of it has completed, and once only.  Opencode is left out   *)
(* of the first: it starts a tool with every update, or never.              *)
ToolsPaired ==
  /\ ~Is("opencode") =>
       \A c \in Tools : out.finished[c] <= out.started[c] /\ out.started[c] <= 1
  /\ out.edits = IF \E c \in agent.writes \cap agent.paths : agent.tool[c] = "done" THEN 1 ELSE 0

(* One click never grants or refuses more than this call while the agent    *)
(* offers that, and never turns into the other decision.                    *)
ClickIsOnce ==
  \A offered \in SUBSET OptionKinds, d \in {"approve", "deny"} :
    LET o == Option(offered, d)
    IN  /\ o \in offered \cup {"cancelled"}
        /\ d = "approve" => o \notin {"reject_once", "reject_always"}
        /\ d = "deny" => o \notin {"allow_once", "allow_always"}
        /\ o = "allow_always" => "allow_once" \notin offered
        /\ o = "reject_always" => "reject_once" \notin offered

(* A turn that failed is reported so, and no other.                         *)
FailureSaid == (out.errors > 0) = agent.failed

(* The events relay the turn: its answer, tools, permissions and failure.   *)
RelaysTurn == ShownOnce /\ ToolsPaired /\ ClickIsOnce /\ FailureSaid
==============================================================================
