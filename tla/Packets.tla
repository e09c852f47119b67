-------------------------------- MODULE Packets --------------------------------
(***************************************************************************)
(* What a handed-off thread is told (handoff.ts; the content of handoff in *)
(* orchestrator.ts, whose order and waits are in Handoff.tla): the         *)
(* transcript that fits, the note the source agent may write from it, the  *)
(* files touched, and the seed that is the first message of the new        *)
(* thread, which may be handed off in its turn.                            *)
(*                                                                         *)
(* A text is its length and the requests of the user it tells of; texts    *)
(* of length 0 are blank.                                                  *)
(***************************************************************************)
EXTENDS Naturals, Sequences, FiniteSets, SequencesExt

CONSTANTS
  MaxChars,     \* the bound of formatHandoffTranscript
  Heading,      \* the length of a role and the separators of one message
  Wording,      \* the length of the fixed text of a prompt
  MaxFiles,     \* the files a prompt lists: 40
  MaxText, MaxRequests, MaxThreads, MaxTouched
                \* bounds: the length of a message, messages of the user, threads, files

VARIABLES
  threads,      \* the chain of threads: messages and files of each
  asked,        \* requests so far, those made while a note was being written
  ask           \* the handoff under way, while the source writes its note

vars == <<threads, asked, ask>>

Text(role, size, of) == [role |-> role, size |-> size, of |-> of]
NoAsk == [at |-> 0, transcript |-> Text("", 0, {}), files |-> 0]

Init ==
  /\ threads = <<[messages |-> <<>>, files |-> 0, seed |-> "none"]>>
  /\ asked = [n |-> 0, late |-> {}]
  /\ ask = NoAsk

Chat == threads[Len(threads)]
Adds(t, m) == [t EXCEPT !.messages = Append(@, m)]
Now(t) == threads' = [threads EXCEPT ![Len(threads)] = t]

----------------------------------------------------------------------------
(* Work on the last thread of the chain.                                    *)
(* A message of the user and what the turn made of it: an answer or none,   *)
(* perhaps a file.                                                          *)
Turn ==
  /\ asked.n < MaxRequests
  /\ asked' = [n |-> asked.n + 1,
               late |-> IF ask.at = 0 THEN asked.late ELSE asked.late \cup {asked.n + 1}]
  /\ \E n \in 1..MaxText, answer \in 0..1, files \in Chat.files..MaxTouched :
       Now([Chat EXCEPT !.messages = @ \o <<Text("user", n, {asked.n + 1}),
                                            Text("assistant", answer, {})>>,
                        !.files = files])
  /\ UNCHANGED ask

----------------------------------------------------------------------------
(* formatHandoffTranscript: from the first message on, until one does not   *)
(* fit.                                                                     *)
Taken(s, m) ==
  IF s.full \/ m.size = 0 THEN s
  ELSE IF s.size + m.size + Heading > MaxChars THEN [s EXCEPT !.full = TRUE]
  ELSE [s EXCEPT !.size = @ + m.size + Heading, !.of = @ \cup m.of]
Formatted(messages) ==
  LET s == FoldLeft(Taken, [size |-> 0, of |-> {}, full |-> FALSE], messages) IN
    Text("transcript", s.size, s.of)

Listed(files) == IF files < MaxFiles THEN files ELSE MaxFiles

(* summaryPrompt, seedPrompt and logPacketPrompt say what they were given.  *)
Prompt(text, files) == Text("user", Wording + text.size + files, text.of)

Forks(t, text, files, packet) ==
  threads' = Append([threads EXCEPT ![Len(threads)] = t],
                    [messages |-> <<Prompt(text, Listed(files))>>, files |-> 0,
                     seed |-> packet])

History == SelectSeq(Chat.messages, LAMBDA m : m.size > 0)
MayHandOff == ask.at = 0 /\ History # <<>> /\ Len(threads) < MaxThreads

(* packet: "log", or a thread in error.                                     *)
HandOffLog ==
  /\ MayHandOff
  /\ Forks(Chat, Formatted(History), Chat.files, "log")
  /\ UNCHANGED <<asked, ask>>

(* The prompt for the note is a turn of the source thread.                  *)
AskSource ==
  /\ MayHandOff
  /\ ask' = [at |-> Len(threads), transcript |-> Formatted(History), files |-> Chat.files]
  /\ Now(Adds(Chat, Prompt(Formatted(History), 0)))
  /\ UNCHANGED asked

(* It writes what it likes of what it was told.                             *)
NoteComes ==
  /\ ask.at # 0
  /\ \E n \in 1..MaxText, of \in {{}, ask.transcript.of} :
       LET note == Text("assistant", n, of) IN
         Forks(Adds(Chat, note), note, ask.files, "agent")
  /\ ask' = NoAsk
  /\ UNCHANGED asked

(* No note: the turn failed, was stopped, said nothing or took too long.    *)
NoNote ==
  /\ ask.at # 0
  /\ Forks(Chat, ask.transcript, ask.files, "log")
  /\ ask' = NoAsk
  /\ UNCHANGED asked

Next == Turn \/ HandOffLog \/ AskSource \/ NoteComes \/ NoNote

Spec == Init /\ [][Next]_vars

----------------------------------------------------------------------------
Requests == 1..MaxRequests
Longest  == MaxChars + Wording + MaxText + MaxFiles
Texts == [role : {"user", "assistant", "transcript", ""}, size : 0..Longest,
          of : SUBSET Requests]
TypeOK ==
  /\ asked \in [n : 0..MaxRequests, late : SUBSET Requests]
  /\ ask \in [at : 0..MaxThreads, transcript : Texts, files : 0..MaxTouched]
  /\ threads \in Seq([messages : Seq(Texts), files : 0..MaxTouched,
                      seed : {"none", "agent", "log"}])

(* The thread before thread i, as it was when thread i was forked: nothing  *)
(* is added to it later.                                                    *)
Before(i) == threads[i - 1].messages
FirstOf(i) == SelectSeq(Before(i), LAMBDA m : m.size > 0)[1]
FromLog == {i \in 2..Len(threads) : threads[i].seed = "log"}

(* "Bounded context export": the seed of a log packet is never longer than  *)
(* the transcript's bound, the wording and the files it lists, however long *)
(* the chain is.                                                            *)
SeedIsBounded ==
  \A i \in FromLog : threads[i].messages[1].size <= MaxChars + Wording + MaxFiles

(* A log packet tells of what the thread began with, and so of the first    *)
(* request of the whole chain while every message that carried it on was    *)
(* short enough to be quoted.                                               *)
BeginningIsKept ==
  \A i \in FromLog :
    FirstOf(i).size + Heading <= MaxChars => FirstOf(i).of \subseteq threads[i].messages[1].of

(* A request that a log packet leaves out came after everything it tells,   *)
(* and did not fit, or was made while the source was asked for its note:    *)
(* "continue the user's last request" asks for more than that.              *)
Sizes(messages) ==
  FoldLeft(LAMBDA s, m : IF m.size = 0 THEN s ELSE s + m.size + Heading, 0, messages)
Place(messages, r) ==
  CHOOSE j \in DOMAIN messages :
    r \in messages[j].of /\ \A k \in 1..j - 1 : r \notin messages[k].of
UpTo(messages, r) == SubSeq(messages, 1, Place(messages, r))
Told(messages) == UNION {messages[j].of : j \in DOMAIN messages}
LeavesOutOnlyTheEnd ==
  \A i \in FromLog :
    LET told == threads[i].messages[1].of IN
      \A r \in Told(Before(i)) \ told :
        /\ \A q \in told : Place(Before(i), q) < Place(Before(i), r)
        /\ r \in asked.late \/ Sizes(UpTo(Before(i), r)) > MaxChars

PacketsAreTrue == SeedIsBounded /\ BeginningIsKept /\ LeavesOutOnlyTheEnd
=============================================================================
