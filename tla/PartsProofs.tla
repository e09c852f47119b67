----------------------------- MODULE PartsProofs -----------------------------
(***************************************************************************)
(* What DaemonProofs, AdapterProofs, AdapterLives and WindowProofs prove,  *)
(* of the specification that is model-checked: a behaviour of MCParts whose *)
(* part is one of the daemon or an adapter is a behaviour of DaemonSpec or *)
(* of AdapterSpec; one whose part takes its constants as arguments (Check, *)
(* Com, CliSes, Upd, Dlv, Pan, Wel) is one of that instance.  In every other *)
(* behaviour there is nothing to show.                                     *)
(***************************************************************************)
EXTENDS MCParts, DaemonProofs, AdapterLives, WindowProofs

InDaemon == kind \in {"sockets", "text", "lanes", "setup", "endpoints", "note", "rpc"}
InAdapters == kind \in Adapters

(* The part that was chosen is the only one that moves.                     *)
LEMMA DaemonPart ==
  /\ InDaemon /\ ChosenInit => DaemonInit
  /\ InDaemon /\ [Next]_vars => [DaemonNext]_vars
BY DEF InDaemon, ChosenInit, Init, Next, AdapterInit, AdapterNext, Is, Of

LEMMA AdapterPart ==
  /\ InAdapters /\ ChosenInit => AdapterInit
  /\ InAdapters /\ [Next]_vars => [AdapterNext]_vars
BY DEF InAdapters, Adapters, ChosenInit, Init, Next, DaemonInit, DaemonNext, Is, Of

LEMMA PartStays == [Next]_vars => kind' = kind
BY DEF Next, DaemonNext, AdapterNext, Of, vars

LEMMA PartIsOne ==
  [Next]_vars => (InDaemon' <=> InDaemon) /\ (InAdapters' <=> InAdapters)
BY PartStays DEF InDaemon, InAdapters

-----------------------------------------------------------------------------
(* The daemon                                                               *)

(* An open socket belongs to this machine or to a paired device, and a link *)
(* pairs one device, in whatever order links are made, redeemed and expire  *)
(* and devices connect and are revoked.                                     *)
THEOREM OnlyPairedInParts == Spec => []OnlyPairedConnect
<1>1. ~InDaemon => OnlyPairedConnect
  BY DEF InDaemon, OnlyPairedConnect, Is
<1>2. QED
  BY <1>1, DaemonPart, PartIsOne, OnlyPaired, PTL DEF Spec, DaemonSpec

(* An approval is answered at most once, by a window, by another one at the *)
(* same time or by a change of the mode.                                    *)
THEOREM AnsweredOnceInParts == Spec => []AnsweredOnce
<1>1. ~InDaemon => AnsweredOnce
  BY DEF InDaemon, AnsweredOnce, Is
<1>2. QED
  BY <1>1, DaemonPart, PartIsOne, ApprovalAnsweredOnce, PTL DEF Spec, DaemonSpec

(* The text of a settled turn is changed no more: no late piece, flush or   *)
(* exit writes into the transcript of a turn that is over.                  *)
THEOREM SettledTextInParts == Spec => SettledTextStays
<1>1. ~InDaemon => [Is("text") => Text!KeepsSettledText]_vars
  BY DEF InDaemon, Is
<1>2. QED
  BY <1>1, DaemonPart, PartIsOne, SettledTextKept, PTL DEF Spec, DaemonSpec, SettledTextStays

(* No two worktrees are on one branch, none on a branch that is gone.       *)
(* Ports stay apart, but for lanes created at a time or archived while they *)
(* are prepared; nothing that is refused is copied; a lane that says it is  *)
(* ready has its copies; an archived one has nothing left.                  *)
THEOREM LanesApartInParts == Spec => []BranchesDistinct
<1>1. ~InDaemon => BranchesDistinct
  BY DEF InDaemon, BranchesDistinct, Is
<1>2. QED
  BY <1>1, DaemonPart, PartIsOne, LanesKeepApart, PTL DEF Spec, DaemonSpec

(* Uncommitted changes, and commits that are on one branch alone, go only   *)
(* by an archive that was confirmed, wherever edits, crashes and calls at   *)
(* other lanes fall between the check and the removal.                      *)
THEOREM NothingLostInParts == Spec => NothingLostUnasked
<1>1. ~InDaemon => [Is("lanes") => Lane!LosesOnlyConfirmed]_vars
  BY DEF InDaemon, Is
<1>2. QED
  BY <1>1, DaemonPart, PartIsOne, LaneLosesNothingUnasked, PTL
     DEF Spec, DaemonSpec, NothingLostUnasked

-----------------------------------------------------------------------------
(* The adapters                                                             *)

(* Every adapter keeps the contract, for any number of turns and however    *)
(* its process, its timers, its callers and the user interleave: a refused  *)
(* turn never ends and a turn that was taken is reported over at most once  *)
(* (the codex adapter may say so twice).                                    *)
THEOREM AdaptersKeepPromiseInParts == Spec => KeepsPromise
<1>1. ~InAdapters => Shown = [t \in Turns |-> "fresh"]
  BY DEF InAdapters, Adapters, Shown, FreshHost, Is
<1>2. ~InAdapters => Promise!Init
  BY <1>1 DEF Promise!Init, Shown
<1>3. ~InAdapters /\ ~InAdapters' => [Promise!Next]_Shown
  BY DEF InAdapters, Adapters, Shown, FreshHost, Is
<1>4. QED
  BY <1>2, <1>3, AdapterPart, PartIsOne, AdaptersKeepPromise, PTL
     DEF Spec, AdapterSpec, KeepsPromise, Promise!Spec, Shown

(* The conversation the openai-compatible adapter sends with each request   *)
(* has each question once, and each answer right behind its question.       *)
THEOREM ConversationInParts == Spec => []ConversationMakesSense
<1>1. ~InAdapters => ConversationMakesSense
  BY DEF InAdapters, Adapters, ConversationMakesSense, Is
<1>2. QED
  BY <1>1, AdapterPart, PartIsOne, ConversationIsSensible, PTL DEF Spec, AdapterSpec

(* No session of codex, claude or acp stays busy for good: what it believes *)
(* is running has not ended, and something that will end it is on its way,  *)
(* whatever its process, its timers and the user do.                        *)
THEOREM BusyWillFreeInParts == Spec => []BusyWillFree
<1>1. ~InAdapters => BusyWillFree
  BY DEF InAdapters, Adapters, BusyWillFree, Is
<1>2. QED
  BY <1>1, AdapterPart, PartIsOne, SessionsWillFree, PTL DEF Spec, AdapterSpec

-----------------------------------------------------------------------------
(* Both                                                                     *)

(* Nobody waits for what will not come: a request of the JSON-RPC client, a *)
(* handoff that waits for the turn that writes its note, an agent that      *)
(* asked for a permission.                                                  *)
THEOREM NobodyWaitsInParts == Spec => []NobodyWaitsInVain
<1>1. Spec => []CallersAnswered
  <2>1. ~InDaemon => CallersAnswered
    BY DEF InDaemon, CallersAnswered, Is
  <2>2. QED
    BY <2>1, DaemonPart, PartIsOne, CallersGetAnswers, PTL DEF Spec, DaemonSpec
<1>2. Spec => []AgentsAnswered
  <2>1. ~InAdapters => AgentsAnswered
    BY DEF InAdapters, Adapters, AgentsAnswered, Is
  <2>2. QED
    BY <2>1, AdapterPart, PartIsOne, AgentsGetAnswers, PTL DEF Spec, AdapterSpec
<1>3. CallersAnswered /\ AgentsAnswered => NobodyWaitsInVain
  BY DEF NobodyWaitsInVain
<1>4. QED
  BY <1>1, <1>2, <1>3, PTL

(* Nothing runs on unseen: a shell goes with its pane or its socket, a      *)
(* stream of a turn that is over is out of reach only since an edit of its  *)
(* endpoint, and a process of a session that let it go is in the hands of a *)
(* Stop, or on its way out.                                                 *)
THEOREM NoStrayInParts == Spec => []NoStrayProcess
<1>1. Spec => []NoStrayShell
  <2>1. ~InDaemon => NoStrayShell
    BY DEF InDaemon, NoStrayShell, Is
  <2>2. QED
    BY <2>1, DaemonPart, PartIsOne, ShellsWithPanes, PTL DEF Spec, DaemonSpec
<1>2. Spec => []NoStrayStream
  <2>1. ~InDaemon => NoStrayStream
    BY DEF InDaemon, NoStrayStream, Is
  <2>2. QED
    BY <2>1, DaemonPart, PartIsOne, StreamsInReach, PTL DEF Spec, DaemonSpec
<1>3. Spec => []NoStrayTurn
  <2>1. ~InAdapters => NoStrayTurn
    BY DEF InAdapters, Adapters, NoStrayTurn, Is
  <2>2. QED
    BY <2>1, AdapterPart, PartIsOne, NoStrayTurns, PTL DEF Spec, AdapterSpec
<1>4. NoStrayShell /\ NoStrayStream /\ NoStrayTurn => NoStrayProcess
  BY DEF NoStrayProcess
<1>5. QED
  BY <1>1, <1>2, <1>3, <1>4, PTL
-----------------------------------------------------------------------------
(* The checkpoints, the new conversations and the sessions of a CLI         *)

LEMMA Check1Holds ==
  Spec => [](Is("check1") => Check(TwoThreads, OneFile, 2, MaxRestores)!DiffShowsEdits)
<1>0. [Next]_vars => (Is("check1")' <=> Is("check1"))
  BY PartStays DEF Is
<1>1. Is("check1") /\ ChosenInit => Check(TwoThreads, OneFile, 2, MaxRestores)!Init
  BY DEF ChosenInit, Init, DaemonInit, AdapterInit, Is
<1>2. Is("check1") /\ [Next]_vars =>
        [Check(TwoThreads, OneFile, 2, MaxRestores)!Next]_
          (Check(TwoThreads, OneFile, 2, MaxRestores)!vars)
  <2>1. Is("check1") /\ Next => Check(TwoThreads, OneFile, 2, MaxRestores)!Next
    BY DEF Next, DaemonNext, AdapterNext, Is, Of
  <2>2. UNCHANGED vars => UNCHANGED Check(TwoThreads, OneFile, 2, MaxRestores)!vars
    BY DEF vars, Check!vars
  <2>3. QED
    BY <2>1, <2>2
<1>3. Check(TwoThreads, OneFile, 2, MaxRestores)!Init => CheckInv(TwoThreads, OneFile)
  BY CheckInduct
<1>4. CheckInv(TwoThreads, OneFile) /\
        [Check(TwoThreads, OneFile, 2, MaxRestores)!Next]_
          (Check(TwoThreads, OneFile, 2, MaxRestores)!vars)
        => CheckInv(TwoThreads, OneFile)'
  BY CheckInduct
<1>5. CheckInv(TwoThreads, OneFile) => Check(TwoThreads, OneFile, 2, MaxRestores)!DiffShowsEdits
  BY CheckInduct
<1>6. QED
  BY <1>0, <1>1, <1>2, <1>3, <1>4, <1>5, PTL DEF Spec

LEMMA Check2Holds ==
  Spec => [](Is("check2") => Check(TwoThreads, TwoFiles, 1, MaxRestores)!DiffShowsEdits)
<1>0. [Next]_vars => (Is("check2")' <=> Is("check2"))
  BY PartStays DEF Is
<1>1. Is("check2") /\ ChosenInit => Check(TwoThreads, TwoFiles, 1, MaxRestores)!Init
  BY DEF ChosenInit, Init, DaemonInit, AdapterInit, Is
<1>2. Is("check2") /\ [Next]_vars =>
        [Check(TwoThreads, TwoFiles, 1, MaxRestores)!Next]_
          (Check(TwoThreads, TwoFiles, 1, MaxRestores)!vars)
  <2>1. Is("check2") /\ Next => Check(TwoThreads, TwoFiles, 1, MaxRestores)!Next
    BY DEF Next, DaemonNext, AdapterNext, Is, Of
  <2>2. UNCHANGED vars => UNCHANGED Check(TwoThreads, TwoFiles, 1, MaxRestores)!vars
    BY DEF vars, Check!vars
  <2>3. QED
    BY <2>1, <2>2
<1>3. Check(TwoThreads, TwoFiles, 1, MaxRestores)!Init => CheckInv(TwoThreads, TwoFiles)
  BY CheckInduct
<1>4. CheckInv(TwoThreads, TwoFiles) /\
        [Check(TwoThreads, TwoFiles, 1, MaxRestores)!Next]_
          (Check(TwoThreads, TwoFiles, 1, MaxRestores)!vars)
        => CheckInv(TwoThreads, TwoFiles)'
  BY CheckInduct
<1>5. CheckInv(TwoThreads, TwoFiles) => Check(TwoThreads, TwoFiles, 1, MaxRestores)!DiffShowsEdits
  BY CheckInduct
<1>6. QED
  BY <1>0, <1>1, <1>2, <1>3, <1>4, <1>5, PTL DEF Spec

LEMMA Compose1Holds ==
  Spec => [](Is("compose1") => Com(TwoKinds, "p", OneSend, 2, 2, 0, 4)!MessagesAsChosen)
<1>0. [Next]_vars => (Is("compose1")' <=> Is("compose1"))
  BY PartStays DEF Is
<1>1. Is("compose1") /\ ChosenInit => Com(TwoKinds, "p", OneSend, 2, 2, 0, 4)!Init
  BY DEF ChosenInit, Init, DaemonInit, AdapterInit, Is
<1>2. Is("compose1") /\ [Next]_vars =>
        [Com(TwoKinds, "p", OneSend, 2, 2, 0, 4)!Next]_
          (Com(TwoKinds, "p", OneSend, 2, 2, 0, 4)!vars)
  <2>1. Is("compose1") /\ Next => Com(TwoKinds, "p", OneSend, 2, 2, 0, 4)!Next
    BY DEF Next, DaemonNext, AdapterNext, Is, Of
  <2>2. UNCHANGED vars => UNCHANGED Com(TwoKinds, "p", OneSend, 2, 2, 0, 4)!vars
    BY DEF vars, Com!vars
  <2>3. QED
    BY <2>1, <2>2
<1>3. Com(TwoKinds, "p", OneSend, 2, 2, 0, 4)!Init => ComInv(TwoKinds, OneSend, 2)
  BY ComInduct DEF TwoKinds
<1>4. ComInv(TwoKinds, OneSend, 2) /\
        [Com(TwoKinds, "p", OneSend, 2, 2, 0, 4)!Next]_
          (Com(TwoKinds, "p", OneSend, 2, 2, 0, 4)!vars)
        => ComInv(TwoKinds, OneSend, 2)'
  BY ComInduct DEF TwoKinds
<1>5. ComInv(TwoKinds, OneSend, 2) => Com(TwoKinds, "p", OneSend, 2, 2, 0, 4)!MessagesAsChosen
  BY ComInduct DEF TwoKinds
<1>6. QED
  BY <1>0, <1>1, <1>2, <1>3, <1>4, <1>5, PTL DEF Spec

LEMMA Compose2Holds ==
  Spec => [](Is("compose2") => Com(TwoKinds, "p", TwoSends, 2, 2, 1, 1)!MessagesAsChosen)
<1>0. [Next]_vars => (Is("compose2")' <=> Is("compose2"))
  BY PartStays DEF Is
<1>1. Is("compose2") /\ ChosenInit => Com(TwoKinds, "p", TwoSends, 2, 2, 1, 1)!Init
  BY DEF ChosenInit, Init, DaemonInit, AdapterInit, Is
<1>2. Is("compose2") /\ [Next]_vars =>
        [Com(TwoKinds, "p", TwoSends, 2, 2, 1, 1)!Next]_
          (Com(TwoKinds, "p", TwoSends, 2, 2, 1, 1)!vars)
  <2>1. Is("compose2") /\ Next => Com(TwoKinds, "p", TwoSends, 2, 2, 1, 1)!Next
    BY DEF Next, DaemonNext, AdapterNext, Is, Of
  <2>2. UNCHANGED vars => UNCHANGED Com(TwoKinds, "p", TwoSends, 2, 2, 1, 1)!vars
    BY DEF vars, Com!vars
  <2>3. QED
    BY <2>1, <2>2
<1>3. Com(TwoKinds, "p", TwoSends, 2, 2, 1, 1)!Init => ComInv(TwoKinds, TwoSends, 2)
  BY ComInduct DEF TwoKinds
<1>4. ComInv(TwoKinds, TwoSends, 2) /\
        [Com(TwoKinds, "p", TwoSends, 2, 2, 1, 1)!Next]_
          (Com(TwoKinds, "p", TwoSends, 2, 2, 1, 1)!vars)
        => ComInv(TwoKinds, TwoSends, 2)'
  BY ComInduct DEF TwoKinds
<1>5. ComInv(TwoKinds, TwoSends, 2) => Com(TwoKinds, "p", TwoSends, 2, 2, 1, 1)!MessagesAsChosen
  BY ComInduct DEF TwoKinds
<1>6. QED
  BY <1>0, <1>1, <1>2, <1>3, <1>4, <1>5, PTL DEF Spec

LEMMA ClisHold ==
  Spec => [](Is("clis") => CliSes(TwoTurns, TwoSessions, "none", 1, TwoClis)!SessionsFit)
<1>0. [Next]_vars => (Is("clis")' <=> Is("clis"))
  BY PartStays DEF Is
<1>1. Is("clis") /\ ChosenInit => CliSes(TwoTurns, TwoSessions, "none", 1, TwoClis)!Init
  BY DEF ChosenInit, Init, DaemonInit, AdapterInit, Is
<1>2. Is("clis") /\ [Next]_vars =>
        [CliSes(TwoTurns, TwoSessions, "none", 1, TwoClis)!Next]_
          (CliSes(TwoTurns, TwoSessions, "none", 1, TwoClis)!vars)
  <2>1. Is("clis") /\ Next => CliSes(TwoTurns, TwoSessions, "none", 1, TwoClis)!Next
    BY DEF Next, DaemonNext, AdapterNext, Is, Of
  <2>2. UNCHANGED vars => UNCHANGED CliSes(TwoTurns, TwoSessions, "none", 1, TwoClis)!vars
    BY DEF vars, CliSes!vars
  <2>3. QED
    BY <2>1, <2>2
<1>3. CliPlace(TwoTurns, TwoSessions, "none", TwoClis)
  BY DEF CliPlace, CliNames, TwoTurns, TwoSessions, TwoClis
<1>4. CliSes(TwoTurns, TwoSessions, "none", 1, TwoClis)!Init => CliInv(TwoTurns, TwoSessions, "none", TwoClis)
  BY <1>3, CliInduct
<1>5. CliInv(TwoTurns, TwoSessions, "none", TwoClis) /\
        [CliSes(TwoTurns, TwoSessions, "none", 1, TwoClis)!Next]_
          (CliSes(TwoTurns, TwoSessions, "none", 1, TwoClis)!vars)
        => CliInv(TwoTurns, TwoSessions, "none", TwoClis)'
  BY <1>3, CliInduct
<1>6. CliInv(TwoTurns, TwoSessions, "none", TwoClis) => CliSes(TwoTurns, TwoSessions, "none", 1, TwoClis)!SessionsFit
  BY <1>3, CliInduct
<1>7. QED
  BY <1>0, <1>1, <1>2, <1>4, <1>5, <1>6, PTL DEF Spec

(* Adapters and windows have the endpoints there are, the process of a turn *)
(* has the mode and the conversation of its thread, and a thread what its   *)
(* user had chosen for it.                                                  *)
THEOREM ProvidersAgreeInParts == Spec => []ProvidersAgree
<1>1. Spec => [](Is("endpoints") => Ends!ProvidersAgree)
  <2>1. ~InDaemon => (Is("endpoints") => Ends!ProvidersAgree)
    BY DEF InDaemon, Is
  <2>2. QED
    BY <2>1, DaemonPart, PartIsOne, EndpointsAgree, PTL DEF Spec, DaemonSpec
<1>2. /\ Is("endpoints") => Ends!ProvidersAgree
      /\ Is("clis") => CliSes(TwoTurns, TwoSessions, "none", 1, TwoClis)!SessionsFit
      /\ Is("compose1") => Com(TwoKinds, "p", OneSend, 2, 2, 0, 4)!MessagesAsChosen
      /\ Is("compose2") => Com(TwoKinds, "p", TwoSends, 2, 2, 1, 1)!MessagesAsChosen
      => ProvidersAgree
  BY DEF ProvidersAgree
<1>3. QED
  BY <1>1, <1>2, ClisHold, Compose1Holds, Compose2Holds, PTL

(* The diff of a turn shows every file its agent edited; what a window draws *)
(* from a patch is left to TLC.                                             *)
THEOREM DiffsInParts == Spec => [](kind # "patches" => DiffShowsEdits)
<1>1. /\ Is("check1") => Check(TwoThreads, OneFile, 2, MaxRestores)!DiffShowsEdits
      /\ Is("check2") => Check(TwoThreads, TwoFiles, 1, MaxRestores)!DiffShowsEdits
      => (kind # "patches" => DiffShowsEdits)
  BY DEF DiffShowsEdits, Is
<1>2. QED
  BY <1>1, Check1Holds, Check2Holds, PTL

(* The transcript of a turn keeps what was shown of it and is settled with  *)
(* it, where a turn is one message; what is handed off is left to TLC.      *)
THEOREM TranscriptKeptInParts ==
  ASSUME PerItem = Pieces
  PROVE  Spec => [](kind # "packets" => TranscriptKeeps)
<1>1. Spec => [](Is("text") => Text!TranscriptKeeps)
  <2>1. ~InDaemon => (Is("text") => Text!TranscriptKeeps)
    BY DEF InDaemon, Is
  <2>2. QED
    BY <2>1, DaemonPart, PartIsOne, TextIsKept, PTL DEF Spec, DaemonSpec
<1>2. (Is("text") => Text!TranscriptKeeps) => (kind # "packets" => TranscriptKeeps)
  BY DEF TranscriptKeeps, Is
<1>3. QED
  BY <1>1, <1>2, PTL
-----------------------------------------------------------------------------
(* The windows                                                              *)

LEMMA UpdatesHold ==
  Spec => [](Is("updates") => Upd(OnePackage, FirstReleases, 1, 2, 2, 3)!UpdatesAreTrue)
<1>0. [Next]_vars => (Is("updates")' <=> Is("updates"))
  BY PartStays DEF Is
<1>1. Is("updates") /\ ChosenInit => Upd(OnePackage, FirstReleases, 1, 2, 2, 3)!Init
  BY DEF ChosenInit, Init, DaemonInit, AdapterInit, Is
<1>2. Is("updates") /\ [Next]_vars =>
        [Upd(OnePackage, FirstReleases, 1, 2, 2, 3)!Next]_
          (Upd(OnePackage, FirstReleases, 1, 2, 2, 3)!vars)
  <2>1. Is("updates") /\ Next => Upd(OnePackage, FirstReleases, 1, 2, 2, 3)!Next
    BY DEF Next, DaemonNext, AdapterNext, Is, Of
  <2>2. UNCHANGED vars => UNCHANGED Upd(OnePackage, FirstReleases, 1, 2, 2, 3)!vars
    BY DEF vars, Upd!vars
  <2>3. QED
    BY <2>1, <2>2
<1>3. InOrder(FirstReleases)
  BY ThreeInOrder DEF FirstReleases, Release
<1>4. Upd(OnePackage, FirstReleases, 1, 2, 2, 3)!Init => UpInv(OnePackage, FirstReleases, 2)
  BY <1>3, UpInduct
<1>5. UpInv(OnePackage, FirstReleases, 2) /\
        [Upd(OnePackage, FirstReleases, 1, 2, 2, 3)!Next]_
          (Upd(OnePackage, FirstReleases, 1, 2, 2, 3)!vars)
        => UpInv(OnePackage, FirstReleases, 2)'
  BY <1>3, UpInduct
<1>6. UpInv(OnePackage, FirstReleases, 2) => Upd(OnePackage, FirstReleases, 1, 2, 2, 3)!UpdatesAreTrue
  BY <1>3, UpInduct
<1>7. QED
  BY <1>0, <1>1, <1>2, <1>4, <1>5, <1>6, PTL DEF Spec

LEMMA Delivery1Holds ==
  Spec => [](Is("delivery1") => Dlv(OneFile, 2, 2)!DeliveredIsThere)
<1>0. [Next]_vars => (Is("delivery1")' <=> Is("delivery1"))
  BY PartStays DEF Is
<1>1. Is("delivery1") /\ ChosenInit => Dlv(OneFile, 2, 2)!Init
  BY DEF ChosenInit, Init, DaemonInit, AdapterInit, Is
<1>2. Is("delivery1") /\ [Next]_vars =>
        [Dlv(OneFile, 2, 2)!Next]_(Dlv(OneFile, 2, 2)!vars)
  <2>1. Is("delivery1") /\ Next => Dlv(OneFile, 2, 2)!Next
    BY DEF Next, DaemonNext, AdapterNext, Is, Of
  <2>2. UNCHANGED vars => UNCHANGED Dlv(OneFile, 2, 2)!vars
    BY DEF vars, Dlv!vars
  <2>3. QED
    BY <2>1, <2>2
<1>3. Dlv(OneFile, 2, 2)!Init => DlvInv(OneFile)
  BY DlvInduct
<1>4. DlvInv(OneFile) /\
        [Dlv(OneFile, 2, 2)!Next]_(Dlv(OneFile, 2, 2)!vars)
        => DlvInv(OneFile)'
  BY DlvInduct
<1>5. DlvInv(OneFile) => Dlv(OneFile, 2, 2)!DeliveredIsThere
  BY DlvInduct
<1>6. QED
  BY <1>0, <1>1, <1>2, <1>3, <1>4, <1>5, PTL DEF Spec

LEMMA Delivery2Holds ==
  Spec => [](Is("delivery2") => Dlv(TwoFiles, 1, 2)!DeliveredIsThere)
<1>0. [Next]_vars => (Is("delivery2")' <=> Is("delivery2"))
  BY PartStays DEF Is
<1>1. Is("delivery2") /\ ChosenInit => Dlv(TwoFiles, 1, 2)!Init
  BY DEF ChosenInit, Init, DaemonInit, AdapterInit, Is
<1>2. Is("delivery2") /\ [Next]_vars =>
        [Dlv(TwoFiles, 1, 2)!Next]_(Dlv(TwoFiles, 1, 2)!vars)
  <2>1. Is("delivery2") /\ Next => Dlv(TwoFiles, 1, 2)!Next
    BY DEF Next, DaemonNext, AdapterNext, Is, Of
  <2>2. UNCHANGED vars => UNCHANGED Dlv(TwoFiles, 1, 2)!vars
    BY DEF vars, Dlv!vars
  <2>3. QED
    BY <2>1, <2>2
<1>3. Dlv(TwoFiles, 1, 2)!Init => DlvInv(TwoFiles)
  BY DlvInduct
<1>4. DlvInv(TwoFiles) /\
        [Dlv(TwoFiles, 1, 2)!Next]_(Dlv(TwoFiles, 1, 2)!vars)
        => DlvInv(TwoFiles)'
  BY DlvInduct
<1>5. DlvInv(TwoFiles) => Dlv(TwoFiles, 1, 2)!DeliveredIsThere
  BY DlvInduct
<1>6. QED
  BY <1>0, <1>1, <1>2, <1>3, <1>4, <1>5, PTL DEF Spec

LEMMA PanesHold ==
  Spec => [](Is("panes") => Pan(TwoThreads, "a", OneFile, 1, 4)!PanesTellTruth)
<1>0. [Next]_vars => (Is("panes")' <=> Is("panes"))
  BY PartStays DEF Is
<1>1. Is("panes") /\ ChosenInit => Pan(TwoThreads, "a", OneFile, 1, 4)!Init
  BY DEF ChosenInit, Init, DaemonInit, AdapterInit, Is
<1>2. Is("panes") /\ [Next]_vars =>
        [Pan(TwoThreads, "a", OneFile, 1, 4)!Next]_
          (Pan(TwoThreads, "a", OneFile, 1, 4)!vars)
  <2>1. Is("panes") /\ Next => Pan(TwoThreads, "a", OneFile, 1, 4)!Next
    BY DEF Next, DaemonNext, AdapterNext, Is, Of
  <2>2. UNCHANGED vars => UNCHANGED Pan(TwoThreads, "a", OneFile, 1, 4)!vars
    BY DEF vars, Pan!vars
  <2>3. QED
    BY <2>1, <2>2
<1>3. Pan(TwoThreads, "a", OneFile, 1, 4)!Init => PanInv(TwoThreads, OneFile)
  BY PanInduct DEF TwoThreads
<1>4. PanInv(TwoThreads, OneFile) /\
        [Pan(TwoThreads, "a", OneFile, 1, 4)!Next]_
          (Pan(TwoThreads, "a", OneFile, 1, 4)!vars)
        => PanInv(TwoThreads, OneFile)'
  BY PanInduct DEF TwoThreads
<1>5. PanInv(TwoThreads, OneFile) => Pan(TwoThreads, "a", OneFile, 1, 4)!PanesTellTruth
  BY PanInduct DEF TwoThreads
<1>6. QED
  BY <1>0, <1>1, <1>2, <1>3, <1>4, <1>5, PTL DEF Spec

LEMMA WelcomeHolds ==
  Spec => [](Is("welcome") => Wel(OneFolder, 3, 5)!WelcomeIsTrue)
<1>0. [Next]_vars => (Is("welcome")' <=> Is("welcome"))
  BY PartStays DEF Is
<1>1. Is("welcome") /\ ChosenInit => Wel(OneFolder, 3, 5)!Init
  BY DEF ChosenInit, Init, DaemonInit, AdapterInit, Is
<1>2. Is("welcome") /\ [Next]_vars =>
        [Wel(OneFolder, 3, 5)!Next]_(Wel(OneFolder, 3, 5)!vars)
  <2>1. Is("welcome") /\ Next => Wel(OneFolder, 3, 5)!Next
    BY DEF Next, DaemonNext, AdapterNext, Is, Of
  <2>2. UNCHANGED vars => UNCHANGED Wel(OneFolder, 3, 5)!vars
    BY DEF vars, Wel!vars
  <2>3. QED
    BY <2>1, <2>2
<1>3. Wel(OneFolder, 3, 5)!Init => WelInv(OneFolder, 3)
  BY WelInduct
<1>4. WelInv(OneFolder, 3) /\
        [Wel(OneFolder, 3, 5)!Next]_(Wel(OneFolder, 3, 5)!vars)
        => WelInv(OneFolder, 3)'
  BY WelInduct
<1>5. WelInv(OneFolder, 3) => Wel(OneFolder, 3, 5)!WelcomeIsTrue
  BY WelInduct
<1>6. QED
  BY <1>0, <1>1, <1>2, <1>3, <1>4, <1>5, PTL DEF Spec

(* A window shows the panes of its thread and the texts of its files, as     *)
(* committed or pushed what is, as an update what is one, and on the first  *)
(* run a project that is there; for the approvals and the messages of a     *)
(* thread and for the list of threads TLC shows it.                         *)
THEOREM WindowInParts == Spec => [](kind \notin {"view", "lists"} => WindowTellsTruth)
<1>1. /\ Is("panes") => Pan(TwoThreads, "a", OneFile, 1, 4)!PanesTellTruth
      /\ Is("delivery1") => Dlv(OneFile, 2, 2)!DeliveredIsThere
      /\ Is("delivery2") => Dlv(TwoFiles, 1, 2)!DeliveredIsThere
      /\ Is("updates") => Upd(OnePackage, FirstReleases, 1, 2, 2, 3)!UpdatesAreTrue
      /\ Is("welcome") => Wel(OneFolder, 3, 5)!WelcomeIsTrue
      => (kind \notin {"view", "lists"} => WindowTellsTruth)
  BY DEF WindowTellsTruth, Is
<1>2. QED
  BY <1>1, UpdatesHold, Delivery1Holds, Delivery2Holds, PanesHold, WelcomeHolds, PTL
=============================================================================
