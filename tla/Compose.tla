-------------------------------- MODULE Compose --------------------------------
(***************************************************************************)
(* A new conversation from the landing page of a window: the choices       *)
(* around the composer, the images dropped on it, and what a Send becomes: *)
(* thread.create, thread.setPermissionMode, thread.setProvider, a refresh, *)
(* opening the thread and turn.send, each awaited and each fallible        *)
(* (App.tsx, Composer.tsx, AgentPicker.tsx).  The daemon keeps a row per   *)
(* thread; the thread a Send creates is named after the Send.  One project.*)
(***************************************************************************)
EXTENDS Naturals, FiniteSets

CONSTANTS
  Kinds,        \* the providers the daemon knows
  Initial,      \* the one a fresh window starts with, "claude"
  Sends,        \* bound: the Sends of this window
  MaxImages,    \* MAX_IMAGES of the window and of sendTurn
  MaxFiles,     \* bound: files of one drop
  MaxDrops,     \* bound: drops
  MaxChanges    \* bound: detections, toggles in the settings, picks and removals

VARIABLES
  world,    \* the providers the window was told are available, those switched off
  draft,    \* draftProvider, draftModel, draftPermission and the saved provider
  box,      \* the composer: its text, its images, the drops being read
  call,     \* createAndSend of each Send
  rows,     \* the daemon's threads
  win,      \* landingBusy, the open thread, the turn shown
  count     \* drops and changes so far

vars == <<world, draft, box, call, rows, win, count>>

Nobody == "nobody"
Default == "default"
PermissionModes == {"supervised", "full_access"}
ModelsOf(k) == {Default, k}      \* a model other than the default is named after its provider

NoCall == [at |-> "no", kind |-> Initial, model |-> Default, mode |-> "supervised", images |-> 0]
NoRow  == [kind |-> Nobody, model |-> Default, mode |-> "supervised", turns |-> 0]

Init ==
  /\ world = [there |-> {}, off |-> {}]
  /\ draft = [kind |-> Initial, model |-> Default, mode |-> "supervised", saved |-> Nobody,
              moved |-> FALSE]
  /\ box = [text |-> FALSE, images |-> 0, reads |-> {}, crossed |-> FALSE]
  /\ call = [s \in Sends |-> NoCall]
  /\ rows = [s \in Sends |-> NoRow]
  /\ win = [busy |-> FALSE, open |-> Nobody, turn |-> Nobody, away |-> FALSE]
  /\ count = [drops |-> 0, changes |-> 0]

Changes == count.changes < MaxChanges /\ count' = [count EXCEPT !.changes = @ + 1]

----------------------------------------------------------------------------
(* provider.detect is answered: the effect on providers moves the draft away *)
(* from one that is not available, and leaves its model.                    *)
Usable(w) == w.there \ w.off
Settle(d, w) ==
  IF Usable(w) = {} \/ d.kind \in Usable(w) THEN d
  ELSE [d EXCEPT !.kind = IF d.saved \in Usable(w) THEN d.saved
                          ELSE CHOOSE k \in Usable(w) : TRUE,
                 !.moved = TRUE]

Detected ==
  /\ Changes
  /\ \E s \in SUBSET Kinds : world' = [world EXCEPT !.there = s]
  /\ draft' = Settle(draft, world')
  /\ UNCHANGED <<box, call, rows, win>>

(* The switch of a provider in the settings: the effect does not run.       *)
Toggle ==
  /\ Changes
  /\ \E k \in Kinds : world' = [world EXCEPT !.off = IF k \in @ THEN @ \ {k} ELSE @ \cup {k}]
  /\ UNCHANGED <<draft, box, call, rows, win>>

Landing == win.open = Nobody

(* AgentPicker offers an agent that is there and switched on, or the one    *)
(* the draft has.                                                           *)
PickAgent ==
  /\ Landing /\ ~win.busy /\ Changes
  /\ \E k \in Usable(world) \cup {draft.kind} : \E m \in ModelsOf(k) :
       draft' = [draft EXCEPT !.kind = k, !.model = m, !.saved = k, !.moved = FALSE]
  /\ UNCHANGED <<world, box, call, rows, win>>

PickMode ==
  /\ Landing /\ Changes
  /\ \E m \in PermissionModes : draft' = [draft EXCEPT !.mode = m]
  /\ UNCHANGED <<world, box, call, rows, win>>

----------------------------------------------------------------------------
(* addFiles: how many there is room for is decided before they are read.    *)
Type ==
  /\ Landing /\ ~box.text
  /\ box' = [box EXCEPT !.text = TRUE]
  /\ UNCHANGED <<world, draft, call, rows, win, count>>

Least(a, b) == IF a < b THEN a ELSE b
AddFiles ==
  /\ Landing /\ box.images < MaxImages /\ count.drops < MaxDrops
  /\ \E n \in 1..MaxFiles :
       box' = [box EXCEPT !.reads = @ \cup {[drop |-> count.drops + 1,
                                             room |-> Least(n, MaxImages - box.images)]},
                          !.crossed = @ \/ box.reads # {}]
  /\ count' = [count EXCEPT !.drops = @ + 1]
  /\ UNCHANGED <<world, draft, call, rows, win>>

(* Files that are no image, too large or unreadable are left out.           *)
FilesRead ==
  /\ Landing
  /\ \E r \in box.reads : \E n \in 0..r.room :
       box' = [box EXCEPT !.images = @ + n, !.reads = @ \ {r}]
  /\ UNCHANGED <<world, draft, call, rows, win, count>>

RemoveImage ==
  /\ Landing /\ box.images > 0 /\ Changes
  /\ box' = [box EXCEPT !.images = @ - 1]
  /\ UNCHANGED <<world, draft, call, rows, win>>

----------------------------------------------------------------------------
CanSend == (box.text \/ box.images > 0) /\ ~(win.busy /\ box.images > 0)

(* submit empties the composer, sendFromLanding reads the draft.            *)
Submit(s) ==
  /\ Landing /\ CanSend /\ call[s].at = "no"
  /\ call' = [call EXCEPT ![s] =
       [at |-> "create", kind |-> draft.kind, model |-> draft.model, mode |-> draft.mode,
        images |-> box.images]]
  /\ box' = [box EXCEPT !.text = FALSE, !.images = 0]
  /\ draft' = [draft EXCEPT !.saved = draft.kind]
  /\ win' = [win EXCEPT !.busy = TRUE]
  /\ UNCHANGED <<world, rows, count>>

(* The request Send s awaits, and what comes after it.                      *)
After(c) ==
  CASE c.at = "create" -> IF c.mode # "supervised" THEN "mode"
                          ELSE IF c.model # Default THEN "model" ELSE "refresh"
    [] c.at = "mode"   -> IF c.model # Default THEN "model" ELSE "refresh"
    [] c.at = "model"  -> "refresh"
    [] c.at = "refresh" -> "snapshot"
    [] c.at = "snapshot" -> "send"
    [] c.at = "send"   -> "done"

(* What the daemon does on it.                                              *)
Row(r, c) ==
  CASE c.at = "create" -> [r EXCEPT !.kind = c.kind]
    [] c.at = "mode"   -> [r EXCEPT !.mode = c.mode]
    [] c.at = "model"  -> [r EXCEPT !.kind = c.kind, !.model = c.model]
    [] c.at = "send"   -> [r EXCEPT !.turns = @ + 1]
    [] OTHER -> r

Refuses(c) == c.at = "send" /\ c.images > MaxImages

Busy(s) == call[s].at \notin {"no", "done", "failed"}

(* Opening the thread shows no turn until its snapshot is there; the        *)
(* landing page, its composer and what was typed meanwhile are gone.        *)
Opened(w, t, b) ==
  /\ win' = [w EXCEPT !.open = t, !.turn = Nobody]
  /\ box' = [b EXCEPT !.text = FALSE, !.images = 0, !.reads = {}]

(* A request is answered.                                                   *)
Answered(s) ==
  /\ Busy(s) /\ ~Refuses(call[s])
  /\ rows' = [rows EXCEPT ![s] = Row(@, call[s])]
  /\ call' = [call EXCEPT ![s].at = After(call[s])]
  /\ CASE call[s].at = "refresh" -> Opened([win EXCEPT !.away = FALSE], s, box)
       [] call[s].at = "send" ->
            /\ win' = [win EXCEPT !.turn = s, !.busy = FALSE, !.away = @ \/ win.open # s]
            /\ UNCHANGED box
       [] OTHER -> UNCHANGED <<win, box>>
  /\ UNCHANGED <<world, draft, count>>

(* It is refused, or the connection is lost before or after the daemon did  *)
(* it: the catch of sendFromLanding ends the Send.                          *)
Fails(s) ==
  /\ Busy(s)
  /\ rows' \in {rows} \cup
       IF Refuses(call[s]) THEN {} ELSE {[rows EXCEPT ![s] = Row(@, call[s])]}
  /\ call' = [call EXCEPT ![s].at = "failed"]
  /\ win' = [win EXCEPT !.busy = FALSE]
  /\ UNCHANGED <<world, draft, box, count>>

(* The user opens a thread of the list.                                     *)
OpenThread ==
  /\ Changes
  /\ \E t \in Sends \ {win.open} : rows[t].kind # Nobody /\ Opened([win EXCEPT !.away = FALSE], t, box)
  /\ UNCHANGED <<world, draft, call, rows>>

Next ==
  \/ Detected \/ Toggle \/ PickAgent \/ PickMode \/ Type \/ AddFiles \/ FilesRead \/ RemoveImage
  \/ \E s \in Sends : Submit(s) \/ Answered(s) \/ Fails(s)
  \/ OpenThread

Spec == Init /\ [][Next]_vars

----------------------------------------------------------------------------
TypeOK ==
  /\ world \in [there : SUBSET Kinds, off : SUBSET Kinds]
  /\ draft \in [kind : Kinds, model : Kinds \cup {Default}, mode : PermissionModes,
                saved : Kinds \cup {Nobody}, moved : BOOLEAN]
  /\ box \in [text : BOOLEAN, images : 0..MaxDrops * MaxImages,
              reads : SUBSET [drop : 1..MaxDrops, room : 1..MaxImages], crossed : BOOLEAN]
  /\ call \in [Sends -> [at : {"no", "create", "mode", "model", "refresh", "snapshot", "send",
                               "done", "failed"},
                         kind : Kinds, model : Kinds \cup {Default}, mode : PermissionModes,
                         images : 0..MaxDrops * MaxImages]]
  /\ rows \in [Sends -> [kind : Kinds \cup {Nobody}, model : Kinds \cup {Default},
                         mode : PermissionModes, turns : 0..1]]
  /\ win \in [busy : BOOLEAN, open : Sends \cup {Nobody}, turn : Sends \cup {Nobody},
              away : BOOLEAN]
  /\ count \in [drops : 0..MaxDrops, changes : 0..MaxChanges]

(* No agent works on a message under another permission mode, another       *)
(* provider or another model than those its user had chosen, whatever fails *)
(* on the way and whatever is picked meanwhile.                             *)
WorksAsChosen ==
  \A s \in Sends :
    rows[s].turns > 0 => /\ rows[s].mode = call[s].mode
                         /\ rows[s].kind = call[s].kind
                         /\ rows[s].model = call[s].model

(* The model of the draft is one of its provider's, unless the effect chose *)
(* the provider.                                                            *)
ModelFits == draft.moved \/ draft.model \in ModelsOf(draft.kind)

(* The composer never holds more images than a turn may have, with those of *)
(* a drop that is being read, unless two drops were read at a time.         *)
ImagesFit ==
  \/ box.crossed
  \/ box.images <= MaxImages /\ \A r \in box.reads : box.images + r.room <= MaxImages

(* The turn that is shown is of the thread that is open, unless another     *)
(* thread was opened while it was being sent.                               *)
TurnIsOfThread == win.away \/ win.turn \in {Nobody, win.open}

MessagesAsChosen == WorksAsChosen /\ ModelFits /\ ImagesFit /\ TurnIsOfThread
=============================================================================
