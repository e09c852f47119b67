---------------------------- MODULE DaemonProofs ----------------------------
(***************************************************************************)
(* Seven parts of the daemon for any number of devices, links, windows,    *)
(* shells, turns, texts, approvals, lanes, crashes, commands, endpoints,   *)
(* handoffs and requests, and any list of files to carry over; and, with   *)
(* their constants as parameters, the checkpoints of any threads and       *)
(* files, new conversations, and the sessions of CLIs run once per turn.   *)
(*                                                                         *)
(* A branch belongs to one lane because a worktree holds its branch: the   *)
(* invariant relates the rows, the worktrees, the branches git has and     *)
(* the calls in flight.  That a ready lane is whole follows from the       *)
(* order the files are gone through in, which PreparedInOrder keeps.  A    *)
(* shell is tied to its window because requests and answers are counted.   *)
(***************************************************************************)
EXTENDS DaemonParts, FiniteSetTheorems, TLAPS

-----------------------------------------------------------------------------
(* Sockets and pairings                                                     *)

LEMMA SocketsStart == ASSUME DaemonInit, Is("sockets") PROVE Sock!Init
BY DEF DaemonInit, Is

LEMMA SocketsStep ==
  ASSUME [DaemonNext]_vars, Is("sockets")'
  PROVE  Is("sockets") /\ (Sock!Next \/ UNCHANGED vars)
BY DEF DaemonNext, Is, Of, vars

(* A pairing link makes one pairing, which Revoke takes back with its       *)
(* sockets.                                                                 *)
PairingInv == Sock!PairingsTyped /\ Sock!OnlyPairedConnect

LEMMA PairingStarts == Sock!Init => PairingInv
BY DEF Sock!Init, PairingInv, Sock!PairingsTyped, Sock!OnlyPairedConnect

LEMMA PairingStep == PairingInv /\ Sock!Next => PairingInv'
<1> SUFFICES ASSUME PairingInv, Sock!Next PROVE PairingInv'
  OBVIOUS
<1> USE DEF PairingInv, Sock!PairingsTyped, Sock!OnlyPairedConnect
<1>1. ASSUME NEW l \in Links, Sock!CreateLink(l) PROVE PairingInv'
  BY <1>1 DEF Sock!CreateLink
<1>2. ASSUME NEW l \in Links, Sock!Expire(l) PROVE PairingInv'
  BY <1>2 DEF Sock!Expire
<1>3. ASSUME NEW l \in Links, NEW d \in Devices, Sock!Redeem(d, l) PROVE PairingInv'
  <2>1. x4' = x4 /\ x1' = [x1 EXCEPT ![l] = "used"]
        /\ x2' = [x2 EXCEPT ![d] = [state |-> "paired", by |-> l]]
        /\ x1[l] = "open" /\ x2[d].state = "none"
    BY <1>3 DEF Sock!Redeem, Sock!Redeemable
  <2>2. Sock!PairingsTyped'
    BY <2>1
  <2>3. \A k \in x4' : Sock!OwnerOf(k) = Local \/ x2'[Sock!OwnerOf(k)].state = "paired"
    BY <2>1
  <2>4. \A e \in Devices : x2[e].by # NoLink => x2[e].by # l
    BY <2>1
  <2>5. QED
    BY <2>1, <2>2, <2>3, <2>4
<1>4. ASSUME NEW d \in Devices, Sock!Connect(d) PROVE PairingInv'
  BY <1>4 DEF Sock!Connect, Sock!Verified, Sock!Socket, Sock!OwnerOf
<1>5. ASSUME NEW d \in Devices, Sock!Revoke(d) PROVE PairingInv'
  <2>1. x1' = x1 /\ x2' = [x2 EXCEPT ![d].state = "revoked"]
        /\ x4' = x4 \ {k \in x4 : Sock!OwnerOf(k) = d}
    BY <1>5 DEF Sock!Revoke
  <2>2. Sock!PairingsTyped'
    BY <2>1
  <2>3. \A e \in Devices : x2'[e].by = x2[e].by
    BY <2>1
  <2>4. QED
    BY <2>1, <2>2, <2>3
<1>6. CASE UNCHANGED <<x1, x2>> /\ x4' \subseteq x4
  BY <1>6
<1>7. ASSUME NEW d \in Devices,
             Sock!Drop(d) \/ Sock!OpenPane(d) \/ Sock!ClosePane(d) \/ Sock!TimesOut(d) \/ Sock!OnOpened(d)
      PROVE  UNCHANGED <<x1, x2, x4>>
  BY <1>7 DEF Sock!Drop, Sock!OpenPane, Sock!ClosePane, Sock!TimesOut, Sock!OnOpened
<1>8. ASSUME NEW k \in Sock!Sockets, Sock!SocketGone(k) \/ Sock!OnFrame(k)
      PROVE  UNCHANGED <<x1, x2>> /\ x4' \subseteq x4
  BY <1>8 DEF Sock!SocketGone, Sock!OnFrame
<1>9. ASSUME NEW s \in Shells, Sock!ShellExits(s) PROVE UNCHANGED <<x1, x2, x4>>
  BY <1>9 DEF Sock!ShellExits
<1>10. QED
  BY <1>1, <1>2, <1>3, <1>4, <1>5, <1>6, <1>7, <1>8, <1>9 DEF Sock!Next

(* An open socket belongs to this machine or to a paired device, and a link *)
(* pairs one device, in whatever order links are made, redeemed and expire  *)
(* and devices connect and are revoked.                                     *)
THEOREM OnlyPaired == DaemonSpec => []OnlyPairedConnect
<1> DEFINE Inv == Is("sockets") => PairingInv
<1>1. DaemonInit => Inv
  BY SocketsStart, PairingStarts
<1>2. Inv /\ [DaemonNext]_vars => Inv'
  <2> SUFFICES ASSUME Inv, [DaemonNext]_vars, Is("sockets")' PROVE PairingInv'
    BY DEF Is
  <2>1. CASE Sock!Next
    BY <2>1, SocketsStep, PairingStep
  <2>2. CASE UNCHANGED vars
    BY <2>2, SocketsStep DEF vars, PairingInv, Sock!PairingsTyped, Sock!OnlyPairedConnect, Is
  <2>3. QED
    BY <2>1, <2>2, SocketsStep
<1>3. Inv => OnlyPairedConnect
  BY DEF PairingInv, OnlyPairedConnect
<1>4. QED
  BY <1>1, <1>2, <1>3, PTL DEF DaemonSpec

-----------------------------------------------------------------------------
(* The text of a turn and its approvals                                     *)

LEMMA TextStart == ASSUME DaemonInit, Is("text") PROVE Text!Init
BY DEF DaemonInit, Is

LEMMA TextStep ==
  ASSUME [DaemonNext]_vars, Is("text")'
  PROVE  Is("text") /\ (Text!Next \/ UNCHANGED vars)
BY DEF DaemonNext, Is, Of, vars

TextInv == Text!TypeOK /\ Text!AnsweredOnce /\ Text!StoppedIsMarked

LEMMA TextStarts == Text!Init => TextInv
<1> SUFFICES ASSUME Text!Init PROVE TextInv
  OBVIOUS
<1>1. {} \in Text!Texts /\ 0 \in 0..Pieces
  BY TextBounds DEF Text!Texts
<1>2. Text!TypeOK
  BY <1>1 DEF Text!Init, Text!NewTurn, Text!FreshSession, Text!TypeOK, Text!TurnStates
<1>3. Text!AnsweredOnce /\ Text!StoppedIsMarked
  BY DEF Text!Init, Text!NewTurn, Text!FreshSession, Text!AnsweredOnce, Text!StoppedIsMarked
<1>4. QED
  BY <1>2, <1>3 DEF TextInv

LiveTexts == [partial : [Turns -> Text!Texts], committed : SUBSET Turns, pending : SUBSET Approvals]

TurnsOf(S, N, T) == [Turns -> [state : S, said : N, told : N, seen : T, stored : T]]
TextTurns == TurnsOf(Text!TurnStates, 0..Pieces, Text!Texts)

(* A turn that hears a piece, one that is told a whole message, and one     *)
(* that ends.                                                               *)
LEMMA TurnRecord ==
  ASSUME NEW S, NEW N, NEW T, NEW s \in S, NEW t \in Turns, NEW n \in N, NEW txt \in T,
         x1 \in TurnsOf(S, N, T),
         \/ x1' = [x1 EXCEPT ![t].said = n, ![t].seen = txt]
         \/ x1' = [x1 EXCEPT ![t].told = n, ![t].stored = txt]
         \/ x1' = [x1 EXCEPT ![t].state = s, ![t].stored = txt]
  PROVE  x1' \in TurnsOf(S, N, T)
BY DEF TurnsOf

LEMMA TurnHears ==
  ASSUME NEW s \in Text!TurnStates, NEW t \in Turns, NEW n \in 0..Pieces,
         NEW txt \in Text!Texts, x1 \in TextTurns,
         \/ x1' = [x1 EXCEPT ![t].said = n, ![t].seen = txt]
         \/ x1' = [x1 EXCEPT ![t].told = n, ![t].stored = txt]
         \/ x1' = [x1 EXCEPT ![t].state = s, ![t].stored = txt]
  PROVE  x1' \in TextTurns
BY TurnRecord, Zenon DEF TextTurns

LEMMA TextTurnsTyped == Text!TypeOK => x1 \in TextTurns
BY DEF Text!TypeOK, TextTurns, TurnsOf

LEMMA Flushing ==
  ASSUME NEW t \in Turns, Text!TypeOK
  PROVE  /\ Text!Flushed(t) \in LiveTexts
         /\ Text!Flushed(t).committed = x2.committed \cup {t}
         /\ Text!Flushed(t).pending = x2.pending
         /\ Text!StoredBy(t) \in Text!Texts
         /\ t \in x2.committed => Text!StoredBy(t) = x1[t].stored
<1>1. CASE t \in x2.committed
  BY <1>1 DEF Text!TypeOK, Text!Flushed, Text!StoredBy, LiveTexts
<1>2. CASE t \notin x2.committed
  <2>1. Text!Flushed(t) = [x2 EXCEPT !.committed = @ \cup {t}, !.partial[t] = {}]
    BY <1>2 DEF Text!Flushed
  <2>2. {} \in Text!Texts
    BY DEF Text!Texts
  <2>3. Text!Flushed(t) \in LiveTexts
    <3>1. Text!Flushed(t) = [partial |-> [x2.partial EXCEPT ![t] = {}],
                             committed |-> x2.committed \cup {t}, pending |-> x2.pending]
      BY <2>1 DEF Text!TypeOK
    <3>2. QED
      BY <2>2, <3>1 DEF Text!TypeOK, LiveTexts
  <2>4. Text!StoredBy(t) \in Text!Texts
    BY <1>2 DEF Text!TypeOK, Text!StoredBy
  <2>5. QED
    BY <1>2, <2>1, <2>3, <2>4 DEF Text!TypeOK
<1>3. QED
  BY <1>1, <1>2

LEMMA Flushes ==
  ASSUME NEW t \in Turns, NEW s \in Text!TurnStates, Text!TypeOK,
         Text!Ends(t, s), x2' = Text!Flushed(t), x3' = x3
  PROVE  Text!TypeOK'
<1>1. x1' = [x1 EXCEPT ![t].state = s, ![t].stored = Text!StoredBy(t)]
  BY DEF Text!Ends
<1>2. Text!StoredBy(t) \in Text!Texts
  BY Flushing
<1>3. x1' \in TextTurns
  <2>1. 0 \in 0..Pieces
    BY TextBounds
  <2>2. QED
    BY <1>1, <1>2, <2>1, TurnHears, TextTurnsTyped, Zenon
<1>4. x2' \in LiveTexts
  BY Flushing
<1>5. QED
  BY <1>3, <1>4 DEF Text!TypeOK, LiveTexts, TextTurns, TurnsOf

LEMMA TextTyped == Text!TypeOK /\ Text!Next => Text!TypeOK'
<1> SUFFICES ASSUME Text!TypeOK, Text!Next PROVE Text!TypeOK'
  OBVIOUS
<1> USE DEF Text!TypeOK
<1>1. ASSUME NEW t \in Turns, Text!Start(t) PROVE Text!TypeOK'
  BY <1>1 DEF Text!Start, Text!TurnStates
<1>2. ASSUME NEW t \in Turns, Text!Delta(t) PROVE Text!TypeOK'
  <2> DEFINE n == x1[t].said + 1
             partial == x2.partial[t] \cup {n}
  <2>1. n \in 0..Pieces /\ n \in 1..Pieces
    BY <1>2, TextBounds DEF Text!Delta
  <2>2. x1[t].seen \cup {n} \in Text!Texts /\ partial \in Text!Texts
    BY <2>1 DEF Text!Texts
  <2>3. x1' \in TextTurns
    <3>1. PICK s \in {x1[t].seen, x1[t].seen \cup {n}} :
            x1' = [x1 EXCEPT ![t].said = n, ![t].seen = s]
      BY <1>2 DEF Text!Delta
    <3>2. s \in Text!Texts
      BY <2>2, <3>1
    <3>3. "running" \in Text!TurnStates
      BY DEF Text!TurnStates
    <3>4. QED
      BY <1>2, <2>1, <3>1, <3>2, <3>3, TurnHears, TextTurnsTyped, Zenon
  <2>4. x2' = [x2 EXCEPT !.partial[t] = partial] /\ x3' = x3
    BY <1>2 DEF Text!Delta
  <2> HIDE DEF partial
  <2>5. x2' \in [partial : [Turns -> Text!Texts], committed : SUBSET Turns,
                pending : SUBSET Approvals]
    BY <2>2, <2>4
  <2>6. QED
    BY <2>3, <2>4, <2>5 DEF TextTurns, TurnsOf
<1>3. ASSUME NEW t \in Turns, Text!Message(t) PROVE Text!TypeOK'
  <2> DEFINE end == x1[t].told + PerItem
             kept == x1[t].told + 1 .. end
  <2>1. end \in 0..Pieces /\ kept \in Text!Texts
    BY <1>3, TextBounds DEF Text!Message, Text!Texts
  <2>2. {} \in Text!Texts
    BY DEF Text!Texts
  <2> HIDE DEF kept
  <2>3. x1' = [x1 EXCEPT ![t].told = end, ![t].stored = IF t \in x2.committed THEN @ ELSE kept]
    BY <1>3 DEF Text!Message, kept
  <2>4. \/ x2' = x2
        \/ x2' = [x2 EXCEPT !.committed = @ \cup {t}, !.partial[t] = {}]
    BY <1>3 DEF Text!Message
  <2>5. x3' = x3
    BY <1>3 DEF Text!Message
  <2> HIDE DEF end
  <2>6. x1' \in TextTurns
    <3>1. PICK txt \in Text!Texts : x1' = [x1 EXCEPT ![t].told = end, ![t].stored = txt]
      <4>1. x1[t].stored \in Text!Texts
        OBVIOUS
      <4>2. \/ x1' = [x1 EXCEPT ![t].told = end, ![t].stored = x1[t].stored]
            \/ x1' = [x1 EXCEPT ![t].told = end, ![t].stored = kept]
        BY <2>3
      <4>3. QED
        BY <2>1, <4>1, <4>2
    <3>2. "running" \in Text!TurnStates
      BY DEF Text!TurnStates
    <3>3. QED
      BY <1>3, <2>1, <3>1, <3>2, TurnHears, TextTurnsTyped, Zenon
  <2>7. x2' \in [partial : [Turns -> Text!Texts], committed : SUBSET Turns,
                pending : SUBSET Approvals]
    <3>1. \/ x2' = x2
          \/ x2' = [partial |-> [x2.partial EXCEPT ![t] = {}],
                    committed |-> x2.committed \cup {t}, pending |-> x2.pending]
      BY <2>4
    <3>2. CASE x2' = [partial |-> [x2.partial EXCEPT ![t] = {}],
                      committed |-> x2.committed \cup {t}, pending |-> x2.pending]
      <4>1. x2.committed \cup {t} \in SUBSET Turns
        OBVIOUS
      <4>2. [x2.partial EXCEPT ![t] = {}] \in [Turns -> Text!Texts]
        BY <2>2
      <4>3. QED
        BY <3>2, <4>1, <4>2
    <3>3. QED
      BY <3>1, <3>2
  <2>8. QED
    BY <2>5, <2>6, <2>7 DEF TextTurns, TurnsOf
<1>4. ASSUME NEW t \in Turns, Text!Completed(t) PROVE Text!TypeOK'
  <2>1. PICK s \in {"stopping", "stopped", "completed"} :
          /\ x1' = [x1 EXCEPT ![t].state = s, ![t].stored = Text!StoredBy(t)]
          /\ x2' = [Text!Flushed(t) EXCEPT !.pending = {}] /\ x3' = x3
    BY <1>4 DEF Text!Completed, Text!Ends
  <2>2. Text!StoredBy(t) \in Text!Texts /\ Text!Flushed(t) \in LiveTexts
    BY Flushing
  <2>3. x1' \in TextTurns
    <3>1. s \in Text!TurnStates
      BY DEF Text!TurnStates
    <3>2. 0 \in 0..Pieces
      BY TextBounds
    <3>3. QED
      BY <1>4, <2>1, <2>2, <3>1, <3>2, TurnHears, TextTurnsTyped, Zenon
  <2>4. x2' \in LiveTexts
    BY <2>1, <2>2 DEF LiveTexts
  <2>5. QED
    BY <2>1, <2>3, <2>4 DEF LiveTexts, TextTurns, TurnsOf
<1>5. ASSUME NEW t \in Turns, Text!Interrupt(t) PROVE Text!TypeOK'
  <2>1. "stopping" \in Text!TurnStates
    BY DEF Text!TurnStates
  <2>2. Text!Ends(t, "stopping") /\ x2' = Text!Flushed(t) /\ x3' = x3
    BY <1>5 DEF Text!Interrupt
  <2>3. QED
    BY <2>1, <2>2, Flushes
<1>6. ASSUME NEW t \in Turns, Text!Interrupted(t) PROVE Text!TypeOK'
  BY <1>6 DEF Text!Interrupted, Text!TurnStates
<1>7. ASSUME NEW t \in Turns, Text!Fails(t) PROVE Text!TypeOK'
  <2>1. CASE Text!Ends(t, "stopping") /\ x2' = Text!Flushed(t) /\ x3' = x3
    <3>1. "stopping" \in Text!TurnStates
      BY DEF Text!TurnStates
    <3>2. QED
      BY <2>1, <3>1, Flushes
  <2>2. CASE x1' = [x1 EXCEPT ![t].state = "failed"] /\ x2' = [x2 EXCEPT !.pending = {}] /\ x3' = x3
    BY <2>2 DEF Text!TurnStates
  <2>3. QED
    BY <1>7, <2>1, <2>2 DEF Text!Fails
<1>8. CASE Text!Exited
  <2>1. \A t \in Turns : x1'[t] \in [state : Text!TurnStates, said : 0..Pieces, told : 0..Pieces,
                                    seen : Text!Texts, stored : Text!Texts]
    BY <1>8 DEF Text!Exited, Text!TurnStates
  <2>2. {} \in Text!Texts
    BY DEF Text!Texts
  <2>3. QED
    BY <1>8, <2>1, <2>2 DEF Text!Exited, Text!FreshSession
<1>9. CASE Text!SetMode
  BY <1>9 DEF Text!SetMode
<1>10. ASSUME NEW a \in Approvals, Text!Ask(a) PROVE Text!TypeOK'
  <2>1. \E n \in {0, 1} : x3' = [x3 EXCEPT ![a].state = "asked", ![a].calls = n]
    BY <1>10 DEF Text!Ask
  <2>2. x3' \in [Approvals -> [state : {"new", "asked", "answered", "gone"},
                              answers : Nat, calls : Nat]]
    <3>1. CASE x3' = [x3 EXCEPT ![a].state = "asked", ![a].calls = 0]
      BY <3>1
    <3>2. CASE x3' = [x3 EXCEPT ![a].state = "asked", ![a].calls = 1]
      BY <3>2
    <3>3. QED
      BY <2>1, <3>1, <3>2
  <2>3. x1' = x1 /\ x2' \in {x2, [x2 EXCEPT !.pending = @ \cup {a}]}
    BY <1>10 DEF Text!Ask
  <2>4. QED
    BY <2>2, <2>3
<1>11. ASSUME NEW a \in Approvals, Text!RespondApproval(a) PROVE Text!TypeOK'
  <2>1. x2' = [x2 EXCEPT !.pending = @ \ {a}] /\ x1' = x1
        /\ x3' = [x3 EXCEPT ![a].calls = x3[a].calls + 1] /\ x3[a].calls + 1 \in Nat
    BY <1>11 DEF Text!RespondApproval, Text!Taken
  <2>2. QED
    BY <2>1
<1>12. ASSUME NEW a \in Approvals, Text!Answered(a) PROVE Text!TypeOK'
  <2>1. x3[a].calls - 1 \in Nat /\ x3[a].answers + 1 \in Nat
    BY <1>12 DEF Text!Answered
  <2>2. QED
    BY <1>12, <2>1 DEF Text!Answered
<1>13. QED
  BY <1>1, <1>2, <1>3, <1>4, <1>5, <1>6, <1>7, <1>8, <1>9, <1>10, <1>11, <1>12 DEF Text!Next

(* Only three actions touch an approval, and only one makes it pending.     *)
LEMMA AnswersKept ==
  ASSUME Text!TypeOK, Text!AnsweredOnce, Text!Next
  PROVE  Text!AnsweredOnce'
<1> USE DEF Text!AnsweredOnce
<1>1. ASSUME NEW a \in Approvals, Text!Ask(a) PROVE Text!AnsweredOnce'
  BY <1>1 DEF Text!Ask, Text!TypeOK
<1>2. ASSUME NEW a \in Approvals, Text!RespondApproval(a) PROVE Text!AnsweredOnce'
  <2>1. x2'.pending = x2.pending \ {a} /\ a \in x2.pending
    BY <1>2 DEF Text!RespondApproval, Text!Taken, Text!TypeOK
  <2>2. x3' = [x3 EXCEPT ![a].calls = x3[a].calls + 1]
    BY <1>2 DEF Text!RespondApproval
  <2>3. x3[a].calls \in Nat /\ x3[a].answers \in Nat /\ x3[a].answers + x3[a].calls = 0
    BY <2>1 DEF Text!TypeOK
  <2>4. x3'[a].calls = 1 /\ x3'[a].answers = 0 /\ x3'[a].state = x3[a].state
    BY <2>2, <2>3 DEF Text!TypeOK
  <2>5. \A b \in Approvals : b # a => x3'[b] = x3[b]
    BY <2>2 DEF Text!TypeOK
  <2>6. x3[a].state # "new"
    BY <1>2, <2>1, <2>3
  <2>7. QED
    BY <2>1, <2>4, <2>5, <2>6
<1>3. ASSUME NEW a \in Approvals, Text!Answered(a) PROVE Text!AnsweredOnce'
  BY <1>3 DEF Text!Answered, Text!TypeOK
<1>4. CASE Text!Exited
  BY <1>4 DEF Text!Exited, Text!FreshSession, Text!TypeOK
<1>5. CASE x3' = x3 /\ x2'.pending \subseteq x2.pending
  BY <1>5
<1>6. ASSUME NEW t \in Turns,
             Text!Start(t) \/ Text!Delta(t) \/ Text!Message(t) \/ Text!Completed(t)
               \/ Text!Interrupt(t) \/ Text!Interrupted(t) \/ Text!Fails(t)
      PROVE  x3' = x3 /\ x2'.pending \subseteq x2.pending
  BY <1>6, Flushing DEF Text!Start, Text!Delta, Text!Message, Text!Completed, Text!Interrupt,
                        Text!Interrupted, Text!Fails, Text!TypeOK, LiveTexts
<1>7. CASE Text!SetMode
  BY <1>7 DEF Text!SetMode
<1>8. QED
  BY <1>1, <1>2, <1>3, <1>4, <1>5, <1>6, <1>7 DEF Text!Next

(* The text of a turn is written by a message, which leaves a marked turn    *)
(* alone, and by a flush, which marks it.                                   *)
LEMMA MarksKept ==
  ASSUME Text!TypeOK, Text!StoppedIsMarked, Text!Next
  PROVE  Text!StoppedIsMarked' /\ Text!KeepsSettledText
<1> USE DEF Text!StoppedIsMarked, Text!KeepsSettledText, Text!TypeOK
<1> DEFINE Kept == Text!StoppedIsMarked' /\ Text!KeepsSettledText
<1>1. ASSUME NEW t \in Turns, Text!Start(t) PROVE Kept
  BY <1>1 DEF Text!Start
<1>2. ASSUME NEW t \in Turns, Text!Delta(t) PROVE Kept
  BY <1>2 DEF Text!Delta
<1>3. ASSUME NEW t \in Turns, Text!Message(t) PROVE Kept
  BY <1>3 DEF Text!Message, Text!Talking
<1>4. ASSUME NEW t \in Turns, Text!Completed(t) PROVE Kept
  BY <1>4, Flushing DEF Text!Completed, Text!Ends, Text!Talking, LiveTexts
<1>5. ASSUME NEW t \in Turns, Text!Interrupt(t) PROVE Kept
  BY <1>5, Flushing DEF Text!Interrupt, Text!Ends, LiveTexts
<1>6. ASSUME NEW t \in Turns, Text!Interrupted(t) PROVE Kept
  BY <1>6 DEF Text!Interrupted
<1>7. ASSUME NEW t \in Turns, Text!Fails(t) PROVE Kept
  <2>1. CASE Text!Ends(t, "stopping") /\ x2' = Text!Flushed(t) /\ x1[t].state = "stopping"
    BY <2>1, Flushing DEF Text!Ends, LiveTexts
  <2>2. CASE /\ x1' = [x1 EXCEPT ![t].state = "failed"] /\ x2' = [x2 EXCEPT !.pending = {}]
             /\ x1[t].state = "running"
    BY <2>2
  <2>3. QED
    BY <1>7, <2>1, <2>2 DEF Text!Fails
<1>8. CASE Text!Exited
  BY <1>8 DEF Text!Exited, Text!Talking
<1>9. ASSUME NEW a \in Approvals, Text!Ask(a) \/ Text!RespondApproval(a) \/ Text!Answered(a)
      PROVE  Kept
  BY <1>9 DEF Text!Ask, Text!RespondApproval, Text!Taken, Text!Answered
<1>10. CASE Text!SetMode
  BY <1>10 DEF Text!SetMode
<1>11. QED
  BY <1>1, <1>2, <1>3, <1>4, <1>5, <1>6, <1>7, <1>8, <1>9, <1>10 DEF Text!Next

LEMMA TextKept ==
  ASSUME Is("text") => TextInv, [DaemonNext]_vars
  PROVE  /\ Is("text")' => TextInv'
         /\ Is("text") => Text!KeepsSettledText
<1>1. CASE Is("text") /\ Text!Next
  BY <1>1, TextTyped, AnswersKept, MarksKept DEF TextInv, Is
<1>2. CASE UNCHANGED vars
  BY <1>2 DEF vars, Is, TextInv, Text!TypeOK, Text!AnsweredOnce, Text!StoppedIsMarked,
              Text!KeepsSettledText
<1>3. CASE ~Is("text")
  BY <1>3 DEF DaemonNext, Is, Of, vars
<1>4. QED
  BY <1>1, <1>2, <1>3 DEF DaemonNext, Is, Of

(* An approval is answered at most once, by a window, by another one at the *)
(* same time or by a change of the mode.                                    *)
THEOREM ApprovalAnsweredOnce == DaemonSpec => []AnsweredOnce
<1> DEFINE Inv == Is("text") => TextInv
<1>1. DaemonInit => Inv
  BY TextStart, TextStarts
<1>2. Inv /\ [DaemonNext]_vars => Inv'
  BY TextKept
<1>3. Inv => AnsweredOnce
  BY DEF TextInv, AnsweredOnce
<1>4. QED
  BY <1>1, <1>2, <1>3, PTL DEF DaemonSpec

(* The text of a settled turn is changed no more: no late piece, flush or   *)
(* exit writes into the transcript of a turn that is over.                  *)
THEOREM SettledTextKept == DaemonSpec => SettledTextStays
<1> DEFINE Inv == Is("text") => TextInv
<1>1. DaemonInit => Inv
  BY TextStart, TextStarts
<1>2. Inv /\ [DaemonNext]_vars => Inv'
  BY TextKept
<1>3. Inv /\ [DaemonNext]_vars => [Is("text") => Text!KeepsSettledText]_vars
  BY TextKept
<1>4. QED
  BY <1>1, <1>2, <1>3, PTL DEF DaemonSpec, SettledTextStays

-----------------------------------------------------------------------------
(* What is shown of a turn is in its transcript when the turn is settled.   *)
(* Until it is marked as settled, what was shown is remembered; once it is  *)
(* marked before it has ended, all of it was said and is stored.            *)

KeepsTurn(r, marked, partial) ==
  /\ r.state = "new" => ~marked /\ r.told = 0 /\ r.seen = {}
  /\ r.state \in {"running", "failed"} =>
       IF marked THEN r.seen \subseteq r.stored /\ r.said = Pieces
       ELSE r.seen \subseteq partial /\ r.told = 0
  /\ r.state \in {"stopping", "stopped", "completed"} => r.seen \subseteq r.stored
  /\ r.state \in {"stopping", "stopped"} => marked

KeepsTurns == \A t \in Turns : KeepsTurn(x1[t], t \in x2.committed, x2.partial[t])

(* What a step does not touch is kept.                                      *)
SameTurn(u) ==
  x1'[u] = x1[u] /\ (u \in x2.committed)' = (u \in x2.committed) /\ x2'.partial[u] = x2.partial[u]

LEMMA OthersKeep ==
  ASSUME KeepsTurns, NEW t \in Turns, \A u \in Turns \ {t} : SameTurn(u),
         KeepsTurn(x1'[t], t \in x2'.committed, x2'.partial[t])
  PROVE  KeepsTurns'
<1>1. SUFFICES ASSUME NEW u \in Turns
               PROVE  KeepsTurn(x1'[u], u \in x2'.committed, x2'.partial[u])
  BY DEF KeepsTurns
<1>2. CASE u = t
  BY <1>2
<1>3. CASE u # t
  BY <1>3 DEF KeepsTurns, SameTurn
<1>4. QED
  BY <1>2, <1>3

(* A flush stores what was shown and not yet written, and marks the turn.   *)
LEMMA FlushKeeps ==
  ASSUME NEW t \in Turns, Text!TypeOK, KeepsTurns,
         NEW s \in {"stopping", "stopped", "completed"},
         Text!Going(t) \/ x1[t].state \in {"stopped", "failed"},
         Text!Ends(t, s),
         x2'.committed = x2.committed \cup {t},
         \A u \in Turns \ {t} : x2'.partial[u] = x2.partial[u]
  PROVE  KeepsTurns'
<1>1. x1[t].seen \subseteq Text!StoredBy(t)
  BY DEF KeepsTurns, KeepsTurn, Text!StoredBy, Text!TypeOK, Text!Going
<1>2. /\ x1'[t].state = s /\ x1'[t].seen = x1[t].seen /\ x1'[t].stored = Text!StoredBy(t)
      /\ \A u \in Turns \ {t} : x1'[u] = x1[u]
  BY DEF Text!Ends, Text!TypeOK
<1>3. KeepsTurn(x1'[t], t \in x2'.committed, x2'.partial[t])
  BY <1>1, <1>2 DEF KeepsTurn
<1>4. \A u \in Turns \ {t} : SameTurn(u)
  BY <1>2 DEF SameTurn
<1>5. QED
  BY <1>3, <1>4, OthersKeep

LEMMA FlushLeaves ==
  ASSUME NEW t \in Turns, Text!TypeOK
  PROVE  \A u \in Turns \ {t} : Text!Flushed(t).partial[u] = x2.partial[u]
BY DEF Text!TypeOK, Text!Flushed

LEMMA TurnsKeep ==
  ASSUME PerItem = Pieces, Text!TypeOK, KeepsTurns, Text!Next
  PROVE  KeepsTurns'
<1> USE DEF Text!TypeOK
<1>1. ASSUME NEW t \in Turns, Text!Start(t) PROVE KeepsTurns'
  <2>1. /\ x1'[t] = [x1[t] EXCEPT !.state = "running"] /\ x1[t].state = "new"
        /\ x2'.committed = x2.committed /\ x2'.partial = x2.partial
        /\ \A u \in Turns \ {t} : SameTurn(u)
    BY <1>1 DEF Text!Start, SameTurn
  <2>2. KeepsTurn(x1'[t], t \in x2'.committed, x2'.partial[t])
    BY <2>1 DEF KeepsTurns, KeepsTurn
  <2>3. QED
    BY <2>1, <2>2, OthersKeep
<1>2. ASSUME NEW t \in Turns, Text!Delta(t) PROVE KeepsTurns'
  <2>1. PICK n \in Nat : n = x1[t].said + 1
    BY TextBounds
  <2>2. /\ x1[t].said < Pieces /\ Text!Talking(t)
        /\ x1' = [x1 EXCEPT ![t].said = n,
                            ![t].seen = IF x1[t].state = "running" THEN @ \cup {n} ELSE @]
        /\ x2' = [x2 EXCEPT !.partial[t] = @ \cup {n}]
    BY <1>2, <2>1 DEF Text!Delta
  <2>3. /\ x1'[t].state = x1[t].state /\ x1'[t].told = x1[t].told /\ x1'[t].stored = x1[t].stored
        /\ x1'[t].seen = IF x1[t].state = "running" THEN x1[t].seen \cup {n} ELSE x1[t].seen
        /\ x2'.committed = x2.committed /\ x2'.partial[t] = x2.partial[t] \cup {n}
        /\ \A u \in Turns \ {t} : SameTurn(u)
    BY <2>2 DEF SameTurn
  <2>4. KeepsTurn(x1'[t], t \in x2'.committed, x2'.partial[t])
    <3>1. x1[t].said # Pieces
      BY <2>2, TextBounds
    <3>2. KeepsTurn(x1[t], t \in x2.committed, x2.partial[t])
      BY DEF KeepsTurns
    <3>3. x1[t].state \in {"running", "stopping", "stopped", "failed"}
      BY <2>2 DEF Text!Talking
    <3>4. QED
      BY <2>3, <3>1, <3>2, <3>3, Zenon DEF KeepsTurn
  <2>5. QED
    BY <2>3, <2>4, OthersKeep
<1>3. ASSUME NEW t \in Turns, Text!Message(t) PROVE KeepsTurns'
  <2>1. PICK end \in Nat : end = x1[t].told + PerItem
    BY TextBounds
  <2>2. /\ Text!Talking(t) /\ end <= x1[t].said
        /\ x1' = [x1 EXCEPT ![t].told = end,
                            ![t].stored = IF t \in x2.committed THEN @ ELSE x1[t].told + 1 .. end]
        /\ x2' = IF t \in x2.committed THEN x2
                 ELSE [x2 EXCEPT !.committed = @ \cup {t}, !.partial[t] = {}]
    BY <1>3, <2>1 DEF Text!Message
  <2>3. end = Pieces /\ x1[t].said = Pieces
    BY <2>1, <2>2, TextBounds
  <2>4. /\ x1'[t].state = x1[t].state /\ x1'[t].told = end /\ x1'[t].seen = x1[t].seen
        /\ x1'[t].said = x1[t].said
        /\ x1'[t].stored = IF t \in x2.committed THEN x1[t].stored ELSE x1[t].told + 1 .. end
        /\ t \in x2'.committed
        /\ \A u \in Turns \ {t} : SameTurn(u)
    BY <2>2 DEF SameTurn
  <2>5. x1[t].seen \subseteq 1 .. Pieces
    BY DEF Text!Texts
  <2>6. KeepsTurn(x1[t], t \in x2.committed, x2.partial[t])
    BY DEF KeepsTurns
  <2>7. x1[t].state \in {"running", "stopping", "stopped", "failed"}
    BY <2>2 DEF Text!Talking
  <2>8. KeepsTurn(x1'[t], t \in x2'.committed, x2'.partial[t])
    <3>1. CASE t \in x2.committed
      BY <2>3, <2>4, <2>6, <2>7, <3>1 DEF KeepsTurn
    <3>2. CASE t \notin x2.committed
      <4>1. x1[t].state \in {"running", "failed"} /\ x1[t].told = 0
        BY <2>6, <2>7, <3>2 DEF KeepsTurn
      <4>2. x1'[t].stored = 1 .. Pieces
        BY <2>3, <2>4, <3>2, <4>1
      <4>3. QED
        BY <2>3, <2>4, <2>5, <4>1, <4>2 DEF KeepsTurn
    <3>3. QED
      BY <3>1, <3>2
  <2>9. QED
    BY <2>4, <2>8, OthersKeep
<1>4. ASSUME NEW t \in Turns, Text!Completed(t) PROVE KeepsTurns'
  <2>1. PICK s \in {"stopping", "stopped", "completed"} : Text!Ends(t, s)
    BY <1>4 DEF Text!Completed
  <2>2. x2' = [Text!Flushed(t) EXCEPT !.pending = {}]
    BY <1>4 DEF Text!Completed
  <2>3. x2'.committed = x2.committed \cup {t}
        /\ \A u \in Turns \ {t} : x2'.partial[u] = x2.partial[u]
    BY <2>2, Flushing, FlushLeaves DEF LiveTexts
  <2>4. QED
    BY <1>4, <2>1, <2>3, FlushKeeps DEF Text!Completed, Text!Talking, Text!Going
<1>5. ASSUME NEW t \in Turns, Text!Interrupt(t) PROVE KeepsTurns'
  BY <1>5, Flushing, FlushLeaves, FlushKeeps DEF Text!Interrupt, Text!Going, LiveTexts
<1>6. ASSUME NEW t \in Turns, Text!Interrupted(t) PROVE KeepsTurns'
  <2>1. /\ x1'[t] = [x1[t] EXCEPT !.state = "stopped"] /\ x1[t].state = "stopping"
        /\ x2'.committed = x2.committed /\ x2'.partial = x2.partial
        /\ \A u \in Turns \ {t} : SameTurn(u)
    BY <1>6 DEF Text!Interrupted, SameTurn
  <2>2. KeepsTurn(x1'[t], t \in x2'.committed, x2'.partial[t])
    BY <2>1 DEF KeepsTurns, KeepsTurn
  <2>3. QED
    BY <2>1, <2>2, OthersKeep
<1>7. ASSUME NEW t \in Turns, Text!Fails(t) PROVE KeepsTurns'
  <2>1. CASE Text!Ends(t, "stopping") /\ x2' = Text!Flushed(t) /\ x1[t].state = "stopping"
    BY <2>1, Flushing, FlushLeaves, FlushKeeps DEF Text!Going, LiveTexts
  <2>2. CASE /\ x1' = [x1 EXCEPT ![t].state = "failed"] /\ x2' = [x2 EXCEPT !.pending = {}]
             /\ x1[t].state = "running"
    <3>1. /\ x1'[t] = [x1[t] EXCEPT !.state = "failed"]
          /\ x2'.committed = x2.committed /\ x2'.partial = x2.partial
          /\ \A u \in Turns \ {t} : SameTurn(u)
      BY <2>2 DEF SameTurn
    <3>2. KeepsTurn(x1'[t], t \in x2'.committed, x2'.partial[t])
      BY <2>2, <3>1 DEF KeepsTurns, KeepsTurn
    <3>3. QED
      BY <3>1, <3>2, OthersKeep
  <2>3. QED
    BY <1>7, <2>1, <2>2 DEF Text!Fails
<1>8. CASE Text!Exited
  BY <1>8 DEF Text!Exited, Text!Talking, Text!FreshSession, KeepsTurns, KeepsTurn
<1>9. ASSUME NEW a \in Approvals, Text!Ask(a) \/ Text!RespondApproval(a) \/ Text!Answered(a)
      PROVE  KeepsTurns'
  <2>1. x1' = x1 /\ x2'.committed = x2.committed /\ x2'.partial = x2.partial
    BY <1>9 DEF Text!Ask, Text!RespondApproval, Text!Taken, Text!Answered
  <2>2. QED
    BY <2>1 DEF KeepsTurns
<1>10. CASE Text!SetMode
  BY <1>10 DEF Text!SetMode, KeepsTurns
<1>11. QED
  BY <1>1, <1>2, <1>3, <1>4, <1>5, <1>6, <1>7, <1>8, <1>9, <1>10 DEF Text!Next

(* Of a turn that was stopped or has completed, the transcript has all that *)
(* was shown of it by then, if an agent says a turn in one message: one     *)
(* that says it in several keeps the first (see transcript_lost.cfg).       *)
THEOREM TextIsKept ==
  ASSUME PerItem = Pieces
  PROVE  DaemonSpec => [](Is("text") => Text!TranscriptKeeps)
<1> DEFINE Inv == Is("text") => TextInv /\ KeepsTurns
<1>1. DaemonInit => Inv
  <2>1. Text!Init => KeepsTurns
    BY DEF Text!Init, Text!NewTurn, Text!FreshSession, KeepsTurns, KeepsTurn
  <2>2. QED
    BY <2>1, TextStart, TextStarts
<1>2. Inv /\ [DaemonNext]_vars => Inv'
  <2> SUFFICES ASSUME Inv, [DaemonNext]_vars, Is("text")'
               PROVE  TextInv' /\ KeepsTurns'
    OBVIOUS
  <2>1. TextInv'
    BY TextKept
  <2>2. CASE Text!Next
    BY <2>1, <2>2, TextStep, TurnsKeep DEF TextInv
  <2>3. CASE UNCHANGED vars
    BY <2>1, <2>3, TextStep DEF vars, KeepsTurns
  <2>4. QED
    BY <2>2, <2>3, <2>1, TextStep
<1>3. Inv => (Is("text") => Text!TranscriptKeeps)
  BY DEF KeepsTurns, KeepsTurn, Text!TranscriptKeeps
<1>4. QED
  BY <1>1, <1>2, <1>3, PTL DEF DaemonSpec

-----------------------------------------------------------------------------
(* Branches and worktrees                                                   *)

LEMMA LaneStart == ASSUME DaemonInit, Is("lanes") PROVE Lane!Init
BY DEF DaemonInit, Is

LaneInv == Lane!TypeOK /\ Lane!BranchesDistinct

LEMMA LaneStarts == Lane!Init => LaneInv
BY DEF Lane!Init, LaneInv, Lane!TypeOK, Lane!BranchesDistinct, Lane!NoTree, Lane!Idle, Lane!NoCall,
       Lane!NoBranch, Lane!Present, Lane!Statuses, Lane!Steps, Lane!Calls, Lane!At, Lane!Daemon

DaemonCalls ==
  [up : BOOLEAN, crashes : Nat, commands : Nat,
   daemon : [call : [LaneIds -> Lane!Calls], preparing : SUBSET LaneIds, turns : SUBSET LaneIds]]

(* The call at a lane goes on to c, and nothing else of the daemon changes  *)
(* but what is being prepared and the turns.                                *)
Daemons(F, n, P, T) ==
  [up |-> x7.up, crashes |-> x7.crashes, commands |-> n,
   daemon |-> [call |-> F, preparing |-> P, turns |-> T]]

AddsName(c) == c.op = "add" => c.branch \in Lane!Names
CallsKept ==
  /\ x7' \in DaemonCalls
  /\ \A m \in LaneIds : AddsName(x7'.daemon.call[m])

LEMMA CallMoves ==
  ASSUME NEW l \in LaneIds, NEW c \in Lane!Calls, NEW n \in Nat,
         NEW P \in SUBSET LaneIds, NEW T \in SUBSET LaneIds,
         x7 \in DaemonCalls, \A m \in LaneIds : AddsName(x7.daemon.call[m]), AddsName(c),
         x7' = Daemons([x7.daemon.call EXCEPT ![l] = c], n, P, T)
  PROVE  CallsKept
<1>1. [x7.daemon.call EXCEPT ![l] = c] \in [LaneIds -> Lane!Calls]
  BY DEF DaemonCalls
<1>2. x7' \in DaemonCalls
  BY <1>1 DEF DaemonCalls, Daemons
<1>3. x7'.daemon.call = [x7.daemon.call EXCEPT ![l] = c]
  BY DEF Daemons
<1>4. QED
  BY <1>2, <1>3 DEF CallsKept, DaemonCalls

LEMMA CallGoes ==
  ASSUME NEW l \in LaneIds, NEW c \in Lane!Calls,
         x7 \in DaemonCalls, \A m \in LaneIds : AddsName(x7.daemon.call[m]), AddsName(c),
         Lane!Goes(l, c) \/ Lane!Asks(l, c)
  PROVE  CallsKept
<1>1. PICK n \in Nat : x7' = Daemons([x7.daemon.call EXCEPT ![l] = c], n,
                                    x7.daemon.preparing, x7.daemon.turns)
  <2>1. CASE Lane!Goes(l, c)
    BY <2>1 DEF Lane!Goes, DaemonCalls, Daemons
  <2>2. CASE Lane!Asks(l, c)
    <3>1. x7' = Daemons([x7.daemon.call EXCEPT ![l] = c], x7.commands + 1,
                        x7.daemon.preparing, x7.daemon.turns)
      BY <2>2 DEF Lane!Asks, DaemonCalls, Daemons
    <3>2. x7.commands + 1 \in Nat
      BY DEF DaemonCalls
    <3>3. QED
      BY <3>1, <3>2
  <2>3. QED
    BY <2>1, <2>2
<1>2. x7.daemon.preparing \in SUBSET LaneIds /\ x7.daemon.turns \in SUBSET LaneIds
  BY DEF DaemonCalls
<1>3. QED
  BY <1>1, <1>2, CallMoves

(* A step that leaves every tree on its branch, and the branches as they    *)
(* were, keeps the invariant; with what is ahead not shrinking, it loses    *)
(* nothing.                                                                 *)
LaneTypes ==
  /\ x1 \in [LaneIds -> [status : Lane!Statuses, branch : Lane!Names \cup {Lane!NoBranch}]]
  /\ x2 \in [LaneIds -> [is : Lane!Present \cup {"absent", "gone"},
                         on : Lane!Names \cup {Lane!NoBranch}]]
  /\ x3 \in [LaneIds -> BOOLEAN]
  /\ x5 \subseteq Lane!Names /\ x4 \subseteq x5

LaneSafe == LaneInv' /\ Lane!LosesOnlyConfirmed

LEMMA LaneParts ==
  /\ LaneInv => LaneTypes /\ x7 \in DaemonCalls /\ \A m \in LaneIds : AddsName(x7.daemon.call[m])
  /\ LaneTypes' /\ CallsKept /\ (\A l, m \in LaneIds : x2'[l] # Lane!NoTree =>
        x2'[l].on \in x5' /\ (x2'[m].on = x2'[l].on => l = m)) => LaneInv'
BY DEF LaneInv, LaneTypes, DaemonCalls, AddsName, CallsKept, Lane!TypeOK, Lane!BranchesDistinct,
       Lane!At, Lane!Daemon

LEMMA LaneElsewhere ==
  ASSUME LaneInv, CallsKept, LaneTypes',
         \A l \in LaneIds : /\ x2'[l].on = x2[l].on
                            /\ x2'[l].is = "absent" <=> x2[l].is = "absent",
         x5' = x5, x4 \subseteq x4'
  PROVE  LaneSafe
<1>1. \A l, m \in LaneIds : x2[l] # Lane!NoTree =>
        x2[l].on \in x5 /\ (x2[m].on = x2[l].on => l = m)
  BY DEF LaneInv, Lane!BranchesDistinct
<1>2. \A l \in LaneIds : x2'[l] # Lane!NoTree => x2[l] # Lane!NoTree
  BY LaneParts DEF LaneTypes, Lane!NoTree
<1>3. LaneInv'
  BY <1>1, <1>2, LaneParts
<1>4. Lane!LosesOnlyConfirmed
  BY DEF Lane!LosesOnlyConfirmed, Lane!Destroyed, Lane!Forgotten
<1>5. QED
  BY <1>3, <1>4 DEF LaneSafe

(* The daemon's memory is what it was, but for the crash or the count.      *)
LEMMA SameCalls ==
  ASSUME LaneInv, NEW n \in Nat, NEW P \in SUBSET LaneIds, NEW T \in SUBSET LaneIds,
         x7' = Daemons(x7.daemon.call, n, P, T)
  PROVE  CallsKept
BY LaneParts DEF CallsKept, DaemonCalls, Daemons

LEMMA CallAt ==
  ASSUME LaneInv, NEW l \in LaneIds
  PROVE  x7.daemon.call[l] \in Lane!Calls /\ AddsName(x7.daemon.call[l])
BY LaneParts DEF DaemonCalls

(* Creating a lane.                                                         *)
LEMMA LaneGrows ==
  ASSUME LaneInv, NEW l \in LaneIds,
         Lane!Create(l) \/ Lane!Prune(l) \/ Lane!AllocateBranch(l) \/ Lane!CreateWorktree(l) \/ Lane!Created(l)
  PROVE  LaneSafe
<1> USE LaneParts
<1>1. CASE Lane!Create(l)
  <2>1. [Lane!NoCall EXCEPT !.op = "prune"] \in Lane!Calls
    BY DEF Lane!NoCall, Lane!Calls, Lane!Steps
  <2>2. AddsName([Lane!NoCall EXCEPT !.op = "prune"])
    BY DEF Lane!NoCall, AddsName
  <2>3. CallsKept
    BY <1>1, <2>1, <2>2, CallGoes DEF Lane!Create
  <2>4. QED
    BY <1>1, <2>3, LaneElsewhere DEF Lane!Create, Lane!disk, LaneTypes
<1>2. CASE Lane!AllocateBranch(l)
  <2>1. PICK b \in Lane!Names : Lane!Goes(l, [Lane!NoCall EXCEPT !.op = "add", !.branch = b])
    BY <1>2 DEF Lane!AllocateBranch
  <2>2. /\ [Lane!NoCall EXCEPT !.op = "add", !.branch = b] \in Lane!Calls
        /\ AddsName([Lane!NoCall EXCEPT !.op = "add", !.branch = b])
    BY DEF Lane!NoCall, Lane!Calls, Lane!Steps, AddsName
  <2>3. CallsKept
    BY <2>1, <2>2, CallGoes
  <2>4. QED
    BY <1>2, <2>3, LaneElsewhere DEF Lane!AllocateBranch, Lane!disk, LaneTypes
<1>3. CASE Lane!CreateWorktree(l)
  <2> DEFINE b == x7.daemon.call[l].branch
  <2>1. b \in Lane!Names
    BY <1>3, CallAt DEF Lane!CreateWorktree, Lane!At, Lane!Daemon, AddsName
  <2>2. CASE b \in x5
    <3>1. CallsKept
      BY <1>3, <2>2, CallGoes DEF Lane!CreateWorktree, Lane!AddTaken, Lane!Daemon, Lane!NoCall,
            Lane!Calls, Lane!Steps, AddsName
    <3>2. QED
      BY <1>3, <2>2, <3>1, LaneElsewhere
         DEF Lane!CreateWorktree, Lane!AddTaken, Lane!Daemon, Lane!disk, LaneTypes
  <2>3. CASE b \notin x5
    <3>1. /\ x2' = [x2 EXCEPT ![l] = [is |-> "clean", on |-> b]]
          /\ x5' = x5 \cup {b}
          /\ Lane!Goes(l, [Lane!NoCall EXCEPT !.op = "commit", !.branch = b])
          /\ x1' = x1 /\ x3' = x3 /\ x4' = x4
      BY <1>3, <2>3 DEF Lane!CreateWorktree, Lane!AddTaken, Lane!Daemon
    <3>2. /\ [Lane!NoCall EXCEPT !.op = "commit", !.branch = b] \in Lane!Calls
          /\ AddsName([Lane!NoCall EXCEPT !.op = "commit", !.branch = b])
      BY <2>1 DEF Lane!NoCall, Lane!Calls, Lane!Steps, AddsName
    <3>3. CallsKept
      BY <3>1, <3>2, CallGoes
    <3>4. LaneTypes'
      BY <2>1, <3>1 DEF LaneTypes, Lane!Present
    <3>5. \A k, m \in LaneIds : x2'[k] # Lane!NoTree =>
            x2'[k].on \in x5' /\ (x2'[m].on = x2'[k].on => k = m)
      <4>1. \A k, m \in LaneIds : x2[k] # Lane!NoTree =>
              x2[k].on \in x5 /\ (x2[m].on = x2[k].on => k = m)
        BY DEF LaneInv, Lane!BranchesDistinct
      <4>2. \A k \in LaneIds : x2[k].on # b
        <5>1. Lane!NoBranch \notin Lane!Names
          BY DEF Lane!NoBranch, Lane!Names
        <5>2. QED
          BY <2>1, <2>3, <4>1, <5>1 DEF LaneTypes, Lane!NoTree
      <4>3. QED
        BY <3>1, <4>1, <4>2 DEF LaneTypes
    <3>6. Lane!LosesOnlyConfirmed
      BY <3>1 DEF LaneTypes, Lane!LosesOnlyConfirmed, Lane!Destroyed, Lane!Forgotten
    <3>7. QED
      BY <3>3, <3>4, <3>5, <3>6 DEF LaneSafe
  <2>4. QED
    BY <2>2, <2>3
<1>4. CASE Lane!Created(l)
  <2>1. /\ x1' = [x1 EXCEPT ![l] = [status |-> "preparing", branch |-> x7.daemon.call[l].branch]]
        /\ x7' = [x7 EXCEPT !.daemon.call[l] = Lane!NoCall, !.daemon.preparing = @ \cup {l}]
        /\ x2' = x2 /\ x3' = x3 /\ x4' = x4 /\ x5' = x5
    BY <1>4 DEF Lane!Created, Lane!Daemon, Lane!disk
  <2>2. x7' = Daemons([x7.daemon.call EXCEPT ![l] = Lane!NoCall], x7.commands,
                      x7.daemon.preparing \cup {l}, x7.daemon.turns)
    BY <2>1 DEF Daemons, DaemonCalls
  <2>3. Lane!NoCall \in Lane!Calls /\ AddsName(Lane!NoCall)
    BY DEF Lane!NoCall, Lane!Calls, Lane!Steps, AddsName
  <2>4. /\ x7.commands \in Nat /\ x7.daemon.preparing \cup {l} \in SUBSET LaneIds
        /\ x7.daemon.turns \in SUBSET LaneIds
    BY DEF DaemonCalls
  <2>5. CallsKept
    BY <2>2, <2>3, <2>4, CallMoves
  <2>6. LaneTypes'
    BY <2>1, CallAt DEF LaneTypes, Lane!Statuses, Lane!Calls
  <2>7. QED
    BY <2>1, <2>5, <2>6, LaneElsewhere
<1>5. CASE Lane!Prune(l)
  <2>1. /\ x2' = Lane!Pruned /\ Lane!Goes(l, [Lane!NoCall EXCEPT !.op = "allocate"])
        /\ x1' = x1 /\ x3' = x3 /\ x4' = x4 /\ x5' = x5
    BY <1>5 DEF Lane!Prune
  <2>2. /\ [Lane!NoCall EXCEPT !.op = "allocate"] \in Lane!Calls
        /\ AddsName([Lane!NoCall EXCEPT !.op = "allocate"])
    BY DEF Lane!NoCall, Lane!Calls, Lane!Steps, AddsName
  <2>3. CallsKept
    BY <2>1, <2>2, CallGoes
  <2>4. \A m \in LaneIds : x2'[m] \in {x2[m], Lane!NoTree}
                           /\ (x2[m].is # "gone" => x2'[m] = x2[m])
    BY <2>1 DEF Lane!Pruned
  <2>5. LaneTypes'
    <3>1. x2' \in [LaneIds -> [is : Lane!Present \cup {"absent", "gone"},
                               on : Lane!Names \cup {Lane!NoBranch}]]
      BY <2>1 DEF LaneTypes, Lane!Pruned, Lane!NoTree
    <3>2. QED
      BY <2>1, <3>1 DEF LaneTypes
  <2>6. \A k, m \in LaneIds : x2'[k] # Lane!NoTree =>
          x2'[k].on \in x5' /\ (x2'[m].on = x2'[k].on => k = m)
    <3>1. \A k, m \in LaneIds : x2[k] # Lane!NoTree =>
            x2[k].on \in x5 /\ (x2[m].on = x2[k].on => k = m)
      BY DEF LaneInv, Lane!BranchesDistinct
    <3>2. Lane!NoTree.on \notin x5
      BY DEF Lane!NoTree, Lane!NoBranch, Lane!Names, LaneTypes
    <3>3. QED
      BY <2>1, <2>4, <3>1, <3>2
  <2>7. Lane!LosesOnlyConfirmed
    BY <2>1, <2>4 DEF LaneTypes, Lane!LosesOnlyConfirmed, Lane!Destroyed, Lane!Forgotten
  <2>8. QED
    BY <2>3, <2>5, <2>6, <2>7 DEF LaneSafe
<1>6. QED
  BY <1>1, <1>2, <1>3, <1>4, <1>5

(* Turns, agents and hands at work in a lane.                               *)
LEMMA LaneWorks ==
  ASSUME LaneInv, NEW l \in LaneIds,
         \/ Lane!PrepareLane(l) \/ Lane!TurnStarts(l) \/ Lane!TurnEnds(l)
         \/ Lane!Edit(l) \/ Lane!Commit(l) \/ Lane!DeletedByHand(l)
  PROVE  LaneSafe
<1> USE LaneParts
<1>1. CASE Lane!PrepareLane(l)
  <2>1. x7' = Daemons(x7.daemon.call, x7.commands, x7.daemon.preparing \ {l}, x7.daemon.turns)
    BY <1>1 DEF Lane!PrepareLane, DaemonCalls, Daemons
  <2>2. /\ x7.commands \in Nat /\ x7.daemon.preparing \ {l} \in SUBSET LaneIds
        /\ x7.daemon.turns \in SUBSET LaneIds
    BY DEF DaemonCalls
  <2>3. CallsKept
    BY <2>1, <2>2, SameCalls
  <2>4. QED
    BY <1>1, <2>3, LaneElsewhere
       DEF Lane!PrepareLane, Lane!Marked, Lane!Outcomes, Lane!Statuses, Lane!disk, LaneTypes
<1>2. CASE Lane!TurnStarts(l)
  <2>1. x7' = Daemons(x7.daemon.call, x7.commands + 1, x7.daemon.preparing,
                      x7.daemon.turns \cup {l})
    BY <1>2 DEF Lane!TurnStarts, DaemonCalls, Daemons
  <2>2. /\ x7.commands + 1 \in Nat /\ x7.daemon.preparing \in SUBSET LaneIds
        /\ x7.daemon.turns \cup {l} \in SUBSET LaneIds
    BY DEF DaemonCalls
  <2>3. CallsKept
    BY <2>1, <2>2, SameCalls
  <2>4. QED
    BY <1>2, <2>3, LaneElsewhere DEF Lane!TurnStarts, Lane!disk, LaneTypes
<1>3. CASE Lane!TurnEnds(l)
  <2>1. x7' = Daemons(x7.daemon.call, x7.commands, x7.daemon.preparing, x7.daemon.turns \ {l})
    BY <1>3 DEF Lane!TurnEnds, DaemonCalls, Daemons
  <2>2. /\ x7.commands \in Nat /\ x7.daemon.preparing \in SUBSET LaneIds
        /\ x7.daemon.turns \ {l} \in SUBSET LaneIds
    BY DEF DaemonCalls
  <2>3. CallsKept
    BY <2>1, <2>2, SameCalls
  <2>4. QED
    BY <1>3, <2>3, LaneElsewhere DEF Lane!TurnEnds, Lane!disk, LaneTypes
<1>4. CASE Lane!Edit(l) \/ Lane!Commit(l) \/ Lane!DeletedByHand(l)
  <2>1. CallsKept
    BY <1>4 DEF Lane!Edit, Lane!Commit, Lane!DeletedByHand, CallsKept
  <2>2. \A m \in LaneIds : x2[m] # Lane!NoTree => x2[m].on \in x5
    BY DEF LaneInv, Lane!BranchesDistinct
  <2>3. x2[l].is \in Lane!Present /\ x2[l].on \in x5
    BY <1>4, <2>2
       DEF Lane!Edit, Lane!Commit, Lane!DeletedByHand, Lane!Present, Lane!NoTree
  <2>4. PICK s \in {"dirty", "clean", "gone"} : x2' = [x2 EXCEPT ![l].is = s]
    BY <1>4 DEF Lane!Edit, Lane!Commit, Lane!DeletedByHand
  <2>5. \A m \in LaneIds : /\ x2'[m].on = x2[m].on
                           /\ x2'[m].is = "absent" <=> x2[m].is = "absent"
    BY <2>3, <2>4 DEF LaneTypes, Lane!Present
  <2>6. x2' \in [LaneIds -> [is : Lane!Present \cup {"absent", "gone"},
                             on : Lane!Names \cup {Lane!NoBranch}]]
    BY <2>4 DEF LaneTypes, Lane!Present
  <2>7. x1' = x1 /\ x3' \in [LaneIds -> BOOLEAN] /\ x5' = x5 /\ x4 \subseteq x4' /\ x4' \subseteq x5
    BY <1>4, <2>3 DEF Lane!Edit, Lane!Commit, Lane!DeletedByHand, LaneTypes
  <2>8. LaneTypes'
    BY <2>6, <2>7 DEF LaneTypes
  <2>9. QED
    BY <2>1, <2>5, <2>7, <2>8, LaneElsewhere
<1>5. QED
  BY <1>1, <1>2, <1>3, <1>4

(* Archiving a lane.  Only RemoveWorktree takes anything away: a tree that  *)
(* is dirty, or a branch with commits of its own, goes when it was forced.  *)
LEMMA LaneShrinks ==
  ASSUME LaneInv, NEW l \in LaneIds, NEW force \in BOOLEAN, NEW delete \in BOOLEAN,
         \/ Lane!Archive(l, force, delete) \/ Lane!CaptureBeforeArchive(l) \/ Lane!StopBound(l)
         \/ Lane!RemoveWorktree(l) \/ Lane!Archived(l)
  PROVE  LaneSafe
<1> USE LaneParts
<1> DEFINE c == x7.daemon.call[l]
<1>0. c \in Lane!Calls /\ AddsName(c)
  BY CallAt
<1>1. CASE Lane!Archive(l, force, delete)
  <2> DEFINE d == [Lane!NoCall EXCEPT !.op = IF x2[l].is = "dirty" THEN "capture" ELSE "stop",
                                      !.branch = x1[l].branch, !.force = force, !.delete = delete]
  <2>1. d \in Lane!Calls /\ AddsName(d)
    BY DEF Lane!NoCall, Lane!Calls, Lane!Steps, AddsName, LaneTypes
  <2>2. Lane!Asks(l, d)
    BY <1>1 DEF Lane!Archive
  <2>3. CallsKept
    BY <2>1, <2>2, CallGoes
  <2>4. QED
    BY <1>1, <2>3, LaneElsewhere DEF Lane!Archive, Lane!disk, LaneTypes
<1>2. CASE Lane!CaptureBeforeArchive(l)
  <2>1. [c EXCEPT !.op = "stop"] \in Lane!Calls /\ AddsName([c EXCEPT !.op = "stop"])
    BY <1>0 DEF Lane!Calls, Lane!Steps, AddsName
  <2>2. Lane!Goes(l, [c EXCEPT !.op = "stop"])
    BY <1>2 DEF Lane!CaptureBeforeArchive, Lane!Daemon
  <2>3. CallsKept
    BY <2>1, <2>2, CallGoes
  <2>4. x3' \in [LaneIds -> BOOLEAN]
    <3>1. (x2[l].is \in Lane!Present) \in BOOLEAN
      OBVIOUS
    <3>2. QED
      BY <1>2, <3>1 DEF Lane!CaptureBeforeArchive, LaneTypes
  <2>5. x1' = x1 /\ x2' = x2 /\ x4' = x4 /\ x5' = x5
    BY <1>2 DEF Lane!CaptureBeforeArchive
  <2>6. QED
    BY <2>3, <2>4, <2>5, LaneElsewhere DEF LaneTypes
<1>3. CASE Lane!StopBound(l)
  <2>1. [c EXCEPT !.op = "remove"] \in Lane!Calls /\ AddsName([c EXCEPT !.op = "remove"])
    BY <1>0 DEF Lane!Calls, Lane!Steps, AddsName
  <2>2. x7' = Daemons([x7.daemon.call EXCEPT ![l] = [c EXCEPT !.op = "remove"]], x7.commands,
                      x7.daemon.preparing, x7.daemon.turns \ {l})
    BY <1>3 DEF Lane!StopBound, DaemonCalls, Daemons
  <2>3. /\ x7.commands \in Nat /\ x7.daemon.preparing \in SUBSET LaneIds
        /\ x7.daemon.turns \ {l} \in SUBSET LaneIds
    BY DEF DaemonCalls
  <2>4. CallsKept
    BY <2>1, <2>2, <2>3, CallMoves
  <2>5. QED
    BY <1>3, <2>4, LaneElsewhere DEF Lane!StopBound, Lane!disk, LaneTypes
<1>4. CASE Lane!RemoveWorktree(l)
  <2>1. CASE Lane!Removable(l, c.force)
    <3>1. /\ x2' = Lane!Left(l)
          /\ x5' = x5 \ Lane!Deleted(l, c)
          /\ x4' = x4 \ Lane!Deleted(l, c)
          /\ Lane!Goes(l, [c EXCEPT !.op = "archived"])
          /\ x1' = x1 /\ x3' = x3
      BY <1>4, <2>1 DEF Lane!RemoveWorktree, Lane!Daemon
    <3>2. [c EXCEPT !.op = "archived"] \in Lane!Calls /\ AddsName([c EXCEPT !.op = "archived"])
      BY <1>0 DEF Lane!Calls, Lane!Steps, AddsName
    <3>3. CallsKept
      BY <3>1, <3>2, CallGoes
    <3>4. \A m \in LaneIds :
            Lane!Left(l)[m] \in {x2[m], Lane!NoTree}
      BY DEF Lane!Left, Lane!Pruned
    <3>5. LaneTypes'
      <4>1. x2' \in [LaneIds -> [is : Lane!Present \cup {"absent", "gone"},
                                 on : Lane!Names \cup {Lane!NoBranch}]]
        BY <3>1 DEF LaneTypes, Lane!Left, Lane!Pruned, Lane!NoTree
      <4>2. QED
        BY <3>1, <4>1 DEF LaneTypes
    <3>6. \A k, m \in LaneIds : x2'[k] # Lane!NoTree =>
            x2'[k].on \in x5' /\ (x2'[m].on = x2'[k].on => k = m)
      <4> SUFFICES ASSUME NEW k \in LaneIds, NEW m \in LaneIds, x2'[k] # Lane!NoTree
                   PROVE  x2'[k].on \in x5' /\ (x2'[m].on = x2'[k].on => k = m)
        OBVIOUS
      <4>1. x2[k] # Lane!NoTree /\ x2'[k] = x2[k]
        BY <3>1, <3>4
      <4>2. x2[k].on \in x5 /\ (x2[m].on = x2[k].on => k = m)
        BY <4>1 DEF LaneInv, Lane!BranchesDistinct
      <4>3. x2[k].on \notin Lane!Deleted(l, c)
        BY <3>1, <4>1 DEF Lane!Deleted
      <4>4. Lane!NoTree.on \notin x5
        BY DEF Lane!NoTree, Lane!NoBranch, Lane!Names, LaneTypes
      <4>5. QED
        BY <3>1, <3>4, <4>1, <4>2, <4>3, <4>4
    <3>7. Lane!LosesOnlyConfirmed
      <4>1. Lane!Forgotten = x4 \cap Lane!Deleted(l, c)
        BY <3>1 DEF Lane!Forgotten
      <4>2. \A b \in Lane!Forgotten : b = c.branch /\ c.force
                                      /\ \A m \in LaneIds : Lane!Left(l)[m].on # b
        BY <4>1 DEF Lane!Deleted
      <4>3. ASSUME NEW m \in LaneIds, x2[m].is \in Lane!Present,
                   Lane!Destroyed(m) \/ x2[m].on \in Lane!Forgotten
            PROVE  x7.daemon.call[m].force
        <5>1. m = l \/ Lane!Left(l)[m] = x2[m]
          BY <4>3 DEF Lane!Left, Lane!Pruned, Lane!Present
        <5>2. CASE Lane!Destroyed(m)
          BY <2>1, <3>1, <5>1, <5>2 DEF Lane!Destroyed, Lane!Removable
        <5>3. CASE x2[m].on \in Lane!Forgotten
          BY <4>2, <5>1, <5>3
        <5>4. QED
          BY <4>3, <5>2, <5>3
      <4>4. QED
        BY <4>2, <4>3 DEF Lane!LosesOnlyConfirmed, Lane!Destroyed, Lane!Present, Lane!Daemon
    <3>8. QED
      BY <3>3, <3>5, <3>6, <3>7 DEF LaneSafe
  <2>2. CASE ~Lane!Removable(l, c.force)
    <3>1. Lane!Goes(l, Lane!NoCall) /\ x1' = x1 /\ x2' = x2 /\ x3' = x3 /\ x4' = x4 /\ x5' = x5
      BY <1>4, <2>2 DEF Lane!RemoveWorktree, Lane!Daemon, Lane!disk
    <3>2. CallsKept
      BY <3>1, CallGoes DEF Lane!NoCall, Lane!Calls, Lane!Steps, AddsName
    <3>3. QED
      BY <3>1, <3>2, LaneElsewhere DEF LaneTypes
  <2>3. QED
    BY <2>1, <2>2
<1>5. CASE Lane!Archived(l)
  <2>1. CallsKept
    BY <1>5, CallGoes DEF Lane!Archived, Lane!NoCall, Lane!Calls, Lane!Steps, AddsName
  <2>2. QED
    BY <1>5, <2>1, LaneElsewhere
       DEF Lane!Archived, Lane!Marked, Lane!Statuses, Lane!disk, LaneTypes
<1>6. QED
  BY <1>1, <1>2, <1>3, <1>4, <1>5

LEMMA LaneDies ==
  ASSUME LaneInv, Lane!RemoveProject \/ Lane!Crash \/ Lane!Restart
  PROVE  LaneSafe
<1> USE LaneParts
<1>1. CASE Lane!RemoveProject
  BY <1>1, LaneElsewhere DEF Lane!RemoveProject, Lane!disk, LaneTypes, CallsKept
<1>2. CASE Lane!Crash
  <2>1. x7' = [up |-> FALSE, crashes |-> x7.crashes + 1, commands |-> x7.commands,
               daemon |-> Lane!Idle]
    BY <1>2 DEF Lane!Crash, DaemonCalls
  <2>2. x7.crashes + 1 \in Nat
    BY DEF DaemonCalls
  <2>3. Lane!NoCall \in Lane!Calls /\ AddsName(Lane!NoCall)
    BY DEF Lane!NoCall, Lane!Calls, Lane!Steps, AddsName
  <2>4. CallsKept
    BY <2>1, <2>2, <2>3 DEF CallsKept, DaemonCalls, Lane!Idle
  <2>5. QED
    BY <1>2, <2>4, LaneElsewhere DEF Lane!Crash, Lane!disk, LaneTypes
<1>3. CASE Lane!Restart
  <2>1. CallsKept
    BY <1>3 DEF Lane!Restart, CallsKept, DaemonCalls
  <2>2. QED
    BY <1>3, <2>1, LaneElsewhere
       DEF Lane!Restart, Lane!Reconciled, Lane!Statuses, Lane!disk, LaneTypes
<1>4. QED
  BY <1>1, <1>2, <1>3

LEMMA LaneStep ==
  ASSUME [DaemonNext]_vars, Is("lanes")'
  PROVE  Is("lanes") /\ (Lane!Next \/ UNCHANGED vars)
BY DEF DaemonNext, Is, Of, vars

LEMMA LaneKept ==
  ASSUME Is("lanes") => LaneInv, [DaemonNext]_vars
  PROVE  /\ Is("lanes")' => LaneInv'
         /\ Is("lanes") => Lane!LosesOnlyConfirmed \/ UNCHANGED vars
<1>1. CASE Is("lanes") /\ Lane!Next
  BY <1>1, LaneGrows, LaneWorks, LaneShrinks, LaneDies
     DEF Lane!Next, Lane!Awaits, LaneSafe
<1>2. CASE UNCHANGED vars
  BY <1>2 DEF vars, Is, LaneInv, Lane!TypeOK, Lane!BranchesDistinct, Lane!At, Lane!Daemon
<1>3. CASE ~Is("lanes")
  BY <1>3, LaneStep
<1>4. QED
  BY <1>1, <1>2, <1>3 DEF DaemonNext, Is, Of

(* Uncommitted changes, and commits that are on one branch alone, go only   *)
(* by an archive that was confirmed, wherever edits, crashes and calls at   *)
(* other lanes fall between the check and the removal.                      *)
THEOREM LaneLosesNothingUnasked == DaemonSpec => NothingLostUnasked
<1> DEFINE Inv == Is("lanes") => LaneInv
<1>1. DaemonInit => Inv
  BY LaneStart, LaneStarts
<1>2. Inv /\ [DaemonNext]_vars => Inv'
  BY LaneKept
<1>3. Inv /\ [DaemonNext]_vars => [Is("lanes") => Lane!LosesOnlyConfirmed]_vars
  BY LaneKept
<1>4. QED
  BY <1>1, <1>2, <1>3, PTL DEF DaemonSpec, NothingLostUnasked

-----------------------------------------------------------------------------
(* The set-up of a lane                                                     *)

LEMMA SetupStart == ASSUME DaemonInit, Is("setup") PROVE Setup!Init
BY DEF DaemonInit, Is

LEMMA SetupStep ==
  ASSUME [DaemonNext]_vars, Is("setup")'
  PROVE  Is("setup") /\ (Setup!Next \/ UNCHANGED vars)
BY DEF DaemonNext, Is, Of, vars

SetupInv == Setup!TypeOK /\ Setup!LanesAreGiven

LEMMA Listed == Len(Entries) \in Nat /\ Setup!Places = 1..Len(Entries)
BY SetupBounds DEF Setup!Places

LEMMA FreshRow ==
  /\ Setup!NewLane \in Setup!Rows
  /\ \A b \in BOOLEAN : [Setup!NewLane EXCEPT !.at = "asked", !.beside = b] \in Setup!Rows
<1>1. Setup!NewLane \in Setup!Rows
  BY Listed DEF Setup!NewLane, Setup!Rows, Setup!Steps, Setup!Statuses, Setup!NoPort
<1>2. ASSUME NEW b \in BOOLEAN
      PROVE  [Setup!NewLane EXCEPT !.at = "asked", !.beside = b] \in Setup!Rows
  BY <1>1 DEF Setup!Rows, Setup!Steps
<1>3. QED
  BY <1>1, <1>2

LEMMA SetupStarts == Setup!Init => SetupInv
<1> SUFFICES ASSUME Setup!Init PROVE SetupInv
  OBVIOUS
<1>1. Setup!TypeOK
  <2>1. Setup!NoTree \in [git : BOOLEAN, has : Setup!Copies]
    BY DEF Setup!NoTree, Setup!Copies
  <2>2. PICK is \in [Setup!Places -> Setup!EntryKinds] : x1 = [is |-> is, changed |-> {}]
    BY DEF Setup!Init
  <2>3. {} \in SUBSET Setup!Places /\ 0 \in 0..SetupChanges
    BY SetupBounds
  <2>4. QED
    BY FreshRow, <2>1, <2>2, <2>3 DEF Setup!Init, Setup!TypeOK
<1>2. \A l \in LaneIds : x3[l] = Setup!NewLane /\ x4[l] = Setup!NoTree
  BY DEF Setup!Init
<1>3. \A l \in LaneIds : /\ x3[l].at = "no" /\ x3[l].status = "none" /\ x3[l].next = 1
                         /\ \A i \in Setup!Places : x4[l].has[i] = "nothing"
  BY <1>2 DEF Setup!NewLane, Setup!NoTree
<1>4. Setup!LanesAreGiven
  BY <1>3
     DEF Setup!LanesAreGiven, Setup!PortsApart, Setup!Holders,
         Setup!Active, Setup!Creating, Setup!LanesApart, Setup!ReadyIsWhole, Setup!ArchivedIsGone,
         Setup!PreparedInOrder
<1>5. QED
  BY <1>1, <1>4 DEF SetupInv

LEMMA SetupTyped ==
  ASSUME Setup!TypeOK, Setup!LanesAreGiven, Setup!Next
  PROVE  Setup!TypeOK'
<1> DEFINE Others == /\ x1' \in [is : [Setup!Places -> Setup!EntryKinds], changed : SUBSET Setup!Places]
                     /\ x2' \subseteq Ports /\ x5' \in 0..SetupChanges
<1> DEFINE Lanes1 == x3' \in [LaneIds -> Setup!Rows]
<1> DEFINE Trees1 == x4' \in [LaneIds -> [git : BOOLEAN, has : Setup!Copies]]
<1>0. Others /\ Lanes1 /\ Trees1 => Setup!TypeOK'
  BY DEF Setup!TypeOK
<1>1. Others
  <2>1. CASE Setup!FileChanges
    <3>1. x5' \in 0..SetupChanges /\ x2' = x2
      BY <2>1, SetupBounds DEF Setup!FileChanges, Setup!Changes, Setup!TypeOK
    <3>2. PICK i \in Setup!Places, k \in Setup!EntryKinds :
            x1' = [is |-> [x1.is EXCEPT ![i] = k], changed |-> x1.changed \cup {i}]
      BY <2>1 DEF Setup!FileChanges
    <3>3. /\ [x1.is EXCEPT ![i] = k] \in [Setup!Places -> Setup!EntryKinds]
          /\ x1.changed \cup {i} \in SUBSET Setup!Places
      BY DEF Setup!TypeOK
    <3>4. QED
      BY <3>1, <3>2, <3>3 DEF Setup!TypeOK
  <2>2. CASE Setup!Listens
    BY <2>2, SetupBounds DEF Setup!Listens, Setup!Changes, Setup!TypeOK
  <2>3. ASSUME NEW l \in LaneIds, Setup!Archive(l) PROVE Others
    BY <2>3, SetupBounds DEF Setup!Archive, Setup!Changes, Setup!TypeOK
  <2>4. ASSUME NEW l \in LaneIds,
               \/ Setup!Create(l) \/ Setup!AllocatePort(l) \/ Setup!CreateWorktree(l)
               \/ Setup!CreateFails(l) \/ Setup!Prepares(l)
        PROVE  UNCHANGED <<x1, x2, x5>>
    BY <2>4
       DEF Setup!Create, Setup!AllocatePort, Setup!CreateWorktree, Setup!CreateFails, Setup!Prepares,
           Setup!SkipDenied, Setup!NotThere, Setup!TooLarge, Setup!StartCopy, Setup!Copied,
           Setup!CopyFails, Setup!StartSetup, Setup!SpawnFails, Setup!SetupEnds, Setup!NoSetup
  <2>5. QED
    BY <2>1, <2>2, <2>3, <2>4 DEF Setup!Next, Setup!TypeOK
<1>2. Lanes1
  <2>0. x3 \in [LaneIds -> Setup!Rows]
    BY DEF Setup!TypeOK
  <2>1. ASSUME NEW l \in LaneIds, NEW r \in Setup!Rows, x3' = [x3 EXCEPT ![l] = r] PROVE Lanes1
    BY <2>0, <2>1
  <2>2. ASSUME NEW l \in LaneIds, Setup!Create(l) PROVE Lanes1
    <3>1. (Setup!Creating # {}) \in BOOLEAN
      OBVIOUS
    <3>2. \A m \in LaneIds : [x3[m] EXCEPT !.beside = TRUE] \in Setup!Rows
      BY <2>0 DEF Setup!Rows
    <3>3. [Setup!NewLane EXCEPT !.at = "asked", !.beside = Setup!Creating # {}] \in Setup!Rows
      BY FreshRow, <3>1, Zenon
    <3>4. QED
      BY <2>0, <2>2, <3>2, <3>3 DEF Setup!Create
  <2>3. ASSUME NEW l \in LaneIds, Setup!AllocatePort(l) PROVE Lanes1
    <3>1. \/ x3' = [x3 EXCEPT ![l] = [x3[l] EXCEPT !.at = "over"]]
          \/ \E p \in Ports : x3' = [x3 EXCEPT ![l] = [x3[l] EXCEPT !.at = "add", !.port = p]]
      BY <2>0, <2>3 DEF Setup!AllocatePort, Setup!Goes
    <3>2. /\ [x3[l] EXCEPT !.at = "over"] \in Setup!Rows
          /\ \A p \in Ports : [x3[l] EXCEPT !.at = "add", !.port = p] \in Setup!Rows
      BY <2>0 DEF Setup!Rows, Setup!Steps
    <3>3. QED
      BY <2>1, <3>1, <3>2
  <2>4. ASSUME NEW l \in LaneIds, Setup!CreateWorktree(l) \/ Setup!CreateFails(l) PROVE Lanes1
    BY <2>0, <2>4
       DEF Setup!CreateWorktree, Setup!CreateFails, Setup!Goes, Setup!Rows, Setup!Steps, Setup!Statuses
  <2>5. ASSUME NEW l \in LaneIds, Setup!Archive(l) PROVE Lanes1
    <3>1. PICK e \in BOOLEAN : e = (x3[l].at # "over")
      OBVIOUS
    <3>2. [x3[l] EXCEPT !.status = "archived", !.early = e] \in Setup!Rows
      BY <2>0 DEF Setup!Rows, Setup!Statuses
    <3>3. x3' = [x3 EXCEPT ![l] = [x3[l] EXCEPT !.status = "archived", !.early = e]]
      BY <2>0, <2>5, <3>1 DEF Setup!Archive
    <3>4. QED
      BY <3>2, <3>3, <2>1
  <2>6. ASSUME NEW l \in LaneIds, Setup!Prepares(l) PROVE Lanes1
    <3> DEFINE next == x3[l].next  skipped == x3[l].skipped
    <3>0. /\ next <= Len(Entries) => next + 1 \in 1..Len(Entries) + 1
          /\ next <= Len(Entries) => skipped \cup {next} \in SUBSET Setup!Places
      BY <2>0, Listed DEF Setup!Rows
    <3>1. CASE Setup!SkipDenied(l) \/ Setup!NotThere(l) \/ Setup!TooLarge(l)
      <4>1. next <= Len(Entries)
        BY <3>1 DEF Setup!SkipDenied, Setup!NotThere, Setup!TooLarge, Setup!More
      <4>2. \/ x3' = [x3 EXCEPT ![l] = [x3[l] EXCEPT !.next = next + 1]]
            \/ x3' = [x3 EXCEPT ![l] = [x3[l] EXCEPT !.next = next + 1, !.skipped = skipped \cup {next}]]
        BY <2>0, <3>1 DEF Setup!SkipDenied, Setup!NotThere, Setup!TooLarge, Setup!Skips
      <4>3. QED
        <5>1. /\ [x3[l] EXCEPT !.next = next + 1] \in Setup!Rows
              /\ [x3[l] EXCEPT !.next = next + 1, !.skipped = skipped \cup {next}] \in Setup!Rows
          BY <2>0, <3>0, <4>1 DEF Setup!Rows
        <5>2. QED
          BY <2>1, <4>2, <5>1
    <3>2. CASE Setup!StartCopy(l) \/ Setup!StartSetup(l)
      <4>1. \E at \in {"copy", "setup"} : x3' = [x3 EXCEPT ![l] = [x3[l] EXCEPT !.at = at]]
        BY <2>0, <3>2 DEF Setup!StartCopy, Setup!StartSetup, Setup!Goes
      <4>2. \A at \in {"copy", "setup"} : [x3[l] EXCEPT !.at = at] \in Setup!Rows
        BY <2>0 DEF Setup!Rows, Setup!Steps
      <4>3. QED
        BY <2>1, <4>1, <4>2
    <3>3. CASE Setup!Copied(l) \/ Setup!CopyFails(l)
      <4>1. next <= Len(Entries)
        BY <3>3 DEF Setup!Copied, Setup!CopyFails, Setup!LanesAreGiven, Setup!PreparedInOrder
      <4>2. \/ x3' = [x3 EXCEPT ![l] = [x3[l] EXCEPT !.at = "carry", !.next = next + 1]]
            \/ x3' = [x3 EXCEPT ![l] = [x3[l] EXCEPT !.at = "carry", !.next = next + 1,
                                                     !.skipped = skipped \cup {next}]]
        BY <2>0, <3>3 DEF Setup!Copied, Setup!CopyFails
      <4>3. "carry" \in Setup!Steps
        BY DEF Setup!Steps
      <4>4. QED
        <5>1. /\ [x3[l] EXCEPT !.at = "carry", !.next = next + 1] \in Setup!Rows
              /\ [x3[l] EXCEPT !.at = "carry", !.next = next + 1,
                               !.skipped = skipped \cup {next}] \in Setup!Rows
          BY <2>0, <3>0, <4>1, <4>3 DEF Setup!Rows
        <5>2. QED
          BY <2>1, <4>2, <5>1
    <3>4. CASE Setup!SpawnFails(l) \/ Setup!SetupEnds(l) \/ Setup!NoSetup(l)
      <4>1. \/ x3' = [x3 EXCEPT ![l] = [x3[l] EXCEPT !.at = "over", !.status = "ready"]]
            \/ x3' = [x3 EXCEPT ![l] = [x3[l] EXCEPT !.at = "over", !.status = "error"]]
        BY <2>0, <3>4 DEF Setup!SpawnFails, Setup!SetupEnds, Setup!NoSetup, Setup!Prepared
      <4>2. QED
        <5>1. \A st \in {"ready", "error"} : [x3[l] EXCEPT !.at = "over", !.status = st] \in Setup!Rows
          BY <2>0 DEF Setup!Rows, Setup!Steps, Setup!Statuses
        <5>2. QED
          BY <2>1, <4>1, <5>1
    <3>5. QED
      BY <2>6, <3>1, <3>2, <3>3, <3>4 DEF Setup!Prepares
  <2>7. Setup!FileChanges \/ Setup!Listens => x3' = x3
    BY DEF Setup!FileChanges, Setup!Listens
  <2>8. QED
    BY <2>0, <2>2, <2>3, <2>4, <2>5, <2>6, <2>7 DEF Setup!Next
<1>3. Trees1
  <2>0. x4 \in [LaneIds -> [git : BOOLEAN, has : Setup!Copies]]
    BY DEF Setup!TypeOK
  <2>1. ASSUME NEW l \in LaneIds, Setup!CreateWorktree(l) PROVE Trees1
    BY <2>0, <2>1 DEF Setup!CreateWorktree
  <2>2. ASSUME NEW l \in LaneIds, Setup!Copied(l) PROVE Trees1
    <3> DEFINE k == Setup!CopyOf(Setup!Here(l))
    <3>1. Setup!Here(l) \in Setup!EntryKinds
      BY <2>2, Listed
         DEF Setup!Copied, Setup!Here, Setup!LanesAreGiven, Setup!PreparedInOrder, Setup!TypeOK, Setup!Rows
    <3>2. k \in Setup!EntryKinds
      BY <3>1 DEF Setup!CopyOf, Setup!EntryKinds
    <3>3. [x4[l].has EXCEPT ![x3[l].next] = k] \in Setup!Copies
      BY <2>0, <3>2 DEF Setup!Copies
    <3>4. x4' = [x4 EXCEPT ![l] = [x4[l] EXCEPT !.has = [x4[l].has EXCEPT ![x3[l].next] = k]]]
      BY <2>2 DEF Setup!Copied
    <3>5. QED
      BY <2>0, <3>3, <3>4
  <2>3. ASSUME NEW l \in LaneIds, Setup!Archive(l) PROVE Trees1
    BY <2>0, <2>3 DEF Setup!Archive, Setup!NoTree, Setup!Copies
  <2>4. ASSUME NEW l \in LaneIds,
               Setup!Create(l) \/ Setup!AllocatePort(l) \/ Setup!CreateFails(l) \/ Setup!Prepares(l)
        PROVE  x4' = x4 \/ Setup!Copied(l)
    BY <2>4
       DEF Setup!Create, Setup!AllocatePort, Setup!CreateFails, Setup!Prepares,
           Setup!SkipDenied, Setup!NotThere, Setup!TooLarge, Setup!StartCopy,
           Setup!CopyFails, Setup!StartSetup, Setup!SpawnFails, Setup!SetupEnds, Setup!NoSetup
  <2>5. Setup!FileChanges \/ Setup!Listens => x4' = x4
    BY DEF Setup!FileChanges, Setup!Listens
  <2>6. QED
    BY <2>0, <2>1, <2>2, <2>3, <2>4, <2>5 DEF Setup!Next
<1>4. QED
  BY <1>0, <1>1, <1>2, <1>3

(* What is said of each lane by itself.                                     *)
Prepared(l) ==
  LET row == x3[l] at == row.at next == row.next IN
  /\ \A i \in Setup!Places :
       /\ x4[l].has[i] # "link"
       /\ x4[l].has[i] = "large" => i \in x1.changed
       /\ x4[l].has[i] # "nothing" => Entries[i] \notin {"outside", "denied"}
  /\ row.status = "ready" /\ ~row.early => \A i \in Setup!Places : Setup!HasItsCopy(l, i)
  /\ row.status = "archived" /\ ~row.early => x4[l] = Setup!NoTree
  /\ at \in {"no", "asked", "add"} => row.status = "none" /\ next = 1
  /\ at = "copy" => /\ next <= Len(Entries) /\ ~Setup!Denied(Setup!Entry(l))
                    /\ Setup!Here(l) = "large" => next \in x1.changed
  /\ at = "setup" => next > Len(Entries)
  /\ at \in {"carry", "copy", "setup"} => row.status \in {"preparing", "archived"}
  /\ at \in {"carry", "copy", "setup"} /\ ~row.early =>
       \A i \in Setup!Places : i < next => Setup!HasItsCopy(l, i)
  /\ row.status = "archived" /\ at # "over" => row.early

LEMMA GivenIsPrepared ==
  Setup!LanesAreGiven <=> Setup!PortsApart /\ \A l \in LaneIds : Prepared(l)
BY DEF Setup!LanesAreGiven, Setup!LanesApart, Setup!ReadyIsWhole, Setup!ArchivedIsGone,
       Setup!PreparedInOrder, Prepared

LEMMA GivenIsPreparedNext ==
  Setup!PortsApart' /\ (\A l \in LaneIds : Prepared(l)') => Setup!LanesAreGiven'
BY DEF Setup!LanesAreGiven, Setup!LanesApart, Setup!ReadyIsWhole, Setup!ArchivedIsGone,
       Setup!PreparedInOrder, Prepared

(* A lane that a step leaves alone stays as it is.                          *)
LEMMA PreparedElsewhere ==
  ASSUME NEW m \in LaneIds, Prepared(m), x3'[m] = x3[m], x4'[m] = x4[m], x1' = x1
  PROVE  Prepared(m)'
BY DEF Prepared, Setup!HasItsCopy, Setup!Denied, Setup!Entry, Setup!Here

LEMMA PreparedMade ==
  ASSUME Setup!TypeOK, NEW l \in LaneIds, Prepared(l),
         \/ Setup!Create(l) \/ Setup!AllocatePort(l) \/ Setup!CreateWorktree(l)
         \/ Setup!CreateFails(l) \/ Setup!Archive(l)
  PROVE  Prepared(l)'
<1>0. /\ x3 \in [LaneIds -> Setup!Rows]
      /\ x4 \in [LaneIds -> [git : BOOLEAN, has : Setup!Copies]]
  BY DEF Setup!TypeOK
<1>1. CASE Setup!Create(l)
  <2>1. /\ x3'[l].at = "asked" /\ x3'[l].status = "none" /\ x3'[l].next = 1
        /\ x4' = x4 /\ x1' = x1
    <3> DEFINE row == [Setup!NewLane EXCEPT !.at = "asked", !.beside = Setup!Creating # {}]
    <3>1. x3' = [m \in LaneIds |->
                   CASE m = l -> row
                     [] m \in Setup!Creating -> [x3[m] EXCEPT !.beside = TRUE]
                     [] OTHER -> x3[m]]
      BY <1>1 DEF Setup!Create
    <3>2. row.at = "asked" /\ row.status = "none" /\ row.next = 1
      BY DEF Setup!NewLane
    <3> HIDE DEF row
    <3>3. x3'[l] = row
      <4>1. l \notin Setup!Creating
        BY <1>1 DEF Setup!Create, Setup!Creating
      <4>2. QED
        BY <3>1, <4>1
    <3>4. QED
      BY <1>1, <3>2, <3>3 DEF Setup!Create
  <2>2. x3[l].at = "no"
    BY <1>1 DEF Setup!Create
  <2>3. QED
    BY <2>1, <2>2 DEF Prepared
<1>2. CASE Setup!AllocatePort(l) \/ Setup!CreateFails(l)
  <2>1. x3[l].at \in {"asked", "add"} /\ x4' = x4 /\ x1' = x1
    BY <1>2 DEF Setup!AllocatePort, Setup!CreateFails
  <2>2. \/ x3' = [x3 EXCEPT ![l] = [x3[l] EXCEPT !.at = "over"]]
        \/ \E p \in Ports : x3' = [x3 EXCEPT ![l] = [x3[l] EXCEPT !.at = "add", !.port = p]]
    BY <1>2 DEF Setup!AllocatePort, Setup!CreateFails, Setup!Goes
  <2>3. /\ x3'[l].at \in {"add", "over"}
        /\ x3'[l].status = x3[l].status /\ x3'[l].next = x3[l].next
    <3>1. CASE x3' = [x3 EXCEPT ![l] = [x3[l] EXCEPT !.at = "over"]]
      BY <1>0, <3>1 DEF Setup!Rows
    <3>2. ASSUME NEW p \in Ports, x3' = [x3 EXCEPT ![l] = [x3[l] EXCEPT !.at = "add", !.port = p]]
          PROVE  /\ x3'[l].at \in {"add", "over"}
                 /\ x3'[l].status = x3[l].status /\ x3'[l].next = x3[l].next
      BY <1>0, <3>2 DEF Setup!Rows
    <3>3. QED
      BY <2>2, <3>1, <3>2
  <2>4. x3[l].status = "none" /\ x3[l].next = 1
    BY <2>1 DEF Prepared
  <2>5. \A i \in Setup!Places : /\ x4[l].has[i] # "link"
                                 /\ (x4[l].has[i] = "large" => i \in x1.changed)
                                 /\ (x4[l].has[i] # "nothing" =>
                                       Entries[i] \notin {"outside", "denied"})
    BY DEF Prepared
  <2>6. QED
    BY <2>1, <2>3, <2>4, <2>5 DEF Prepared
<1>3. CASE Setup!CreateWorktree(l)
  <2>1. /\ x3[l].at = "add" /\ x3'[l].at = "carry"
        /\ x3'[l].status = "preparing" /\ x3'[l].next = x3[l].next
        /\ x4'[l].has = x4[l].has /\ x1' = x1
    BY <1>0, <1>3 DEF Setup!CreateWorktree, Setup!Rows
  <2>2. \A i \in Setup!Places : i \in Nat /\ ~(i < 1)
    BY Listed
  <2>3. QED
    BY <2>1, <2>2 DEF Prepared
<1>4. CASE Setup!Archive(l)
  <2>1. /\ x3'[l].status = "archived" /\ x3'[l].at = x3[l].at /\ x3'[l].next = x3[l].next
        /\ x4'[l] = Setup!NoTree /\ x1' = x1
    BY <1>0, <1>4 DEF Setup!Archive, Setup!Rows
  <2>2. x3'[l].early <=> x3[l].at # "over"
    <3>1. PICK e \in BOOLEAN : e = (x3[l].at # "over")
      OBVIOUS
    <3>2. x3' = [x3 EXCEPT ![l] = [x3[l] EXCEPT !.status = "archived", !.early = e]]
      BY <1>0, <1>4, <3>1 DEF Setup!Archive
    <3>3. x3'[l].early = e
      BY <1>0, <3>2 DEF Setup!Rows
    <3>4. QED
      BY <3>1, <3>3
  <2>3. x3[l].at \notin {"no", "asked", "add"}
    BY <1>4 DEF Prepared, Setup!Archive, Setup!Active
  <2>4. \A i \in Setup!Places : x4'[l].has[i] = "nothing"
    BY <2>1 DEF Setup!NoTree
  <2>5. QED
    BY <2>1, <2>2, <2>3, <2>4 DEF Prepared, Setup!Denied, Setup!Entry, Setup!Here
<1>5. QED
  BY <1>1, <1>2, <1>3, <1>4

LEMMA PreparedKept ==
  ASSUME Setup!TypeOK, NEW l \in LaneIds, Prepared(l), Setup!FileChanges
  PROVE  Prepared(l)'
<1>1. PICK i \in Setup!Places, k \in Setup!EntryKinds :
        x1' = [is |-> [x1.is EXCEPT ![i] = k], changed |-> x1.changed \cup {i}]
  BY DEF Setup!FileChanges
<1>2. \A j \in Setup!Places : x1'.is[j] = x1.is[j] \/ j \in x1'.changed
  BY <1>1 DEF Setup!TypeOK
<1>3. x1.changed \subseteq x1'.changed /\ x3' = x3 /\ x4' = x4
  BY <1>1 DEF Setup!FileChanges
<1>4. \A j \in Setup!Places : Setup!HasItsCopy(l, j) => Setup!HasItsCopy(l, j)'
  BY <1>2, <1>3 DEF Setup!HasItsCopy
<1>5. x3[l].at = "copy" => x3[l].next \in Setup!Places
  BY Listed DEF Prepared, Setup!TypeOK, Setup!Rows
<1>6. QED
  BY <1>2, <1>3, <1>4, <1>5 DEF Prepared, Setup!Denied, Setup!Entry, Setup!Here

(* An entry that is dealt with: it has its copy, or is remembered as        *)
(* skipped, or was not there.                                               *)
LEMMA PreparedOn ==
  ASSUME Setup!TypeOK, NEW l \in LaneIds, Prepared(l), Setup!Prepares(l)
  PROVE  Prepared(l)'
<1> DEFINE next == x3[l].next
<1> DEFINE Same(i) == x4'[l].has[i] = x4[l].has[i]
<1>0. /\ x3 \in [LaneIds -> Setup!Rows]
      /\ x4 \in [LaneIds -> [git : BOOLEAN, has : Setup!Copies]]
      /\ x1 \in [is : [Setup!Places -> Setup!EntryKinds], changed : SUBSET Setup!Places]
      /\ next \in 1..Len(Entries) + 1
  BY DEF Setup!TypeOK, Setup!Rows
<1>1. CASE Setup!SkipDenied(l) \/ Setup!NotThere(l) \/ Setup!TooLarge(l)
  <2>1. /\ x3[l].at = "carry" /\ x3'[l].at = "carry"
        /\ x3'[l].status = x3[l].status /\ x3'[l].early = x3[l].early
        /\ x3'[l].next = next + 1 /\ x3[l].skipped \subseteq x3'[l].skipped
        /\ x4' = x4 /\ x1' = x1
        /\ next \in x3'[l].skipped \/ x1.is[next] = "absent"
    BY <1>0, <1>1 DEF Setup!SkipDenied, Setup!NotThere, Setup!TooLarge, Setup!Skips, Setup!More,
                      Setup!Here, Setup!Rows
  <2>2. \A i \in Setup!Places : i < next + 1 => i < next \/ i = next
    BY <1>0, Listed
  <2>3. \A i \in Setup!Places : Setup!HasItsCopy(l, i) => Setup!HasItsCopy(l, i)'
    BY <2>1 DEF Setup!HasItsCopy
  <2>4. \A i \in Setup!Places : i = next => Setup!HasItsCopy(l, i)'
    BY <2>1 DEF Setup!HasItsCopy
  <2>5. QED
    BY <2>1, <2>2, <2>3, <2>4 DEF Prepared
<1>2. CASE Setup!StartCopy(l)
  <2>1. /\ x3[l].at = "carry" /\ x3'[l].at = "copy"
        /\ x3'[l].status = x3[l].status /\ x3'[l].early = x3[l].early
        /\ x3'[l].next = next /\ x3'[l].skipped = x3[l].skipped
        /\ x4' = x4 /\ x1' = x1
        /\ next <= Len(Entries) /\ ~Setup!Denied(Entries[next]) /\ x1.is[next] # "large"
    BY <1>0, <1>2 DEF Setup!StartCopy, Setup!Goes, Setup!More, Setup!Here, Setup!Entry, Setup!Rows
  <2>2. \A i \in Setup!Places : Setup!HasItsCopy(l, i) => Setup!HasItsCopy(l, i)'
    BY <2>1 DEF Setup!HasItsCopy
  <2>3. QED
    BY <2>1, <2>2 DEF Prepared, Setup!Entry, Setup!Here, Setup!Denied
<1>3. CASE Setup!Copied(l)
  <2>1. /\ x3[l].at = "copy" /\ x3'[l].at = "carry"
        /\ x3'[l].status = x3[l].status /\ x3'[l].early = x3[l].early
        /\ x3'[l].next = next + 1 /\ x3'[l].skipped = x3[l].skipped
        /\ x1' = x1 /\ x1.is[next] # "absent"
    BY <1>0, <1>3 DEF Setup!Copied, Setup!Here, Setup!Rows
  <2>2. next \in Setup!Places /\ ~Setup!Denied(Entries[next])
        /\ (x1.is[next] = "large" => next \in x1.changed)
    BY <1>0, <2>1, Listed DEF Prepared, Setup!Entry, Setup!Here
  <2>3. x1.is[next] \in Setup!EntryKinds
    BY <1>0, <2>2
  <2>4. x4'[l].has = [x4[l].has EXCEPT ![next] = Setup!CopyOf(x1.is[next])]
    BY <1>0, <1>3 DEF Setup!Copied, Setup!Here
  <2>5. x4[l].has \in Setup!Copies
    BY <1>0
  <2>6. /\ \A i \in Setup!Places : i # next => Same(i)
        /\ x4'[l].has[next] = Setup!CopyOf(x1.is[next])
    BY <2>2, <2>4, <2>5 DEF Setup!Copies
  <2>7. /\ x4'[l].has[next] \notin {"nothing", "link"}
        /\ x4'[l].has[next] = "large" => next \in x1.changed
    BY <2>1, <2>2, <2>3, <2>6 DEF Setup!CopyOf, Setup!EntryKinds
  <2>8. \A i \in Setup!Places : i < next + 1 => i < next \/ i = next
    BY <1>0, Listed
  <2>9. \A i \in Setup!Places : Setup!HasItsCopy(l, i) => Setup!HasItsCopy(l, i)'
    BY <2>1, <2>6, <2>7 DEF Setup!HasItsCopy
  <2>10. \A i \in Setup!Places : i = next => Setup!HasItsCopy(l, i)'
    BY <2>1, <2>7 DEF Setup!HasItsCopy
  <2>11. \A i \in Setup!Places :
           /\ x4'[l].has[i] # "link"
           /\ x4'[l].has[i] = "large" => i \in x1'.changed
           /\ x4'[l].has[i] # "nothing" => Entries[i] \notin {"outside", "denied"}
    BY <2>1, <2>2, <2>6, <2>7 DEF Prepared, Setup!Denied
  <2>12. x3[l].status = "archived" => x3[l].early
    BY <2>1 DEF Prepared
  <2>13. x3[l].status \in {"preparing", "archived"}
    BY <2>1 DEF Prepared
  <2>14. ~x3[l].early => \A i \in Setup!Places : i < next => Setup!HasItsCopy(l, i)
    BY <2>1 DEF Prepared
  <2>15. QED
    BY <2>1, <2>8, <2>9, <2>10, <2>11, <2>12, <2>13, <2>14 DEF Prepared
<1>4. CASE Setup!CopyFails(l)
  <2>1. /\ x3[l].at = "copy" /\ x3'[l].at = "carry"
        /\ x3'[l].status = x3[l].status /\ x3'[l].early = x3[l].early
        /\ x3'[l].next = next + 1 /\ x3'[l].skipped = x3[l].skipped \cup {next}
        /\ x4' = x4 /\ x1' = x1
    BY <1>0, <1>4 DEF Setup!CopyFails, Setup!Rows
  <2>2. \A i \in Setup!Places : i < next + 1 => i < next \/ i = next
    BY <1>0, Listed
  <2>3. \A i \in Setup!Places : Setup!HasItsCopy(l, i) => Setup!HasItsCopy(l, i)'
    BY <2>1 DEF Setup!HasItsCopy
  <2>4. \A i \in Setup!Places : i = next => Setup!HasItsCopy(l, i)'
    BY <2>1 DEF Setup!HasItsCopy
  <2>5. QED
    BY <2>1, <2>2, <2>3, <2>4 DEF Prepared
<1>5. CASE Setup!StartSetup(l)
  <2>1. /\ x3[l].at = "carry" /\ x3'[l].at = "setup"
        /\ x3'[l].status = x3[l].status /\ x3'[l].early = x3[l].early
        /\ x3'[l].next = next /\ x3'[l].skipped = x3[l].skipped
        /\ x4' = x4 /\ x1' = x1 /\ next > Len(Entries)
    BY <1>0, <1>5 DEF Setup!StartSetup, Setup!Goes, Setup!Carried, Setup!Rows
  <2>2. \A i \in Setup!Places : Setup!HasItsCopy(l, i) => Setup!HasItsCopy(l, i)'
    BY <2>1 DEF Setup!HasItsCopy
  <2>3. QED
    BY <2>1, <2>2 DEF Prepared
<1>6. CASE Setup!SpawnFails(l) \/ Setup!SetupEnds(l) \/ Setup!NoSetup(l)
  <2>1. \E st \in {"ready", "error"} :
          x3' = [x3 EXCEPT ![l] = [x3[l] EXCEPT !.at = "over", !.status = st]]
    BY <1>6 DEF Setup!SpawnFails, Setup!SetupEnds, Setup!NoSetup, Setup!Prepared
  <2>2. /\ x3'[l].at = "over" /\ x3'[l].status \in {"ready", "error"}
        /\ x3'[l].early = x3[l].early /\ x3'[l].skipped = x3[l].skipped
    BY <1>0, <2>1 DEF Setup!Rows
  <2>3. x4' = x4 /\ x1' = x1 /\ x3[l].at \in {"carry", "setup"} /\ next > Len(Entries)
    BY <1>6 DEF Setup!SpawnFails, Setup!SetupEnds, Setup!NoSetup, Setup!Carried, Prepared
  <2>4. \A i \in Setup!Places : i < next
    BY <1>0, <2>3, Listed
  <2>5. \A i \in Setup!Places : Setup!HasItsCopy(l, i) => Setup!HasItsCopy(l, i)'
    BY <2>2, <2>3 DEF Setup!HasItsCopy
  <2>6. QED
    BY <2>2, <2>3, <2>4, <2>5 DEF Prepared
<1>7. QED
  BY <1>1, <1>2, <1>3, <1>4, <1>5, <1>6 DEF Setup!Prepares

(* Two lanes that hold a port.                                              *)
Apart(r, q) == r.port = q.port => (r.beside /\ q.beside) \/ r.early \/ q.early
Making(r) == r.at \in {"asked", "add"}
Holding(r) == r.status \notin {"none", "archived"} \/ r.at = "add"

LEMMA ApartIs ==
  /\ Setup!PortsApart =>
       \A l, m \in LaneIds : l # m =>
         /\ Making(x3[l]) /\ Making(x3[m]) => x3[l].beside
         /\ Holding(x3[l]) /\ Holding(x3[m]) => Apart(x3[l], x3[m])
  /\ (\A l, m \in LaneIds : l # m =>
        /\ Making(x3'[l]) /\ Making(x3'[m]) => x3'[l].beside
        /\ Holding(x3'[l]) /\ Holding(x3'[m]) => Apart(x3'[l], x3'[m])) => Setup!PortsApart'
BY DEF Setup!PortsApart, Setup!Creating, Setup!Holders, Setup!Active, Making, Holding, Apart

(* A step of one lane that makes it neither newly created nor, unless it    *)
(* was archived early, a holder of its port.                                *)
LEMMA ApartKept ==
  ASSUME Setup!TypeOK, Setup!PortsApart, NEW l \in LaneIds,
         \A m \in LaneIds \ {l} : x3'[m] = x3[m],
         Making(x3'[l]) => Making(x3[l]) /\ (x3[l].beside => x3'[l].beside),
         Holding(x3'[l]) =>
           \/ x3'[l].early
           \/ Holding(x3[l]) /\ ~x3[l].early /\ x3'[l].port = x3[l].port
                             /\ (x3[l].beside => x3'[l].beside)
  PROVE  Setup!PortsApart'
<1>1. \A k, m \in LaneIds : k # m =>
         /\ Making(x3[k]) /\ Making(x3[m]) => x3[k].beside
         /\ Holding(x3[k]) /\ Holding(x3[m]) => Apart(x3[k], x3[m])
  BY ApartIs
<1>2. SUFFICES ASSUME NEW k \in LaneIds, NEW m \in LaneIds, k # m
               PROVE  /\ Making(x3'[k]) /\ Making(x3'[m]) => x3'[k].beside
                      /\ Holding(x3'[k]) /\ Holding(x3'[m]) => Apart(x3'[k], x3'[m])
  BY ApartIs
<1>3. CASE k # l /\ m # l
  BY <1>1, <1>2, <1>3
<1>4. CASE k = l
  BY <1>1, <1>2, <1>4 DEF Apart
<1>5. CASE m = l
  BY <1>1, <1>2, <1>5 DEF Apart
<1>6. QED
  BY <1>3, <1>4, <1>5

LEMMA PortsKept ==
  ASSUME Setup!TypeOK, Setup!LanesAreGiven, Setup!Next
  PROVE  Setup!PortsApart'
<1>0. /\ x3 \in [LaneIds -> Setup!Rows] /\ Setup!PortsApart
      /\ \A l \in LaneIds : Prepared(l)
  BY GivenIsPrepared DEF Setup!TypeOK
<1>1. CASE Setup!FileChanges \/ Setup!Listens
  BY <1>0, <1>1
     DEF Setup!FileChanges, Setup!Listens, Setup!PortsApart, Setup!Creating, Setup!Holders,
         Setup!Active
<1>2. ASSUME NEW l \in LaneIds, Setup!Create(l) PROVE Setup!PortsApart'
  <2> DEFINE row == [Setup!NewLane EXCEPT !.at = "asked", !.beside = Setup!Creating # {}]
  <2>1. x3' = [m \in LaneIds |->
                 CASE m = l -> row
                   [] m \in Setup!Creating -> [x3[m] EXCEPT !.beside = TRUE]
                   [] OTHER -> x3[m]]
    BY <1>2 DEF Setup!Create
  <2>2. /\ row.at = "asked" /\ row.status = "none"
        /\ row.beside <=> Setup!Creating # {}
    BY DEF Setup!NewLane
  <2> HIDE DEF row
  <2>3. l \notin Setup!Creating
    BY <1>2 DEF Setup!Create, Setup!Creating
  <2>4. x3'[l] = row
    BY <2>1, <2>3
  <2>5. \A m \in LaneIds \ {l} :
          x3'[m] = IF m \in Setup!Creating THEN [x3[m] EXCEPT !.beside = TRUE] ELSE x3[m]
    BY <2>1
  <2>6. \A m \in LaneIds \ {l} :
          /\ x3'[m].at = x3[m].at /\ x3'[m].status = x3[m].status
          /\ x3'[m].port = x3[m].port /\ x3'[m].early = x3[m].early
          /\ x3[m].beside \/ m \in Setup!Creating => x3'[m].beside
    BY <1>0, <2>5 DEF Setup!Rows
  <2>7. \A k, m \in LaneIds : k # m =>
           /\ Making(x3[k]) /\ Making(x3[m]) => x3[k].beside
           /\ Holding(x3[k]) /\ Holding(x3[m]) => Apart(x3[k], x3[m])
    BY <1>0, ApartIs
  <2>8. \A m \in LaneIds : Making(x3[m]) <=> m \in Setup!Creating
    BY DEF Making, Setup!Creating
  <2>9. ~Holding(x3'[l])
    BY <2>2, <2>4 DEF Holding
  <2>10. SUFFICES ASSUME NEW k \in LaneIds, NEW m \in LaneIds, k # m
                  PROVE  /\ Making(x3'[k]) /\ Making(x3'[m]) => x3'[k].beside
                         /\ Holding(x3'[k]) /\ Holding(x3'[m]) => Apart(x3'[k], x3'[m])
    BY ApartIs
  <2>11. Making(x3'[k]) /\ Making(x3'[m]) => x3'[k].beside
    <3>1. CASE k = l
      BY <2>2, <2>4, <2>6, <2>8, <2>10, <3>1 DEF Making
    <3>2. CASE k # l
      BY <2>6, <2>8, <3>2 DEF Making
    <3>3. QED
      BY <3>1, <3>2
  <2>12. Holding(x3'[k]) /\ Holding(x3'[m]) => Apart(x3'[k], x3'[m])
    BY <2>6, <2>7, <2>9, <2>10 DEF Holding, Apart
  <2>13. QED
    BY <2>11, <2>12
<1>3. ASSUME NEW l \in LaneIds, NEW p \in Ports, Setup!Free(p), x3[l].at = "asked",
             x3' = [x3 EXCEPT ![l].at = "add", ![l].port = p]
      PROVE  Setup!PortsApart'
  <2>1. \A k, m \in LaneIds : k # m =>
           /\ Making(x3[k]) /\ Making(x3[m]) => x3[k].beside
           /\ Holding(x3[k]) /\ Holding(x3[m]) => Apart(x3[k], x3[m])
    BY <1>0, ApartIs
  <2>2. /\ x3'[l].at = "add" /\ x3'[l].port = p /\ x3'[l].beside = x3[l].beside
        /\ \A m \in LaneIds \ {l} : x3'[m] = x3[m]
    BY <1>0, <1>3 DEF Setup!Rows
  <2>3. \A m \in LaneIds : x3[m].port = p => x3[m].status \in {"none", "archived"}
    BY <1>3 DEF Setup!Free, Setup!ActivePorts, Setup!Active
  <2>4. \A m \in LaneIds \ {l} : Making(x3[m]) => x3[m].beside /\ x3[l].beside
    BY <1>3, <2>1 DEF Making
  <2>5. SUFFICES ASSUME NEW k \in LaneIds, NEW m \in LaneIds, k # m
                 PROVE  /\ Making(x3'[k]) /\ Making(x3'[m]) => x3'[k].beside
                        /\ Holding(x3'[k]) /\ Holding(x3'[m]) => Apart(x3'[k], x3'[m])
    BY ApartIs
  <2>6. CASE k # l /\ m # l
    BY <2>1, <2>2, <2>5, <2>6
  <2>7. ASSUME NEW o \in LaneIds, o # l
        PROVE  /\ Making(x3'[o]) => x3'[o].beside /\ x3'[l].beside
               /\ Holding(x3'[o]) => Apart(x3'[l], x3'[o]) /\ Apart(x3'[o], x3'[l])
    BY <2>2, <2>3, <2>4, <2>7 DEF Apart, Making, Holding
  <2>8. QED
    BY <2>5, <2>6, <2>7
<1>4. ASSUME NEW l \in LaneIds, Setup!AllocatePort(l) PROVE Setup!PortsApart'
  <2>1. CASE Setup!Goes(l, "over")
    <3>1. /\ x3'[l].at = "over" /\ x3'[l].status = x3[l].status
          /\ \A m \in LaneIds \ {l} : x3'[m] = x3[m]
      BY <1>0, <2>1 DEF Setup!Goes, Setup!Rows
    <3>2. x3[l].status = "none"
      BY <1>0, <1>4 DEF Setup!AllocatePort, Prepared
    <3>3. QED
      BY <1>0, <3>1, <3>2, ApartKept DEF Making, Holding
  <2>2. QED
    BY <1>3, <1>4, <2>1 DEF Setup!AllocatePort
<1>5. ASSUME NEW l \in LaneIds, Setup!CreateWorktree(l) \/ Setup!CreateFails(l)
      PROVE  Setup!PortsApart'
  <2>1. /\ x3'[l].at \in {"carry", "over"} /\ x3'[l].status \in {"preparing", x3[l].status}
        /\ x3'[l].port = x3[l].port /\ x3'[l].beside = x3[l].beside /\ x3'[l].early = x3[l].early
        /\ \A m \in LaneIds \ {l} : x3'[m] = x3[m]
    BY <1>0, <1>5 DEF Setup!CreateWorktree, Setup!CreateFails, Setup!Goes, Setup!Rows
  <2>2. x3[l].at = "add"
    BY <1>5 DEF Setup!CreateWorktree, Setup!CreateFails
  <2>3. QED
    BY <1>0, <2>1, <2>2, ApartKept DEF Making, Holding
<1>6. ASSUME NEW l \in LaneIds, Setup!Archive(l) PROVE Setup!PortsApart'
  <2>1. /\ x3'[l].at = x3[l].at /\ x3'[l].status = "archived"
        /\ \A m \in LaneIds \ {l} : x3'[m] = x3[m]
    BY <1>0, <1>6 DEF Setup!Archive, Setup!Rows
  <2>2. x3[l].at \notin {"no", "asked", "add"}
    BY <1>0, <1>6 DEF Prepared, Setup!Archive, Setup!Active
  <2>3. QED
    BY <1>0, <2>1, <2>2, ApartKept DEF Making, Holding
<1>7. ASSUME NEW l \in LaneIds, Setup!Prepares(l) PROVE Setup!PortsApart'
  <2>1. /\ x3[l].at \in {"carry", "copy", "setup"}
        /\ \A m \in LaneIds \ {l} : x3'[m] = x3[m]
    BY <1>0, <1>7
       DEF Setup!Prepares, Setup!SkipDenied, Setup!NotThere, Setup!TooLarge, Setup!StartCopy, Setup!Copied,
           Setup!CopyFails, Setup!StartSetup, Setup!SpawnFails, Setup!SetupEnds, Setup!NoSetup,
           Setup!More, Setup!Skips, Setup!Goes, Setup!Prepared, Setup!Carried
  <2>2. /\ x3'[l].at \in {"carry", "copy", "setup", "over"}
        /\ x3'[l].port = x3[l].port /\ x3'[l].beside = x3[l].beside /\ x3'[l].early = x3[l].early
    <3>1. CASE \/ Setup!SkipDenied(l) \/ Setup!NotThere(l) \/ Setup!TooLarge(l)
               \/ Setup!StartCopy(l) \/ Setup!StartSetup(l)
      BY <1>0, <2>1, <3>1
         DEF Setup!SkipDenied, Setup!NotThere, Setup!TooLarge, Setup!StartCopy, Setup!StartSetup,
             Setup!Skips, Setup!Goes, Setup!Rows
    <3>2. CASE Setup!Copied(l) \/ Setup!CopyFails(l)
      BY <1>0, <3>2 DEF Setup!Copied, Setup!CopyFails, Setup!Rows
    <3>3. CASE Setup!SpawnFails(l) \/ Setup!SetupEnds(l) \/ Setup!NoSetup(l)
      BY <1>0, <3>3 DEF Setup!SpawnFails, Setup!SetupEnds, Setup!NoSetup, Setup!Prepared, Setup!Rows
    <3>4. QED
      BY <1>7, <3>1, <3>2, <3>3 DEF Setup!Prepares
  <2>3. x3[l].status = "preparing" \/ x3[l].early
    BY <1>0, <2>1 DEF Prepared
  <2>4. QED
    BY <1>0, <2>1, <2>2, <2>3, ApartKept DEF Making, Holding
<1>8. QED
  BY <1>1, <1>2, <1>4, <1>5, <1>6, <1>7 DEF Setup!Next

LEMMA SetupKept ==
  ASSUME SetupInv, Setup!Next
  PROVE  SetupInv'
<1>1. Setup!TypeOK /\ Setup!LanesAreGiven /\ \A l \in LaneIds : Prepared(l)
  BY GivenIsPrepared DEF SetupInv
<1>2. Setup!TypeOK' /\ Setup!PortsApart'
  BY <1>1, SetupTyped, PortsKept
<1>3. ASSUME NEW m \in LaneIds PROVE Prepared(m)'
  <2>1. CASE Setup!FileChanges
    BY <1>1, <2>1, PreparedKept
  <2>2. CASE Setup!Listens
    BY <1>1, <2>2, PreparedElsewhere DEF Setup!Listens
  <2>3. ASSUME NEW l \in LaneIds, Setup!Create(l), l # m PROVE Prepared(m)'
    <3>1. CASE m \in Setup!Creating
      <4>1. x3'[m] = [x3[m] EXCEPT !.beside = TRUE]
        BY <2>3, <3>1 DEF Setup!Create
      <4>2. x3[m] \in Setup!Rows
        BY <1>1 DEF Setup!TypeOK
      <4>3. /\ x3'[m].at = x3[m].at /\ x3'[m].status = x3[m].status
            /\ x3'[m].next = x3[m].next /\ x3'[m].early = x3[m].early
            /\ x1' = x1 /\ x4' = x4
        BY <2>3, <4>1, <4>2 DEF Setup!Create, Setup!Rows
      <4>4. x3[m].at \in {"asked", "add"}
        BY <3>1 DEF Setup!Creating
      <4>5. QED
        BY <1>1, <4>3, <4>4 DEF Prepared
    <3>2. CASE m \notin Setup!Creating
      <4>1. x3'[m] = x3[m] /\ x1' = x1 /\ x4' = x4
        BY <2>3, <3>2 DEF Setup!Create
      <4>2. QED
        BY <1>1, <4>1, PreparedElsewhere
    <3>3. QED
      BY <3>1, <3>2
  <2>4. ASSUME NEW l \in LaneIds, l # m,
               \/ Setup!AllocatePort(l) \/ Setup!CreateWorktree(l)
               \/ Setup!CreateFails(l) \/ Setup!Prepares(l) \/ Setup!Archive(l)
        PROVE  Prepared(m)'
    <3>1. x3'[m] = x3[m]
      BY <1>1, <2>4
         DEF Setup!AllocatePort, Setup!CreateWorktree, Setup!CreateFails, Setup!Archive,
             Setup!Prepares, Setup!SkipDenied, Setup!NotThere, Setup!TooLarge, Setup!StartCopy,
             Setup!Copied, Setup!CopyFails, Setup!StartSetup, Setup!SpawnFails, Setup!SetupEnds,
             Setup!NoSetup, Setup!Goes, Setup!Skips, Setup!Prepared, Setup!TypeOK
    <3>2. x4'[m] = x4[m] /\ x1' = x1
      BY <1>1, <2>4
         DEF Setup!AllocatePort, Setup!CreateWorktree, Setup!CreateFails, Setup!Archive,
             Setup!Prepares, Setup!SkipDenied, Setup!NotThere, Setup!TooLarge, Setup!StartCopy,
             Setup!Copied, Setup!CopyFails, Setup!StartSetup, Setup!SpawnFails, Setup!SetupEnds,
             Setup!NoSetup, Setup!TypeOK
    <3>3. QED
      BY <1>1, <3>1, <3>2, PreparedElsewhere
  <2>5. QED
    BY <1>1, <2>1, <2>2, <2>3, <2>4, PreparedMade, PreparedOn DEF Setup!Next
<1>4. QED
  BY <1>2, <1>3, GivenIsPreparedNext DEF SetupInv

(* No two worktrees are on one branch, none on a branch that is gone.       *)
(* Ports stay apart, but for lanes created at a time or archived while they *)
(* are prepared; nothing that is refused is copied; a lane that says it is  *)
(* ready has its copies; an archived one has nothing left.                  *)
THEOREM LanesKeepApart == DaemonSpec => []BranchesDistinct
<1> DEFINE Inv == (Is("lanes") => LaneInv) /\ (Is("setup") => SetupInv)
<1>1. DaemonInit => Inv
  BY LaneStart, LaneStarts, SetupStart, SetupStarts
<1>2. Inv /\ [DaemonNext]_vars => Inv'
  <2> SUFFICES ASSUME Inv, [DaemonNext]_vars PROVE Inv'
    OBVIOUS
  <2>1. Is("lanes")' => LaneInv'
    BY LaneKept
  <2>2. Is("setup")' => SetupInv'
    <3>1. CASE Is("setup") /\ Setup!Next
      BY <3>1, SetupKept
    <3>2. CASE UNCHANGED vars
      BY <3>2, GivenIsPrepared, GivenIsPreparedNext
         DEF vars, Is, SetupInv, Setup!TypeOK, Setup!LanesAreGiven, Setup!PortsApart, Setup!Creating,
             Setup!Holders, Setup!Active, Setup!LanesApart, Setup!ReadyIsWhole, Setup!ArchivedIsGone,
             Setup!PreparedInOrder, Setup!HasItsCopy, Setup!Denied, Setup!Entry, Setup!Here
    <3>3. QED
      BY <3>1, <3>2, SetupStep
  <2>3. QED
    BY <2>1, <2>2
<1>3. Inv => BranchesDistinct
  BY DEF LaneInv, SetupInv, BranchesDistinct, Is
<1>4. QED
  BY <1>1, <1>2, <1>3, PTL DEF DaemonSpec
-----------------------------------------------------------------------------
(* Endpoints                                                                *)

LEMMA EndsStart == ASSUME DaemonInit, Is("endpoints") PROVE Ends!Init
BY DEF DaemonInit, Is

LEMMA EndsStep ==
  ASSUME [DaemonNext]_vars, Is("endpoints")'
  PROVE  Is("endpoints") /\ (Ends!Next \/ UNCHANGED vars)
BY DEF DaemonNext, Is, Of, vars

AdaptersUpTo(n) == [inst : 1..n, ver : Nat]
StreamsUpTo(n, m) == [thread : EndpointThreads, on : AdaptersUpTo(n), turn : 1..m, saved : Nat]

EndsTyped ==
  /\ x6 \in [edits : Nat, turns : Nat, detects : Nat]
  /\ x1 \in [EndpointIds -> Nat]
  /\ x2 \in [EndpointIds -> [inst : 0..x6.edits, ver : Nat]]
  /\ x3 \in [EndpointThreads -> [phase : {"none", "idle", "checkpoint", "running"}, turn : 0..x6.turns]]
  /\ x4 \in [EndpointThreads -> SUBSET AdaptersUpTo(x6.edits)]
  /\ x5 \subseteq StreamsUpTo(x6.edits, x6.turns)

(* A turn has one stream, none before it is dispatched, and is forgotten    *)
(* when its session is idle: so the stream of an earlier turn is no one's.  *)
EndsInv ==
  /\ EndsTyped
  /\ \A t \in EndpointThreads :
       /\ x3[t].phase \in {"none", "idle"} => x3[t].turn = 0
       /\ x3[t].phase = "checkpoint" =>
            x3[t].turn # 0 /\ \A r \in x5 : r.thread = t => r.turn # x3[t].turn
  /\ \A r, q \in x5 : r.thread = q.thread /\ r.turn = q.turn => r = q
  /\ Ends!NoStrayStream

LEMMA EndsStarts == Ends!Init => EndsInv
BY DEF Ends!Init, EndsInv, EndsTyped, Ends!NoAdapter, Ends!NoSession, Ends!NoStrayStream

(* Of the streams that ran, some go, and the turn of one session becomes    *)
(* none.                                                                    *)
LEMMA EndsQuiets ==
  ASSUME EndsInv, x1' = x1, x2' = x2, x6' = x6, x4' \in [EndpointThreads -> SUBSET AdaptersUpTo(x6.edits)],
         x5' \subseteq x5,
         NEW t \in EndpointThreads, NEW p \in {"none", "idle"},
         x3' = [x3 EXCEPT ![t] = [phase |-> p, turn |-> 0]],
         \A r \in x5' : r.thread = t /\ r.turn = x3[t].turn => r.on # x2[EndpointHome[t]]
  PROVE  EndsInv'
<1> USE DEF EndsInv, EndsTyped
<1>1. 0 \in 0..x6.turns
  OBVIOUS
<1>2. EndsTyped'
  BY <1>1
<1>3. x3'[t].turn = 0 /\ x3'[t].phase = p /\ \A u \in EndpointThreads \ {t} : x3'[u] = x3[u]
  OBVIOUS
<1>4. Ends!NoStrayStream'
  <2> SUFFICES ASSUME NEW r \in x5', r.turn # x3'[r.thread].turn PROVE r.on # x2[EndpointHome[r.thread]]
    BY DEF Ends!NoStrayStream
  <2>1. r \in x5 /\ r.thread \in EndpointThreads
    BY DEF StreamsUpTo
  <2>2. QED
    BY <1>3, <2>1 DEF Ends!NoStrayStream
<1>5. \A u \in EndpointThreads :
        /\ x3'[u].phase \in {"none", "idle"} => x3'[u].turn = 0
        /\ x3'[u].phase = "checkpoint" =>
             x3'[u].turn # 0 /\ \A r \in x5' : r.thread = u => r.turn # x3'[u].turn
  BY <1>3
<1>6. QED
  BY <1>2, <1>4, <1>5

LEMMA EndsStepKeeps == EndsInv /\ Ends!Next => EndsInv'
<1> SUFFICES ASSUME EndsInv, Ends!Next PROVE EndsInv'
  OBVIOUS
<1> USE EndpointBounds
<1>0. EndsTyped /\ x6.edits \in Nat /\ x6.turns \in Nat
  BY DEF EndsInv, EndsTyped
<1>1. ASSUME x1' = x1, x2' = x2, x3' = x3, x4' = x4, x5' = x5, \E n \in Nat : x6' = [x6 EXCEPT !.detects = n]
      PROVE  EndsInv'
  <2>1. x6' \in [edits : Nat, turns : Nat, detects : Nat] /\ x6'.edits = x6.edits /\ x6'.turns = x6.turns
    BY <1>0, <1>1 DEF EndsTyped
  <2>2. EndsTyped'
    BY <1>0, <1>1, <2>1 DEF EndsTyped
  <2>3. QED
    BY <1>1, <2>2 DEF EndsInv, Ends!NoStrayStream
<1>2. ASSUME NEW f \in [EndpointIds -> Nat], Ends!Rewrites(f), x3' = x3, x4' = x4, x5' = x5 PROVE EndsInv'
  <2>1. /\ x1' = f /\ x6' = [x6 EXCEPT !.edits = x6.edits + 1]
        /\ x2' = [i \in EndpointIds |-> IF f[i] = 0 THEN [inst |-> 0, ver |-> 0]
                                        ELSE [inst |-> x6.edits + 1, ver |-> f[i]]]
    BY <1>2 DEF Ends!Rewrites, Ends!Synced, Ends!NoAdapter
  <2>2. /\ x6' \in [edits : Nat, turns : Nat, detects : Nat] /\ x6'.edits = x6.edits + 1
        /\ x6'.turns = x6.turns
    BY <1>0, <2>1 DEF EndsTyped
  <2>3. /\ AdaptersUpTo(x6.edits) \subseteq AdaptersUpTo(x6'.edits)
        /\ StreamsUpTo(x6.edits, x6.turns) \subseteq StreamsUpTo(x6'.edits, x6'.turns)
    BY <1>0, <2>2 DEF AdaptersUpTo, StreamsUpTo
  <2>4. x2' \in [EndpointIds -> [inst : 0..x6'.edits, ver : Nat]]
    BY <1>0, <2>1, <2>2
  <2>5. EndsTyped'
    <3>1. x4' \in [EndpointThreads -> SUBSET AdaptersUpTo(x6'.edits)]
      BY <1>0, <1>2, <2>3 DEF EndsTyped
    <3>2. x5' \subseteq StreamsUpTo(x6'.edits, x6'.turns)
      BY <1>0, <1>2, <2>3 DEF EndsTyped
    <3>3. QED
      BY <1>0, <1>2, <2>1, <2>2, <2>4, <3>1, <3>2 DEF EndsTyped
  <2>6. Ends!NoStrayStream'
    <3> SUFFICES ASSUME NEW r \in x5 PROVE r.on # x2'[EndpointHome[r.thread]]
      BY <1>2 DEF Ends!NoStrayStream
    <3>1. r.thread \in EndpointThreads /\ r.on.inst \in 1..x6.edits
      BY <1>0 DEF EndsTyped, StreamsUpTo, AdaptersUpTo
    <3>2. x2'[EndpointHome[r.thread]].inst \in {0, x6.edits + 1}
      BY <2>1, <3>1
    <3>3. QED
      BY <1>0, <3>1, <3>2
  <2>7. QED
    BY <1>2, <2>5, <2>6 DEF EndsInv
<1>3. CASE Ends!Saves
  <2>1. PICK i \in EndpointIds : Ends!Upserts(i) \/ Ends!Deletes(i)
    BY <1>3 DEF Ends!Saves
  <2>2. x3' = x3 /\ x4' = x4 /\ x5' = x5
    BY <1>3 DEF Ends!Saves
  <2>3. CASE Ends!Upserts(i)
    <3>1. [x1 EXCEPT ![i] = x6.edits + 1] \in [EndpointIds -> Nat]
      BY <1>0 DEF EndsTyped
    <3>2. QED
      BY <1>2, <2>2, <2>3, <3>1 DEF Ends!Upserts
  <2>4. CASE Ends!Deletes(i)
    <3>1. [x1 EXCEPT ![i] = 0] \in [EndpointIds -> Nat]
      BY <1>0 DEF EndsTyped
    <3>2. CASE UNCHANGED <<x1, x2, x6>>
      <4>1. x6 = [x6 EXCEPT !.detects = x6.detects] /\ x6.detects \in Nat
        BY <1>0 DEF EndsTyped
      <4>2. QED
        BY <1>1, <2>2, <3>2, <4>1
    <3>3. QED
      BY <1>2, <2>2, <2>4, <3>1, <3>2 DEF Ends!Deletes
  <2>5. QED
    BY <2>1, <2>3, <2>4
<1>4. CASE Ends!Listed \/ Ends!AsksProviders \/ Ends!Refresh \/ (\E d \in x7.detects : Ends!DetectAnswered(d))
  <2>1. x1' = x1 /\ x2' = x2 /\ x3' = x3 /\ x4' = x4 /\ x5' = x5
        /\ (x6' = x6 \/ x6' = [x6 EXCEPT !.detects = x6.detects + 1])
    BY <1>4 DEF Ends!Listed, Ends!AsksProviders, Ends!Refresh, Ends!DetectAnswered
  <2>2. \E n \in Nat : x6' = [x6 EXCEPT !.detects = n]
    <3>1. x6.detects \in Nat /\ x6.detects + 1 \in Nat /\ x6 = [x6 EXCEPT !.detects = x6.detects]
      BY <1>0 DEF EndsTyped
    <3>2. QED
      BY <2>1, <3>1
  <2>3. QED
    BY <1>1, <2>1, <2>2
<1>5. ASSUME NEW t \in EndpointThreads, Ends!Send(t) PROVE EndsInv'
  <2> DEFINE n == x6.turns + 1
  <2>1. /\ x1' = x1 /\ x2' = x2 /\ x5' = x5 /\ x6' = [x6 EXCEPT !.turns = n] /\ x3[t].turn = 0
        /\ x3' = [x3 EXCEPT ![t] = [phase |-> "checkpoint", turn |-> n]]
    BY <1>5 DEF Ends!Send
  <2>2. /\ x6' \in [edits : Nat, turns : Nat, detects : Nat] /\ x6'.edits = x6.edits
        /\ x6'.turns = n /\ n \in Nat
    BY <1>0, <2>1 DEF EndsTyped
  <2>3. x4' \in [EndpointThreads -> SUBSET AdaptersUpTo(x6.edits)]
    <3>1. CASE x4' = x4
      BY <1>0, <3>1 DEF EndsTyped
    <3>2. CASE x4' # x4
      <4>1. x2[EndpointHome[t]].inst # 0 /\ x4' = [x4 EXCEPT ![t] = @ \cup {x2[EndpointHome[t]]}]
        BY <1>5, <3>2 DEF Ends!Send
      <4>2. x2[EndpointHome[t]] \in AdaptersUpTo(x6.edits)
        <5>1. x2[EndpointHome[t]] \in [inst : 0..x6.edits, ver : Nat]
          BY <1>0 DEF EndsTyped
        <5>2. QED
          BY <1>0, <4>1, <5>1 DEF AdaptersUpTo
      <4>3. QED
        BY <1>0, <4>1, <4>2 DEF EndsTyped
    <3>3. QED
      BY <3>1, <3>2
  <2>4. EndsTyped'
    <3>1. StreamsUpTo(x6.edits, x6.turns) \subseteq StreamsUpTo(x6.edits, n)
      BY <1>0 DEF StreamsUpTo
    <3>2. x3' \in [EndpointThreads -> [phase : {"none", "idle", "checkpoint", "running"}, turn : 0..n]]
      BY <1>0, <2>1 DEF EndsTyped
    <3>3. QED
      BY <1>0, <2>1, <2>2, <2>3, <3>1, <3>2 DEF EndsTyped
  <2>5. \A r \in x5 : r.turn \in 1..x6.turns /\ r.thread \in EndpointThreads
    BY <1>0 DEF EndsTyped, StreamsUpTo
  <2>6. x3'[t] = [phase |-> "checkpoint", turn |-> n] /\ \A u \in EndpointThreads \ {t} : x3'[u] = x3[u]
    BY <1>0, <2>1 DEF EndsTyped
  <2>7. \A r \in x5 : r.turn # n /\ r.turn # 0
    BY <1>0, <2>5
  <2>8. Ends!NoStrayStream'
    BY <2>1, <2>5, <2>6, <2>7 DEF EndsInv, Ends!NoStrayStream
  <2>9. \A u \in EndpointThreads :
          /\ x3'[u].phase \in {"none", "idle"} => x3'[u].turn = 0
          /\ x3'[u].phase = "checkpoint" =>
               x3'[u].turn # 0 /\ \A q \in x5' : q.thread = u => q.turn # x3'[u].turn
    <3>1. n # 0
      BY <1>0
    <3>2. QED
      BY <2>1, <2>6, <2>7, <3>1 DEF EndsInv
  <2>10. \A r, q \in x5' : r.thread = q.thread /\ r.turn = q.turn => r = q
    BY <2>1 DEF EndsInv
  <2>11. QED
    BY <2>4, <2>8, <2>9, <2>10 DEF EndsInv
<1>6. ASSUME NEW t \in EndpointThreads, Ends!Dispatch(t) PROVE EndsInv'
  <2> DEFINE a == x2[EndpointHome[t]]
             r == [thread |-> t, on |-> a, turn |-> x3[t].turn, saved |-> x1[EndpointHome[t]]]
  <2>1. /\ x1' = x1 /\ x2' = x2 /\ x4' = x4 /\ x6' = x6 /\ x3[t].phase = "checkpoint"
        /\ \/ /\ a \in x4[t] /\ ~Ends!Streams(t, a) /\ x5' = x5 \cup {r}
              /\ x3' = [x3 EXCEPT ![t].phase = "running"]
           \/ x3' = [x3 EXCEPT ![t] = [phase |-> "idle", turn |-> 0]] /\ x5' = x5
    BY <1>6 DEF Ends!Dispatch, Ends!AdapterFor
  <2>2. CASE x3' = [x3 EXCEPT ![t] = [phase |-> "idle", turn |-> 0]] /\ x5' = x5
    <3>1. \A q \in x5' : ~(q.thread = t /\ q.turn = x3[t].turn)
      BY <2>1, <2>2 DEF EndsInv
    <3>2. x4' \in [EndpointThreads -> SUBSET AdaptersUpTo(x6.edits)] /\ x5' \subseteq x5
      BY <1>0, <2>1, <2>2 DEF EndsTyped
    <3>3. x3' = [x3 EXCEPT ![t] = [phase |-> "idle", turn |-> 0]] /\ x1' = x1 /\ x2' = x2 /\ x6' = x6
      BY <2>1, <2>2
    <3>4. QED
      BY <3>1, <3>2, <3>3, EndsQuiets
  <2>3. CASE /\ a \in x4[t] /\ ~Ends!Streams(t, a) /\ x5' = x5 \cup {r}
             /\ x3' = [x3 EXCEPT ![t].phase = "running"]
    <3>1. a \in AdaptersUpTo(x6.edits)
      BY <1>0, <2>3 DEF EndsTyped
    <3>2. r \in StreamsUpTo(x6.edits, x6.turns) /\ r.thread = t /\ r.turn = x3[t].turn /\ r.on = a
      <4>1. x3[t].turn \in 0..x6.turns /\ x3[t].turn # 0 /\ x1[EndpointHome[t]] \in Nat
        BY <1>0, <2>1 DEF EndsInv, EndsTyped
      <4>2. QED
        BY <1>0, <3>1, <4>1 DEF StreamsUpTo
    <3>3. x3' = [x3 EXCEPT ![t].phase = "running"] /\ x3'[t].turn = x3[t].turn /\ x3'[t].phase = "running"
          /\ \A u \in EndpointThreads \ {t} : x3'[u] = x3[u]
      BY <1>0, <2>3 DEF EndsTyped
    <3>4. EndsTyped'
      BY <1>0, <2>1, <2>3, <3>2 DEF EndsTyped
    <3> HIDE DEF r, a
    <3>5. \A q \in x5 : q.thread = t => q.turn # r.turn
      BY <2>1, <3>2 DEF EndsInv
    <3>6. x5' = x5 \cup {r} /\ \A q \in x5 : q.thread \in EndpointThreads
      BY <1>0, <2>3 DEF EndsTyped, StreamsUpTo
    <3>7. Ends!NoStrayStream'
      BY <2>1, <3>2, <3>3, <3>6 DEF EndsInv, Ends!NoStrayStream
    <3>8. \A p, q \in x5' : p.thread = q.thread /\ p.turn = q.turn => p = q
      BY <3>2, <3>5, <3>6 DEF EndsInv
    <3>9. \A u \in EndpointThreads :
            /\ x3'[u].phase \in {"none", "idle"} => x3'[u].turn = 0
            /\ x3'[u].phase = "checkpoint" =>
                 x3'[u].turn # 0 /\ \A q \in x5' : q.thread = u => q.turn # x3'[u].turn
      BY <3>2, <3>3, <3>6 DEF EndsInv
    <3>10. QED
      BY <3>4, <3>7, <3>8, <3>9 DEF EndsInv
  <2>4. QED
    BY <2>1, <2>2, <2>3
<1>7. ASSUME NEW r \in x5, Ends!StreamEnds(r) PROVE EndsInv'
  <2> DEFINE t == r.thread
  <2>1. /\ x1' = x1 /\ x2' = x2 /\ x4' = x4 /\ x6' = x6 /\ x5' = x5 \ {r} /\ t \in EndpointThreads
        /\ x3' = [x3 EXCEPT ![t] = IF @.phase = "running" /\ @.turn = r.turn
                                   THEN [phase |-> "idle", turn |-> 0] ELSE @]
    BY <1>0, <1>7 DEF Ends!StreamEnds, EndsTyped, StreamsUpTo
  <2>2. CASE x3[t].phase = "running" /\ x3[t].turn = r.turn
    <3>1. x3' = [x3 EXCEPT ![t] = [phase |-> "idle", turn |-> 0]]
      BY <2>1, <2>2
    <3>2. \A q \in x5' : ~(q.thread = t /\ q.turn = x3[t].turn)
      BY <2>1, <2>2 DEF EndsInv
    <3>3. QED
      BY <1>0, <2>1, <3>1, <3>2, EndsQuiets DEF EndsTyped
  <2>3. CASE ~(x3[t].phase = "running" /\ x3[t].turn = r.turn)
    <3>1. x3' = x3
      BY <1>0, <2>1, <2>3 DEF EndsTyped
    <3>2. QED
      BY <2>1, <3>1 DEF EndsInv, EndsTyped, Ends!NoStrayStream
  <2>4. QED
    BY <2>2, <2>3
<1>8. ASSUME NEW t \in EndpointThreads, Ends!Stop(t) \/ Ends!Reap(t) PROVE EndsInv'
  <2>1. /\ x1' = x1 /\ x2' = x2 /\ x6' = x6 /\ x5' \subseteq x5
        /\ \E p \in {"none", "idle"} : x3' = [x3 EXCEPT ![t] = [phase |-> p, turn |-> 0]]
        /\ x4' = x4 \/ x4' = [x4 EXCEPT ![t] = @ \ {x2[EndpointHome[t]]}]
        /\ \A r \in x5' : r.thread = t /\ r.turn = x3[t].turn => r.on # x2[EndpointHome[t]]
    BY <1>8 DEF Ends!Stop, Ends!Reap, Ends!NoSession
  <2>2. x4' \in [EndpointThreads -> SUBSET AdaptersUpTo(x6.edits)]
    BY <1>0, <2>1 DEF EndsTyped
  <2>3. QED
    BY <2>1, <2>2, EndsQuiets
<1>9. QED
  BY <1>3, <1>4, <1>5, <1>6, <1>7, <1>8 DEF Ends!Next

(* A stream that runs on for a turn that is over, out of reach of a Stop,   *)
(* is on an adapter that an edit of the endpoints has replaced.             *)
THEOREM StreamsInReach == DaemonSpec => []NoStrayStream
<1> DEFINE Inv == Is("endpoints") => EndsInv
<1>1. DaemonInit => Inv
  BY EndsStart, EndsStarts
<1>2. Inv /\ [DaemonNext]_vars => Inv'
  <2> SUFFICES ASSUME Inv, [DaemonNext]_vars, Is("endpoints")' PROVE EndsInv'
    BY DEF Is
  <2>1. CASE Ends!Next
    BY <2>1, EndsStep, EndsStepKeeps
  <2>2. CASE UNCHANGED vars
    BY <2>2, EndsStep DEF vars, EndsInv, EndsTyped, Ends!NoStrayStream, Is
  <2>3. QED
    BY <2>1, <2>2, EndsStep
<1>3. Inv => NoStrayStream
  BY DEF EndsInv, NoStrayStream
<1>4. QED
  BY <1>1, <1>2, <1>3, PTL DEF DaemonSpec

(* What a window lists of the endpoints. Requests are numbered: the newest  *)
(* is under way or was answered, and unless an edit is being saved it was   *)
(* answered, or will be, with the endpoints there are.                      *)
Lists == [EndpointIds -> Nat]
EndsWindows ==
  [list : Lists, customs : Lists, awaits : {"none", "saved", "listed"},
   detects : SUBSET [n : Nat, list : Lists], latest : Nat, overtaken : BOOLEAN]

EndsListed(w, edited, asked, versions) ==
  /\ w.awaits # "saved" => w.customs = edited
  /\ w.latest <= asked /\ \A d \in w.detects : d.n <= asked
  /\ w.latest = asked \/ \E d \in w.detects : d.n = asked
  /\ w.awaits = "none" =>
       /\ \A d \in w.detects : d.n = asked => d.list = versions
       /\ w.latest = asked /\ ~w.overtaken => w.list = versions

EndsShown == x7 \in EndsWindows /\ EndsListed(x7, x1, x6.detects, Ends!Versions)

LEMMA EndsShowsAtFirst == Ends!Init => EndsShown /\ Ends!RunsAsSaved
<1> SUFFICES ASSUME Ends!Init PROVE EndsShown /\ Ends!RunsAsSaved
  OBVIOUS
<1>1. x7 = [list |-> [i \in EndpointIds |-> 0], customs |-> [i \in EndpointIds |-> 0],
            awaits |-> "none", detects |-> {}, latest |-> 0, overtaken |-> FALSE]
      /\ x6.detects = 0 /\ x1 = [i \in EndpointIds |-> 0]
      /\ x2 = [i \in EndpointIds |-> [inst |-> 0, ver |-> 0]] /\ x5 = {}
  BY DEF Ends!Init, Ends!NoAdapter
<1>2. Ends!Versions = [i \in EndpointIds |-> 0]
  BY <1>1 DEF Ends!Versions
<1>3. [i \in EndpointIds |-> 0] \in Lists
  BY DEF Lists
<1>4. x7 \in EndsWindows
  BY <1>1, <1>3 DEF EndsWindows
<1>5. EndsListed(x7, x1, x6.detects, Ends!Versions)
  BY <1>1, <1>2 DEF EndsListed
<1>6. Ends!RunsAsSaved
  BY <1>1 DEF Ends!RunsAsSaved
<1>7. QED
  BY <1>4, <1>5, <1>6 DEF EndsShown

LEMMA EndsAsks ==
  ASSUME EndsTyped, EndsShown, Ends!AsksProviders \/ Ends!Refresh
  PROVE  EndsShown'
<1>0. x6.detects \in Nat /\ Ends!Versions \in Lists
  BY DEF EndsTyped, Ends!Versions, Lists
<1>1. PICK k \in Nat : k = x6.detects + 1
  BY <1>0
<1>2. PICK d \in [n : Nat, list : Lists] : d = [n |-> k, list |-> Ends!Versions]
  BY <1>0
<1>3. x1' = x1 /\ x2' = x2 /\ x6' = [x6 EXCEPT !.detects = @ + 1]
      /\ \/ x7' = [x7 EXCEPT !.detects = @ \cup {d}]
         \/ /\ x7' = [x7 EXCEPT !.detects = @ \cup {d}, !.awaits = "none"]
            /\ x7.awaits = "listed"
  BY <1>1, <1>2 DEF Ends!AsksProviders, Ends!Refresh, Ends!Detects
<1>4. x6'.detects = k
  BY <1>1, <1>3 DEF EndsTyped
<1>5. x7 \in EndsWindows
  BY DEF EndsShown
<1>6. x7' \in EndsWindows
  <2>1. x7.detects \cup {d} \in SUBSET [n : Nat, list : Lists]
    BY <1>5 DEF EndsWindows
  <2>2. QED
    BY <1>3, <1>5, <2>1 DEF EndsWindows
<1>7. x7'.detects = x7.detects \cup {d} /\ x7'.latest = x7.latest
      /\ x7'.customs = x7.customs /\ x7'.list = x7.list /\ x7'.overtaken = x7.overtaken
      /\ (x7'.awaits = x7.awaits \/ (x7'.awaits = "none" /\ x7.awaits = "listed"))
  BY <1>3, <1>5 DEF EndsWindows
<1>8. Ends!Versions' = Ends!Versions
  BY <1>3 DEF Ends!Versions
<1>9. EndsListed(x7, x1, x6.detects, Ends!Versions)
  BY DEF EndsShown
<1>10. \A e \in x7.detects : e.n # k /\ e.n <= k
  BY <1>0, <1>1, <1>5, <1>9 DEF EndsListed, EndsWindows
<1>11. x7.latest # k /\ x7.latest <= k
  BY <1>0, <1>1, <1>5, <1>9 DEF EndsListed, EndsWindows
<1>12. EndsListed(x7', x1, k, Ends!Versions)
  <2>1. x7'.awaits # "saved" => x7'.customs = x1
    BY <1>7, <1>9 DEF EndsListed
  <2>2. d.n = k /\ d.list = Ends!Versions
    BY <1>2
  <2>3. \A e \in x7'.detects : e.n <= k /\ (e.n = k => e.list = Ends!Versions)
    BY <1>1, <1>7, <1>10, <2>2
  <2>4. x7'.latest <= k /\ x7'.latest # k
    BY <1>7, <1>11
  <2>5. \E e \in x7'.detects : e.n = k
    BY <1>7, <2>2
  <2>6. QED
    BY <2>1, <2>3, <2>4, <2>5 DEF EndsListed
<1>13. QED
  BY <1>3, <1>4, <1>6, <1>8, <1>12 DEF EndsShown

LEMMA EndsAnswers ==
  ASSUME EndsTyped, EndsShown, NEW d \in x7.detects, Ends!DetectAnswered(d)
  PROVE  EndsShown'
<1>1. x1' = x1 /\ x2' = x2 /\ x6' = x6
      /\ x7' = [x7 EXCEPT !.list = d.list, !.detects = @ \ {d}, !.overtaken = d.n < x7.latest,
                          !.latest = IF d.n > @ THEN d.n ELSE @]
  BY DEF Ends!DetectAnswered
<1>2. d.n \in Nat /\ d.list \in Lists /\ x7.latest \in Nat /\ x6.detects \in Nat
  BY DEF EndsShown, EndsWindows, EndsTyped
<1>0. x7 \in EndsWindows
  BY DEF EndsShown
<1>3. /\ x7' \in EndsWindows /\ x7'.detects = x7.detects \ {d} /\ x7'.list = d.list
      /\ x7'.customs = x7.customs /\ x7'.awaits = x7.awaits
      /\ x7'.overtaken <=> d.n < x7.latest
      /\ x7'.latest = IF d.n > x7.latest THEN d.n ELSE x7.latest
  <2>0. (d.n < x7.latest) \in BOOLEAN
    BY <1>2
  <2>1. PICK late \in BOOLEAN : late = (d.n < x7.latest)
    BY <2>0, Zenon
  <2>2. PICK k \in Nat : k = IF d.n > x7.latest THEN d.n ELSE x7.latest
    BY <1>2
  <2>3. x7' = [x7 EXCEPT !.list = d.list, !.detects = @ \ {d}, !.overtaken = late, !.latest = k]
    BY <1>1, <2>1, <2>2
  <2>4. x7' \in EndsWindows
    BY <1>0, <1>2, <2>3 DEF EndsWindows
  <2>5. x7'.detects = x7.detects \ {d} /\ x7'.list = d.list /\ x7'.customs = x7.customs
        /\ x7'.awaits = x7.awaits /\ x7'.overtaken = late /\ x7'.latest = k
    BY <1>0, <2>3 DEF EndsWindows
  <2>6. QED
    BY <2>1, <2>2, <2>4, <2>5
<1>4. PICK asked \in Nat : asked = x6.detects
  BY <1>2
<1>5. EndsListed(x7, x1, asked, Ends!Versions)
  BY <1>4 DEF EndsShown
<1>6. EndsListed(x7', x1, asked, Ends!Versions)
  <2>1. d.n <= asked /\ x7.latest <= asked
    BY <1>5 DEF EndsListed
  <2>2. x7'.latest = asked \/ \E e \in x7'.detects : e.n = asked
    BY <1>2, <1>3, <1>5, <2>1 DEF EndsListed
  <2>3. x7'.latest = asked /\ ~x7'.overtaken => d.n = asked
    BY <1>2, <1>3, <2>1
  <2>4. QED
    BY <1>2, <1>3, <1>5, <2>1, <2>2, <2>3 DEF EndsListed
<1>7. Ends!Versions' = Ends!Versions
  BY <1>1 DEF Ends!Versions
<1>8. QED
  BY <1>1, <1>3, <1>4, <1>6, <1>7 DEF EndsShown

LEMMA EndsShowsOn ==
  ASSUME EndsTyped, EndsShown, Ends!Next
  PROVE  EndsShown'
<1>1. CASE Ends!Saves
  <2>1. x7' = [x7 EXCEPT !.awaits = "saved"] /\ x6'.detects = x6.detects
    BY <1>1 DEF Ends!Saves, Ends!Upserts, Ends!Deletes, Ends!Rewrites, EndsTyped
  <2>2. x7' \in EndsWindows /\ x7'.awaits = "saved" /\ x7'.detects = x7.detects
        /\ x7'.latest = x7.latest
    BY <2>1 DEF EndsShown, EndsWindows
  <2>3. PICK v, f : v = Ends!Versions' /\ f = x1'
    OBVIOUS
  <2>4. EndsListed(x7', f, x6.detects, v)
    BY <2>2 DEF EndsShown, EndsListed
  <2>5. QED
    BY <2>1, <2>2, <2>3, <2>4 DEF EndsShown
<1>2. CASE Ends!Listed
  <2>1. x1' = x1 /\ x2' = x2 /\ x6' = x6 /\ x7' = [x7 EXCEPT !.awaits = "listed", !.customs = x1]
    BY <1>2 DEF Ends!Listed
  <2>2. x1 \in Lists
    BY DEF EndsTyped, Lists
  <2>3. x7' \in EndsWindows /\ x7'.awaits = "listed" /\ x7'.detects = x7.detects
        /\ x7'.latest = x7.latest /\ x7'.customs = x1
    BY <2>1, <2>2 DEF EndsShown, EndsWindows
  <2>4. PICK v : v = Ends!Versions'
    OBVIOUS
  <2>5. EndsListed(x7', x1, x6.detects, v)
    BY <2>3 DEF EndsShown, EndsListed
  <2>6. QED
    BY <2>1, <2>3, <2>4, <2>5 DEF EndsShown
<1>3. CASE Ends!AsksProviders \/ Ends!Refresh
  BY <1>3, EndsAsks
<1>4. CASE \E d \in x7.detects : Ends!DetectAnswered(d)
  BY <1>4, EndsAnswers
<1>5. CASE \/ \E t \in EndpointThreads :
               Ends!Send(t) \/ Ends!Dispatch(t) \/ Ends!Stop(t) \/ Ends!Reap(t)
           \/ \E r \in x5 : Ends!StreamEnds(r)
  <2>1. x1' = x1 /\ x2' = x2 /\ x7' = x7 /\ (x6' = x6 \/ x6' = [x6 EXCEPT !.turns = @ + 1])
    BY <1>5 DEF Ends!Send, Ends!Dispatch, Ends!Stop, Ends!Reap, Ends!StreamEnds
  <2>2. x6'.detects = x6.detects
    BY <2>1 DEF EndsTyped
  <2>3. QED
    BY <2>1, <2>2 DEF EndsShown, Ends!Versions
<1>6. QED
  BY <1>1, <1>2, <1>3, <1>4, <1>5 DEF Ends!Next

(* A turn is handed to the adapter that is registered, which is the one the *)
(* file describes.                                                          *)
LEMMA EndsRunOn ==
  ASSUME EndsTyped, Ends!RunsAsSaved, Ends!Next
  PROVE  Ends!RunsAsSaved'
<1> USE DEF Ends!RunsAsSaved
<1>1. ASSUME NEW f \in [EndpointIds -> Nat], Ends!Rewrites(f), x5' = x5 PROVE Ends!RunsAsSaved'
  BY <1>1 DEF Ends!Rewrites, Ends!Synced, Ends!NoAdapter
<1>2. CASE Ends!Saves
  <2>1. PICK i \in EndpointIds : Ends!Upserts(i) \/ Ends!Deletes(i)
    BY <1>2 DEF Ends!Saves
  <2>2. x5' = x5
    BY <1>2 DEF Ends!Saves
  <2>3. [x1 EXCEPT ![i] = x6.edits + 1] \in [EndpointIds -> Nat]
        /\ [x1 EXCEPT ![i] = 0] \in [EndpointIds -> Nat]
    BY DEF EndsTyped
  <2>4. QED
    BY <1>1, <2>1, <2>2, <2>3 DEF Ends!Upserts, Ends!Deletes
<1>3. ASSUME NEW t \in EndpointThreads, Ends!Dispatch(t) PROVE Ends!RunsAsSaved'
  <2>1. PICK a : a = x2[EndpointHome[t]] /\ x1' = x1 /\ x2' = x2
                 /\ \/ x5' = x5
                    \/ x5' = x5 \cup {[thread |-> t, on |-> a, turn |-> x3[t].turn,
                                       saved |-> x1[EndpointHome[t]]]}
    BY <1>3 DEF Ends!Dispatch, Ends!AdapterFor
  <2>2. EndpointHome[t] \in EndpointIds
    BY EndpointBounds
  <2>3. QED
    BY <2>1, <2>2
<1>4. CASE \/ Ends!Listed \/ Ends!AsksProviders \/ Ends!Refresh
           \/ \E d \in x7.detects : Ends!DetectAnswered(d)
           \/ \E t \in EndpointThreads : Ends!Send(t) \/ Ends!Stop(t) \/ Ends!Reap(t)
           \/ \E r \in x5 : Ends!StreamEnds(r)
  <2>1. x1' = x1 /\ x2' = x2 /\ x5' \subseteq x5
    BY <1>4 DEF Ends!Listed, Ends!AsksProviders, Ends!Refresh, Ends!DetectAnswered, Ends!Send,
                Ends!Stop, Ends!Reap, Ends!StreamEnds
  <2>2. QED
    BY <2>1
<1>5. QED
  BY <1>2, <1>3, <1>4 DEF Ends!Next

(* Every turn is handed to an endpoint as it was saved then, and a window   *)
(* that awaits nothing lists the endpoints there are, whatever is edited or *)
(* removed while turns run and lists are on their way.                      *)
THEOREM EndpointsAgree == DaemonSpec => [](Is("endpoints") => Ends!ProvidersAgree)
<1> DEFINE Inv == Is("endpoints") => EndsInv /\ EndsShown /\ Ends!RunsAsSaved
<1>1. DaemonInit => Inv
  BY EndsStart, EndsStarts, EndsShowsAtFirst
<1>2. Inv /\ [DaemonNext]_vars => Inv'
  <2> SUFFICES ASSUME Inv, [DaemonNext]_vars, Is("endpoints")'
               PROVE  EndsInv' /\ EndsShown' /\ Ends!RunsAsSaved'
    OBVIOUS
  <2>1. CASE Ends!Next
    BY <2>1, EndsStep, EndsStepKeeps, EndsShowsOn, EndsRunOn DEF EndsInv
  <2>2. CASE UNCHANGED vars
    BY <2>2, EndsStep DEF vars, EndsInv, EndsTyped, EndsShown, Ends!NoStrayStream, Ends!Versions,
                          Ends!RunsAsSaved
  <2>3. QED
    BY <2>1, <2>2, EndsStep
<1>3. Inv => (Is("endpoints") => Ends!ProvidersAgree)
  BY DEF EndsShown, EndsListed, Ends!ProvidersAgree, Ends!WindowAgrees
<1>4. QED
  BY <1>1, <1>2, <1>3, PTL DEF DaemonSpec

-----------------------------------------------------------------------------
(* Shells and their panes                                                   *)

Frames == Shells \cup {NoShell}
PaneRows == [on : BOOLEAN, shows : Frames, asked : BOOLEAN]
DeviceRows ==
  [token : BOOLEAN, up : BOOLEAN, n : 0..MaxDrops, pane : PaneRows,
   asks : Seq({"wanted", "disposed", "late"}), panes : Nat, gaveUp : BOOLEAN]

SocketsTyped ==
  /\ x3 \in [Devices -> DeviceRows]
  /\ x4 \subseteq Sock!Sockets
  /\ x5 \in [Sock!Sockets -> Seq(Frames)]
  /\ x6 \in [Devices -> Seq(Frames)]
  /\ x7 \in [Shells -> [state : {"none", "running", "dying", "dead"}, of : Sock!Sockets, owned : BOOLEAN]]

(* The requests to open a shell among frames.                               *)
Opens(s) == {i \in DOMAIN s : s[i] = NoShell}
Opening(s) == Cardinality(Opens(s))

(* Every request of a device that is connected is on its way or answered,   *)
(* its pane waits for one at most, and what it gave up stays in the list.   *)
AsksOf(v) ==
  \A i \in DOMAIN v.asks :
    /\ v.asks[i] = "wanted" =>
         v.pane.on /\ v.pane.shows = NoShell /\ \A j \in DOMAIN v.asks : v.asks[j] = "wanted" => j = i
    /\ v.asks[i] = "late" => v.gaveUp
AsksFit(d) == AsksOf(x3[d])

DeviceFits(d) ==
  LET v == x3[d] IN
  /\ ~v.up => v.asks = <<>> /\ x6[d] = <<>>
  /\ \A m \in 0..MaxDrops : m > v.n \/ (m = v.n /\ ~v.up) => x5[<<d, m>>] = <<>>
  /\ ~v.pane.on => v.pane.shows = NoShell
  /\ AsksFit(d)
  /\ v.up => Len(v.asks) = Len(x6[d]) + Opening(x5[<<d, v.n>>])

Tied(s) ==
  LET d == Sock!OwnerOf(x7[s].of) IN
  \/ x3[d].gaveUp \/ ~x3[d].up \/ Sock!Socket(d) # x7[s].of
  \/ x3[d].pane.shows = s \/ Sock!OnItsWay(d, s)

ShellFits(s) == x7[s].state = "running" => x7[s].of \in x4 /\ x7[s].owned /\ Tied(s)

ShellInv ==
  SocketsTyped /\ (\A d \in Devices : DeviceFits(d)) /\ (\A s \in Shells : ShellFits(s))

LEMMA ShellInvSays == ShellInv => Sock!NoStrayShell
BY DEF ShellInv, ShellFits, Tied, Sock!NoStrayShell

LEMMA SocketIn ==
  /\ \A d \in Devices, m \in 0..MaxDrops : <<d, m>> \in Sock!Sockets /\ Sock!OwnerOf(<<d, m>>) = d
  /\ \A k \in Sock!Sockets :
       Sock!OwnerOf(k) \in Devices /\ k[2] \in 0..MaxDrops /\ k = <<Sock!OwnerOf(k), k[2]>>
BY DEF Sock!Sockets, Sock!OwnerOf

(* Counting the requests among frames that come and go.                     *)
LEMMA OpensFinite ==
  ASSUME NEW S, NEW s \in Seq(S)
  PROVE  IsFiniteSet(Opens(s)) /\ Opening(s) \in Nat
<1>1. Opens(s) \in SUBSET (1..Len(s)) /\ IsFiniteSet(1..Len(s))
  BY FS_Interval DEF Opens
<1>2. IsFiniteSet(Opens(s))
  BY <1>1, FS_Subset
<1>3. QED
  BY <1>2, FS_CardinalityType DEF Opening

LEMMA OpeningNone == Opening(<<>>) = 0
<1>1. Opens(<<>>) = {}
  BY DEF Opens
<1>2. QED
  BY <1>1, FS_EmptySet DEF Opening

LEMMA OpeningAppend ==
  ASSUME NEW S, NEW s \in Seq(S), NEW x \in S
  PROVE  Opening(Append(s, x)) = Opening(s) + (IF x = NoShell THEN 1 ELSE 0)
<1> DEFINE t == Append(s, x)
           n == Len(s) + 1
<1>1. /\ DOMAIN t = 1..n /\ DOMAIN s = 1..Len(s) /\ Len(s) \in Nat /\ t[n] = x
      /\ \A i \in 1..Len(s) : t[i] = s[i]
  OBVIOUS
<1>2. n \notin Opens(s)
  BY <1>1 DEF Opens
<1>3. Opens(t) = IF x = NoShell THEN Opens(s) \cup {n} ELSE Opens(s)
  BY <1>1 DEF Opens
<1>4. IsFiniteSet(Opens(s)) /\ Opening(s) \in Nat
  BY OpensFinite
<1>5. CASE x = NoShell
  <2>1. Cardinality(Opens(s) \cup {n}) = Cardinality(Opens(s)) + 1
    BY <1>2, <1>4, FS_AddElement
  <2>2. QED
    BY <1>3, <1>5, <2>1 DEF Opening
<1>6. CASE x # NoShell
  BY <1>3, <1>4, <1>6 DEF Opening
<1>7. QED
  BY <1>5, <1>6

LEMMA OpeningTail ==
  ASSUME NEW S, NEW s \in Seq(S), s # <<>>
  PROVE  Opening(s) = Opening(Tail(s)) + (IF Head(s) = NoShell THEN 1 ELSE 0)
<1> DEFINE t == Tail(s)
           Rest == Opens(s) \ {1}
           f == [i \in Opens(t) |-> i + 1]
<1>1. /\ t \in Seq(S) /\ Len(s) \in Nat /\ Len(s) >= 1 /\ DOMAIN s = 1..Len(s)
      /\ DOMAIN t = 1..(Len(s) - 1) /\ Head(s) = s[1]
      /\ \A i \in 1..(Len(s) - 1) : t[i] = s[i + 1]
  OBVIOUS
<1>2. IsFiniteSet(Opens(s)) /\ IsFiniteSet(Opens(t)) /\ Opening(s) \in Nat /\ Opening(t) \in Nat
  BY <1>1, OpensFinite
<1>3. f \in Bijection(Opens(t), Rest)
  <2>1. \A i \in Opens(t) : i \in 1..(Len(s) - 1) /\ f[i] = i + 1 /\ f[i] \in Rest
    BY <1>1 DEF Opens
  <2>2. f \in [Opens(t) -> Rest]
    BY <2>1
  <2>3. \A i, j \in Opens(t) : f[i] = f[j] => i = j
    BY <2>1
  <2>4. \A j \in Rest : \E i \in Opens(t) : f[i] = j
    <3> SUFFICES ASSUME NEW j \in Rest PROVE \E i \in Opens(t) : f[i] = j
      OBVIOUS
    <3>1. j \in 2..Len(s) /\ s[j] = NoShell
      BY <1>1 DEF Opens
    <3>2. j - 1 \in 1..(Len(s) - 1) /\ t[j - 1] = s[j] /\ (j - 1) + 1 = j
      BY <1>1, <3>1
    <3>3. j - 1 \in Opens(t)
      BY <1>1, <3>1, <3>2 DEF Opens
    <3>4. QED
      BY <2>1, <3>2, <3>3
  <2> HIDE DEF f, Rest
  <2>5. QED
    BY <2>2, <2>3, <2>4 DEF Bijection, Injection, Surjection, IsInjective
<1>4. Cardinality(Rest) = Opening(t)
  BY <1>2, <1>3, FS_Bijection DEF Opening, ExistsBijection
<1>5. Cardinality(Rest) = IF 1 \in Opens(s) THEN Cardinality(Opens(s)) - 1 ELSE Cardinality(Opens(s))
  BY <1>2, FS_RemoveElement
<1>6. 1 \in Opens(s) <=> Head(s) = NoShell
  BY <1>1 DEF Opens
<1>7. QED
  BY <1>2, <1>4, <1>5, <1>6 DEF Opening

LEMMA ShellStarts == Sock!Init => ShellInv
<1> SUFFICES ASSUME Sock!Init PROVE ShellInv
  OBVIOUS
<1> USE SocketBounds
<1>1. SocketsTyped
  <2>1. x3 \in [Devices -> DeviceRows]
    <3>1. Sock!Closed \in PaneRows /\ 0 \in 0..MaxDrops
      BY DEF Sock!Closed, PaneRows, Frames
    <3>2. \A d \in Devices :
            [token |-> d = Local, up |-> FALSE, n |-> 0, pane |-> Sock!Closed, asks |-> <<>>,
             panes |-> 0, gaveUp |-> FALSE] \in DeviceRows
      BY <3>1 DEF DeviceRows
    <3>3. QED
      BY <3>2 DEF Sock!Init
  <2>2. <<Local, 0>> \in Sock!Sockets
    BY DEF Sock!Sockets
  <2>3. QED
    BY <2>1, <2>2 DEF Sock!Init, SocketsTyped, Frames
<1>2. ASSUME NEW d \in Devices PROVE DeviceFits(d)
  <2>1. /\ ~x3[d].up /\ x3[d].asks = <<>> /\ x6[d] = <<>> /\ x3[d].pane.shows = NoShell
        /\ \A k \in Sock!Sockets : x5[k] = <<>>
    BY <1>2 DEF Sock!Init, Sock!Closed
  <2>2. QED
    BY <2>1, SocketIn DEF DeviceFits, AsksFit, AsksOf
<1>3. QED
  BY <1>1, <1>2 DEF ShellInv, ShellFits, Sock!Init

(* What a step of one device leaves of the others.                          *)
Untouched(e) ==
  /\ x3'[e] = x3[e] /\ x6'[e] = x6[e]
  /\ \A m \in 0..MaxDrops : x5'[<<e, m>>] = x5[<<e, m>>]

LEMMA FitsElsewhere ==
  ASSUME SocketsTyped, NEW e \in Devices, Untouched(e), DeviceFits(e)
  PROVE  DeviceFits(e)'
<1>1. x3[e].n \in 0..MaxDrops
  BY DEF SocketsTyped, DeviceRows
<1>2. QED
  BY <1>1 DEF DeviceFits, AsksFit, AsksOf, Untouched

LEMMA TiedElsewhere ==
  ASSUME SocketsTyped, NEW s \in Shells, x7'[s].of = x7[s].of, Tied(s),
         Untouched(Sock!OwnerOf(x7[s].of))
  PROVE  Tied(s)'
<1> DEFINE e == Sock!OwnerOf(x7[s].of)
<1>1. x7[s].of \in Sock!Sockets
  BY DEF SocketsTyped
<1>2. e \in Devices
  BY <1>1, SocketIn
<1>3. x3[e].n \in 0..MaxDrops
  BY <1>2 DEF SocketsTyped, DeviceRows
<1>4. Sock!Socket(e) = <<e, x3[e].n>> /\ Sock!Socket(e)' = <<e, x3[e].n>>
  BY DEF Sock!Socket, Untouched
<1>5. Sock!OnItsWay(e, s)' <=> Sock!OnItsWay(e, s)
  BY <1>3, <1>4 DEF Sock!OnItsWay, Untouched
<1>6. QED
  BY <1>4, <1>5 DEF Tied, Untouched, Sock!OwnerOf

(* A step of one device that ends no shell and opens none.                  *)
LEMMA DeviceMoves ==
  ASSUME ShellInv, SocketsTyped', NEW d \in Devices, DeviceFits(d)',
         \A e \in Devices \ {d} : Untouched(e), x4 \subseteq x4', x7' = x7,
         \A s \in Shells : /\ x7[s].state = "running" /\ Sock!OwnerOf(x7[s].of) = d
                           /\ x7[s].of \in x4 /\ Tied(s)
                           => Tied(s)'
  PROVE  ShellInv'
<1>1. \A e \in Devices : DeviceFits(e)'
  BY FitsElsewhere DEF ShellInv
<1>2. ASSUME NEW s \in Shells, x7'[s].state = "running" PROVE ShellFits(s)'
  <2>1. x7[s].of \in x4 /\ x7[s].owned /\ Tied(s)
    BY <1>2 DEF ShellInv, ShellFits
  <2>2. Sock!OwnerOf(x7[s].of) \in Devices
    BY SocketIn DEF ShellInv, SocketsTyped
  <2>3. Tied(s)'
    BY <1>2, <2>1, <2>2, TiedElsewhere DEF ShellInv
  <2>4. QED
    BY <2>1, <2>3 DEF ShellFits
<1>3. QED
  BY <1>1, <1>2 DEF ShellInv, ShellFits

(* What the daemon kills is killed in time: a socket is gone with every     *)
(* shell it owned.                                                          *)
LEMMA SocketsGo ==
  ASSUME ShellInv, NEW M, x4' = x4 \ M, Sock!Kill(UNION {Sock!ShellsOf(k) : k \in M}),
         M \subseteq x4, x5' = [k \in Sock!Sockets |-> IF k \in M THEN <<>> ELSE x5[k]],
         x3' \in [Devices -> DeviceRows], x6' \in [Devices -> Seq(Frames)],
         \A e \in Devices : DeviceFits(e)',
         \A e \in Devices : (x3'[e] = x3[e] /\ x6'[e] = x6[e]) \/ ~x3'[e].up
  PROVE  ShellInv'
<1>1. SocketsTyped
  BY DEF ShellInv
<1>2. SocketsTyped'
  <2>1. x5' \in [Sock!Sockets -> Seq(Frames)]
    BY <1>1 DEF SocketsTyped
  <2>2. x7' \in [Shells -> [state : {"none", "running", "dying", "dead"}, of : Sock!Sockets,
                            owned : BOOLEAN]]
    BY <1>1 DEF SocketsTyped, Sock!Kill
  <2>3. QED
    BY <1>1, <2>1, <2>2 DEF SocketsTyped
<1>3. ASSUME NEW s \in Shells, x7'[s].state = "running" PROVE ShellFits(s)'
  <2>0. PICK k \in Sock!Sockets : k = x7[s].of
    BY <1>1 DEF SocketsTyped
  <2>1. x7[s].state = "running" /\ x7'[s] = x7[s] /\ s \notin UNION {Sock!ShellsOf(j) : j \in M}
    BY <1>1, <1>3 DEF SocketsTyped, Sock!Kill
  <2>2. k \in x4 /\ x7[s].owned /\ Tied(s)
    BY <1>1, <2>0, <2>1 DEF ShellInv, ShellFits
  <2>3. k \notin M
    BY <2>0, <2>1, <2>2 DEF Sock!ShellsOf
  <2>4. PICK e \in Devices : e = Sock!OwnerOf(k)
    BY SocketIn
  <2>5. x5'[k] = x5[k] /\ k \in x4'
    BY <2>2, <2>3
  <2>6. CASE x3'[e] = x3[e] /\ x6'[e] = x6[e]
    <3>1. Sock!Socket(e)' = Sock!Socket(e)
      BY <2>6 DEF Sock!Socket
    <3>2. Sock!Socket(e) = k => (Sock!OnItsWay(e, s) => Sock!OnItsWay(e, s)')
      BY <2>5, <2>6, <3>1 DEF Sock!OnItsWay
    <3>3. x3[e].gaveUp \/ ~x3[e].up \/ Sock!Socket(e) # k \/ x3[e].pane.shows = s \/ Sock!OnItsWay(e, s)
      BY <2>0, <2>2, <2>4 DEF Tied
    <3>4. x3'[e].gaveUp \/ ~x3'[e].up \/ Sock!Socket(e)' # k \/ x3'[e].pane.shows = s
            \/ Sock!OnItsWay(e, s)'
      BY <2>6, <3>1, <3>2, <3>3
    <3>5. QED
      BY <2>0, <2>1, <2>2, <2>4, <2>5, <3>4 DEF ShellFits, Tied, Sock!OwnerOf
  <2>7. CASE ~x3'[e].up
    BY <2>0, <2>1, <2>2, <2>4, <2>5, <2>7 DEF ShellFits, Tied, Sock!OwnerOf
  <2>8. QED
    BY <2>6, <2>7
<1>4. QED
  BY <1>2, <1>3 DEF ShellInv, ShellFits

(* A frame is put behind the others on a socket.                            *)
LEMMA FrameSent ==
  ASSUME SocketsTyped, NEW k \in Sock!Sockets, NEW f \in Frames, x5' = [x5 EXCEPT ![k] = Append(@, f)]
  PROVE  /\ x5' \in [Sock!Sockets -> Seq(Frames)]
         /\ Opening(x5'[k]) = Opening(x5[k]) + (IF f = NoShell THEN 1 ELSE 0)
         /\ \A j \in Sock!Sockets : j # k => x5'[j] = x5[j]
         /\ \A j \in Sock!Sockets : \A i \in DOMAIN x5[j] : i \in DOMAIN x5'[j] /\ x5'[j][i] = x5[j][i]
         /\ \E i \in DOMAIN x5'[k] : x5'[k][i] = f
<1>1. x5[k] \in Seq(Frames) /\ x5'[k] = Append(x5[k], f) /\ \A j \in Sock!Sockets : j # k => x5'[j] = x5[j]
  BY DEF SocketsTyped
<1>2. x5' \in [Sock!Sockets -> Seq(Frames)]
  <2>1. Append(x5[k], f) \in Seq(Frames)
    BY <1>1
  <2>2. QED
    BY <2>1 DEF SocketsTyped
<1>3. Opening(x5'[k]) = Opening(x5[k]) + (IF f = NoShell THEN 1 ELSE 0)
  BY <1>1, OpeningAppend
<1>4. /\ DOMAIN x5'[k] = 1..(Len(x5[k]) + 1) /\ DOMAIN x5[k] = 1..Len(x5[k]) /\ Len(x5[k]) \in Nat
      /\ x5'[k][Len(x5[k]) + 1] = f /\ \A i \in 1..Len(x5[k]) : x5'[k][i] = x5[k][i]
  BY <1>1
<1>5. \A i \in DOMAIN x5[k] : i \in DOMAIN x5'[k] /\ x5'[k][i] = x5[k][i]
  BY <1>4
<1>6. \E i \in DOMAIN x5'[k] : x5'[k][i] = f
  BY <1>4
<1>7. QED
  BY <1>1, <1>2, <1>3, <1>5, <1>6

(* The device's side: its row changes, and maybe a frame is sent.           *)
DeviceAt(d) ==
  /\ x3[d] \in DeviceRows /\ x3[d].n \in 0..MaxDrops /\ Sock!Socket(d) = <<d, x3[d].n>>
  /\ Sock!Socket(d) \in Sock!Sockets /\ x5[Sock!Socket(d)] \in Seq(Frames) /\ x6[d] \in Seq(Frames)
  /\ Opening(x5[Sock!Socket(d)]) \in Nat

LEMMA DeviceIsAt == ASSUME SocketsTyped, NEW d \in Devices PROVE DeviceAt(d)
<1>1. x3[d] \in DeviceRows /\ x3[d].n \in 0..MaxDrops /\ Sock!Socket(d) = <<d, x3[d].n>>
  BY DEF SocketsTyped, DeviceRows, Sock!Socket
<1>2. Sock!Socket(d) \in Sock!Sockets
  BY <1>1, SocketIn
<1>3. x5[Sock!Socket(d)] \in Seq(Frames) /\ x6[d] \in Seq(Frames)
  BY <1>2 DEF SocketsTyped
<1>4. QED
  BY <1>1, <1>2, <1>3, OpensFinite DEF DeviceAt

LEMMA OthersUntouched ==
  ASSUME SocketsTyped, NEW d \in Devices, \A e \in Devices \ {d} : x3'[e] = x3[e] /\ x6'[e] = x6[e],
         \A k \in Sock!Sockets : Sock!OwnerOf(k) # d => x5'[k] = x5[k]
  PROVE  \A e \in Devices \ {d} : Untouched(e)
BY SocketIn DEF Untouched

LEMMA ShellConnect == ASSUME ShellInv, NEW d \in Devices, Sock!Connect(d) PROVE ShellInv'
<1>0. SocketsTyped /\ DeviceAt(d) /\ DeviceFits(d)
  BY DeviceIsAt DEF ShellInv
<1>1. /\ ~x3[d].up /\ x3' = [x3 EXCEPT ![d].up = TRUE] /\ x4' = x4 \cup {Sock!Socket(d)}
      /\ Sock!Socket(d) \notin x4 /\ x5' = x5 /\ x6' = x6 /\ x7' = x7
  BY DEF Sock!Connect
<1>2. x3' \in [Devices -> DeviceRows] /\ \A e \in Devices \ {d} : x3'[e] = x3[e]
  BY <1>0, <1>1 DEF SocketsTyped, DeviceRows
<1>3. x3'[d] = [x3[d] EXCEPT !.up = TRUE]
  BY <1>0, <1>1 DEF SocketsTyped
<1>4. /\ x3'[d].up /\ x3'[d].n = x3[d].n /\ x3'[d].asks = x3[d].asks /\ x3'[d].pane = x3[d].pane
      /\ x3'[d].gaveUp = x3[d].gaveUp
  BY <1>0, <1>3 DEF DeviceAt, DeviceRows
<1>5. SocketsTyped'
  BY <1>0, <1>1, <1>2 DEF SocketsTyped, DeviceAt
<1>6. DeviceFits(d)'
  <2>1. x3[d].asks = <<>> /\ x6[d] = <<>> /\ x5[<<d, x3[d].n>>] = <<>>
    BY <1>0, <1>1 DEF DeviceFits, DeviceAt
  <2>2. Len(x3'[d].asks) = Len(x6'[d]) + Opening(x5'[<<d, x3'[d].n>>])
    BY <1>1, <1>4, <2>1, OpeningNone
  <2>3. AsksFit(d)'
    BY <1>4, <2>1 DEF AsksFit, AsksOf
  <2>4. QED
    BY <1>0, <1>1, <1>4, <2>2, <2>3 DEF DeviceFits
<1>7. \A e \in Devices \ {d} : Untouched(e)
  BY <1>1, <1>2 DEF Untouched
<1>8. \A s \in Shells : x7[s].of \in x4 => Sock!Socket(d)' # x7'[s].of
  BY <1>1, <1>4 DEF Sock!Socket
<1>9. \A s \in Shells : Sock!OwnerOf(x7[s].of) = d /\ x7[s].of \in x4 => Tied(s)'
  BY <1>1, <1>8 DEF Tied, Sock!OwnerOf
<1>10. QED
  BY <1>1, <1>5, <1>6, <1>7, <1>9, DeviceMoves

(* The device's end of a socket that is lost.                               *)
LEMMA LosesFits ==
  ASSUME SocketsTyped, NEW d \in Devices, DeviceFits(d), x3[d].up, x3[d].n < MaxDrops,
         Sock!LosesSocket(d), \A m \in 0..MaxDrops : x5'[<<d, m>>] \in {x5[<<d, m>>], <<>>}
  PROVE  /\ x3' \in [Devices -> DeviceRows] /\ x6' \in [Devices -> Seq(Frames)]
         /\ \A e \in Devices \ {d} : x3'[e] = x3[e] /\ x6'[e] = x6[e]
         /\ ~x3'[d].up /\ DeviceFits(d)'
<1>0. DeviceAt(d)
  BY DeviceIsAt
<1>1. x3' = [x3 EXCEPT ![d] = Sock!CutOff(x3[d])] /\ x6' = [x6 EXCEPT ![d] = <<>>]
  BY DEF Sock!LosesSocket
<1>2. MaxDrops \in Nat
  BY SocketBounds
<1>3. x3[d] \in DeviceRows /\ x3[d].pane \in PaneRows /\ x3[d].n + 1 \in 0..MaxDrops
  <2>1. x3[d] \in DeviceRows /\ x3[d].n \in 0..MaxDrops
    BY <1>0 DEF DeviceAt
  <2>2. x3[d].n + 1 \in 0..MaxDrops
    BY <1>2, <2>1
  <2>3. QED
    BY <2>1, <2>2 DEF DeviceRows
<1>4. x3' \in [Devices -> DeviceRows]
  <2>1. [x3[d].pane EXCEPT !.asked = FALSE] \in PaneRows
    BY <1>3 DEF PaneRows
  <2>2. <<>> \in Seq({"wanted", "disposed", "late"})
    OBVIOUS
  <2>3. Sock!CutOff(x3[d]) \in DeviceRows
    BY <1>3, <2>1, <2>2 DEF DeviceRows, Sock!CutOff
  <2>4. QED
    BY <1>1, <2>3 DEF SocketsTyped
<1>5. x3'[d] = Sock!CutOff(x3[d]) /\ \A e \in Devices \ {d} : x3'[e] = x3[e]
  BY <1>1 DEF SocketsTyped
<1>6. /\ ~x3'[d].up /\ x3'[d].n = x3[d].n + 1 /\ x3'[d].asks = <<>>
      /\ x3'[d].pane = [x3[d].pane EXCEPT !.asked = FALSE]
  BY <1>3, <1>5 DEF DeviceRows, Sock!CutOff
<1>7. x3'[d].pane.on = x3[d].pane.on /\ x3'[d].pane.shows = x3[d].pane.shows
  BY <1>3, <1>6 DEF PaneRows
<1>8. x6' \in [Devices -> Seq(Frames)] /\ x6'[d] = <<>> /\ \A e \in Devices \ {d} : x6'[e] = x6[e]
  BY <1>1 DEF SocketsTyped
<1>9. DeviceFits(d)'
  <2>1. \A m \in 0..MaxDrops : m > x3[d].n => x5'[<<d, m>>] = <<>>
    BY DEF DeviceFits
  <2>2. \A m \in 0..MaxDrops : m > x3'[d].n \/ m = x3'[d].n => m > x3[d].n
    BY <1>0, <1>6 DEF DeviceAt
  <2>3. AsksFit(d)'
    BY <1>6 DEF AsksFit, AsksOf
  <2>4. QED
    BY <1>8, <1>6, <1>7, <2>1, <2>2, <2>3 DEF DeviceFits
<1>10. QED
  BY <1>4, <1>8, <1>9, <1>5, <1>6

LEMMA ShellDrop == ASSUME ShellInv, NEW d \in Devices, Sock!Drop(d) PROVE ShellInv'
<1>0. SocketsTyped /\ DeviceFits(d)
  BY DEF ShellInv
<1>1. x3[d].up /\ x3[d].n < MaxDrops /\ Sock!LosesSocket(d) /\ x4' = x4 /\ x5' = x5 /\ x7' = x7
  BY DEF Sock!Drop
<1>2. /\ x3' \in [Devices -> DeviceRows] /\ x6' \in [Devices -> Seq(Frames)]
      /\ \A e \in Devices \ {d} : x3'[e] = x3[e] /\ x6'[e] = x6[e]
      /\ ~x3'[d].up /\ DeviceFits(d)'
  BY <1>0, <1>1, LosesFits
<1>3. SocketsTyped'
  BY <1>0, <1>1, <1>2 DEF SocketsTyped
<1>4. \A e \in Devices \ {d} : Untouched(e)
  BY <1>1, <1>2 DEF Untouched
<1>5. \A s \in Shells : Sock!OwnerOf(x7[s].of) = d => Tied(s)'
  BY <1>1, <1>2 DEF Tied, Sock!OwnerOf
<1>6. QED
  BY <1>1, <1>2, <1>3, <1>4, <1>5, DeviceMoves

LEMMA ShellSocketGone == ASSUME ShellInv, NEW k \in Sock!Sockets, Sock!SocketGone(k) PROVE ShellInv'
<1> DEFINE M == {k}
<1>0. SocketsTyped /\ \A e \in Devices : DeviceFits(e) /\ DeviceAt(e)
  BY DeviceIsAt DEF ShellInv
<1>1. /\ k \in x4 /\ (~x3[Sock!OwnerOf(k)].up \/ Sock!Socket(Sock!OwnerOf(k)) # k)
      /\ Sock!Kill(Sock!ShellsOf(k)) /\ x4' = x4 \ {k} /\ x5' = [x5 EXCEPT ![k] = <<>>]
      /\ x3' = x3 /\ x6' = x6
  BY DEF Sock!SocketGone
<1>2. UNION {Sock!ShellsOf(j) : j \in M} = Sock!ShellsOf(k)
  OBVIOUS
<1>3. x5' = [j \in Sock!Sockets |-> IF j \in M THEN <<>> ELSE x5[j]]
  BY <1>0, <1>1 DEF SocketsTyped
<1>4. ASSUME NEW e \in Devices PROVE DeviceFits(e)'
  <2>1. \A m \in 0..MaxDrops : x5'[<<e, m>>] \in {x5[<<e, m>>], <<>>}
    BY <1>3, SocketIn
  <2>2. x3[e].up => x5'[<<e, x3[e].n>>] = x5[<<e, x3[e].n>>]
    <3> SUFFICES ASSUME x3[e].up, k = <<e, x3[e].n>> PROVE FALSE
      BY <1>0, <1>3 DEF DeviceAt
    <3>1. Sock!OwnerOf(k) = e
      BY DEF Sock!OwnerOf
    <3>2. QED
      BY <1>0, <1>1, <3>1 DEF DeviceAt
  <2>3. AsksFit(e)'
    BY <1>0, <1>1 DEF DeviceFits, AsksFit, AsksOf
  <2>4. QED
    BY <1>0, <1>1, <2>1, <2>2, <2>3 DEF DeviceFits
<1>5. x3' \in [Devices -> DeviceRows] /\ x6' \in [Devices -> Seq(Frames)]
  BY <1>0, <1>1 DEF SocketsTyped
<1>6. Sock!Kill(UNION {Sock!ShellsOf(j) : j \in M}) /\ x4' = x4 \ M /\ M \subseteq x4
  BY <1>1, <1>2
<1> HIDE DEF M
<1>7. QED
  BY <1>1, <1>3, <1>4, <1>5, <1>6, SocketsGo

LEMMA ShellRevoke == ASSUME ShellInv, NEW d \in Devices, Sock!Revoke(d) PROVE ShellInv'
<1> DEFINE M == {k \in x4 : Sock!OwnerOf(k) = d}
<1>0. SocketsTyped /\ \A e \in Devices : DeviceFits(e) /\ DeviceAt(e)
  BY DeviceIsAt DEF ShellInv
<1>1. /\ (x3[d].up => x3[d].n < MaxDrops)
      /\ Sock!Kill(UNION {Sock!ShellsOf(k) : k \in M}) /\ x4' = x4 \ M /\ M \subseteq x4
      /\ x5' = [k \in Sock!Sockets |-> IF k \in M THEN <<>> ELSE x5[k]]
      /\ IF x3[d].up THEN Sock!LosesSocket(d) ELSE x3' = x3 /\ x6' = x6
  BY DEF Sock!Revoke
<1>2. \A m \in 0..MaxDrops : x5'[<<d, m>>] \in {x5[<<d, m>>], <<>>}
  BY <1>1, SocketIn
<1>3. /\ x3' \in [Devices -> DeviceRows] /\ x6' \in [Devices -> Seq(Frames)]
      /\ \A e \in Devices \ {d} : x3'[e] = x3[e] /\ x6'[e] = x6[e]
      /\ ~x3'[d].up /\ DeviceFits(d)'
  <2>1. CASE x3[d].up
    BY <1>0, <1>1, <1>2, <2>1, LosesFits
  <2>2. CASE ~x3[d].up
    <3>1. AsksFit(d)'
      BY <1>0, <1>1, <2>2 DEF DeviceFits, AsksFit, AsksOf
    <3>2. DeviceFits(d)'
      BY <1>0, <1>1, <1>2, <2>2, <3>1 DEF DeviceFits
    <3>3. QED
      BY <1>0, <1>1, <2>2, <3>2 DEF SocketsTyped
  <2>3. QED
    BY <2>1, <2>2
<1>4. \A k \in Sock!Sockets : Sock!OwnerOf(k) # d => x5'[k] = x5[k]
  BY <1>1
<1>5. \A e \in Devices \ {d} : Untouched(e)
  BY <1>0, <1>3, <1>4, OthersUntouched
<1>6. \A e \in Devices : DeviceFits(e)'
  BY <1>0, <1>3, <1>5, FitsElsewhere
<1>7. \A e \in Devices : (x3'[e] = x3[e] /\ x6'[e] = x6[e]) \/ ~x3'[e].up
  BY <1>3
<1> HIDE DEF M
<1>8. QED
  BY <1>1, <1>3, <1>6, <1>7, SocketsGo

(* What the device does to its row.                                         *)
AskStates == {"wanted", "disposed", "late"}

LEMMA RowParts ==
  ASSUME NEW v \in DeviceRows
  PROVE  /\ v.token \in BOOLEAN /\ v.up \in BOOLEAN /\ v.n \in 0..MaxDrops /\ v.panes \in Nat
         /\ v.gaveUp \in BOOLEAN /\ v.asks \in Seq(AskStates) /\ Len(v.asks) \in Nat
         /\ DOMAIN v.asks = 1..Len(v.asks) /\ v.pane \in PaneRows
         /\ v.pane.on \in BOOLEAN /\ v.pane.shows \in Frames /\ v.pane.asked \in BOOLEAN
<1>1. /\ v.token \in BOOLEAN /\ v.up \in BOOLEAN /\ v.n \in 0..MaxDrops /\ v.panes \in Nat
      /\ v.gaveUp \in BOOLEAN /\ v.asks \in Seq(AskStates) /\ v.pane \in PaneRows
  BY DEF DeviceRows, AskStates
<1>2. Len(v.asks) \in Nat /\ DOMAIN v.asks = 1..Len(v.asks)
  BY <1>1
<1>3. v.pane.on \in BOOLEAN /\ v.pane.shows \in Frames /\ v.pane.asked \in BOOLEAN
  BY <1>1 DEF PaneRows
<1>4. QED
  BY <1>1, <1>2, <1>3

LEMMA RowOpens ==
  ASSUME NEW v \in DeviceRows, ~v.pane.on, AsksOf(v), NEW w, w = Sock!WithPane(v)
  PROVE  /\ w \in DeviceRows /\ AsksOf(w) /\ w.up = v.up /\ w.n = v.n /\ w.gaveUp = v.gaveUp
         /\ w.pane.on /\ w.pane.shows = NoShell /\ Len(w.asks) = Len(v.asks) + 1
<1>0. /\ v.asks \in Seq(AskStates) /\ Len(v.asks) \in Nat /\ DOMAIN v.asks = 1..Len(v.asks)
      /\ v.panes \in Nat
  BY RowParts
<1>1. [on |-> TRUE, shows |-> NoShell, asked |-> TRUE] \in PaneRows
  BY DEF PaneRows, Frames
<1>2. Append(v.asks, "wanted") \in Seq(AskStates) /\ v.panes + 1 \in Nat
  BY <1>0 DEF AskStates
<1>3. w \in DeviceRows
  BY <1>1, <1>2 DEF DeviceRows, Sock!WithPane, AskStates
<1>4. /\ w.up = v.up /\ w.n = v.n /\ w.gaveUp = v.gaveUp /\ w.asks = Append(v.asks, "wanted")
      /\ w.pane = [on |-> TRUE, shows |-> NoShell, asked |-> TRUE]
  BY DEF DeviceRows, Sock!WithPane
<1>5. w.pane.on /\ w.pane.shows = NoShell
  BY <1>4
<1>6. /\ Len(w.asks) = Len(v.asks) + 1 /\ DOMAIN w.asks = 1..(Len(v.asks) + 1)
      /\ w.asks[Len(v.asks) + 1] = "wanted" /\ \A i \in 1..Len(v.asks) : w.asks[i] = v.asks[i]
  BY <1>0, <1>4
<1>7. \A i \in 1..Len(v.asks) : v.asks[i] # "wanted"
  BY <1>0 DEF AsksOf
<1>8. AsksOf(w)
  <2> SUFFICES ASSUME NEW i \in DOMAIN w.asks
               PROVE  /\ w.asks[i] = "wanted" =>
                           \A j \in DOMAIN w.asks : w.asks[j] = "wanted" => j = i
                      /\ w.asks[i] = "late" => w.gaveUp
    BY <1>5 DEF AsksOf
  <2>1. CASE i \in 1..Len(v.asks)
    BY <1>0, <1>4, <1>6, <1>7, <2>1 DEF AsksOf
  <2>2. CASE i = Len(v.asks) + 1
    BY <1>0, <1>6, <1>7, <2>2
  <2>3. QED
    BY <1>0, <1>6, <2>1, <2>2
<1>9. QED
  BY <1>3, <1>4, <1>5, <1>6, <1>8

LEMMA RowCloses ==
  ASSUME NEW v \in DeviceRows, AsksOf(v), NEW w, w = Sock!WithoutPane(v)
  PROVE  /\ w \in DeviceRows /\ AsksOf(w) /\ w.up = v.up /\ w.n = v.n /\ w.gaveUp = v.gaveUp
         /\ ~w.pane.on /\ w.pane.shows = NoShell /\ Len(w.asks) = Len(v.asks)
<1>0. v.asks \in Seq(AskStates) /\ Len(v.asks) \in Nat /\ DOMAIN v.asks = 1..Len(v.asks)
  BY RowParts
<1>1. Sock!Closed \in PaneRows /\ ~Sock!Closed.on /\ Sock!Closed.shows = NoShell
  BY DEF PaneRows, Frames, Sock!Closed
<1>2. Sock!Unwanted(v.asks)
        = [i \in 1..Len(v.asks) |-> IF v.asks[i] = "wanted" THEN "disposed" ELSE v.asks[i]]
  BY <1>0 DEF Sock!Unwanted
<1>3. /\ Sock!Unwanted(v.asks) \in Seq(AskStates) /\ Len(Sock!Unwanted(v.asks)) = Len(v.asks)
      /\ DOMAIN Sock!Unwanted(v.asks) = 1..Len(v.asks)
  <2>1. \A i \in 1..Len(v.asks) :
          (IF v.asks[i] = "wanted" THEN "disposed" ELSE v.asks[i]) \in AskStates
    BY <1>0 DEF AskStates
  <2>2. Sock!Unwanted(v.asks) \in Seq(AskStates)
    BY <1>0, <1>2, <2>1
  <2>3. QED
    BY <1>0, <1>2, <2>2
<1>4. w \in DeviceRows
  BY <1>1, <1>3 DEF DeviceRows, Sock!WithoutPane, AskStates
<1>5. /\ w.up = v.up /\ w.n = v.n /\ w.gaveUp = v.gaveUp /\ w.pane = Sock!Closed
      /\ w.asks = Sock!Unwanted(v.asks)
  BY DEF DeviceRows, Sock!WithoutPane
<1>6. \A i \in DOMAIN w.asks : w.asks[i] # "wanted" /\ (w.asks[i] = "late" => v.asks[i] = "late")
  BY <1>0, <1>2, <1>3, <1>5
<1>7. AsksOf(w)
  BY <1>0, <1>3, <1>5, <1>6 DEF AsksOf
<1>8. QED
  BY <1>1, <1>3, <1>4, <1>5, <1>7

LEMMA RowGivesUp ==
  ASSUME NEW v \in DeviceRows, AsksOf(v), v.asks # <<>>, NEW w, w = Sock!GivesUp(v)
  PROVE  /\ w \in DeviceRows /\ AsksOf(w) /\ w.up = v.up /\ w.n = v.n /\ w.gaveUp
         /\ w.pane.on = v.pane.on /\ w.pane.shows = v.pane.shows /\ Len(w.asks) = Len(v.asks)
<1>0. /\ v.asks \in Seq(AskStates) /\ Len(v.asks) \in Nat /\ DOMAIN v.asks = 1..Len(v.asks)
      /\ v.pane \in PaneRows /\ v.pane.asked \in BOOLEAN
  BY RowParts
<1>1. [v.pane EXCEPT !.asked = v.pane.asked /\ Head(v.asks) # "wanted"] \in PaneRows
  <2> DEFINE a == v.pane.asked /\ Head(v.asks) # "wanted"
  <2>1. a \in BOOLEAN
    OBVIOUS
  <2> HIDE DEF a
  <2>2. [v.pane EXCEPT !.asked = a] \in PaneRows
    BY <1>0, <2>1 DEF PaneRows
  <2>3. QED
    BY <2>2 DEF a
<1>2. [v.asks EXCEPT ![1] = "late"] = [i \in 1..Len(v.asks) |-> IF i = 1 THEN "late" ELSE v.asks[i]]
  BY <1>0
<1>3. /\ [v.asks EXCEPT ![1] = "late"] \in Seq(AskStates)
      /\ Len([v.asks EXCEPT ![1] = "late"]) = Len(v.asks)
  <2>1. \A i \in 1..Len(v.asks) : (IF i = 1 THEN "late" ELSE v.asks[i]) \in AskStates
    BY <1>0 DEF AskStates
  <2>2. QED
    BY <1>0, <1>2, <2>1
<1>4. w \in DeviceRows
  BY <1>1, <1>3 DEF DeviceRows, Sock!GivesUp, AskStates
<1>5. /\ w.up = v.up /\ w.n = v.n /\ w.gaveUp /\ w.asks = [v.asks EXCEPT ![1] = "late"]
      /\ w.pane = [v.pane EXCEPT !.asked = v.pane.asked /\ Head(v.asks) # "wanted"]
  BY DEF DeviceRows, Sock!GivesUp
<1>6. w.pane.on = v.pane.on /\ w.pane.shows = v.pane.shows
  BY <1>0, <1>5 DEF PaneRows
<1>7. DOMAIN w.asks = DOMAIN v.asks /\ \A i \in DOMAIN w.asks : w.asks[i] = "wanted" => v.asks[i] = "wanted"
  BY <1>0, <1>2, <1>5
<1>8. AsksOf(w)
  BY <1>5, <1>6, <1>7 DEF AsksOf
<1>9. QED
  BY <1>3, <1>4, <1>5, <1>6, <1>8

LEMMA RowAnswered ==
  ASSUME NEW v \in DeviceRows, AsksOf(v), v.asks # <<>>, ~v.pane.on => v.pane.shows = NoShell,
         NEW s \in Frames, NEW w, w = Sock!Answered(v, s)
  PROVE  /\ w \in DeviceRows /\ AsksOf(w) /\ w.up = v.up /\ w.n = v.n /\ w.gaveUp = v.gaveUp
         /\ ~w.pane.on => w.pane.shows = NoShell
         /\ Len(w.asks) = Len(v.asks) - 1 /\ Head(v.asks) \in AskStates
         /\ IF Head(v.asks) = "wanted" THEN w.pane.shows = s /\ v.pane.shows = NoShell
            ELSE w.pane.shows = v.pane.shows
         /\ Head(v.asks) = "late" => v.gaveUp
<1>0. /\ v.asks \in Seq(AskStates) /\ Len(v.asks) \in Nat /\ DOMAIN v.asks = 1..Len(v.asks)
      /\ v.pane \in PaneRows
  BY RowParts
<1>1. /\ Tail(v.asks) \in Seq(AskStates) /\ Len(Tail(v.asks)) = Len(v.asks) - 1
      /\ DOMAIN Tail(v.asks) = 1..(Len(v.asks) - 1) /\ Head(v.asks) = v.asks[1] /\ Len(v.asks) >= 1
      /\ \A i \in 1..(Len(v.asks) - 1) : Tail(v.asks)[i] = v.asks[i + 1]
  BY <1>0
<1>2. [v.pane EXCEPT !.shows = s, !.asked = FALSE] \in PaneRows
  BY <1>0 DEF PaneRows
<1>3. w \in DeviceRows
  <2>1. CASE Head(v.asks) = "wanted"
    BY <1>1, <1>2, <2>1 DEF DeviceRows, Sock!Answered, AskStates
  <2>2. CASE Head(v.asks) # "wanted"
    BY <1>0, <1>1, <2>2 DEF DeviceRows, Sock!Answered, AskStates
  <2>3. QED
    BY <2>1, <2>2
<1>4. /\ w.up = v.up /\ w.n = v.n /\ w.gaveUp = v.gaveUp /\ w.asks = Tail(v.asks)
      /\ w.pane = IF Head(v.asks) = "wanted" THEN [v.pane EXCEPT !.shows = s, !.asked = FALSE]
                  ELSE v.pane
  BY DEF DeviceRows, Sock!Answered
<1>5. Head(v.asks) \in AskStates /\ (Head(v.asks) = "late" => v.gaveUp)
  BY <1>0, <1>1 DEF AsksOf
<1>6. CASE Head(v.asks) = "wanted"
  <2>1. v.pane.on /\ v.pane.shows = NoShell /\ \A j \in 1..Len(v.asks) : v.asks[j] = "wanted" => j = 1
    BY <1>0, <1>1, <1>6 DEF AsksOf
  <2>2. w.pane = [v.pane EXCEPT !.shows = s, !.asked = FALSE]
    BY <1>4, <1>6
  <2>3. w.pane.on /\ w.pane.shows = s
    BY <1>0, <2>1, <2>2 DEF PaneRows
  <2>4. \A i \in DOMAIN w.asks : w.asks[i] = v.asks[i + 1] /\ i + 1 \in 1..Len(v.asks) /\ i + 1 # 1
    BY <1>0, <1>1, <1>4
  <2>5. \A i \in DOMAIN w.asks : w.asks[i] # "wanted" /\ (w.asks[i] = "late" => v.gaveUp)
    BY <1>0, <2>1, <2>4 DEF AsksOf
  <2>6. AsksOf(w)
    BY <1>4, <2>5 DEF AsksOf
  <2>7. QED
    BY <1>1, <1>3, <1>4, <1>5, <1>6, <2>1, <2>3, <2>6
<1>7. CASE Head(v.asks) # "wanted"
  <2>1. w.pane = v.pane
    BY <1>4, <1>7
  <2>2. \A i \in DOMAIN w.asks : w.asks[i] = v.asks[i + 1] /\ i + 1 \in 1..Len(v.asks) /\ i \in Nat
    BY <1>0, <1>1, <1>4
  <2>3. AsksOf(w)
    <3> SUFFICES ASSUME NEW i \in DOMAIN w.asks
                 PROVE  /\ w.asks[i] = "wanted" =>
                             /\ w.pane.on /\ w.pane.shows = NoShell
                             /\ \A j \in DOMAIN w.asks : w.asks[j] = "wanted" => j = i
                        /\ w.asks[i] = "late" => w.gaveUp
      BY DEF AsksOf
    <3>1. /\ v.asks[i + 1] = "wanted" =>
               /\ v.pane.on /\ v.pane.shows = NoShell
               /\ \A j \in DOMAIN v.asks : v.asks[j] = "wanted" => j = i + 1
          /\ v.asks[i + 1] = "late" => v.gaveUp
      BY <1>0, <2>2 DEF AsksOf
    <3>2. \A j \in DOMAIN w.asks : w.asks[j] = "wanted" => v.asks[j + 1] = "wanted" /\ j + 1 \in DOMAIN v.asks
      BY <1>0, <2>2
    <3>3. \A j \in DOMAIN w.asks : j + 1 = i + 1 => j = i
      BY <2>2
    <3>4. QED
      BY <1>4, <2>1, <2>2, <3>1, <3>2, <3>3
  <2>4. QED
    BY <1>1, <1>3, <1>4, <1>5, <1>7, <2>1, <2>3
<1>8. QED
  BY <1>6, <1>7

(* A step that changes the row of a device that keeps its socket, and sends *)
(* a frame at most.                                                         *)
SendsFrame(d) ==
  \/ x5' = x5
  \/ x3[d].up /\ \E f \in Frames : x5' = [x5 EXCEPT ![Sock!Socket(d)] = Append(@, f)]

LEMMA SendsKeeps ==
  ASSUME SocketsTyped, NEW d \in Devices, SendsFrame(d)
  PROVE  /\ x5' \in [Sock!Sockets -> Seq(Frames)]
         /\ \A j \in Sock!Sockets : j # Sock!Socket(d) \/ ~x3[d].up => x5'[j] = x5[j]
         /\ \A j \in Sock!Sockets : \A i \in DOMAIN x5[j] : i \in DOMAIN x5'[j] /\ x5'[j][i] = x5[j][i]
<1>1. DeviceAt(d)
  BY DeviceIsAt
<1>2. CASE x5' = x5
  BY <1>2 DEF SocketsTyped
<1>3. CASE x3[d].up /\ \E f \in Frames : x5' = [x5 EXCEPT ![Sock!Socket(d)] = Append(@, f)]
  <2>1. PICK f \in Frames : x5' = [x5 EXCEPT ![Sock!Socket(d)] = Append(@, f)]
    BY <1>3
  <2>2. PICK k \in Sock!Sockets : k = Sock!Socket(d)
    BY <1>1 DEF DeviceAt
  <2>3. x5' = [x5 EXCEPT ![k] = Append(@, f)]
    BY <2>1, <2>2
  <2>4. QED
    BY <1>3, <2>2, <2>3, FrameSent
<1>4. QED
  BY <1>2, <1>3 DEF SendsFrame

LEMMA RowMoves ==
  ASSUME ShellInv, NEW d \in Devices, NEW v \in DeviceRows, x3' = [x3 EXCEPT ![d] = v],
         v.up = x3[d].up, v.n = x3[d].n, ~v.pane.on => v.pane.shows = NoShell, AsksOf(v),
         x4' = x4, x7' = x7, SendsFrame(d), x6' \in [Devices -> Seq(Frames)],
         \A e \in Devices \ {d} : x6'[e] = x6[e], ~v.up => v.asks = <<>> /\ x6'[d] = <<>>,
         v.up => Len(v.asks) = Len(x6'[d]) + Opening(x5'[Sock!Socket(d)]),
         \A s \in Shells : /\ x7[s].state = "running" /\ Sock!OwnerOf(x7[s].of) = d
                           /\ x7[s].of \in x4 /\ Tied(s)
                           => Tied(s)'
  PROVE  ShellInv'
<1>1. SocketsTyped /\ DeviceFits(d) /\ DeviceAt(d)
  BY DeviceIsAt DEF ShellInv
<1>2. /\ x5' \in [Sock!Sockets -> Seq(Frames)]
      /\ \A j \in Sock!Sockets : j # Sock!Socket(d) \/ ~x3[d].up => x5'[j] = x5[j]
  BY <1>1, SendsKeeps
<1>3. x3' \in [Devices -> DeviceRows] /\ x3'[d] = v /\ \A e \in Devices \ {d} : x3'[e] = x3[e]
  BY <1>1 DEF SocketsTyped
<1>4. SocketsTyped'
  BY <1>1, <1>2, <1>3 DEF SocketsTyped
<1>5. DeviceFits(d)'
  <2>1. \A m \in 0..MaxDrops : m > v.n \/ (m = v.n /\ ~v.up) => x5'[<<d, m>>] = <<>>
    <3> SUFFICES ASSUME NEW m \in 0..MaxDrops, m > v.n \/ (m = v.n /\ ~v.up)
                 PROVE  x5'[<<d, m>>] = <<>>
      OBVIOUS
    <3>1. x5[<<d, m>>] = <<>>
      BY <1>1 DEF DeviceFits
    <3>2. <<d, m>> \in Sock!Sockets
      BY SocketIn
    <3>3. <<d, m>> # Sock!Socket(d) \/ ~x3[d].up
      BY <1>1 DEF DeviceAt
    <3>4. QED
      BY <1>2, <3>1, <3>2, <3>3
  <2>2. Sock!Socket(d) = <<d, v.n>>
    BY DEF Sock!Socket
  <2>3. AsksFit(d)'
    BY <1>3 DEF AsksFit, AsksOf
  <2>4. QED
    BY <1>3, <2>1, <2>2, <2>3 DEF DeviceFits
<1>6. \A k \in Sock!Sockets : Sock!OwnerOf(k) # d => k # Sock!Socket(d)
  BY DEF Sock!Socket, Sock!OwnerOf
<1>7. \A e \in Devices \ {d} : Untouched(e)
  BY <1>1, <1>2, <1>3, <1>6, OthersUntouched
<1>8. QED
  BY <1>4, <1>5, <1>7, DeviceMoves

(* A shell stays tied to its pane when all its device did was to send.      *)
LEMMA StaysTied ==
  ASSUME SocketsTyped, NEW d \in Devices, NEW s \in Shells, Sock!OwnerOf(x7[s].of) = d, x7' = x7,
         Tied(s), x3'[d].up = x3[d].up, x3'[d].n = x3[d].n,
         x3[d].gaveUp => x3'[d].gaveUp,
         x3[d].pane.shows = s /\ x3[d].up => Sock!OnItsWay(d, s)' \/ x3'[d].pane.shows = s,
         x3[d].up /\ Sock!OnItsWay(d, s) =>
           Sock!OnItsWay(d, s)' \/ x3'[d].pane.shows = s \/ x3'[d].gaveUp
  PROVE  Tied(s)'
<1>1. Sock!Socket(d)' = Sock!Socket(d) /\ Sock!OwnerOf(x7[s].of)' = d
  BY DEF Sock!Socket, Sock!OwnerOf
<1>2. QED
  BY <1>1 DEF Tied

LEMMA SentFitsOnItsWay ==
  ASSUME SocketsTyped, NEW d \in Devices, NEW s \in Shells, SendsFrame(d), x3'[d].n = x3[d].n,
         x6'[d] = x6[d], Sock!OnItsWay(d, s)
  PROVE  Sock!OnItsWay(d, s)'
<1>1. DeviceAt(d)
  BY DeviceIsAt
<1>2. PICK k \in Sock!Sockets : k = Sock!Socket(d)
  BY <1>1 DEF DeviceAt
<1>3. Sock!Socket(d)' = k
  BY <1>2 DEF Sock!Socket
<1>4. \A i \in DOMAIN x5[k] : i \in DOMAIN x5'[k] /\ x5'[k][i] = x5[k][i]
  BY SendsKeeps
<1>5. QED
  BY <1>2, <1>3, <1>4 DEF Sock!OnItsWay

LEMMA ShellOpenPane == ASSUME ShellInv, NEW d \in Devices, Sock!OpenPane(d) PROVE ShellInv'
<1> DEFINE w == Sock!WithPane(x3[d])
<1>0. SocketsTyped /\ DeviceFits(d) /\ DeviceAt(d)
  BY DeviceIsAt DEF ShellInv
<1>1. /\ x3[d].up /\ ~x3[d].pane.on /\ x3' = [x3 EXCEPT ![d] = w] /\ x4' = x4 /\ x6' = x6 /\ x7' = x7
      /\ x5' = [x5 EXCEPT ![Sock!Socket(d)] = Append(@, NoShell)]
  BY DEF Sock!OpenPane, Sock!Ask
<1>2. x3[d] \in DeviceRows /\ AsksOf(x3[d]) /\ x3[d].pane.shows = NoShell
  BY <1>0, <1>1 DEF DeviceFits, DeviceAt, AsksFit
<1>3. /\ w \in DeviceRows /\ AsksOf(w) /\ w.up = x3[d].up /\ w.n = x3[d].n /\ w.gaveUp = x3[d].gaveUp
      /\ w.pane.on /\ w.pane.shows = NoShell /\ Len(w.asks) = Len(x3[d].asks) + 1
  BY <1>1, <1>2, RowOpens
<1>4. SendsFrame(d)
  BY <1>1 DEF SendsFrame, Frames
<1>5. Opening(x5'[Sock!Socket(d)]) = Opening(x5[Sock!Socket(d)]) + 1
  <2>1. PICK k \in Sock!Sockets : k = Sock!Socket(d)
    BY <1>0 DEF DeviceAt
  <2>2. x5' = [x5 EXCEPT ![k] = Append(@, NoShell)] /\ NoShell \in Frames
    BY <1>1, <2>1 DEF Frames
  <2>3. Opening(x5'[k]) = Opening(x5[k]) + 1
    BY <1>0, <2>2, FrameSent
  <2>4. QED
    BY <2>1, <2>3
<1>6. Len(w.asks) = Len(x6'[d]) + Opening(x5'[Sock!Socket(d)])
  <2>1. Len(x3[d].asks) = Len(x6[d]) + Opening(x5[Sock!Socket(d)])
    BY <1>0, <1>1 DEF DeviceFits, DeviceAt
  <2>2. Len(x6[d]) \in Nat /\ Opening(x5[Sock!Socket(d)]) \in Nat
    BY <1>0 DEF DeviceAt
  <2>3. Len(x6'[d]) = Len(x6[d])
    BY <1>1
  <2> HIDE DEF w
  <2>4. QED
    BY <1>3, <1>5, <2>1, <2>2, <2>3
<1>7. x3'[d] = w
  BY <1>0, <1>1 DEF SocketsTyped
<1> HIDE DEF w
<1>8. ASSUME NEW s \in Shells, Sock!OwnerOf(x7[s].of) = d, Tied(s) PROVE Tied(s)'
  <2>1. x3[d].pane.shows # s
    BY <1>2, SocketBounds
  <2>2. Sock!OnItsWay(d, s) => Sock!OnItsWay(d, s)'
    BY <1>0, <1>1, <1>3, <1>4, <1>7, SentFitsOnItsWay
  <2>3. QED
    BY <1>0, <1>1, <1>3, <1>7, <1>8, <2>1, <2>2, StaysTied
<1>9. x6' \in [Devices -> Seq(Frames)]
  BY <1>0, <1>1 DEF SocketsTyped
<1>10. QED
  BY <1>1, <1>3, <1>4, <1>6, <1>8, <1>9, RowMoves

LEMMA ShellClosePane == ASSUME ShellInv, NEW d \in Devices, Sock!ClosePane(d) PROVE ShellInv'
<1> DEFINE w == Sock!WithoutPane(x3[d])
           p == x3[d].pane
<1>0. SocketsTyped /\ DeviceFits(d) /\ DeviceAt(d)
  BY DeviceIsAt DEF ShellInv
<1>1. /\ x3' = [x3 EXCEPT ![d] = w] /\ x4' = x4 /\ x6' = x6 /\ x7' = x7
      /\ IF p.shows # NoShell /\ x3[d].up
         THEN x5' = [x5 EXCEPT ![Sock!Socket(d)] = Append(@, p.shows)] ELSE x5' = x5
  BY DEF Sock!ClosePane, Sock!Ask
<1>2. x3[d] \in DeviceRows /\ AsksOf(x3[d]) /\ p.shows \in Frames
  BY <1>0, RowParts DEF DeviceFits, DeviceAt, AsksFit
<1>3. /\ w \in DeviceRows /\ AsksOf(w) /\ w.up = x3[d].up /\ w.n = x3[d].n /\ w.gaveUp = x3[d].gaveUp
      /\ ~w.pane.on /\ w.pane.shows = NoShell /\ Len(w.asks) = Len(x3[d].asks)
  BY <1>2, RowCloses
<1>4. SendsFrame(d)
  BY <1>1, <1>2 DEF SendsFrame
<1>5. PICK k \in Sock!Sockets : k = Sock!Socket(d)
  BY <1>0 DEF DeviceAt
<1>6. Opening(x5'[k]) = Opening(x5[k])
  <2>1. CASE p.shows # NoShell /\ x3[d].up
    <3>1. x5' = [x5 EXCEPT ![k] = Append(@, p.shows)]
      BY <1>1, <1>5, <2>1
    <3>2. Opening(x5'[k]) = Opening(x5[k]) + 0
      BY <1>0, <1>2, <2>1, <3>1, FrameSent
    <3>3. QED
      BY <1>0, <1>5, <3>2 DEF DeviceAt
  <2>2. CASE ~(p.shows # NoShell /\ x3[d].up)
    BY <1>1, <2>2
  <2>3. QED
    BY <2>1, <2>2
<1>7. x3'[d] = w /\ Sock!Socket(d)' = k
  BY <1>0, <1>1, <1>3, <1>5 DEF SocketsTyped, Sock!Socket
<1>8. /\ ~w.up => w.asks = <<>> /\ x6'[d] = <<>>
      /\ w.up => Len(w.asks) = Len(x6'[d]) + Opening(x5'[Sock!Socket(d)])
  <2>1. ~x3[d].up => x3[d].asks = <<>> /\ x6[d] = <<>>
    BY <1>0 DEF DeviceFits
  <2>2. x3[d].up => Len(x3[d].asks) = Len(x6[d]) + Opening(x5[Sock!Socket(d)])
    BY <1>0 DEF DeviceFits, DeviceAt
  <2>3. x3[d].asks = <<>> => w.asks = <<>>
    <3>1. w.asks \in Seq(AskStates) /\ x3[d].asks \in Seq(AskStates)
      BY <1>2, <1>3, RowParts
    <3>2. QED
      BY <1>3, <3>1
  <2>4. QED
    BY <1>1, <1>3, <1>5, <1>6, <2>1, <2>2, <2>3
<1>9. ASSUME NEW s \in Shells, Sock!OwnerOf(x7[s].of) = d, Tied(s) PROVE Tied(s)'
  <2>1. x3[d].pane.shows = s /\ x3[d].up => Sock!OnItsWay(d, s)'
    <3> SUFFICES ASSUME p.shows = s, x3[d].up PROVE Sock!OnItsWay(d, s)'
      OBVIOUS
    <3>1. x5' = [x5 EXCEPT ![k] = Append(@, s)] /\ s \in Frames
      BY <1>1, <1>5, SocketBounds DEF Frames
    <3>2. x5[k] \in Seq(Frames) /\ x5'[k] = Append(x5[k], s)
      BY <1>0, <3>1 DEF SocketsTyped
    <3>3. Len(x5[k]) + 1 \in DOMAIN x5'[k] /\ x5'[k][Len(x5[k]) + 1] = s
      BY <3>1, <3>2
    <3>4. QED
      BY <1>7, <3>3 DEF Sock!OnItsWay
  <2>2. Sock!OnItsWay(d, s) => Sock!OnItsWay(d, s)'
    BY <1>0, <1>1, <1>3, <1>4, <1>7, SentFitsOnItsWay
  <2> HIDE DEF w, p
  <2>3. QED
    BY <1>0, <1>1, <1>3, <1>7, <1>9, <2>1, <2>2, StaysTied
<1>10. x6' \in [Devices -> Seq(Frames)]
  BY <1>0, <1>1 DEF SocketsTyped
<1> HIDE DEF w, p
<1>11. QED
  BY <1>1, <1>3, <1>4, <1>8, <1>9, <1>10, RowMoves

LEMMA ShellTimesOut == ASSUME ShellInv, NEW d \in Devices, Sock!TimesOut(d) PROVE ShellInv'
<1> DEFINE w == Sock!GivesUp(x3[d])
<1>0. SocketsTyped /\ DeviceFits(d) /\ DeviceAt(d)
  BY DeviceIsAt DEF ShellInv
<1>1. /\ x3[d].asks # <<>> /\ x3' = [x3 EXCEPT ![d] = w]
      /\ x4' = x4 /\ x5' = x5 /\ x6' = x6 /\ x7' = x7
  BY DEF Sock!TimesOut
<1>2. x3[d] \in DeviceRows /\ AsksOf(x3[d]) /\ x3[d].up
  BY <1>0, <1>1 DEF DeviceFits, DeviceAt, AsksFit
<1>3. /\ w \in DeviceRows /\ AsksOf(w) /\ w.up = x3[d].up /\ w.n = x3[d].n /\ w.gaveUp
      /\ w.pane.on = x3[d].pane.on /\ w.pane.shows = x3[d].pane.shows
      /\ Len(w.asks) = Len(x3[d].asks)
  BY <1>1, <1>2, RowGivesUp
<1>4. SendsFrame(d)
  BY <1>1 DEF SendsFrame
<1>5. x3'[d] = w
  BY <1>0, <1>1 DEF SocketsTyped
<1>6. w.up => Len(w.asks) = Len(x6'[d]) + Opening(x5'[Sock!Socket(d)])
  BY <1>0, <1>1, <1>2, <1>3 DEF DeviceFits, DeviceAt
<1>7. ~w.pane.on => w.pane.shows = NoShell
  BY <1>0, <1>3 DEF DeviceFits
<1>8. x6' \in [Devices -> Seq(Frames)]
  BY <1>0, <1>1 DEF SocketsTyped
<1> HIDE DEF w
<1>9. ASSUME NEW s \in Shells, Sock!OwnerOf(x7[s].of) = d PROVE Tied(s)'
  BY <1>1, <1>3, <1>5, <1>9 DEF Tied, Sock!OwnerOf
<1>10. QED
  BY <1>1, <1>2, <1>3, <1>4, <1>6, <1>7, <1>8, <1>9, RowMoves

LEMMA ShellOnOpened == ASSUME ShellInv, NEW d \in Devices, Sock!OnOpened(d) PROVE ShellInv'
<1>0. SocketsTyped /\ DeviceFits(d) /\ DeviceAt(d)
  BY DeviceIsAt DEF ShellInv
<1>1. x6[d] # <<>> /\ x6[d] \in Seq(Frames)
  BY <1>0 DEF Sock!OnOpened, DeviceAt
<1>2. PICK s0 \in Frames : s0 = Head(x6[d])
  BY <1>1
<1>3. PICK k \in Sock!Sockets : k = Sock!Socket(d)
  BY <1>0 DEF DeviceAt
<1>4. PICK w : w = Sock!Answered(x3[d], s0)
  OBVIOUS
<1>5. /\ x3' = [x3 EXCEPT ![d] = w] /\ x6' = [x6 EXCEPT ![d] = Tail(@)] /\ x4' = x4 /\ x7' = x7
      /\ IF Head(x3[d].asks) = "disposed" /\ s0 # NoShell
         THEN x5' = [x5 EXCEPT ![k] = Append(@, s0)] ELSE x5' = x5
  BY <1>2, <1>3, <1>4 DEF Sock!OnOpened, Sock!Ask
<1>6. /\ x3[d] \in DeviceRows /\ AsksOf(x3[d]) /\ x3[d].up /\ (~x3[d].pane.on => x3[d].pane.shows = NoShell)
      /\ Len(x3[d].asks) = Len(x6[d]) + Opening(x5[k]) /\ Opening(x5[k]) \in Nat
  BY <1>0, <1>1, <1>3 DEF DeviceFits, DeviceAt, AsksFit
<1>7. Len(x6[d]) \in Nat /\ Len(x6[d]) >= 1 /\ Len(Tail(x6[d])) = Len(x6[d]) - 1 /\ Tail(x6[d]) \in Seq(Frames)
  BY <1>1
<1>8. x3[d].asks # <<>> /\ Len(x3[d].asks) \in Nat
  <2>1. Len(x3[d].asks) >= 1
    BY <1>6, <1>7
  <2>2. QED
    BY <1>6, <2>1, RowParts
<1>9. /\ w \in DeviceRows /\ AsksOf(w) /\ w.up = x3[d].up /\ w.n = x3[d].n /\ w.gaveUp = x3[d].gaveUp
      /\ ~w.pane.on => w.pane.shows = NoShell
      /\ Len(w.asks) = Len(x3[d].asks) - 1 /\ Head(x3[d].asks) \in AskStates
      /\ IF Head(x3[d].asks) = "wanted" THEN w.pane.shows = s0 /\ x3[d].pane.shows = NoShell
         ELSE w.pane.shows = x3[d].pane.shows
      /\ Head(x3[d].asks) = "late" => x3[d].gaveUp
  <2>1. PICK v \in DeviceRows : v = x3[d]
    BY <1>6
  <2>2. AsksOf(v) /\ v.asks # <<>> /\ (~v.pane.on => v.pane.shows = NoShell) /\ w = Sock!Answered(v, s0)
    BY <1>4, <1>6, <1>8, <2>1
  <2>3. /\ w \in DeviceRows /\ AsksOf(w) /\ w.up = v.up /\ w.n = v.n /\ w.gaveUp = v.gaveUp
        /\ ~w.pane.on => w.pane.shows = NoShell
        /\ Len(w.asks) = Len(v.asks) - 1 /\ Head(v.asks) \in AskStates
        /\ IF Head(v.asks) = "wanted" THEN w.pane.shows = s0 /\ v.pane.shows = NoShell
           ELSE w.pane.shows = v.pane.shows
        /\ Head(v.asks) = "late" => v.gaveUp
    BY <2>2, RowAnswered
  <2>4. QED
    BY <2>1, <2>3
<1>10. SendsFrame(d)
  BY <1>3, <1>5, <1>6 DEF SendsFrame
<1>11. Opening(x5'[k]) = Opening(x5[k])
  <2>1. CASE Head(x3[d].asks) = "disposed" /\ s0 # NoShell
    <3>1. x5' = [x5 EXCEPT ![k] = Append(@, s0)]
      BY <1>5, <2>1
    <3>2. Opening(x5'[k]) = Opening(x5[k]) + 0
      BY <1>0, <2>1, <3>1, FrameSent
    <3>3. QED
      BY <1>6, <3>2
  <2>2. CASE ~(Head(x3[d].asks) = "disposed" /\ s0 # NoShell)
    BY <1>5, <2>2
  <2>3. QED
    BY <2>1, <2>2
<1>12. /\ x6' \in [Devices -> Seq(Frames)] /\ x6'[d] = Tail(x6[d])
       /\ \A e \in Devices \ {d} : x6'[e] = x6[e]
  BY <1>0, <1>5, <1>7 DEF SocketsTyped
<1>13. x3'[d] = w /\ Sock!Socket(d)' = k
  BY <1>0, <1>3, <1>5, <1>9 DEF SocketsTyped, Sock!Socket
<1>14. Len(w.asks) = Len(x6'[d]) + Opening(x5'[Sock!Socket(d)])
  <2>1. Opening(x5'[Sock!Socket(d)]) = Opening(x5[k]) /\ Len(x6'[d]) = Len(x6[d]) - 1
    BY <1>3, <1>7, <1>11, <1>12
  <2>2. QED
    BY <1>6, <1>7, <1>9, <2>1
<1>15. ASSUME NEW s \in Shells, Sock!OwnerOf(x7[s].of) = d, Tied(s) PROVE Tied(s)'
  <2>1. s # NoShell
    BY SocketBounds
  <2>2. x3[d].pane.shows = s => x3'[d].pane.shows = s
    BY <1>9, <1>13, <2>1
  <2>3. (\E i \in DOMAIN x5[k] : x5[k][i] = s) => Sock!OnItsWay(d, s)'
    <3>1. \A i \in DOMAIN x5[k] : i \in DOMAIN x5'[k] /\ x5'[k][i] = x5[k][i]
      BY <1>0, <1>10, SendsKeeps
    <3>2. QED
      BY <1>13, <3>1 DEF Sock!OnItsWay
  <2>4. ASSUME NEW i \in DOMAIN x6[d], x6[d][i] = s
        PROVE  Sock!OnItsWay(d, s)' \/ x3'[d].pane.shows = s \/ x3'[d].gaveUp
    <3>1. /\ i \in 1..Len(x6[d]) /\ Head(x6[d]) = x6[d][1]
          /\ DOMAIN Tail(x6[d]) = 1..(Len(x6[d]) - 1)
          /\ \A j \in 1..(Len(x6[d]) - 1) : Tail(x6[d])[j] = x6[d][j + 1]
      BY <1>1
    <3>2. CASE i = 1
      <4>1. s = s0
        BY <1>2, <2>4, <3>1, <3>2
      <4>2. CASE Head(x3[d].asks) = "disposed"
        <5>1. x5' = [x5 EXCEPT ![k] = Append(@, s)] /\ s \in Frames
          BY <1>5, <2>1, <4>1, <4>2 DEF Frames
        <5>2. x5[k] \in Seq(Frames) /\ x5'[k] = Append(x5[k], s)
          BY <1>0, <5>1 DEF SocketsTyped
        <5>3. Len(x5[k]) + 1 \in DOMAIN x5'[k] /\ x5'[k][Len(x5[k]) + 1] = s
          BY <5>1, <5>2
        <5>4. QED
          BY <1>13, <5>3 DEF Sock!OnItsWay
      <4>3. CASE Head(x3[d].asks) # "disposed"
        BY <1>9, <1>13, <4>1, <4>3 DEF AskStates
      <4>4. QED
        BY <4>2, <4>3
    <3>3. CASE i # 1
      <4>1. i - 1 \in 1..(Len(x6[d]) - 1) /\ (i - 1) + 1 = i
        BY <1>7, <3>1, <3>3
      <4>2. i - 1 \in DOMAIN x6'[d] /\ x6'[d][i - 1] = s
        BY <1>12, <2>4, <3>1, <4>1
      <4>3. QED
        BY <4>2 DEF Sock!OnItsWay
    <3>4. QED
      BY <3>2, <3>3
  <2>5. Sock!OnItsWay(d, s) => Sock!OnItsWay(d, s)' \/ x3'[d].pane.shows = s \/ x3'[d].gaveUp
    BY <1>3, <2>3, <2>4 DEF Sock!OnItsWay
  <2>6. QED
    BY <1>0, <1>5, <1>9, <1>13, <1>15, <2>2, <2>5, StaysTied
<1>16. QED
  BY <1>3, <1>5, <1>6, <1>9, <1>10, <1>12, <1>14, <1>15, RowMoves

(* The daemon takes the first frame of a socket.                            *)
LEMMA FrameTaken ==
  ASSUME SocketsTyped, NEW k \in Sock!Sockets, x5[k] # <<>>, x5' = [x5 EXCEPT ![k] = Tail(@)]
  PROVE  /\ x5' \in [Sock!Sockets -> Seq(Frames)] /\ Head(x5[k]) \in Frames
         /\ \A j \in Sock!Sockets : j # k => x5'[j] = x5[j]
         /\ Opening(x5[k]) = Opening(x5'[k]) + (IF Head(x5[k]) = NoShell THEN 1 ELSE 0)
         /\ Opening(x5[k]) \in Nat /\ Opening(x5'[k]) \in Nat
         /\ \A i \in DOMAIN x5[k] :
              x5[k][i] = Head(x5[k]) \/ \E j \in DOMAIN x5'[k] : x5'[k][j] = x5[k][i]
<1>1. x5[k] \in Seq(Frames) /\ x5'[k] = Tail(x5[k]) /\ \A j \in Sock!Sockets : j # k => x5'[j] = x5[j]
  BY DEF SocketsTyped
<1>2. Tail(x5[k]) \in Seq(Frames) /\ Head(x5[k]) \in Frames
  BY <1>1
<1>3. x5' \in [Sock!Sockets -> Seq(Frames)]
  BY <1>2 DEF SocketsTyped
<1>4. Opening(x5[k]) = Opening(x5'[k]) + (IF Head(x5[k]) = NoShell THEN 1 ELSE 0)
  BY <1>1, OpeningTail
<1>5. Opening(x5[k]) \in Nat /\ Opening(x5'[k]) \in Nat
  BY <1>1, <1>2, OpensFinite
<1>6. ASSUME NEW i \in DOMAIN x5[k]
      PROVE  x5[k][i] = Head(x5[k]) \/ \E j \in DOMAIN x5'[k] : x5'[k][j] = x5[k][i]
  <2>1. /\ i \in 1..Len(x5[k]) /\ Head(x5[k]) = x5[k][1] /\ Len(x5[k]) \in Nat
        /\ DOMAIN Tail(x5[k]) = 1..(Len(x5[k]) - 1)
        /\ \A j \in 1..(Len(x5[k]) - 1) : Tail(x5[k])[j] = x5[k][j + 1]
    BY <1>1
  <2>2. CASE i # 1
    <3>1. i - 1 \in 1..(Len(x5[k]) - 1) /\ (i - 1) + 1 = i
      BY <2>1, <2>2
    <3>2. i - 1 \in DOMAIN x5'[k] /\ x5'[k][i - 1] = x5[k][i]
      BY <1>1, <2>1, <3>1
    <3>3. QED
      BY <3>2
  <2>3. QED
    BY <2>1, <2>2
<1>7. QED
  BY <1>1, <1>2, <1>3, <1>4, <1>5, <1>6

LEMMA FrameFits ==
  ASSUME ShellInv, NEW k \in Sock!Sockets, x5[k] # <<>>, x5' = [x5 EXCEPT ![k] = Tail(@)], x3' = x3,
         x6' \in [Devices -> Seq(Frames)],
         \A e \in Devices : e # Sock!OwnerOf(k) => x6'[e] = x6[e],
         IF x3[Sock!OwnerOf(k)].up /\ Sock!Socket(Sock!OwnerOf(k)) = k
         THEN Len(x6'[Sock!OwnerOf(k)])
                = Len(x6[Sock!OwnerOf(k)]) + (IF Head(x5[k]) = NoShell THEN 1 ELSE 0)
         ELSE x6' = x6
  PROVE  \A e \in Devices : DeviceFits(e)'
<1>0. SocketsTyped
  BY DEF ShellInv
<1>1. PICK d \in Devices : d = Sock!OwnerOf(k)
  BY SocketIn
<1>2. /\ \A j \in Sock!Sockets : j # k => x5'[j] = x5[j]
      /\ Opening(x5[k]) = Opening(x5'[k]) + (IF Head(x5[k]) = NoShell THEN 1 ELSE 0)
      /\ Opening(x5[k]) \in Nat /\ Opening(x5'[k]) \in Nat
  BY <1>0, FrameTaken
<1>3. ASSUME NEW e \in Devices, e # d PROVE DeviceFits(e)'
  <2>1. \A m \in 0..MaxDrops : <<e, m>> \in Sock!Sockets /\ <<e, m>> # k
    BY <1>1, <1>3, SocketIn
  <2>2. Untouched(e)
    BY <1>1, <1>2, <1>3, <2>1 DEF Untouched
  <2>3. QED
    BY <1>0, <2>2, FitsElsewhere DEF ShellInv
<1>4. DeviceFits(d)'
  <2>0. DeviceFits(d) /\ DeviceAt(d)
    BY <1>0, DeviceIsAt DEF ShellInv
  <2>1. \A m \in 0..MaxDrops : x5[<<d, m>>] = <<>> => x5'[<<d, m>>] = <<>>
    BY <1>2, SocketIn
  <2>2. ~x3[d].up => x6'[d] = x6[d]
    BY <1>1
  <2>3. AsksFit(d)'
    BY <2>0 DEF DeviceFits, AsksFit, AsksOf
  <2>4. x3[d].up => Len(x3[d].asks) = Len(x6'[d]) + Opening(x5'[<<d, x3[d].n>>])
    <3> SUFFICES ASSUME x3[d].up PROVE Len(x3[d].asks) = Len(x6'[d]) + Opening(x5'[<<d, x3[d].n>>])
      OBVIOUS
    <3>1. /\ Len(x3[d].asks) = Len(x6[d]) + Opening(x5[Sock!Socket(d)])
          /\ Sock!Socket(d) = <<d, x3[d].n>> /\ Sock!Socket(d) \in Sock!Sockets /\ Len(x6[d]) \in Nat
      BY <2>0 DEF DeviceFits, DeviceAt
    <3>2. CASE Sock!Socket(d) = k
      <4>1. Len(x6'[d]) = Len(x6[d]) + (IF Head(x5[k]) = NoShell THEN 1 ELSE 0)
        BY <1>1, <3>2
      <4>2. Len(x3[d].asks) = Len(x6[d]) + Opening(x5[k])
        BY <3>1, <3>2
      <4>3. Len(x3[d].asks) = Len(x6'[d]) + Opening(x5'[k])
        <5>1. CASE Head(x5[k]) = NoShell
          <6>1. Len(x6'[d]) = Len(x6[d]) + 1 /\ Opening(x5[k]) = Opening(x5'[k]) + 1
            BY <1>2, <4>1, <5>1
          <6>2. PICK a \in Nat, b \in Nat : a = Len(x6[d]) /\ b = Opening(x5'[k])
            BY <1>2, <3>1
          <6>3. Len(x3[d].asks) = a + (b + 1) /\ Len(x6'[d]) + Opening(x5'[k]) = (a + 1) + b
            BY <4>2, <6>1, <6>2
          <6>4. a + (b + 1) = (a + 1) + b
            OBVIOUS
          <6>5. QED
            BY <6>3, <6>4
        <5>2. CASE Head(x5[k]) # NoShell
          <6>1. Len(x6'[d]) = Len(x6[d]) + 0 /\ Opening(x5[k]) = Opening(x5'[k]) + 0
            BY <1>2, <4>1, <5>2
          <6>2. QED
            BY <1>2, <3>1, <4>2, <6>1
        <5>3. QED
          BY <5>1, <5>2
      <4>4. QED
        BY <3>1, <3>2, <4>3
    <3>3. CASE Sock!Socket(d) # k
      BY <1>1, <1>2, <3>1, <3>3
    <3>4. QED
      BY <3>2, <3>3
  <2>5. QED
    BY <2>0, <2>1, <2>2, <2>3, <2>4 DEF DeviceFits
<1>5. QED
  BY <1>3, <1>4

LEMMA FrameTied ==
  ASSUME SocketsTyped, NEW k \in Sock!Sockets, x5[k] # <<>>, x5' = [x5 EXCEPT ![k] = Tail(@)], x3' = x3,
         NEW s \in Shells, Tied(s), x7'[s].of = x7[s].of, Head(x5[k]) # s \/ x7[s].of # k,
         \A e \in Devices : \A i \in DOMAIN x6[e] : i \in DOMAIN x6'[e] /\ x6'[e][i] = x6[e][i]
  PROVE  Tied(s)'
<1>1. PICK j \in Sock!Sockets : j = x7[s].of
  BY DEF SocketsTyped
<1>2. PICK e \in Devices : e = Sock!OwnerOf(j)
  BY SocketIn
<1>3. Sock!Socket(e)' = Sock!Socket(e) /\ Sock!OwnerOf(x7[s].of)' = e
  BY <1>1, <1>2 DEF Sock!Socket, Sock!OwnerOf
<1>4. /\ \A q \in Sock!Sockets : q # k => x5'[q] = x5[q]
      /\ \A i \in DOMAIN x5[k] : x5[k][i] = Head(x5[k]) \/ \E q \in DOMAIN x5'[k] : x5'[k][q] = x5[k][i]
  BY FrameTaken
<1>5. Sock!Socket(e) = j => (Sock!OnItsWay(e, s) => Sock!OnItsWay(e, s)')
  <2> SUFFICES ASSUME Sock!Socket(e) = j, Sock!OnItsWay(e, s) PROVE Sock!OnItsWay(e, s)'
    OBVIOUS
  <2>1. CASE \E i \in DOMAIN x6[e] : x6[e][i] = s
    BY <2>1 DEF Sock!OnItsWay
  <2>2. CASE \E i \in DOMAIN x5[j] : x5[j][i] = s
    <3>1. \E i \in DOMAIN x5'[j] : x5'[j][i] = s
      <4>1. CASE j # k
        BY <1>4, <2>2, <4>1
      <4>2. CASE j = k
        BY <1>1, <1>4, <2>2, <4>2
      <4>3. QED
        BY <4>1, <4>2
    <3>2. Sock!Socket(e)' = j
      BY <1>3
    <3>3. QED
      BY <3>1, <3>2 DEF Sock!OnItsWay
  <2>3. QED
    BY <2>1, <2>2 DEF Sock!OnItsWay
<1>6. QED
  BY <1>1, <1>2, <1>3, <1>5 DEF Tied

LEMMA Replied ==
  ASSUME SocketsTyped, NEW k \in Sock!Sockets, NEW f \in Frames, Sock!Reply(k, f)
  PROVE  /\ x6' \in [Devices -> Seq(Frames)]
         /\ \A e \in Devices : e # Sock!OwnerOf(k) => x6'[e] = x6[e]
         /\ IF x3[Sock!OwnerOf(k)].up /\ Sock!Socket(Sock!OwnerOf(k)) = k
            THEN /\ Len(x6'[Sock!OwnerOf(k)]) = Len(x6[Sock!OwnerOf(k)]) + 1
                 /\ \E i \in DOMAIN x6'[Sock!OwnerOf(k)] : x6'[Sock!OwnerOf(k)][i] = f
            ELSE x6' = x6
         /\ \A e \in Devices : \A i \in DOMAIN x6[e] : i \in DOMAIN x6'[e] /\ x6'[e][i] = x6[e][i]
<1>1. PICK d \in Devices : d = Sock!OwnerOf(k)
  BY SocketIn
<1>2. x6[d] \in Seq(Frames)
  BY DEF SocketsTyped
<1>3. CASE x3[d].up /\ Sock!Socket(d) = k
  <2>1. x6' = [x6 EXCEPT ![d] = Append(@, f)]
    BY <1>1, <1>3 DEF Sock!Reply
  <2>2. Append(x6[d], f) \in Seq(Frames)
    BY <1>2
  <2>3. /\ x6' \in [Devices -> Seq(Frames)] /\ x6'[d] = Append(x6[d], f)
        /\ \A e \in Devices : e # d => x6'[e] = x6[e]
    BY <2>1, <2>2 DEF SocketsTyped
  <2>4. /\ Len(x6'[d]) = Len(x6[d]) + 1 /\ Len(x6[d]) + 1 \in DOMAIN x6'[d]
        /\ x6'[d][Len(x6[d]) + 1] = f
        /\ \A i \in DOMAIN x6[d] : i \in DOMAIN x6'[d] /\ x6'[d][i] = x6[d][i]
    BY <1>2, <2>3
  <2>5. QED
    BY <1>1, <1>3, <2>3, <2>4
<1>4. CASE ~(x3[d].up /\ Sock!Socket(d) = k)
  <2>1. x6' = x6
    BY <1>1, <1>4 DEF Sock!Reply
  <2>2. QED
    BY <1>1, <1>4, <2>1 DEF SocketsTyped
<1>5. QED
  BY <1>3, <1>4

LEMMA ShellOnFrame == ASSUME ShellInv, NEW k \in Sock!Sockets, Sock!OnFrame(k) PROVE ShellInv'
<1>0. SocketsTyped
  BY DEF ShellInv
<1>1. /\ k \in x4 /\ x5[k] # <<>> /\ x5' = [x5 EXCEPT ![k] = Tail(@)] /\ x3' = x3 /\ x4' = x4
      /\ IF Head(x5[k]) = NoShell THEN Sock!OpenTerminal(k) ELSE Sock!CloseTerminal(k, Head(x5[k]))
  BY DEF Sock!OnFrame
<1>2. x5' \in [Sock!Sockets -> Seq(Frames)] /\ Head(x5[k]) \in Frames
  BY <1>0, <1>1, FrameTaken
<1>3. PICK d \in Devices : d = Sock!OwnerOf(k)
  BY SocketIn
<1>4. ASSUME NEW f \in Frames, Head(x5[k]) = NoShell, Sock!Reply(k, f)
      PROVE  /\ x6' \in [Devices -> Seq(Frames)] /\ \A e \in Devices : DeviceFits(e)'
             /\ \A e \in Devices : \A i \in DOMAIN x6[e] : i \in DOMAIN x6'[e] /\ x6'[e][i] = x6[e][i]
             /\ x3[d].up /\ Sock!Socket(d) = k => \E i \in DOMAIN x6'[d] : x6'[d][i] = f
  <2>1. /\ x6' \in [Devices -> Seq(Frames)]
        /\ \A e \in Devices : e # Sock!OwnerOf(k) => x6'[e] = x6[e]
        /\ IF x3[Sock!OwnerOf(k)].up /\ Sock!Socket(Sock!OwnerOf(k)) = k
           THEN /\ Len(x6'[Sock!OwnerOf(k)]) = Len(x6[Sock!OwnerOf(k)]) + 1
                /\ \E i \in DOMAIN x6'[Sock!OwnerOf(k)] : x6'[Sock!OwnerOf(k)][i] = f
           ELSE x6' = x6
        /\ \A e \in Devices : \A i \in DOMAIN x6[e] : i \in DOMAIN x6'[e] /\ x6'[e][i] = x6[e][i]
    BY <1>0, <1>4, Replied
  <2>2. IF x3[Sock!OwnerOf(k)].up /\ Sock!Socket(Sock!OwnerOf(k)) = k
        THEN Len(x6'[Sock!OwnerOf(k)])
               = Len(x6[Sock!OwnerOf(k)]) + (IF Head(x5[k]) = NoShell THEN 1 ELSE 0)
        ELSE x6' = x6
    BY <1>4, <2>1
  <2>3. \A e \in Devices : DeviceFits(e)'
    BY <1>1, <2>1, <2>2, FrameFits
  <2>4. QED
    BY <1>3, <2>1, <2>3
<1>5. CASE Head(x5[k]) = NoShell /\ \E s \in Shells :
             /\ x7[s].state = "none" /\ Sock!Reply(k, s)
             /\ x7' = [x7 EXCEPT ![s] = [state |-> "running", of |-> k, owned |-> TRUE]]
  <2>1. PICK s \in Shells :
             /\ x7[s].state = "none" /\ Sock!Reply(k, s)
             /\ x7' = [x7 EXCEPT ![s] = [state |-> "running", of |-> k, owned |-> TRUE]]
    BY <1>5
  <2>2. /\ x6' \in [Devices -> Seq(Frames)] /\ \A e \in Devices : DeviceFits(e)'
        /\ \A e \in Devices : \A i \in DOMAIN x6[e] : i \in DOMAIN x6'[e] /\ x6'[e][i] = x6[e][i]
        /\ x3[d].up /\ Sock!Socket(d) = k => \E i \in DOMAIN x6'[d] : x6'[d][i] = s
    BY <1>4, <1>5, <2>1 DEF Frames
  <2>3. /\ x7'[s] = [state |-> "running", of |-> k, owned |-> TRUE]
        /\ \A r \in Shells : r # s => x7'[r] = x7[r]
        /\ x7' \in [Shells -> [state : {"none", "running", "dying", "dead"}, of : Sock!Sockets,
                               owned : BOOLEAN]]
    BY <1>0, <2>1 DEF SocketsTyped
  <2>4. ShellFits(s)'
    <3>1. Sock!Socket(d)' = Sock!Socket(d) /\ Sock!OwnerOf(x7'[s].of) = d
      BY <1>1, <1>3, <2>3 DEF Sock!Socket
    <3>2. x3[d].up /\ Sock!Socket(d) = k => Sock!OnItsWay(d, s)'
      BY <2>2 DEF Sock!OnItsWay
    <3>3. Tied(s)'
      BY <1>1, <2>3, <3>1, <3>2 DEF Tied, Sock!OwnerOf
    <3>4. QED
      BY <1>1, <2>3, <3>3 DEF ShellFits
  <2>5. ASSUME NEW r \in Shells, r # s, x7'[r].state = "running" PROVE ShellFits(r)'
    <3>1. x7'[r] = x7[r] /\ x7[r].of \in x4 /\ x7[r].owned /\ Tied(r)
      BY <2>3, <2>5 DEF ShellInv, ShellFits
    <3>2. Head(x5[k]) # r
      BY <1>5, SocketBounds
    <3>3. Tied(r)'
      BY <1>0, <1>1, <2>2, <3>1, <3>2, FrameTied
    <3>4. QED
      BY <1>1, <3>1, <3>3 DEF ShellFits
  <2>6. SocketsTyped'
    BY <1>0, <1>1, <1>2, <2>2, <2>3 DEF SocketsTyped
  <2>7. QED
    BY <2>2, <2>4, <2>5, <2>6 DEF ShellInv, ShellFits
<1>6. CASE Head(x5[k]) = NoShell /\ Sock!Reply(k, NoShell) /\ x7' = x7
  <2>1. /\ x6' \in [Devices -> Seq(Frames)] /\ \A e \in Devices : DeviceFits(e)'
        /\ \A e \in Devices : \A i \in DOMAIN x6[e] : i \in DOMAIN x6'[e] /\ x6'[e][i] = x6[e][i]
    BY <1>4, <1>6 DEF Frames
  <2>2. ASSUME NEW r \in Shells, x7'[r].state = "running" PROVE ShellFits(r)'
    <3>1. x7'[r] = x7[r] /\ x7[r].of \in x4 /\ x7[r].owned /\ Tied(r)
      BY <1>6, <2>2 DEF ShellInv, ShellFits
    <3>2. Head(x5[k]) # r
      BY <1>6, SocketBounds
    <3>3. Tied(r)'
      BY <1>0, <1>1, <2>1, <3>1, <3>2, FrameTied
    <3>4. QED
      BY <1>1, <3>1, <3>3 DEF ShellFits
  <2>3. SocketsTyped'
    BY <1>0, <1>1, <1>2, <1>6, <2>1 DEF SocketsTyped
  <2>4. QED
    BY <2>1, <2>2, <2>3 DEF ShellInv, ShellFits
<1>7. CASE Head(x5[k]) # NoShell /\ Sock!CloseTerminal(k, Head(x5[k]))
  <2>1. PICK h \in Shells : h = Head(x5[k])
    BY <1>2, <1>7 DEF Frames
  <2>2. /\ x6' = x6
        /\ x7' = IF h \notin Sock!ShellsOf(k) THEN x7
                 ELSE [x7 EXCEPT ![h].owned = FALSE,
                                 ![h].state = IF @ = "running" THEN "dying" ELSE @]
    BY <1>7, <2>1 DEF Sock!CloseTerminal
  <2>3. \A e \in Devices : DeviceFits(e)'
    <3>1. Len(x6[d]) \in Nat
      BY <1>0 DEF SocketsTyped
    <3>2. x6' \in [Devices -> Seq(Frames)]
      BY <1>0, <2>2 DEF SocketsTyped
    <3>3. IF x3[Sock!OwnerOf(k)].up /\ Sock!Socket(Sock!OwnerOf(k)) = k
          THEN Len(x6'[Sock!OwnerOf(k)])
                 = Len(x6[Sock!OwnerOf(k)]) + (IF Head(x5[k]) = NoShell THEN 1 ELSE 0)
          ELSE x6' = x6
      BY <1>3, <1>7, <2>2, <3>1
    <3>4. QED
      BY <1>1, <2>2, <3>2, <3>3, FrameFits
  <2>4. /\ x7' \in [Shells -> [state : {"none", "running", "dying", "dead"}, of : Sock!Sockets,
                               owned : BOOLEAN]]
        /\ \A r \in Shells : x7'[r] = x7[r] \/ (r = h /\ h \in Sock!ShellsOf(k) /\ x7'[r].state # "running")
    <3>1. CASE h \notin Sock!ShellsOf(k)
      BY <1>0, <2>2, <3>1 DEF SocketsTyped
    <3>2. CASE h \in Sock!ShellsOf(k)
      BY <1>0, <2>2, <3>2 DEF SocketsTyped
    <3>3. QED
      BY <3>1, <3>2
  <2>5. ASSUME NEW r \in Shells, x7'[r].state = "running" PROVE ShellFits(r)'
    <3>1. x7'[r] = x7[r] /\ x7[r].of \in x4 /\ x7[r].owned /\ Tied(r)
      BY <2>4, <2>5 DEF ShellInv, ShellFits
    <3>2. Head(x5[k]) # r \/ x7[r].of # k
      <4> SUFFICES ASSUME r = h, x7[r].of = k PROVE FALSE
        BY <2>1
      <4>1. h \in Sock!ShellsOf(k)
        BY <3>1 DEF Sock!ShellsOf
      <4>2. x7' = [x7 EXCEPT ![h].owned = FALSE, ![h].state = IF @ = "running" THEN "dying" ELSE @]
        BY <2>2, <4>1
      <4>3. x7'[h].state # "running"
        BY <1>0, <4>2 DEF SocketsTyped
      <4>4. QED
        BY <2>5, <4>3
    <3>3. \A e \in Devices : \A i \in DOMAIN x6[e] : i \in DOMAIN x6'[e] /\ x6'[e][i] = x6[e][i]
      BY <2>2
    <3>4. Tied(r)'
      BY <1>0, <1>1, <3>1, <3>2, <3>3, FrameTied
    <3>5. QED
      BY <1>1, <3>1, <3>4 DEF ShellFits
  <2>6. SocketsTyped'
    BY <1>0, <1>1, <1>2, <2>2, <2>4 DEF SocketsTyped
  <2>7. QED
    BY <2>3, <2>5, <2>6 DEF ShellInv, ShellFits
<1>8. QED
  BY <1>1, <1>5, <1>6, <1>7 DEF Sock!OpenTerminal

(* What changes neither a window nor a socket.                              *)
LEMMA ShellsApart ==
  ASSUME ShellInv, x3' = x3, x4' = x4, x5' = x5, x6' = x6, SocketsTyped',
         \A s \in Shells : x7'[s] = x7[s] \/ x7'[s].state # "running"
  PROVE  ShellInv'
<1>1. \A e \in Devices : DeviceFits(e)'
  BY DEF ShellInv, DeviceFits, AsksFit, AsksOf
<1>2. ASSUME NEW s \in Shells, x7'[s].state = "running" PROVE ShellFits(s)'
  <2>1. x7'[s] = x7[s] /\ x7[s].of \in x4 /\ x7[s].owned /\ Tied(s)
    BY <1>2 DEF ShellInv, ShellFits
  <2>2. Tied(s)'
    BY <2>1, Zenon DEF Tied, Sock!OwnerOf, Sock!Socket, Sock!OnItsWay
  <2>3. QED
    BY <2>1, <2>2 DEF ShellFits
<1>3. QED
  BY <1>1, <1>2 DEF ShellInv, ShellFits

LEMMA ShellRedeem ==
  ASSUME ShellInv, NEW d \in Devices, NEW l \in Links, Sock!Redeem(d, l) PROVE ShellInv'
<1>0. SocketsTyped /\ DeviceFits(d) /\ DeviceAt(d)
  BY DeviceIsAt DEF ShellInv
<1>1. PICK got \in BOOLEAN : x3' = [x3 EXCEPT ![d].token = got]
  BY DEF Sock!Redeem
<1>2. x4' = x4 /\ x5' = x5 /\ x6' = x6 /\ x7' = x7
  BY DEF Sock!Redeem
<1>3. PICK w : w = [x3[d] EXCEPT !.token = got]
  OBVIOUS
<1>4. x3' = [x3 EXCEPT ![d] = w]
  BY <1>1, <1>3
<1>5. w \in DeviceRows
  BY <1>0, <1>3 DEF DeviceAt, DeviceRows
<1>6. /\ w.up = x3[d].up /\ w.n = x3[d].n /\ w.pane = x3[d].pane /\ w.asks = x3[d].asks
      /\ w.gaveUp = x3[d].gaveUp
  BY <1>0, <1>3 DEF DeviceAt, DeviceRows
<1>7. x3'[d] = w
  BY <1>0, <1>4 DEF SocketsTyped
<1>8. /\ ~w.pane.on => w.pane.shows = NoShell
      /\ AsksOf(w)
      /\ ~w.up => w.asks = <<>> /\ x6'[d] = <<>>
      /\ w.up => Len(w.asks) = Len(x6'[d]) + Opening(x5'[Sock!Socket(d)])
  <2>1. AsksOf(w)
    BY <1>0, <1>6 DEF DeviceFits, AsksFit, AsksOf
  <2>2. QED
    BY <1>0, <1>2, <1>6, <2>1 DEF DeviceFits, DeviceAt
<1>9. SendsFrame(d)
  BY <1>2 DEF SendsFrame
<1>10. x6' \in [Devices -> Seq(Frames)]
  BY <1>0, <1>2 DEF SocketsTyped
<1>11. ASSUME NEW s \in Shells, Sock!OwnerOf(x7[s].of) = d, Tied(s) PROVE Tied(s)'
  <2>1. Sock!OnItsWay(d, s) => Sock!OnItsWay(d, s)'
    BY <1>0, <1>2, <1>6, <1>7, <1>9, SentFitsOnItsWay
  <2>2. QED
    BY <1>0, <1>2, <1>6, <1>7, <1>11, <2>1, StaysTied
<1>12. QED
  BY <1>2, <1>4, <1>5, <1>6, <1>8, <1>9, <1>10, <1>11, RowMoves

LEMMA ShellStep == ASSUME ShellInv, Sock!Next PROVE ShellInv'
<1>0. SocketsTyped
  BY DEF ShellInv
<1>1. ASSUME NEW l \in Links, Sock!CreateLink(l) \/ Sock!Expire(l) PROVE ShellInv'
  <2>1. x3' = x3 /\ x4' = x4 /\ x5' = x5 /\ x6' = x6 /\ x7' = x7
    BY <1>1 DEF Sock!CreateLink, Sock!Expire
  <2>2. SocketsTyped'
    BY <1>0, <2>1 DEF SocketsTyped
  <2>3. QED
    BY <2>1, <2>2, ShellsApart
<1>2. ASSUME NEW s \in Shells, Sock!ShellExits(s) PROVE ShellInv'
  <2>1. /\ x3' = x3 /\ x4' = x4 /\ x5' = x5 /\ x6' = x6
        /\ x7' = [x7 EXCEPT ![s].state = "dead", ![s].owned = FALSE]
    BY <1>2 DEF Sock!ShellExits
  <2>2. SocketsTyped' /\ \A r \in Shells : x7'[r] = x7[r] \/ x7'[r].state # "running"
    BY <1>0, <2>1 DEF SocketsTyped
  <2>3. QED
    BY <2>1, <2>2, ShellsApart
<1>3. ASSUME NEW l \in Links, NEW d \in Devices, Sock!Redeem(d, l) PROVE ShellInv'
  BY <1>3, ShellRedeem
<1>4. ASSUME NEW d \in Devices, \/ Sock!Connect(d) \/ Sock!Drop(d) \/ Sock!Revoke(d)
                                \/ Sock!OpenPane(d) \/ Sock!ClosePane(d) \/ Sock!TimesOut(d)
                                \/ Sock!OnOpened(d)
      PROVE  ShellInv'
  BY <1>4, ShellConnect, ShellDrop, ShellRevoke, ShellOpenPane, ShellClosePane, ShellTimesOut,
     ShellOnOpened
<1>5. ASSUME NEW k \in Sock!Sockets, Sock!SocketGone(k) \/ Sock!OnFrame(k) PROVE ShellInv'
  BY <1>5, ShellSocketGone, ShellOnFrame
<1>6. QED
  BY <1>1, <1>2, <1>3, <1>4, <1>5 DEF Sock!Next

(* A shell that runs belongs to an open socket, and its window shows it or  *)
(* is about to hear of it or to have it closed, unless it gave a request    *)
(* up: the window's count of requests always matches what is under way, so  *)
(* no answer is taken for another's, whatever drops, times out or is closed *)
(* in between.                                                              *)
THEOREM ShellsWithPanes == DaemonSpec => []NoStrayShell
<1> DEFINE Inv == Is("sockets") => ShellInv
<1>1. DaemonInit => Inv
  BY SocketsStart, ShellStarts
<1>2. Inv /\ [DaemonNext]_vars => Inv'
  <2> SUFFICES ASSUME Inv, [DaemonNext]_vars, Is("sockets")' PROVE ShellInv'
    BY DEF Is
  <2>1. CASE Sock!Next
    BY <2>1, SocketsStep, ShellStep
  <2>2. CASE UNCHANGED vars
    <3>1. ShellInv /\ x3' = x3 /\ x4' = x4 /\ x5' = x5 /\ x6' = x6 /\ x7' = x7
      BY <2>2, SocketsStep DEF vars, Is
    <3>2. SocketsTyped'
      BY <3>1 DEF ShellInv, SocketsTyped
    <3>3. QED
      BY <3>1, <3>2, ShellsApart
  <2>3. QED
    BY <2>1, <2>2, SocketsStep
<1>3. Inv => NoStrayShell
  BY ShellInvSays DEF NoStrayShell
<1>4. QED
  BY <1>1, <1>2, <1>3, PTL DEF DaemonSpec
-----------------------------------------------------------------------------
(* Callers: the requests of the JSON-RPC client                             *)

LEMMA RpcStart == ASSUME DaemonInit, Is("rpc") PROVE Rpc!Init
BY DEF DaemonInit, Is

LEMMA RpcStep ==
  ASSUME [DaemonNext]_vars, Is("rpc")'
  PROVE  Is("rpc") /\ (Rpc!Next \/ UNCHANGED vars)
BY DEF DaemonNext, Is, Of, vars

RequestEnds == {"none", "resolved", "rejected"}
RpcTyped ==
  /\ x2 \in [nextId : Nat \ {0}, pending : SUBSET Rpc!Ids, closed : BOOLEAN, closing : BOOLEAN]
  /\ x3 \in [Rpc!Ids -> RequestEnds \cup {"waiting"}]
  /\ x4 \in [alive : BOOLEAN, asked : SUBSET Rpc!Ids, out : Seq(Rpc!Ids), watched : BOOLEAN]

(* What waits was asked before the next request, so its number is not used  *)
(* again; a client whose process was seen to exit takes no requests.        *)
RpcInv ==
  /\ RpcTyped
  /\ \A i \in x2.pending : i < x2.nextId
  /\ \A i \in Rpc!Ids : x3[i] = "waiting" <=> i \in x2.pending
  /\ x4.watched => x2.closed /\ ~x4.alive /\ x2.pending = {}

LEMMA RpcStarts == Rpc!Init => RpcInv
BY CallBounds DEF Rpc!Init, RpcInv, RpcTyped, RequestEnds, Rpc!Ids

(* A step that settles some of what waits and forgets it.                   *)
LEMMA RpcSettles ==
  ASSUME RpcInv, RpcTyped', x2'.nextId = x2.nextId, NEW S,
         x2'.pending = x2.pending \ S,
         \A i \in Rpc!Ids : x3'[i] = x3[i] \/ i \in S,
         \A i \in Rpc!Ids \cap S : x3'[i] # "waiting",
         x4'.watched => x2'.closed /\ ~x4'.alive /\ x2'.pending = {}
  PROVE  RpcInv'
<1>1. \A i \in x2'.pending : i < x2'.nextId
  BY DEF RpcInv
<1>2. ASSUME NEW i \in Rpc!Ids PROVE x3'[i] = "waiting" <=> i \in x2'.pending
  BY <1>2 DEF RpcInv
<1>3. QED
  BY <1>1, <1>2 DEF RpcInv, Rpc!Ids

LEMMA RpcRequest == ASSUME RpcInv, Rpc!Request PROVE RpcInv'
<1>0. RpcTyped
  BY DEF RpcInv
<1>1. PICK i \in Rpc!Ids : i = x2.nextId
  BY DEF Rpc!Request
<1>2. i \in Nat /\ i \notin x2.pending /\ Rpc!Ids \subseteq Nat
  BY <1>0, <1>1, CallBounds DEF RpcInv, RpcTyped, Rpc!Ids
<1>3. CASE ~x2.closed /\ x2' = [x2 EXCEPT !.nextId = @ + 1, !.pending = @ \cup {i}]
           /\ x3' = [x3 EXCEPT ![i] = "waiting"]
           /\ (x4' = x4 \/ x4' = [x4 EXCEPT !.asked = @ \cup {i}])
  <2>1. /\ x2' \in [nextId : Nat \ {0}, pending : SUBSET Rpc!Ids, closed : BOOLEAN, closing : BOOLEAN]
        /\ x2'.nextId = x2.nextId + 1 /\ x2'.pending = x2.pending \cup {i} /\ ~x2'.closed
    <3>1. PICK n \in Nat \ {0} : n = x2.nextId + 1
      BY <1>1, <1>2
    <3>2. PICK S \in SUBSET Rpc!Ids : S = x2.pending \cup {i}
      BY <1>0 DEF RpcTyped
    <3>3. x2' = [x2 EXCEPT !.nextId = n, !.pending = S]
      BY <1>3, <3>1, <3>2
    <3>4. QED
      BY <1>0, <1>3, <3>1, <3>2, <3>3 DEF RpcTyped
  <2>2. x3' \in [Rpc!Ids -> RequestEnds \cup {"waiting"}] /\ x3'[i] = "waiting"
        /\ \A j \in Rpc!Ids \ {i} : x3'[j] = x3[j]
    BY <1>0, <1>3 DEF RpcTyped
  <2>3. /\ x4' \in [alive : BOOLEAN, asked : SUBSET Rpc!Ids, out : Seq(Rpc!Ids), watched : BOOLEAN]
        /\ x4'.watched = x4.watched
    BY <1>0, <1>3 DEF RpcTyped
  <2>4. RpcTyped'
    BY <2>1, <2>2, <2>3 DEF RpcTyped, Rpc!Ids
  <2>5. \A j \in x2'.pending : j < x2'.nextId
    BY <1>0, <1>1, <1>2, <2>1 DEF RpcInv, RpcTyped
  <2>6. QED
    BY <1>3, <2>1, <2>2, <2>3, <2>4, <2>5 DEF RpcInv, Rpc!Ids
<1>4. CASE x2' = [x2 EXCEPT !.nextId = @ + 1] /\ x3' = [x3 EXCEPT ![i] = "rejected"] /\ x4' = x4
  <2>1. /\ x2' \in [nextId : Nat \ {0}, pending : SUBSET Rpc!Ids, closed : BOOLEAN, closing : BOOLEAN]
        /\ x2'.nextId = x2.nextId + 1 /\ x2'.pending = x2.pending /\ x2'.closed = x2.closed
    BY <1>0, <1>4 DEF RpcTyped
  <2>2. x3' \in [Rpc!Ids -> RequestEnds \cup {"waiting"}] /\ x3'[i] = "rejected"
        /\ \A j \in Rpc!Ids \ {i} : x3'[j] = x3[j]
    BY <1>0, <1>4 DEF RpcTyped, RequestEnds
  <2>3. RpcTyped'
    BY <1>0, <1>4, <2>1, <2>2 DEF RpcTyped, Rpc!Ids
  <2>4. \A j \in x2'.pending : j < x2'.nextId
    BY <1>0, <1>1, <1>2, <2>1 DEF RpcInv, RpcTyped
  <2>5. QED
    BY <1>2, <1>4, <2>1, <2>2, <2>3, <2>4 DEF RpcInv, Rpc!Ids
<1>5. QED
  BY <1>1, <1>3, <1>4 DEF Rpc!Request

LEMMA RpcDispatch == ASSUME RpcInv, Rpc!Dispatch PROVE RpcInv'
<1>0. RpcTyped
  BY DEF RpcInv
<1>1. PICK i : i = Head(x4.out)
  OBVIOUS
<1>2. i \in Rpc!Ids /\ Tail(x4.out) \in Seq(Rpc!Ids) /\ x4' = [x4 EXCEPT !.out = Tail(@)]
  BY <1>0, <1>1 DEF Rpc!Dispatch, RpcTyped
<1>3. x4' \in [alive : BOOLEAN, asked : SUBSET Rpc!Ids, out : Seq(Rpc!Ids), watched : BOOLEAN]
      /\ x4'.watched = x4.watched /\ x4'.alive = x4.alive
  BY <1>0, <1>2 DEF RpcTyped
<1>4. CASE i \in x2.pending
  <2>1. PICK o \in Rpc!Outcomes : x3' = [x3 EXCEPT ![i] = o]
    BY <1>1, <1>4 DEF Rpc!Dispatch
  <2>2. x2' = [x2 EXCEPT !.pending = @ \ {i}]
    BY <1>1, <1>4 DEF Rpc!Dispatch
  <2>3. /\ x2' \in [nextId : Nat \ {0}, pending : SUBSET Rpc!Ids, closed : BOOLEAN, closing : BOOLEAN]
        /\ x2'.nextId = x2.nextId /\ x2'.pending = x2.pending \ {i} /\ x2'.closed = x2.closed
    BY <1>0, <2>2 DEF RpcTyped
  <2>4. /\ x3' \in [Rpc!Ids -> RequestEnds \cup {"waiting"}]
        /\ \A j \in Rpc!Ids : x3'[j] = x3[j] \/ j \in {i}
        /\ \A j \in Rpc!Ids \cap {i} : x3'[j] # "waiting"
    BY <1>0, <1>2, <2>1 DEF RpcTyped, RequestEnds, Rpc!Outcomes
  <2>5. RpcTyped'
    BY <1>3, <2>3, <2>4 DEF RpcTyped, Rpc!Ids
  <2>6. QED
    BY <1>3, <2>3, <2>4, <2>5, RpcSettles DEF RpcInv
<1>5. CASE i \notin x2.pending
  <2>1. x2' = x2 /\ x3' = x3
    BY <1>1, <1>5 DEF Rpc!Dispatch
  <2>2. QED
    BY <1>0, <1>3, <2>1 DEF RpcInv, RpcTyped
<1>6. QED
  BY <1>4, <1>5

(* Everything that waits is rejected.                                       *)
LEMMA RpcRejectsAll ==
  ASSUME RpcInv, x3' = Rpc!RejectAll(x3, x2.pending), NEW closed \in BOOLEAN, NEW closing \in BOOLEAN,
         x2' = [x2 EXCEPT !.closed = closed, !.closing = closing, !.pending = {}],
         x4' \in [alive : BOOLEAN, asked : SUBSET Rpc!Ids, out : Seq(Rpc!Ids), watched : BOOLEAN],
         x4'.watched => closed /\ ~x4'.alive
  PROVE  RpcInv'
<1>0. RpcTyped
  BY DEF RpcInv
<1>1. /\ x2' \in [nextId : Nat \ {0}, pending : SUBSET Rpc!Ids, closed : BOOLEAN, closing : BOOLEAN]
      /\ x2'.nextId = x2.nextId /\ x2'.pending = {} /\ x2'.closed = closed
  BY <1>0 DEF RpcTyped
<1>2. x3' \in [Rpc!Ids -> RequestEnds \cup {"waiting"}]
  BY <1>0 DEF RpcTyped, RequestEnds, Rpc!RejectAll
<1>3. /\ \A i \in Rpc!Ids : x3'[i] = x3[i] \/ i \in x2.pending
      /\ \A i \in Rpc!Ids \cap x2.pending : x3'[i] # "waiting"
  BY DEF Rpc!RejectAll
<1>4. RpcTyped'
  BY <1>1, <1>2 DEF RpcTyped, Rpc!Ids
<1>5. x2'.pending = x2.pending \ x2.pending
  BY <1>1
<1>6. QED
  BY <1>1, <1>3, <1>4, <1>5, RpcSettles

LEMMA RpcStepKeeps == ASSUME RpcInv, Rpc!Next PROVE RpcInv'
<1>0. RpcTyped
  BY DEF RpcInv
<1>1. ASSUME Rpc!Close PROVE RpcInv'
  BY <1>0, <1>1 DEF Rpc!Close, RpcInv, RpcTyped
<1>2. ASSUME Rpc!Terminated PROVE RpcInv'
  <2>1. /\ x2' = [x2 EXCEPT !.closing = FALSE, !.pending = {}]
        /\ x3' = Rpc!RejectAll(x3, x2.pending) /\ x4' = x4
    BY <1>2 DEF Rpc!Terminated
  <2>2. x2' = [x2 EXCEPT !.closed = x2.closed, !.closing = FALSE, !.pending = {}]
    BY <1>0, <2>1 DEF RpcTyped
  <2>3. x2.closed \in BOOLEAN
    BY <1>0 DEF RpcTyped
  <2>4. QED
    BY <1>0, <2>1, <2>2, <2>3, RpcRejectsAll DEF RpcInv, RpcTyped
<1>3. ASSUME Rpc!WatchExit PROVE RpcInv'
  <2>1. /\ x2' = [x2 EXCEPT !.closed = TRUE, !.pending = {}] /\ ~x4.alive
        /\ x3' = Rpc!RejectAll(x3, x2.pending) /\ x4' = [x4 EXCEPT !.watched = TRUE]
    BY <1>3 DEF Rpc!WatchExit
  <2>2. x2' = [x2 EXCEPT !.closed = TRUE, !.closing = x2.closing, !.pending = {}]
    BY <1>0, <2>1 DEF RpcTyped
  <2>3. x2.closing \in BOOLEAN
    BY <1>0 DEF RpcTyped
  <2>4. /\ x4' \in [alive : BOOLEAN, asked : SUBSET Rpc!Ids, out : Seq(Rpc!Ids), watched : BOOLEAN]
        /\ x4'.alive = x4.alive
    BY <1>0, <2>1 DEF RpcTyped
  <2>5. QED
    BY <2>1, <2>2, <2>3, <2>4, RpcRejectsAll
<1>4. ASSUME Rpc!Answer PROVE RpcInv'
  <2>1. PICK i \in x4.asked : x4' = [x4 EXCEPT !.asked = @ \ {i}, !.out = Append(@, i)]
    BY <1>4 DEF Rpc!Answer
  <2>2. x2' = x2 /\ x3' = x3 /\ i \in Rpc!Ids
    BY <1>0, <1>4, <2>1 DEF Rpc!Answer, RpcTyped
  <2>3. Append(x4.out, i) \in Seq(Rpc!Ids)
    BY <1>0, <2>2 DEF RpcTyped
  <2>4. /\ x4' \in [alive : BOOLEAN, asked : SUBSET Rpc!Ids, out : Seq(Rpc!Ids), watched : BOOLEAN]
        /\ x4'.alive = x4.alive /\ x4'.watched = x4.watched
    BY <1>0, <2>1, <2>3 DEF RpcTyped
  <2>5. QED
    BY <1>0, <2>2, <2>4 DEF RpcInv, RpcTyped
<1>5. ASSUME Rpc!Exit PROVE RpcInv'
  BY <1>0, <1>5 DEF Rpc!Exit, RpcInv, RpcTyped
<1>6. QED
  BY <1>1, <1>2, <1>3, <1>4, <1>5, RpcRequest, RpcDispatch DEF Rpc!Next

-----------------------------------------------------------------------------
(* Callers: the handoffs                                                    *)

LEMMA NoteStart == ASSUME DaemonInit, Is("note") PROVE Note!Init
BY DEF DaemonInit, Is

LEMMA NoteStep ==
  ASSUME [DaemonNext]_vars, Is("note")'
  PROVE  Is("note") /\ (Note!Next \/ UNCHANGED vars)
BY DEF DaemonNext, Is, Of, vars

NoteRows == [state : Note!States, text : {"none", "said", "stored"}]
NoteCalls ==
  [at : {"none", "detect", "ensure", "send", "wait", "woken", "fork", "seed", "done", "refused"},
   told : {"nothing", "resolved", "rejected"}, packet : {"log", "agent"}]
NoteSessions ==
  [live : BOOLEAN, active : Note!AllTurns \cup {NoTurn}, queued : Seq(Note!AllTurns)]

NoteTyped ==
  /\ x1 \in [Note!AllTurns -> NoteRows]
  /\ x2 \in NoteSessions
  /\ x3 \subseteq Notes
  /\ x4 \in [Notes -> NoteCalls]

(* What the queue holds is queued, each turn once, and the active turn has  *)
(* not ended.                                                               *)
QueueFits(s, turns) ==
  /\ s.active # NoTurn => turns[s.active].state \in {"started", "given"}
  /\ \A i \in DOMAIN s.queued : turns[s.queued[i]].state = "queued"
  /\ \A i, j \in DOMAIN s.queued : s.queued[i] = s.queued[j] => i = j

(* The turn of a call is new until it is sent; who waits is listed to be    *)
(* told and waits for a turn that goes on.                                  *)
CallFits(h, c, turns, listed) ==
  /\ c.at \in {"none", "detect", "ensure"} => turns[h].state = "new"
  /\ c.at = "wait" => h \in listed /\ turns[h].state \notin {"over", "failed"}

NoteInv ==
  /\ NoteTyped
  /\ QueueFits(x2, x1)
  /\ \A h \in Notes : CallFits(h, x4[h], x1, x3)

LEMMA NoteIn ==
  /\ Notes \subseteq Note!AllTurns /\ "u" \in Note!AllTurns /\ "u" \notin Notes
  /\ NoTurn \notin Note!AllTurns
  /\ \A t \in Note!AllTurns : t \in Notes \/ t = "u"
BY CallBounds DEF Note!AllTurns

LEMMA NoteStarts == Note!Init => NoteInv
<1> SUFFICES ASSUME Note!Init PROVE NoteInv
  OBVIOUS
<1>1. x1 \in [Note!AllTurns -> NoteRows] /\ \A h \in Notes : x1[h].state = "new"
  BY NoteIn DEF Note!Init, NoteRows, Note!States
<1>2. x2 \in NoteSessions /\ x2.active = NoTurn /\ x2.queued = <<>>
  BY DEF Note!Init, NoteSessions
<1>3. x3 \subseteq Notes /\ x4 \in [Notes -> NoteCalls] /\ \A h \in Notes : x4[h].at = "none"
  BY DEF Note!Init, NoteCalls
<1>4. QED
  BY <1>1, <1>2, <1>3 DEF NoteInv, NoteTyped, QueueFits, CallFits

(* A step that moves one call, and what is listed, alone.                   *)
LEMMA NoteCallMoves ==
  ASSUME NoteInv, x1' = x1, x2' = x2, NEW h \in Notes, NEW c \in NoteCalls, x4' = [x4 EXCEPT ![h] = c],
         x3' \subseteq Notes, \A g \in Notes \ {h} : g \in x3 => g \in x3',
         CallFits(h, c, x1, x3')
  PROVE  NoteInv'
<1>1. x4' \in [Notes -> NoteCalls] /\ x4'[h] = c /\ \A g \in Notes \ {h} : x4'[g] = x4[g]
  BY DEF NoteInv, NoteTyped
<1>2. ASSUME NEW g \in Notes PROVE CallFits(g, x4'[g], x1, x3')
  BY <1>1, <1>2 DEF NoteInv, CallFits
<1>3. NoteTyped' /\ QueueFits(x2', x1')
  BY <1>1 DEF NoteInv, NoteTyped, QueueFits
<1>4. QED
  BY <1>2, <1>3 DEF NoteInv, CallFits, QueueFits

(* A step of one call, whose turn has got no further.                       *)
HandoffGoes(h, ats) ==
  \E c \in NoteCalls : c.at \in ats /\ x4' = [x4 EXCEPT ![h] = c]

LEMMA GoesRow ==
  ASSUME NoteInv, NEW h \in Notes, NEW ats,
         NEW at \in ats \cap {"none", "detect", "ensure", "send", "wait", "fork", "seed", "done", "refused"},
         Note!Goes(h, at)
  PROVE  HandoffGoes(h, ats)
<1>1. PICK c : c = [x4[h] EXCEPT !.at = at]
  OBVIOUS
<1>2. c \in NoteCalls /\ c.at = at /\ x4' = [x4 EXCEPT ![h] = c]
  BY <1>1 DEF NoteInv, NoteTyped, NoteCalls, Note!Goes
<1>3. QED
  BY <1>2 DEF HandoffGoes

LEMMA NotedRow ==
  ASSUME NoteInv, NEW h \in Notes, NEW yes \in BOOLEAN, Note!Noted(h, yes) PROVE HandoffGoes(h, {"fork"})
<1>1. PICK packet \in {"log", "agent"} : packet = IF yes THEN "agent" ELSE "log"
  OBVIOUS
<1>2. PICK c : c = [x4[h] EXCEPT !.at = "fork", !.packet = packet]
  OBVIOUS
<1>3. c \in NoteCalls /\ c.at = "fork" /\ x4' = [x4 EXCEPT ![h] = c]
  BY <1>1, <1>2 DEF NoteInv, NoteTyped, NoteCalls, Note!Noted
<1>4. QED
  BY <1>3 DEF HandoffGoes

(* What follows the check, or the note, in one call.                        *)
LEMMA NoteGoesOn ==
  ASSUME NoteInv, NEW h \in Notes, Note!Ask(h) \/ Note!Detected(h) \/ Note!Woken(h)
                                   \/ Note!Fork(h) \/ Note!Seeded(h)
  PROVE  NoteInv'
<1>0. x1' = x1 /\ x2' = x2 /\ x3' = x3 /\ x3 \subseteq Notes
  BY DEF Note!Ask, Note!Detected, Note!Woken, Note!Fork, Note!Seeded, NoteInv, NoteTyped
<1>1. ASSUME NEW ats, HandoffGoes(h, ats), "wait" \notin ats,
             ats \cap {"none", "detect", "ensure"} # {} => x4[h].at \in {"none", "detect", "ensure"}
      PROVE  NoteInv'
  <2>1. PICK c \in NoteCalls : c.at \in ats /\ x4' = [x4 EXCEPT ![h] = c]
    BY <1>1 DEF HandoffGoes
  <2>2. CallFits(h, c, x1, x3)
    BY <1>1, <2>1 DEF NoteInv, CallFits
  <2>3. QED
    BY <1>0, <2>1, <2>2, NoteCallMoves
<1>2. CASE Note!Ask(h)
  <2>1. HandoffGoes(h, {"detect"}) /\ x4[h].at = "none"
    BY <1>2, GoesRow DEF Note!Ask
  <2>2. QED
    BY <1>1, <2>1
<1>3. CASE Note!Detected(h)
  <2>1. HandoffGoes(h, {"refused", "fork", "ensure"}) /\ x4[h].at = "detect"
    BY <1>3, GoesRow DEF Note!Detected
  <2>2. QED
    BY <1>1, <2>1
<1>4. CASE Note!Woken(h)
  <2>1. HandoffGoes(h, {"fork"})
    BY <1>4, NotedRow DEF Note!Woken
  <2>2. QED
    BY <1>1, <2>1
<1>5. CASE Note!Fork(h) \/ Note!Seeded(h)
  <2>1. HandoffGoes(h, {"seed", "done", "refused"})
    BY <1>5, GoesRow DEF Note!Fork, Note!Seeded
  <2>2. QED
    BY <1>1, <2>1
<1>6. QED
  BY <1>2, <1>3, <1>4, <1>5

LEMMA NoteSent == ASSUME NoteInv, NEW h \in Notes, Note!Sent(h) \/ Note!TimesOut(h) PROVE NoteInv'
<1>0. x1' = x1 /\ x2' = x2 /\ x3 \subseteq Notes /\ h \in Note!AllTurns
  BY NoteIn DEF Note!Sent, Note!TimesOut, NoteInv, NoteTyped
<1>1. CASE Note!Sent(h) /\ x2.active = h
  <2>1. HandoffGoes(h, {"wait"}) /\ x3' = x3 \cup {h}
    BY <1>1, GoesRow DEF Note!Sent, Note!MustWait
  <2>2. PICK c \in NoteCalls : c.at = "wait" /\ x4' = [x4 EXCEPT ![h] = c]
    BY <2>1 DEF HandoffGoes
  <2>3. h # NoTurn
    BY NoteIn
  <2>4. CallFits(h, c, x1, x3')
    BY <1>1, <2>1, <2>2, <2>3 DEF NoteInv, QueueFits, CallFits
  <2>5. QED
    BY <1>0, <2>1, <2>2, <2>4, NoteCallMoves
<1>2. CASE Note!TimesOut(h) \/ (Note!Sent(h) /\ x2.active # h)
  <2>1. HandoffGoes(h, {"fork"}) /\ x3' \in {x3, x3 \ {h}}
    BY <1>2, NotedRow DEF Note!Sent, Note!TimesOut, Note!MustWait
  <2>2. PICK c \in NoteCalls : c.at = "fork" /\ x4' = [x4 EXCEPT ![h] = c]
    BY <2>1 DEF HandoffGoes
  <2>3. CallFits(h, c, x1, x3')
    BY <2>2 DEF CallFits
  <2>4. QED
    BY <1>0, <2>1, <2>2, <2>3, NoteCallMoves
<1>3. QED
  BY <1>1, <1>2

(* A step of the turns.                                                     *)
LEMMA NoteMoves ==
  ASSUME NoteInv, x1' \in [Note!AllTurns -> NoteRows], x2' \in NoteSessions, QueueFits(x2', x1'),
         x3' \subseteq Notes, x4' \in [Notes -> NoteCalls],
         \A h \in Notes :
           \/ x4'[h].at \notin {"none", "detect", "ensure", "wait"}
           \/ /\ x4'[h].at = x4[h].at
              /\ x4[h].at # "wait" => x1'[h].state = x1[h].state
              /\ x4[h].at = "wait" /\ h \in x3 =>
                   h \in x3' /\ (x1[h].state \in {"over", "failed"} \/ x1'[h].state \notin {"over", "failed"})
  PROVE  NoteInv'
<1>1. NoteTyped' /\ QueueFits(x2, x1)'
  BY DEF NoteTyped, QueueFits
<1>2. ASSUME NEW h \in Notes PROVE CallFits(h, x4'[h], x1', x3')
  BY <1>2 DEF NoteInv, CallFits
<1>3. QED
  BY <1>1, <1>2 DEF NoteInv, CallFits

LEMMA BecomesRow ==
  ASSUME NoteInv, NEW t \in Note!AllTurns, NEW state \in Note!States, Note!Becomes(t, state)
  PROVE  /\ x1' \in [Note!AllTurns -> NoteRows] /\ x1'[t].state = state
         /\ \A u \in Note!AllTurns \ {t} : x1'[u] = x1[u]
BY DEF NoteInv, NoteTyped, NoteRows, Note!Becomes

(* A turn that was not queued, nor active, becomes the active one, or the   *)
(* last in the queue.                                                       *)
LEMMA NoteEnters ==
  ASSUME NoteInv, NEW t \in Note!AllTurns, x1[t].state = "new",
         \/ x2.active = NoTurn /\ Note!Claims(t) /\ Note!Becomes(t, "started")
         \/ x2' = [x2 EXCEPT !.queued = Append(@, t)] /\ Note!Becomes(t, "queued")
  PROVE  /\ x1' \in [Note!AllTurns -> NoteRows] /\ x1'[t].state \in {"started", "queued"}
         /\ \A u \in Note!AllTurns \ {t} : x1'[u] = x1[u]
         /\ x2' \in NoteSessions /\ QueueFits(x2', x1')
<1>0. /\ x2 \in NoteSessions /\ QueueFits(x2, x1) /\ {"started", "queued"} \subseteq Note!States
      /\ x2.queued \in Seq(Note!AllTurns)
      /\ \A i \in DOMAIN x2.queued : x2.queued[i] # t /\ x2.queued[i] \in Note!AllTurns
      /\ x2.active # NoTurn => x2.active \in Note!AllTurns \ {t}
  BY DEF NoteInv, NoteTyped, NoteSessions, QueueFits, Note!States
<1>1. CASE x2.active = NoTurn /\ Note!Claims(t) /\ Note!Becomes(t, "started")
  <2>1. x2' \in NoteSessions /\ x2'.active = t /\ x2'.queued = x2.queued
    BY <1>0, <1>1 DEF NoteSessions, Note!Claims
  <2>2. /\ x1' \in [Note!AllTurns -> NoteRows] /\ x1'[t].state = "started"
        /\ \A u \in Note!AllTurns \ {t} : x1'[u] = x1[u]
    BY <1>0, <1>1, BecomesRow
  <2>3. QED
    BY <1>0, <2>1, <2>2 DEF QueueFits
<1>2. CASE x2' = [x2 EXCEPT !.queued = Append(@, t)] /\ Note!Becomes(t, "queued")
  <2>1. PICK q \in Seq(Note!AllTurns) : q = Append(x2.queued, t)
    <3>1. \A S : \A s \in Seq(S), e \in S : Append(s, e) \in Seq(S)
      OBVIOUS
    <3>2. Append(x2.queued, t) \in Seq(Note!AllTurns)
      BY <1>0, <3>1
    <3>3. QED
      BY <3>2
  <2>2. x2' \in NoteSessions /\ x2'.active = x2.active /\ x2'.queued = q
    <3>1. x2' = [x2 EXCEPT !.queued = q]
      BY <1>2, <2>1
    <3>2. QED
      BY <1>0, <3>1 DEF NoteSessions
  <2>3. /\ x1' \in [Note!AllTurns -> NoteRows] /\ x1'[t].state = "queued"
        /\ \A u \in Note!AllTurns \ {t} : x1'[u] = x1[u]
    BY <1>0, <1>2, BecomesRow
  <2>4. /\ DOMAIN q = 1..(Len(x2.queued) + 1) /\ DOMAIN x2.queued = 1..Len(x2.queued)
        /\ Len(x2.queued) \in Nat
        /\ q[Len(x2.queued) + 1] = t /\ \A i \in DOMAIN x2.queued : q[i] = x2.queued[i]
    BY <1>0, <2>1
  <2>5. ASSUME NEW i \in DOMAIN q PROVE x1'[q[i]].state = "queued"
    <3>1. CASE i = Len(x2.queued) + 1
      BY <2>3, <2>4, <3>1
    <3>2. CASE i \in DOMAIN x2.queued
      BY <1>0, <2>3, <2>4, <3>2 DEF QueueFits
    <3>3. QED
      BY <2>4, <3>1, <3>2
  <2>6. ASSUME NEW i \in DOMAIN q, NEW j \in DOMAIN q, q[i] = q[j] PROVE i = j
    <3>1. \A k \in DOMAIN q : k = Len(x2.queued) + 1 \/ k \in DOMAIN x2.queued
      BY <2>4
    <3>2. \A k \in DOMAIN q : q[k] = t <=> k = Len(x2.queued) + 1
      BY <1>0, <2>4, <3>1
    <3>3. CASE q[i] = t
      BY <2>6, <3>2, <3>3
    <3>4. CASE q[i] # t
      BY <1>0, <2>4, <2>6, <3>1, <3>2, <3>4 DEF QueueFits
    <3>5. QED
      BY <3>3, <3>4
  <2>7. QED
    BY <1>0, <2>2, <2>3, <2>5, <2>6 DEF QueueFits
<1>3. QED
  BY <1>1, <1>2

LEMMA NoteUserSends == ASSUME NoteInv, Note!UserSends("u") PROVE NoteInv'
<1>1. /\ x1' \in [Note!AllTurns -> NoteRows] /\ \A t \in Note!AllTurns \ {"u"} : x1'[t] = x1[t]
      /\ x2' \in NoteSessions /\ QueueFits(x2', x1')
  BY NoteIn, NoteEnters DEF Note!UserSends
<1>2. x3' = x3 /\ x4' = x4 /\ x3 \subseteq Notes /\ x4 \in [Notes -> NoteCalls]
  BY DEF Note!UserSends, NoteInv, NoteTyped
<1>3. QED
  BY <1>1, <1>2, NoteIn, NoteMoves

LEMMA NoteSummarise == ASSUME NoteInv, NEW h \in Notes, Note!Summarise(h) PROVE NoteInv'
<1>0. /\ x3' = x3 /\ x3 \subseteq Notes /\ x4 \in [Notes -> NoteCalls] /\ x4[h].at = "ensure"
      /\ h \in Note!AllTurns /\ x1[h].state = "new"
  BY NoteIn DEF Note!Summarise, NoteInv, NoteTyped, CallFits
<1>1. HandoffGoes(h, {"fork", "send"})
  <2>1. Note!Noted(h, FALSE) \/ Note!Goes(h, "send")
    BY DEF Note!Summarise
  <2>2. HandoffGoes(h, {"fork"}) \/ HandoffGoes(h, {"send"})
    BY <2>1, NotedRow, GoesRow
  <2>3. QED
    BY <2>2 DEF HandoffGoes
<1>2. PICK c \in NoteCalls : c.at \in {"fork", "send"} /\ x4' = [x4 EXCEPT ![h] = c]
  BY <1>1 DEF HandoffGoes
<1>3. CASE x1' = x1 /\ x2' = x2
  BY <1>0, <1>2, <1>3, NoteCallMoves DEF CallFits
<1>4. CASE ~(x1' = x1 /\ x2' = x2)
  <2>1. /\ x1' \in [Note!AllTurns -> NoteRows] /\ \A t \in Note!AllTurns \ {h} : x1'[t] = x1[t]
        /\ x2' \in NoteSessions /\ QueueFits(x2', x1')
    BY <1>0, <1>4, NoteEnters DEF Note!Summarise
  <2>2. /\ x4' \in [Notes -> NoteCalls] /\ x4'[h].at \in {"fork", "send"}
        /\ \A g \in Notes \ {h} : x4'[g] = x4[g]
    BY <1>0, <1>2
  <2>3. QED
    BY <1>0, <2>1, <2>2, NoteIn, NoteMoves
<1>5. QED
  BY <1>3, <1>4

LEMMA FlushedRow ==
  ASSUME NoteInv, NEW t \in Note!AllTurns
  PROVE  /\ Note!Flushed(t) \in [Note!AllTurns -> NoteRows]
         /\ \A u \in Note!AllTurns : Note!Flushed(t)[u].state = x1[u].state
<1>1. PICK text \in {"none", "said", "stored"} :
        text = IF x1[t].text = "said" THEN "stored" ELSE x1[t].text
  BY DEF NoteInv, NoteTyped, NoteRows
<1>2. Note!Flushed(t) = [x1 EXCEPT ![t].text = text]
  BY <1>1 DEF Note!Flushed
<1>3. QED
  BY <1>2 DEF NoteInv, NoteTyped, NoteRows

(* A step of a turn that stays where it is.                                 *)
LEMMA NoteStays ==
  ASSUME NoteInv, x2' = x2, x3' = x3, x4' = x4, x1' \in [Note!AllTurns -> NoteRows],
         \A t \in Note!AllTurns :
           \/ x1'[t].state = x1[t].state
           \/ /\ x1[t].state = "started"
              /\ x1'[t].state = "given" \/ (x2.active # t /\ x1'[t].state = "stopped")
  PROVE  NoteInv'
<1>1. /\ NoteTyped /\ QueueFits(x2, x1)
      /\ x2.queued \in Seq(Note!AllTurns) /\ x2.active \in Note!AllTurns \cup {NoTurn}
  BY DEF NoteInv, NoteTyped, NoteSessions
<1>2. QueueFits(x2', x1')
  BY <1>1 DEF QueueFits
<1>3. \A h \in Notes :
        /\ x4[h].at \in {"none", "detect", "ensure"} => x1'[h].state = x1[h].state
        /\ x1[h].state \in {"over", "failed"} \/ x1'[h].state \notin {"over", "failed"}
  BY NoteIn DEF NoteInv, CallFits
<1>4. QED
  BY <1>1, <1>2, <1>3, NoteMoves DEF NoteTyped

LEMMA NoteDispatch ==
  ASSUME NoteInv, NEW t \in Note!AllTurns, Note!Dispatch(t) \/ Note!Says(t) PROVE NoteInv'
<1>1. x2' = x2 /\ x3' = x3 /\ x4' = x4 /\ x1 \in [Note!AllTurns -> NoteRows]
  BY DEF Note!Dispatch, Note!Says, NoteInv, NoteTyped
<1>2. CASE Note!Dispatch(t)
  <2>1. PICK state \in {"given", "stopped"} :
          Note!Becomes(t, state) /\ (state = "stopped" => x2.active # t)
    BY <1>2 DEF Note!Dispatch
  <2>2. state \in Note!States /\ x1[t].state = "started"
    BY <1>2 DEF Note!States, Note!Dispatch
  <2>3. QED
    BY <1>1, <2>1, <2>2, BecomesRow, NoteStays
<1>3. CASE Note!Says(t)
  <2>1. CASE x1' = Note!Flushed(t)
    BY <1>1, <2>1, FlushedRow, NoteStays
  <2>2. CASE x1' = [x1 EXCEPT ![t].text = "said"]
    <3>1. x1' \in [Note!AllTurns -> NoteRows]
      BY <1>1, <2>2 DEF NoteRows
    <3>2. \A u \in Note!AllTurns : x1'[u].state = x1[u].state
      BY <1>1, <2>2 DEF NoteRows
    <3>3. QED
      BY <1>1, <3>1, <3>2, NoteStays
  <2>3. QED
    BY <1>3, <2>1, <2>2 DEF Note!Says
<1>4. QED
  BY <1>2, <1>3

LEMMA NoteRejected == ASSUME NoteInv, NEW h \in Notes, Note!Rejected(h) PROVE NoteInv'
<1>0. /\ x3' = x3 /\ x3 \subseteq Notes /\ x4 \in [Notes -> NoteCalls] /\ x2 \in NoteSessions
      /\ h \in Note!AllTurns /\ x1[h].state = "given" /\ QueueFits(x2, x1)
  BY NoteIn DEF Note!Rejected, NoteInv, NoteTyped
<1>1. /\ x1' \in [Note!AllTurns -> NoteRows]
      /\ \A t \in Note!AllTurns \ {h} : x1'[t] = x1[t]
  BY <1>0, BecomesRow DEF Note!Rejected, Note!States
<1>2. x2' \in NoteSessions /\ x2'.active = NoTurn /\ x2'.queued = x2.queued
  BY <1>0 DEF NoteSessions, Note!Rejected
<1>3. QueueFits(x2', x1')
  <2>1. \A i \in DOMAIN x2.queued : x2.queued[i] \in Note!AllTurns \ {h}
    BY <1>0 DEF NoteSessions, QueueFits
  <2>2. QED
    BY <1>0, <1>1, <1>2, <2>1 DEF QueueFits
<1>4. HandoffGoes(h, {"fork"})
  BY NotedRow DEF Note!Rejected
<1>5. x4' \in [Notes -> NoteCalls] /\ x4'[h].at = "fork" /\ \A g \in Notes \ {h} : x4'[g] = x4[g]
  BY <1>0, <1>4 DEF HandoffGoes
<1>6. QED
  BY <1>0, <1>1, <1>2, <1>3, <1>5, NoteIn, NoteMoves

(* drainQueue starts at most the head of the queue.                         *)
LEMMA DrainedFits ==
  ASSUME NEW s \in NoteSessions, NEW r \in [Note!AllTurns -> NoteRows], QueueFits(s, r),
         NEW d, d = Note!Drained(s, r)
  PROVE  /\ d.session \in NoteSessions /\ d.turn \in [Note!AllTurns -> NoteRows]
         /\ QueueFits(d.session, d.turn)
         /\ \A t \in Note!AllTurns :
              d.turn[t] = r[t] \/ (r[t].state = "queued" /\ d.turn[t].state = "started")
<1>0. s.queued \in Seq(Note!AllTurns) /\ s.active \in Note!AllTurns \cup {NoTurn}
  BY DEF NoteSessions
<1>1. CASE s.queued = <<>> \/ s.active # NoTurn
  <2>1. d.session = s /\ d.turn = r
    BY <1>1 DEF Note!Drained
  <2>2. QED
    BY <2>1
<1>2. CASE s.queued # <<>> /\ s.active = NoTurn
  <2>1. PICK h, q : h = Head(s.queued) /\ q = Tail(s.queued)
    OBVIOUS
  <2>2. /\ h \in Note!AllTurns /\ q \in Seq(Note!AllTurns) /\ r[h].state = "queued"
        /\ \A i \in DOMAIN q : i + 1 \in DOMAIN s.queued /\ q[i] = s.queued[i + 1] /\ q[i] # h
                               /\ q[i] \in Note!AllTurns /\ i \in Nat
    <3>1. h = s.queued[1] /\ 1 \in DOMAIN s.queued /\ h \in Note!AllTurns /\ q \in Seq(Note!AllTurns)
      BY <1>0, <1>2, <2>1
    <3>2. \A i \in DOMAIN q : i + 1 \in DOMAIN s.queued /\ q[i] = s.queued[i + 1] /\ i \in Nat /\ i + 1 # 1
      BY <1>0, <1>2, <2>1
    <3>3. QED
      BY <1>0, <3>1, <3>2 DEF QueueFits
  <2>3. d.session = [s EXCEPT !.active = h, !.queued = q] /\ d.turn = [r EXCEPT ![h].state = "started"]
    BY <1>2, <2>1 DEF Note!Drained
  <2>4. d.session \in NoteSessions /\ d.session.active = h /\ d.session.queued = q
    BY <2>2, <2>3 DEF NoteSessions
  <2>5. /\ d.turn \in [Note!AllTurns -> NoteRows] /\ d.turn[h].state = "started"
        /\ \A t \in Note!AllTurns \ {h} : d.turn[t] = r[t]
    <3>1. PICK w : w = [r[h] EXCEPT !.state = "started"]
      OBVIOUS
    <3>2. w \in NoteRows /\ w.state = "started"
      BY <2>2, <3>1 DEF NoteRows, Note!States
    <3>3. d.turn = [r EXCEPT ![h] = w]
      BY <2>3, <3>1
    <3>4. QED
      BY <2>2, <3>2, <3>3
  <2>6. \A i \in DOMAIN q : d.turn[q[i]].state = "queued"
    BY <2>2, <2>5 DEF QueueFits
  <2>7. \A i, j \in DOMAIN q : q[i] = q[j] => i = j
    <3>1. \A i, j \in DOMAIN q : q[i] = q[j] => i + 1 = j + 1
      BY <2>2 DEF QueueFits
    <3>2. QED
      BY <2>2, <3>1
  <2>8. QED
    BY <2>2, <2>4, <2>5, <2>6, <2>7 DEF QueueFits
<1>3. QED
  BY <1>1, <1>2

LEMMA SettleRow ==
  ASSUME NoteInv, NEW t \in Note!AllTurns, NEW how \in {"resolved", "rejected"}, Note!Settle(t, how)
  PROVE  /\ x3' \subseteq Notes /\ \A h \in Notes \ {t} : h \in x3 => h \in x3'
         /\ x4' \in [Notes -> NoteCalls]
         /\ \A h \in Notes : x4'[h] = x4[h] \/ (h = t /\ x4'[h].at = "woken")
         /\ t \in Notes => x4'[t].at # "wait"
<1>0. x3 \subseteq Notes /\ x4 \in [Notes -> NoteCalls] /\ x3' = x3 \ {t}
  BY DEF NoteInv, NoteTyped, Note!Settle
<1>1. CASE t \in x3
  <2>1. PICK c : c = [x4[t] EXCEPT !.at = "woken", !.told = how]
    OBVIOUS
  <2>2. c \in NoteCalls /\ c.at = "woken" /\ x4' = [x4 EXCEPT ![t] = c] /\ t \in Notes
    BY <1>0, <1>1, <2>1 DEF NoteCalls, Note!Settle
  <2>3. QED
    BY <1>0, <2>2
<1>2. CASE t \notin x3
  BY <1>0, <1>2 DEF Note!Settle, NoteInv, CallFits
<1>3. QED
  BY <1>1, <1>2

(* A turn ends, by itself or with an error, and the next in the queue is    *)
(* taken.                                                                   *)
LEMMA NoteEnds ==
  ASSUME NoteInv, NEW t \in Note!AllTurns, x1[t].state \in {"given", "abandoned"},
         NEW s, s = Note!Without(t),
         NEW r \in [Note!AllTurns -> NoteRows], r[t].state \in {"over", "failed"},
         \A u \in Note!AllTurns \ {t} : r[u].state = x1[u].state,
         x2' = Note!Drained(s, r).session, x1' = Note!Drained(s, r).turn,
         NEW how \in {"resolved", "rejected"}, Note!Settle(t, how)
  PROVE  NoteInv'
<1>0. /\ x2 \in NoteSessions /\ QueueFits(x2, x1) /\ t # NoTurn
      /\ \A i \in DOMAIN x2.queued : x2.queued[i] \in Note!AllTurns \ {t}
  <2>1. x2 \in NoteSessions /\ QueueFits(x2, x1) /\ t # NoTurn
    BY NoteIn DEF NoteInv, NoteTyped
  <2>2. x2.queued \in Seq(Note!AllTurns)
    BY <2>1 DEF NoteSessions
  <2>3. ASSUME NEW i \in DOMAIN x2.queued PROVE x2.queued[i] \in Note!AllTurns \ {t}
    <3>1. x2.queued[i] \in Note!AllTurns
      BY <2>2, <2>3
    <3>2. x1[x2.queued[i]].state = "queued"
      BY <2>1, <2>3 DEF QueueFits
    <3>3. QED
      BY <3>1, <3>2
  <2>4. QED
    BY <2>1, <2>3
<1>1. /\ s \in NoteSessions /\ s.queued = x2.queued
      /\ s.active = IF x2.active = t THEN NoTurn ELSE x2.active
  BY <1>0 DEF NoteSessions, Note!Without
<1>2. QueueFits(s, r)
  <2>1. s.active # NoTurn => s.active \in Note!AllTurns \ {t} /\ s.active = x2.active
    BY <1>0, <1>1 DEF NoteSessions
  <2>2. s.active # NoTurn => r[s.active].state \in {"started", "given"}
    BY <1>0, <2>1 DEF QueueFits
  <2>3. \A i \in DOMAIN x2.queued : r[x2.queued[i]].state = "queued"
    BY <1>0 DEF QueueFits
  <2>4. QED
    BY <1>0, <1>1, <2>2, <2>3 DEF QueueFits
<1>3. PICK d : d = Note!Drained(s, r)
  OBVIOUS
<1>4. /\ x2' \in NoteSessions /\ x1' \in [Note!AllTurns -> NoteRows] /\ QueueFits(x2', x1')
      /\ \A u \in Note!AllTurns :
           x1'[u] = r[u] \/ (r[u].state = "queued" /\ x1'[u].state = "started")
  <2>1. /\ d.session \in NoteSessions /\ d.turn \in [Note!AllTurns -> NoteRows]
        /\ QueueFits(d.session, d.turn)
        /\ \A u \in Note!AllTurns :
             d.turn[u] = r[u] \/ (r[u].state = "queued" /\ d.turn[u].state = "started")
    BY <1>1, <1>2, <1>3, DrainedFits
  <2>2. x2' = d.session /\ x1' = d.turn
    BY <1>3
  <2>3. QED
    BY <2>1, <2>2
<1>5. /\ x3' \subseteq Notes /\ \A h \in Notes \ {t} : h \in x3 => h \in x3'
      /\ x4' \in [Notes -> NoteCalls]
      /\ \A h \in Notes : x4'[h] = x4[h] \/ (h = t /\ x4'[h].at = "woken")
      /\ t \in Notes => x4'[t].at # "wait"
  BY SettleRow
<1>6. ASSUME NEW h \in Notes, x4'[h].at \in {"none", "detect", "ensure", "wait"}
      PROVE  /\ x4'[h].at = x4[h].at
             /\ x4[h].at # "wait" => x1'[h].state = x1[h].state
             /\ x4[h].at = "wait" /\ h \in x3 =>
                  h \in x3' /\ (x1[h].state \in {"over", "failed"} \/ x1'[h].state \notin {"over", "failed"})
  <2>1. x4'[h] = x4[h] /\ CallFits(h, x4[h], x1, x3) /\ h \in Note!AllTurns
    BY <1>5, <1>6, NoteIn DEF NoteInv
  <2>2. h # t
    BY <1>5, <1>6, <2>1 DEF CallFits
  <2>3. r[h].state = x1[h].state
    BY <2>1, <2>2
  <2>4. QED
    BY <1>4, <1>5, <1>6, <2>1, <2>2, <2>3 DEF CallFits
<1>7. QED
  BY <1>4, <1>5, <1>6, NoteMoves

LEMMA NoteCompleted ==
  ASSUME NoteInv, NEW t \in Note!AllTurns, Note!Completed(t) \/ Note!Error(t) PROVE NoteInv'
<1>0. x1 \in [Note!AllTurns -> NoteRows]
  BY DEF NoteInv, NoteTyped
<1>1. CASE Note!Completed(t)
  <2>1. PICK r : r = [Note!Flushed(t) EXCEPT ![t].state = "over"]
    OBVIOUS
  <2>2. PICK f : f = Note!Flushed(t)
    OBVIOUS
  <2>3. f \in [Note!AllTurns -> NoteRows] /\ \A u \in Note!AllTurns : f[u].state = x1[u].state
    BY <2>2, FlushedRow
  <2>4. r = [f EXCEPT ![t].state = "over"]
    BY <2>1, <2>2
  <2>5. r \in [Note!AllTurns -> NoteRows] /\ r[t].state = "over"
        /\ \A u \in Note!AllTurns \ {t} : r[u].state = x1[u].state
    BY <2>3, <2>4 DEF NoteRows, Note!States
  <2>6. /\ x2' = Note!Drained(Note!Without(t), r).session /\ x1' = Note!Drained(Note!Without(t), r).turn
        /\ Note!Settle(t, "resolved") /\ x1[t].state \in {"given", "abandoned"}
    BY <1>1, <2>1 DEF Note!Completed
  <2>7. QED
    BY <2>5, <2>6, NoteEnds
<1>2. CASE Note!Error(t)
  <2>1. PICK r : r = [x1 EXCEPT ![t].state = "failed"]
    OBVIOUS
  <2>2. r \in [Note!AllTurns -> NoteRows] /\ r[t].state = "failed"
        /\ \A u \in Note!AllTurns \ {t} : r[u].state = x1[u].state
    BY <1>0, <2>1 DEF NoteRows, Note!States
  <2>3. /\ x2' = Note!Drained(Note!Without(t), r).session /\ x1' = Note!Drained(Note!Without(t), r).turn
        /\ Note!Settle(t, "rejected") /\ x1[t].state \in {"given", "abandoned"}
    BY <1>2, <2>1 DEF Note!Error
  <2>4. QED
    BY <2>2, <2>3, NoteEnds
<1>3. QED
  BY <1>1, <1>2

(* Stop and the exit leave no turn active or queued.                        *)
LEMMA NoteQuiets ==
  ASSUME NoteInv, x2' \in NoteSessions, x2'.active = NoTurn, x2'.queued = <<>>, x3' = x3, x4' = x4,
         x1' \in [Note!AllTurns -> NoteRows],
         \A t \in Note!AllTurns :
           \/ x1'[t].state = x1[t].state
           \/ x1[t].state # "new" /\ x1'[t].state \in {"abandoned", "dropped"}
  PROVE  NoteInv'
<1>1. QueueFits(x2', x1')
  <2>1. DOMAIN x2'.queued = {}
    OBVIOUS
  <2>2. QED
    BY <2>1 DEF QueueFits
<1>2. NoteTyped /\ \A h \in Notes : CallFits(h, x4[h], x1, x3) /\ h \in Note!AllTurns
  BY NoteIn DEF NoteInv
<1>3. QED
  BY <1>1, <1>2, NoteMoves DEF NoteTyped, CallFits

LEMMA NoteStops == ASSUME NoteInv, Note!Stop \/ Note!Exited PROVE NoteInv'
<1>0. x1 \in [Note!AllTurns -> NoteRows] /\ x2 \in NoteSessions /\ QueueFits(x2, x1)
  BY DEF NoteInv, NoteTyped
<1>1. CASE Note!Stop
  <2>1. x2' \in NoteSessions /\ x2'.active = NoTurn /\ x2'.queued = <<>> /\ x3' = x3 /\ x4' = x4
    <3>1. <<>> \in Seq(Note!AllTurns)
      OBVIOUS
    <3>2. x2' = [x2 EXCEPT !.active = NoTurn, !.queued = <<>>] /\ x3' = x3 /\ x4' = x4
      BY <1>1 DEF Note!Stop
    <3>3. QED
      BY <1>0, <3>1, <3>2 DEF NoteSessions
  <2>2. ASSUME NEW t \in Note!AllTurns
        PROVE  /\ x1'[t] \in NoteRows
               /\ \/ x1'[t].state = x1[t].state
                  \/ x1[t].state # "new" /\ x1'[t].state \in {"abandoned", "dropped"}
    <3>1. PICK f : f = Note!Flushed(t)[t]
      OBVIOUS
    <3>2. f \in NoteRows /\ x1[t] \in NoteRows
      BY <1>0, <3>1, FlushedRow
    <3>3. x1'[t] = IF t = x2.active /\ x1[t].state = "given" THEN [f EXCEPT !.state = "abandoned"]
                   ELSE IF t \in Note!ToSet(x2.queued) THEN [x1[t] EXCEPT !.state = "dropped"] ELSE x1[t]
      BY <1>1, <3>1 DEF Note!Stop
    <3>4. t \in Note!ToSet(x2.queued) => x1[t].state = "queued"
      BY <1>0 DEF Note!ToSet, QueueFits
    <3>5. QED
      BY <3>2, <3>3, <3>4 DEF NoteRows, Note!States
  <2>3. x1' \in [Note!AllTurns -> NoteRows]
    BY <1>1, <2>2 DEF Note!Stop
  <2>4. QED
    BY <2>1, <2>2, <2>3, NoteQuiets
<1>2. CASE Note!Exited
  <2>1. x2' \in NoteSessions /\ x2'.active = NoTurn /\ x2'.queued = <<>> /\ x3' = x3 /\ x4' = x4
    <3>1. <<>> \in Seq(Note!AllTurns)
      OBVIOUS
    <3>2. x2' = [live |-> FALSE, active |-> NoTurn, queued |-> <<>>] /\ x3' = x3 /\ x4' = x4
      BY <1>2 DEF Note!Exited
    <3>3. QED
      BY <3>1, <3>2 DEF NoteSessions
  <2>2. ASSUME NEW t \in Note!AllTurns
        PROVE  /\ x1'[t] \in NoteRows
               /\ \/ x1'[t].state = x1[t].state
                  \/ x1[t].state # "new" /\ x1'[t].state \in {"abandoned", "dropped"}
    <3>1. x1'[t] = IF x1[t].state \in {"given", "abandoned", "queued"}
                   THEN [x1[t] EXCEPT !.state = "dropped"] ELSE x1[t]
      BY <1>2 DEF Note!Exited
    <3>2. QED
      BY <1>0, <3>1 DEF NoteRows, Note!States
  <2>3. x1' \in [Note!AllTurns -> NoteRows]
    BY <1>2, <2>2 DEF Note!Exited
  <2>4. QED
    BY <2>1, <2>2, <2>3, NoteQuiets
<1>3. QED
  BY <1>1, <1>2

LEMMA NoteStepKeeps == ASSUME NoteInv, Note!Next PROVE NoteInv'
BY NoteGoesOn, NoteSummarise, NoteSent, NoteRejected, NoteUserSends, NoteDispatch, NoteCompleted, NoteStops
   DEF Note!Next, Note!Daemon

(* No caller waits for an answer the JSON-RPC client has forgotten, and no  *)
(* handoff for a turn that ended by itself, although the end of a quick     *)
(* turn may come before sendTurn has returned: the waiter is listed only    *)
(* while its turn is the active one, and the end of a turn wakes it.        *)
THEOREM CallersGetAnswers == DaemonSpec => []CallersAnswered
<1> DEFINE Inv == (Is("note") => NoteInv) /\ (Is("rpc") => RpcInv)
<1>1. DaemonInit => Inv
  BY NoteStart, NoteStarts, RpcStart, RpcStarts
<1>2. Inv /\ [DaemonNext]_vars => Inv'
  <2>1. ASSUME Inv, [DaemonNext]_vars, Is("note")' PROVE NoteInv'
    <3>1. CASE Note!Next
      BY <2>1, <3>1, NoteStep, NoteStepKeeps
    <3>2. CASE UNCHANGED vars
      BY <2>1, <3>2, NoteStep DEF vars, NoteInv, NoteTyped, QueueFits, CallFits, Is
    <3>3. QED
      BY <2>1, <3>1, <3>2, NoteStep
  <2>2. ASSUME Inv, [DaemonNext]_vars, Is("rpc")' PROVE RpcInv'
    <3>1. CASE Rpc!Next
      BY <2>2, <3>1, RpcStep, RpcStepKeeps
    <3>2. CASE UNCHANGED vars
      BY <2>2, <3>2, RpcStep DEF vars, RpcInv, RpcTyped, Is
    <3>3. QED
      BY <2>2, <3>1, <3>2, RpcStep
  <2>3. QED
    BY <2>1, <2>2 DEF Is
<1>3. Inv => CallersAnswered
  BY DEF NoteInv, CallFits, RpcInv, RpcTyped, Rpc!WaitingIsPending, Note!WaitsForOpenTurn,
     CallersAnswered, Is
<1>4. QED
  BY <1>1, <1>2, <1>3, PTL DEF DaemonSpec

-----------------------------------------------------------------------------
(* The checkpoints of threads that work in one checkout                     *)

(* Every edit has a number of its own, above all that are in the tree, in a *)
(* checkpoint or in a restore; the checkpoint before a turn is taken before *)
(* its agent gets it, so it has none of the agent's edits.                  *)

Trees(F, made) == [F -> 0..made]
CheckPhases == {"pre", "post", "undo"}
CheckStates == {"none", "capturing", "running", "finalizing", "over"}

CheckTyped(T, F, made) ==
  /\ x1 \in Trees(F, made)
  /\ x3 \in [T -> [CheckPhases -> SUBSET Trees(F, made)]]
  /\ x4 \in [T -> [state : CheckStates, wrote : SUBSET (1..made)]]
  /\ x5 \in [T -> [op : {"none", "capture", "checkout", "clean"}, target : Trees(F, made)]]
  /\ x6 \in [made : {made}, restores : Nat]

BeforeIsBefore(T, F) ==
  \A t \in T :
    /\ x4[t].state \in {"none", "capturing"} => x4[t].wrote = {}
    /\ \A pre \in x3[t]["pre"] : \A f \in F : pre[f] \notin x4[t].wrote

CheckInv(T, F) == (\E made \in Nat : CheckTyped(T, F, made)) /\ BeforeIsBefore(T, F)

LEMMA TreesGrow ==
  ASSUME NEW F, NEW made \in Nat
  PROVE  Trees(F, made) \subseteq Trees(F, made + 1)
<1>1. 0..made \subseteq 0..made + 1
  OBVIOUS
<1>2. QED
  BY <1>1 DEF Trees

LEMMA Captures ==
  ASSUME NEW T, NEW S, NEW t \in T, NEW p \in CheckPhases, NEW tree \in S,
         NEW r \in [T -> [CheckPhases -> SUBSET S]], NEW q, q = [r EXCEPT ![t][p] = {tree}]
  PROVE  /\ q \in [T -> [CheckPhases -> SUBSET S]]
         /\ \A u \in T, o \in CheckPhases : q[u][o] = IF u = t /\ o = p THEN {tree} ELSE r[u][o]
<1>1. PICK row \in [CheckPhases -> SUBSET S] : row = [r[t] EXCEPT ![p] = {tree}]
  OBVIOUS
<1>2. q = [r EXCEPT ![t] = row]
  BY <1>1
<1>3. \A o \in CheckPhases : row[o] = IF o = p THEN {tree} ELSE r[t][o]
  BY <1>1
<1>4. q \in [T -> [CheckPhases -> SUBSET S]]
  BY <1>2
<1>5. \A u \in T : q[u] = IF u = t THEN row ELSE r[u]
  BY <1>2
<1>6. QED
  BY <1>3, <1>4, <1>5

LEMMA CheckStarts ==
  ASSUME NEW T, NEW F, NEW n, NEW m, Check(T, F, n, m)!Init
  PROVE  CheckInv(T, F)
<1>1. CheckTyped(T, F, 0)
  BY DEF Check!Init, Check!NoFile, Check!Phases, Check!NoRestore, CheckTyped, Trees, CheckPhases,
         CheckStates
<1>2. BeforeIsBefore(T, F)
  BY DEF Check!Init, Check!Phases, BeforeIsBefore
<1>3. QED
  BY <1>1, <1>2 DEF CheckInv

(* An edit is new to all there is.                                          *)
LEMMA EditIsNew ==
  ASSUME NEW T, NEW F, NEW n, NEW m, NEW made \in Nat, CheckTyped(T, F, made), NEW f \in F,
         Check(T, F, n, m)!Edits(f), x3' = x3, x5' = x5,
         x4' \in [T -> [state : CheckStates, wrote : SUBSET (1..made + 1)]]
  PROVE  CheckTyped(T, F, made + 1)'
<1>1. x1' = [x1 EXCEPT ![f] = made + 1] /\ x6' = [x6 EXCEPT !.made = made + 1]
  BY DEF CheckTyped, Check!Edits, Check!Wrote, Check!Fresh
<1>2. x6' \in [made : {made + 1}, restores : Nat]
  BY <1>1 DEF CheckTyped
<1>3. x1' \in Trees(F, made + 1)
  <2>1. x1 \in Trees(F, made + 1)
    BY TreesGrow DEF CheckTyped
  <2>2. QED
    BY <1>1, <2>1 DEF Trees
<1>4. x3' \in [T -> [CheckPhases -> SUBSET Trees(F, made + 1)]]
  BY TreesGrow DEF CheckTyped
<1>5. x5' \in [T -> [op : {"none", "capture", "checkout", "clean"}, target : Trees(F, made + 1)]]
  BY TreesGrow DEF CheckTyped
<1>6. QED
  BY <1>2, <1>3, <1>4, <1>5 DEF CheckTyped

LEMMA CheckEdit ==
  ASSUME NEW T, NEW F, NEW n, NEW m, CheckInv(T, F), NEW f \in F,
         Check(T, F, n, m)!UserEdits(f) \/ \E t \in T : Check(T, F, n, m)!AgentEdits(t, f)
  PROVE  CheckInv(T, F)'
<1>1. PICK made \in Nat : CheckTyped(T, F, made)
  BY DEF CheckInv
<1>2. SUBSET (1..made) \subseteq SUBSET (1..made + 1)
  OBVIOUS
<1>3. CASE Check(T, F, n, m)!UserEdits(f)
  <2>1. x3' = x3 /\ x4' = x4 /\ x5' = x5 /\ Check(T, F, n, m)!Edits(f)
    BY <1>3 DEF Check!UserEdits
  <2>2. x4' \in [T -> [state : CheckStates, wrote : SUBSET (1..made + 1)]]
    BY <1>1, <1>2, <2>1 DEF CheckTyped
  <2>3. CheckTyped(T, F, made + 1)'
    BY <1>1, <2>1, <2>2, EditIsNew
  <2>4. BeforeIsBefore(T, F)'
    BY <2>1 DEF CheckInv, BeforeIsBefore
  <2>5. QED
    BY <1>1, <2>3, <2>4 DEF CheckInv
<1>4. ASSUME NEW t \in T, Check(T, F, n, m)!AgentEdits(t, f) PROVE CheckInv(T, F)'
  <2>1. x3' = x3 /\ x5' = x5 /\ Check(T, F, n, m)!Edits(f) /\ x4[t].state = "running"
    BY <1>4 DEF Check!AgentEdits, Check!Dispatched
  <2>2. x4' = [x4 EXCEPT ![t].wrote = @ \cup {made + 1}]
    BY <1>1, <1>4 DEF Check!AgentEdits, Check!Fresh, CheckTyped
  <2>3. x4' \in [T -> [state : CheckStates, wrote : SUBSET (1..made + 1)]]
    <3>1. x4 \in [T -> [state : CheckStates, wrote : SUBSET (1..made + 1)]]
      BY <1>1, <1>2 DEF CheckTyped
    <3>2. x4[t].wrote \cup {made + 1} \in SUBSET (1..made + 1)
      BY <1>1, <3>1
    <3>3. QED
      BY <2>2, <3>1, <3>2
  <2>4. CheckTyped(T, F, made + 1)'
    BY <1>1, <2>1, <2>3, EditIsNew
  <2>5. BeforeIsBefore(T, F)'
    <3>1. SUFFICES ASSUME NEW u \in T
                   PROVE  /\ x4'[u].state \in {"none", "capturing"} => x4'[u].wrote = {}
                          /\ \A pre \in x3[u]["pre"] : \A g \in F : pre[g] \notin x4'[u].wrote
      BY <2>1 DEF BeforeIsBefore
    <3>2. CASE u # t
      BY <1>1, <2>2, <3>2 DEF CheckInv, BeforeIsBefore, CheckTyped
    <3>3. CASE u = t
      <4>1. x4'[t].state = "running" /\ x4'[t].wrote = x4[t].wrote \cup {made + 1}
        BY <1>1, <2>1, <2>2 DEF CheckTyped
      <4>2. ASSUME NEW pre \in x3[t]["pre"], NEW g \in F PROVE pre[g] \notin x4'[t].wrote
        <5>1. pre \in Trees(F, made)
          BY <1>1 DEF CheckTyped, CheckPhases
        <5>2. pre[g] \in 0..made
          BY <5>1 DEF Trees
        <5>3. pre[g] # made + 1
          BY <1>1, <5>2
        <5>4. QED
          BY <4>1, <5>3 DEF CheckInv, BeforeIsBefore
      <4>3. QED
        BY <3>3, <4>1, <4>2
    <3>4. QED
      BY <3>2, <3>3
  <2>6. QED
    BY <1>1, <2>4, <2>5 DEF CheckInv
<1>5. QED
  BY <1>3, <1>4

(* A turn goes on: the checkpoint before it is taken while its agent has    *)
(* written nothing yet.                                                     *)
LEMMA CheckTurn ==
  ASSUME NEW T, NEW F, NEW n, NEW m, CheckInv(T, F), NEW t \in T,
         \/ Check(T, F, n, m)!SendTurn(t) \/ Check(T, F, n, m)!CapturePre(t)
         \/ Check(T, F, n, m)!TurnCompleted(t) \/ Check(T, F, n, m)!FinalizeCheckpoints(t)
  PROVE  CheckInv(T, F)'
<1>1. PICK made \in Nat : CheckTyped(T, F, made)
  BY DEF CheckInv
<1>2. PICK s \in CheckStates : x4' = [x4 EXCEPT ![t].state = s] /\ s # "none"
                               /\ (s = "capturing" => x4[t].state = "none")
  BY DEF Check!SendTurn, Check!CapturePre, Check!TurnCompleted, Check!FinalizeCheckpoints,
         CheckStates
<1>3. x1' = x1 /\ x2' = x2 /\ x5' = x5 /\ x6' = x6
  BY DEF Check!SendTurn, Check!CapturePre, Check!TurnCompleted, Check!FinalizeCheckpoints
<1>4. \/ x3' = x3
      \/ x3' = [x3 EXCEPT ![t]["pre"] = {x1}] /\ x4[t].state = "capturing"
      \/ x3' = [x3 EXCEPT ![t]["post"] = {x1}]
  BY DEF Check!SendTurn, Check!CapturePre, Check!TurnCompleted, Check!FinalizeCheckpoints,
         Check!Captured
<1>5. CheckTyped(T, F, made)'
  <2>1. x3' \in [T -> [CheckPhases -> SUBSET Trees(F, made)]]
    <3>1. x1 \in Trees(F, made) /\ x3 \in [T -> [CheckPhases -> SUBSET Trees(F, made)]]
      BY <1>1 DEF CheckTyped
    <3>2. "pre" \in CheckPhases /\ "post" \in CheckPhases
      BY DEF CheckPhases
    <3>3. QED
      BY <1>4, <3>1, <3>2, Captures
  <2>2. x4' \in [T -> [state : CheckStates, wrote : SUBSET (1..made)]]
    BY <1>1, <1>2 DEF CheckTyped
  <2>3. QED
    BY <1>1, <1>3, <2>1, <2>2 DEF CheckTyped
<1>6. BeforeIsBefore(T, F)'
  <2>1. SUFFICES ASSUME NEW u \in T
                 PROVE  /\ x4'[u].state \in {"none", "capturing"} => x4'[u].wrote = {}
                        /\ \A pre \in x3'[u]["pre"] : \A g \in F : pre[g] \notin x4'[u].wrote
    BY DEF BeforeIsBefore
  <2>2. x4'[u].wrote = x4[u].wrote /\ (u # t => x4'[u].state = x4[u].state)
        /\ (u = t => x4'[u].state = s)
    BY <1>1, <1>2 DEF CheckTyped
  <2>3. CASE x3'[u]["pre"] = x3[u]["pre"]
    BY <1>2, <2>2, <2>3 DEF CheckInv, BeforeIsBefore
  <2>4. CASE u = t /\ x4[t].state = "capturing"
    BY <1>2, <2>2, <2>4 DEF CheckInv, BeforeIsBefore
  <2>5. x3'[u]["pre"] = x3[u]["pre"] \/ (u = t /\ x4[t].state = "capturing")
    <3>1. x1 \in Trees(F, made) /\ x3 \in [T -> [CheckPhases -> SUBSET Trees(F, made)]]
      BY <1>1 DEF CheckTyped
    <3>2. "pre" \in CheckPhases /\ "post" \in CheckPhases /\ "pre" # "post"
      BY DEF CheckPhases
    <3>3. QED
      BY <1>4, <3>1, <3>2, Captures
  <2>6. QED
    BY <2>3, <2>4, <2>5
<1>7. QED
  BY <1>1, <1>5, <1>6 DEF CheckInv

(* The agent of a turn stages a file, or a restore goes on: it captures its  *)
(* own recovery point, and brings back nothing that was not there before.   *)
LEMMA CheckRest ==
  ASSUME NEW T, NEW F, NEW n, NEW m, CheckInv(T, F), NEW t \in T,
         \/ \E p \in CheckPhases : Check(T, F, n, m)!Restore(t, p)
         \/ Check(T, F, n, m)!RestoreCapture(t) \/ Check(T, F, n, m)!RestoreCheckout(t)
         \/ Check(T, F, n, m)!RestoreClean(t) \/ \E f \in F : Check(T, F, n, m)!AgentAdds(t, f)
  PROVE  CheckInv(T, F)'
<1>1. PICK made \in Nat : CheckTyped(T, F, made)
  BY DEF CheckInv
<1>2. x4' = x4 /\ (x3' = x3 \/ x3' = [x3 EXCEPT ![t]["undo"] = {x1}])
  BY DEF Check!Restore, Check!RestoreCapture, Check!RestoreCheckout, Check!RestoreClean,
         Check!AgentAdds, Check!Captured
<1>3. CheckTyped(T, F, made)'
  <2>1. x3' \in [T -> [CheckPhases -> SUBSET Trees(F, made)]]
    <3>1. x1 \in Trees(F, made) /\ x3 \in [T -> [CheckPhases -> SUBSET Trees(F, made)]]
      BY <1>1 DEF CheckTyped
    <3>2. "undo" \in CheckPhases
      BY DEF CheckPhases
    <3>3. QED
      BY <1>2, <3>1, <3>2, Captures
  <2>2. CASE \E p \in CheckPhases : Check(T, F, n, m)!Restore(t, p)
    <3>0. PICK p \in CheckPhases : Check(T, F, n, m)!Restore(t, p)
      BY <2>2
    <3>1. PICK tree \in x3[t][p] : x5' = [x5 EXCEPT ![t] = [op |-> "capture", target |-> tree]]
      BY <3>0 DEF Check!Restore
    <3>2. tree \in Trees(F, made)
      BY <1>1, <3>1 DEF CheckTyped
    <3>3. x5' \in [T -> [op : {"none", "capture", "checkout", "clean"}, target : Trees(F, made)]]
      BY <1>1, <3>1, <3>2 DEF CheckTyped
    <3>4. x1' = x1 /\ x6' = [x6 EXCEPT !.restores = @ + 1]
      BY <3>0 DEF Check!Restore
    <3>5. x6' \in [made : {made}, restores : Nat]
      BY <1>1, <3>4 DEF CheckTyped
    <3>6. QED
      BY <1>1, <1>2, <2>1, <3>3, <3>4, <3>5 DEF CheckTyped
  <2>3. CASE Check(T, F, n, m)!RestoreCapture(t)
    <3>0. [f \in F |-> 0] \in Trees(F, made)
      BY <1>1 DEF Trees
    <3>1. PICK empty \in Trees(F, made) : empty = [f \in F |-> 0]
      BY <3>0
    <3>2. x1' = x1 /\ x6' = x6
          /\ \/ x5' = [x5 EXCEPT ![t].op = "checkout"]
             \/ x5' = [x5 EXCEPT ![t] = [op |-> "none", target |-> empty]]
      BY <2>3, <3>1 DEF Check!RestoreCapture, Check!NoRestore, Check!NoFile
    <3>3. x5' \in [T -> [op : {"none", "capture", "checkout", "clean"}, target : Trees(F, made)]]
      <4>1. x5 \in [T -> [op : {"none", "capture", "checkout", "clean"}, target : Trees(F, made)]]
        BY <1>1 DEF CheckTyped
      <4>2. CASE x5' = [x5 EXCEPT ![t].op = "checkout"]
        BY <4>1, <4>2
      <4>3. CASE x5' = [x5 EXCEPT ![t] = [op |-> "none", target |-> empty]]
        BY <4>1, <4>3
      <4>4. QED
        BY <3>2, <4>2, <4>3
    <3>4. QED
      BY <1>1, <1>2, <2>1, <3>2, <3>3 DEF CheckTyped
  <2>4. CASE Check(T, F, n, m)!RestoreCheckout(t)
    <3>1. x6' = x6 /\ x5' = [x5 EXCEPT ![t].op = "clean"]
          /\ x1' = [f \in F |-> IF f \in {g \in F : x5[t].target[g] # 0} THEN x5[t].target[f]
                                ELSE x1[f]]
      BY <2>4 DEF Check!RestoreCheckout, Check!NoFile
    <3>2. x1' \in Trees(F, made)
      BY <1>1, <3>1 DEF CheckTyped, Trees
    <3>3. x5' \in [T -> [op : {"none", "capture", "checkout", "clean"}, target : Trees(F, made)]]
      BY <1>1, <3>1 DEF CheckTyped
    <3>4. QED
      BY <1>1, <1>2, <2>1, <3>1, <3>2, <3>3 DEF CheckTyped
  <2>5. CASE Check(T, F, n, m)!RestoreClean(t)
    <3>1. x6' = x6 /\ x5' = [x5 EXCEPT ![t] = [op |-> "none", target |-> [f \in F |-> 0]]]
          /\ x1' = [f \in F |-> IF f \notin x2 /\ x5[t].target[f] = 0 THEN 0 ELSE x1[f]]
      BY <2>5 DEF Check!RestoreClean, Check!NoRestore, Check!NoFile
    <3>2. [f \in F |-> 0] \in Trees(F, made) /\ x1' \in Trees(F, made)
      BY <1>1, <3>1 DEF CheckTyped, Trees
    <3>3. x5' \in [T -> [op : {"none", "capture", "checkout", "clean"}, target : Trees(F, made)]]
      BY <1>1, <3>1, <3>2 DEF CheckTyped
    <3>4. QED
      BY <1>1, <1>2, <2>1, <3>1, <3>2, <3>3 DEF CheckTyped
  <2>6. CASE \E f \in F : Check(T, F, n, m)!AgentAdds(t, f)
    BY <1>1, <2>6 DEF Check!AgentAdds, CheckTyped
  <2>7. QED
    BY <2>2, <2>3, <2>4, <2>5, <2>6
<1>4. BeforeIsBefore(T, F)'
  <2>1. \A u \in T : x3'[u]["pre"] = x3[u]["pre"]
    <3>1. x1 \in Trees(F, made) /\ x3 \in [T -> [CheckPhases -> SUBSET Trees(F, made)]]
      BY <1>1 DEF CheckTyped
    <3>2. "pre" \in CheckPhases /\ "undo" \in CheckPhases /\ "pre" # "undo"
      BY DEF CheckPhases
    <3>3. QED
      BY <1>2, <3>1, <3>2, Captures
  <2>2. QED
    BY <1>2, <2>1 DEF CheckInv, BeforeIsBefore
<1>5. QED
  BY <1>1, <1>3, <1>4 DEF CheckInv

LEMMA CheckKept ==
  ASSUME NEW T, NEW F, NEW n, NEW m, CheckInv(T, F), Check(T, F, n, m)!Next
  PROVE  CheckInv(T, F)'
BY CheckEdit, CheckTurn, CheckRest DEF Check!Next, Check!Phases, CheckPhases

LEMMA CheckShows ==
  ASSUME NEW T, NEW F, NEW n, NEW m, CheckInv(T, F)
  PROVE  Check(T, F, n, m)!DiffShowsEdits
BY DEF CheckInv, BeforeIsBefore, Check!DiffShowsEdits

LEMMA CheckInduct ==
  ASSUME NEW T, NEW F, NEW n, NEW m
  PROVE  /\ Check(T, F, n, m)!Init => CheckInv(T, F)
         /\ CheckInv(T, F) /\ [Check(T, F, n, m)!Next]_(Check(T, F, n, m)!vars) => CheckInv(T, F)'
         /\ CheckInv(T, F) => Check(T, F, n, m)!DiffShowsEdits
<1>1. CheckInv(T, F) /\ UNCHANGED Check(T, F, n, m)!vars => CheckInv(T, F)'
  BY DEF Check!vars, CheckInv, CheckTyped, BeforeIsBefore
<1>2. QED
  BY <1>1, CheckStarts, CheckKept, CheckShows

(* Of any threads and files: the diff of a turn shows every file its agent  *)
(* edited, whatever other agents, the user and restores do meanwhile.       *)
THEOREM DiffsShowEdits ==
  ASSUME NEW CONSTANT T, NEW CONSTANT F, NEW CONSTANT n, NEW CONSTANT m
  PROVE  Check(T, F, n, m)!Spec => []Check(T, F, n, m)!DiffShowsEdits
<1>1. Check(T, F, n, m)!Init => CheckInv(T, F)
  BY CheckInduct
<1>2. CheckInv(T, F) /\ [Check(T, F, n, m)!Next]_(Check(T, F, n, m)!vars) => CheckInv(T, F)'
  BY CheckInduct
<1>3. CheckInv(T, F) => Check(T, F, n, m)!DiffShowsEdits
  BY CheckInduct
<1>4. QED
  BY <1>1, <1>2, <1>3, PTL DEF Check!Spec
-----------------------------------------------------------------------------
(* New conversations                                                        *)

ComModels(K) == K \cup {"default"}
ComModes     == {"supervised", "full_access"}
ComSteps     == {"no", "create", "mode", "model", "refresh", "snapshot", "send", "done", "failed"}
ComDrafts(K) ==
  [kind : K, model : ComModels(K), mode : ComModes, saved : K \cup {"nobody"}, moved : BOOLEAN]
ComBoxes     ==
  [text : BOOLEAN, images : Nat, reads : SUBSET [drop : Nat, room : Nat], crossed : BOOLEAN]
ComCalls(K)  == [at : ComSteps, kind : K, model : ComModels(K), mode : ComModes, images : Nat]
ComRows(K)   ==
  [kind : K \cup {"nobody"}, model : ComModels(K), mode : ComModes, turns : Nat]
ComWins(S)   ==
  [busy : BOOLEAN, open : S \cup {"nobody"}, turn : S \cup {"nobody"}, away : BOOLEAN]

(* The row of a thread has what the requests that were answered have set.   *)
RowIsSet(c, r) ==
  /\ c.at \in {"no", "create", "mode", "model", "refresh", "snapshot", "send"} => r.turns = 0
  /\ c.at \in {"no", "create", "mode"} => r.mode = "supervised"
  /\ c.at \in {"no", "create", "mode", "model"} => r.model = "default"
  /\ c.at \in {"mode", "model"} => r.kind = c.kind
  /\ c.at = "model" => r.mode = c.mode
  /\ c.at \in {"refresh", "snapshot", "send", "done"} \/ r.turns > 0 =>
       r.kind = c.kind /\ r.model = c.model /\ r.mode = c.mode

(* One drop is read at a time, and has the room there was for it.           *)
RoomIsKept(b, im) ==
  ~b.crossed =>
    \/ b.reads = {} /\ b.images <= im
    \/ \E r \in [drop : Nat, room : Nat] : b.reads = {r} /\ b.images + r.room <= im

ComInv(K, S, im) ==
  /\ x1 \in [there : SUBSET K, off : SUBSET K]
  /\ x2 \in ComDrafts(K) /\ (x2.moved \/ x2.model \in {"default", x2.kind})
  /\ x3 \in ComBoxes /\ RoomIsKept(x3, im)
  /\ x4 \in [S -> ComCalls(K)] /\ x5 \in [S -> ComRows(K)]
  /\ \A s \in S : RowIsSet(x4[s], x5[s])
  /\ x6 \in ComWins(S) /\ (x6.away \/ x6.turn \in {"nobody", x6.open})
  /\ x7 \in [drops : Nat, changes : Nat]

LEMMA ComStarts ==
  ASSUME NEW K, NEW i \in K, NEW S, NEW im \in Nat, NEW fi \in Nat, NEW dr, NEW ch,
         Com(K, i, S, im, fi, dr, ch)!Init
  PROVE  ComInv(K, S, im)
<1> USE DEF Com!Init, Com!Nobody, Com!Default, Com!NoCall, Com!NoRow
<1>1. x1 \in [there : SUBSET K, off : SUBSET K] /\ x7 \in [drops : Nat, changes : Nat]
  OBVIOUS
<1>2. x2 \in ComDrafts(K) /\ x2.model = "default"
  BY DEF ComDrafts, ComModels, ComModes
<1>3. x3 \in ComBoxes /\ x3.reads = {} /\ x3.images = 0
  BY DEF ComBoxes
<1>4. x4 \in [S -> ComCalls(K)] /\ x5 \in [S -> ComRows(K)] /\ \A s \in S : RowIsSet(x4[s], x5[s])
  BY DEF ComCalls, ComRows, ComSteps, ComModels, ComModes, RowIsSet
<1>5. x6 \in ComWins(S) /\ x6.turn = "nobody"
  BY DEF ComWins
<1>6. QED
  BY <1>1, <1>2, <1>3, <1>4, <1>5 DEF ComInv, RoomIsKept

(* The draft *)
LEMMA ComDraftKept ==
  ASSUME NEW K, NEW i \in K, NEW S, NEW im \in Nat, NEW fi \in Nat, NEW dr, NEW ch,
         ComInv(K, S, im), Com(K, i, S, im, fi, dr, ch)!Next
  PROVE  /\ x1' \in [there : SUBSET K, off : SUBSET K]
         /\ x2' \in ComDrafts(K) /\ (x2'.moved \/ x2'.model \in {"default", x2'.kind})
         /\ x7' \in [drops : Nat, changes : Nat]
<1> DEFINE Goal == /\ x1' \in [there : SUBSET K, off : SUBSET K]
                   /\ x2' \in ComDrafts(K) /\ (x2'.moved \/ x2'.model \in {"default", x2'.kind})
<1>0. /\ x1 \in [there : SUBSET K, off : SUBSET K] /\ x2 \in ComDrafts(K)
      /\ x2.moved \/ x2.model \in {"default", x2.kind}
  BY DEF ComInv
<1>1. ASSUME Com(K, i, S, im, fi, dr, ch)!Detected PROVE Goal
  <2>1. PICK s \in SUBSET K : x1' = [x1 EXCEPT !.there = s]
    BY <1>1 DEF Com!Detected
  <2>2. x1' \in [there : SUBSET K, off : SUBSET K]
    BY <1>0, <2>1
  <2>3. PICK U \in SUBSET K : U = x1'.there \ x1'.off
    BY <2>2
  <2>4. \/ x2' = x2
        \/ /\ U # {}
           /\ x2' = [x2 EXCEPT !.kind = IF x2.saved \in U THEN x2.saved ELSE CHOOSE k \in U : TRUE,
                               !.moved = TRUE]
    BY <1>1, <2>3 DEF Com!Detected, Com!Settle, Com!Usable
  <2>5. CASE x2' = x2
    BY <1>0, <2>2, <2>5
  <2>6. CASE x2' # x2
    <3>1. PICK k \in U : x2' = [x2 EXCEPT !.kind = k, !.moved = TRUE]
      BY <2>4, <2>6
    <3>2. QED
      BY <1>0, <2>2, <3>1 DEF ComDrafts
  <2>7. QED
    BY <2>5, <2>6
<1>2. ASSUME Com(K, i, S, im, fi, dr, ch)!Toggle PROVE Goal
  <2>1. PICK k \in K : x1' = [x1 EXCEPT !.off = IF k \in @ THEN @ \ {k} ELSE @ \cup {k}] /\ x2' = x2
    BY <1>2 DEF Com!Toggle
  <2>2. QED
    BY <1>0, <2>1
<1>3. ASSUME Com(K, i, S, im, fi, dr, ch)!PickAgent PROVE Goal
  <2>1. PICK k \in (x1.there \ x1.off) \cup {x2.kind} :
          \E m \in {"default", k} :
            x1' = x1 /\ x2' = [x2 EXCEPT !.kind = k, !.model = m, !.saved = k, !.moved = FALSE]
    BY <1>3 DEF Com!PickAgent, Com!Usable, Com!ModelsOf, Com!Default
  <2>2. PICK m \in {"default", k} :
            x1' = x1 /\ x2' = [x2 EXCEPT !.kind = k, !.model = m, !.saved = k, !.moved = FALSE]
    BY <2>1
  <2>3. k \in K
    BY <1>0, <2>1 DEF ComDrafts
  <2>4. QED
    BY <1>0, <2>2, <2>3 DEF ComDrafts, ComModels
<1>4. ASSUME Com(K, i, S, im, fi, dr, ch)!PickMode PROVE Goal
  <2>1. PICK m \in ComModes : x1' = x1 /\ x2' = [x2 EXCEPT !.mode = m]
    BY <1>4 DEF Com!PickMode, Com!PermissionModes, ComModes
  <2>2. QED
    BY <1>0, <2>1 DEF ComDrafts
<1>5. ASSUME NEW s \in S, Com(K, i, S, im, fi, dr, ch)!Submit(s) PROVE Goal
  <2>1. x1' = x1 /\ x2' = [x2 EXCEPT !.saved = x2.kind]
    BY <1>5 DEF Com!Submit
  <2>2. QED
    BY <1>0, <2>1 DEF ComDrafts
<1>6. ASSUME \/ Com(K, i, S, im, fi, dr, ch)!Type \/ Com(K, i, S, im, fi, dr, ch)!AddFiles
             \/ Com(K, i, S, im, fi, dr, ch)!FilesRead \/ Com(K, i, S, im, fi, dr, ch)!RemoveImage
             \/ Com(K, i, S, im, fi, dr, ch)!OpenThread
             \/ \E s \in S : \/ Com(K, i, S, im, fi, dr, ch)!Answered(s)
                             \/ Com(K, i, S, im, fi, dr, ch)!Fails(s)
      PROVE  Goal
  <2>1. x1' = x1 /\ x2' = x2
    BY <1>6 DEF Com!Type, Com!AddFiles, Com!FilesRead, Com!RemoveImage, Com!OpenThread, Com!Answered,
                Com!Fails
  <2>2. QED
    BY <1>0, <2>1
<1>7. x7' \in [drops : Nat, changes : Nat]
  <2>1. \/ x7' = x7 \/ x7' = [x7 EXCEPT !.changes = @ + 1] \/ x7' = [x7 EXCEPT !.drops = @ + 1]
    BY DEF Com!Next, Com!Detected, Com!Toggle, Com!PickAgent, Com!PickMode, Com!Type, Com!AddFiles,
           Com!FilesRead, Com!RemoveImage, Com!Submit, Com!Answered, Com!Fails, Com!OpenThread,
           Com!Changes
  <2>2. QED
    BY <2>1 DEF ComInv
<1>8. QED
  <2>1. Goal
    BY <1>1, <1>2, <1>3, <1>4, <1>5, <1>6 DEF Com!Next
  <2>2. QED
    BY <1>7, <2>1

(* The composer *)
LEMMA ComBoxKept ==
  ASSUME NEW K, NEW i \in K, NEW S, NEW im \in Nat, NEW fi \in Nat, NEW dr, NEW ch,
         ComInv(K, S, im), Com(K, i, S, im, fi, dr, ch)!Next
  PROVE  x3' \in ComBoxes /\ RoomIsKept(x3', im)
<1> DEFINE Goal == x3' \in ComBoxes /\ RoomIsKept(x3', im)
<1>0. x3 \in ComBoxes /\ RoomIsKept(x3, im)
  BY DEF ComInv
<1>1. CASE Com(K, i, S, im, fi, dr, ch)!Type
  <2>1. x3' = [x3 EXCEPT !.text = TRUE]
    BY <1>1 DEF Com!Type
  <2>2. QED
    BY <1>0, <2>1 DEF ComBoxes, RoomIsKept
<1>2. CASE Com(K, i, S, im, fi, dr, ch)!AddFiles
  <2>1. PICK n \in 1..fi :
          /\ x3.images < im
          /\ x3' = [x3 EXCEPT !.reads = @ \cup {[drop |-> x7.drops + 1,
                                    room |-> IF n < im - x3.images THEN n ELSE im - x3.images]},
                              !.crossed = @ \/ x3.reads # {}]
    BY <1>2 DEF Com!AddFiles, Com!Least
  <2>2. PICK room \in Nat : room = IF n < im - x3.images THEN n ELSE im - x3.images
    BY <1>0, <2>1 DEF ComBoxes
  <2>0. x7.drops + 1 \in Nat
    BY DEF ComInv
  <2>3. PICK r \in [drop : Nat, room : Nat] : r = [drop |-> x7.drops + 1, room |-> room]
    BY <2>0, <2>2
  <2>4. PICK late \in BOOLEAN : late = (x3.crossed \/ x3.reads # {})
    <3>1. (x3.crossed \/ x3.reads # {}) \in BOOLEAN
      OBVIOUS
    <3>2. QED
      BY <3>1, Zenon
  <2>5. x3' = [x3 EXCEPT !.reads = @ \cup {r}, !.crossed = late]
    BY <2>1, <2>2, <2>3, <2>4
  <2>6. x3' \in ComBoxes
    BY <1>0, <2>5 DEF ComBoxes
  <2>7. /\ x3'.reads = x3.reads \cup {r} /\ x3'.crossed = late /\ x3'.images = x3.images
        /\ r.room = room /\ x3.images \in Nat
    BY <1>0, <2>3, <2>5 DEF ComBoxes
  <2>8. ASSUME ~late PROVE x3'.reads = {r} /\ x3'.images + r.room <= im
    <3>1. x3.reads = {}
      BY <2>4, <2>8
    <3>2. x3.images + room <= im
      BY <2>1, <2>2, <2>7
    <3>3. QED
      BY <2>7, <3>1, <3>2
  <2>9. QED
    BY <2>6, <2>7, <2>8 DEF RoomIsKept
<1>3. CASE Com(K, i, S, im, fi, dr, ch)!FilesRead
  <2>1. PICK r \in x3.reads : \E n \in 0..r.room :
          x3' = [x3 EXCEPT !.images = @ + n, !.reads = @ \ {r}]
    BY <1>3 DEF Com!FilesRead
  <2>2. PICK n \in 0..r.room : x3' = [x3 EXCEPT !.images = @ + n, !.reads = @ \ {r}]
    BY <2>1
  <2>3. r.room \in Nat /\ n \in Nat /\ x3.images \in Nat /\ n <= r.room
    BY <1>0, <2>1, <2>2 DEF ComBoxes
  <2>a. PICK k \in Nat : k = x3.images + n
    BY <2>3
  <2>b. PICK rest \in SUBSET [drop : Nat, room : Nat] : rest = x3.reads \ {r}
    BY <1>0 DEF ComBoxes
  <2>c. x3' = [x3 EXCEPT !.images = k, !.reads = rest]
    BY <2>2, <2>a, <2>b
  <2>4. x3' \in ComBoxes /\ x3'.reads = x3.reads \ {r} /\ x3'.crossed = x3.crossed
        /\ x3'.images = x3.images + n
    BY <1>0, <2>a, <2>b, <2>c DEF ComBoxes
  <2>5. ASSUME ~x3.crossed PROVE x3'.reads = {} /\ x3'.images <= im
    <3>1. x3.reads = {r} /\ x3.images + r.room <= im
      BY <1>0, <2>1, <2>5 DEF RoomIsKept
    <3>2. QED
      BY <2>3, <2>4, <3>1
  <2>6. QED
    BY <2>4, <2>5 DEF RoomIsKept
<1>4. CASE Com(K, i, S, im, fi, dr, ch)!RemoveImage
  <2>1. x3.images > 0 /\ x3' = [x3 EXCEPT !.images = @ - 1]
    BY <1>4 DEF Com!RemoveImage
  <2>2. PICK k \in Nat : k = x3.images - 1 /\ k < x3.images /\ x3' = [x3 EXCEPT !.images = k]
    BY <1>0, <2>1 DEF ComBoxes
  <2>3. x3' \in ComBoxes /\ x3'.reads = x3.reads /\ x3'.crossed = x3.crossed /\ x3'.images = k
    BY <1>0, <2>2 DEF ComBoxes
  <2>4. x3.images \in Nat /\ \A r \in [drop : Nat, room : Nat] : r.room \in Nat
    BY <1>0 DEF ComBoxes
  <2>5. QED
    BY <1>0, <2>2, <2>3, <2>4 DEF RoomIsKept
<1>5. ASSUME NEW s \in S, Com(K, i, S, im, fi, dr, ch)!Submit(s) PROVE Goal
  <2>1. x3' = [x3 EXCEPT !.text = FALSE, !.images = 0]
    BY <1>5 DEF Com!Submit
  <2>2. x3' \in ComBoxes /\ x3'.reads = x3.reads /\ x3'.crossed = x3.crossed /\ x3'.images = 0
    BY <1>0, <2>1 DEF ComBoxes
  <2>3. x3.images \in Nat /\ \A r \in [drop : Nat, room : Nat] : r.room \in Nat
    BY <1>0 DEF ComBoxes
  <2>4. QED
    BY <1>0, <2>2, <2>3 DEF RoomIsKept
<1>6. ASSUME x3' = [x3 EXCEPT !.text = FALSE, !.images = 0, !.reads = {}] PROVE Goal
  <2>1. x3' \in ComBoxes /\ x3'.images = 0 /\ x3'.reads = {}
    BY <1>0, <1>6 DEF ComBoxes
  <2>2. QED
    BY <2>1 DEF RoomIsKept
<1>7. CASE x3' = x3
  BY <1>0, <1>7
<1>8. CASE \/ Com(K, i, S, im, fi, dr, ch)!Detected \/ Com(K, i, S, im, fi, dr, ch)!Toggle
           \/ Com(K, i, S, im, fi, dr, ch)!PickAgent \/ Com(K, i, S, im, fi, dr, ch)!PickMode
           \/ Com(K, i, S, im, fi, dr, ch)!OpenThread
           \/ \E s \in S : \/ Com(K, i, S, im, fi, dr, ch)!Answered(s)
                           \/ Com(K, i, S, im, fi, dr, ch)!Fails(s)
  <2>1. x3' = x3 \/ x3' = [x3 EXCEPT !.text = FALSE, !.images = 0, !.reads = {}]
    BY <1>8 DEF Com!Detected, Com!Toggle, Com!PickAgent, Com!PickMode, Com!OpenThread, Com!Answered,
                Com!Fails, Com!Opened
  <2>2. QED
    BY <1>6, <1>7, <2>1
<1>9. QED
  BY <1>1, <1>2, <1>3, <1>4, <1>5, <1>8 DEF Com!Next

(* The Sends: each answer sets what its request asked for.                  *)
RowAfter(r, c) ==
  CASE c.at = "create" -> [r EXCEPT !.kind = c.kind]
    [] c.at = "mode"   -> [r EXCEPT !.mode = c.mode]
    [] c.at = "model"  -> [r EXCEPT !.kind = c.kind, !.model = c.model]
    [] c.at = "send"   -> [r EXCEPT !.turns = @ + 1]
    [] OTHER -> r
NextStep(c) ==
  CASE c.at = "create" -> IF c.mode # "supervised" THEN "mode"
                          ELSE IF c.model # "default" THEN "model" ELSE "refresh"
    [] c.at = "mode"   -> IF c.model # "default" THEN "model" ELSE "refresh"
    [] c.at = "model"  -> "refresh"
    [] c.at = "refresh" -> "snapshot"
    [] c.at = "snapshot" -> "send"
    [] c.at = "send"   -> "done"

LEMMA ComSendsOn ==
  ASSUME NEW K, NEW c \in ComCalls(K), NEW r \in ComRows(K), RowIsSet(c, r),
         c.at \notin {"no", "done", "failed"},
         NEW q, q = RowAfter(r, c), NEW a, a = NextStep(c)
  PROVE  /\ q \in ComRows(K) /\ a \in ComSteps
         /\ RowIsSet([c EXCEPT !.at = a], q)
         /\ RowIsSet([c EXCEPT !.at = "failed"], q) /\ RowIsSet([c EXCEPT !.at = "failed"], r)
<1>0. c.at \in {"create", "mode", "model", "refresh", "snapshot", "send"}
  BY DEF ComCalls, ComSteps
<1>1. q \in ComRows(K) /\ a \in ComSteps
  <2>1. a \in ComSteps
    BY <1>0 DEF ComSteps, NextStep
  <2>2. c.kind \in K /\ c.model \in ComModels(K) /\ c.mode \in ComModes
    BY DEF ComCalls
  <2>3. CASE c.at = "send"
    <3>1. PICK n \in Nat : n = r.turns + 1
      BY DEF ComRows
    <3>2. q = [r EXCEPT !.turns = n]
      BY <2>3, <3>1 DEF RowAfter
    <3>3. QED
      BY <2>1, <3>1, <3>2 DEF ComRows
  <2>4. CASE c.at # "send"
    BY <1>0, <2>1, <2>2, <2>4 DEF ComRows, RowAfter
  <2>5. QED
    BY <2>3, <2>4
<1>2. \A b \in ComSteps : /\ [c EXCEPT !.at = b].at = b /\ [c EXCEPT !.at = b].kind = c.kind
                          /\ [c EXCEPT !.at = b].mode = c.mode /\ [c EXCEPT !.at = b].model = c.model
  BY DEF ComCalls
<1>3. "failed" \in ComSteps
  BY DEF ComSteps
<1>4. RowIsSet([c EXCEPT !.at = a], q)
  BY <1>0, <1>1, <1>2 DEF RowIsSet, ComRows, RowAfter, NextStep
<1>5. RowIsSet([c EXCEPT !.at = "failed"], q)
  BY <1>0, <1>2, <1>3 DEF RowIsSet, ComRows, RowAfter
<1>6. RowIsSet([c EXCEPT !.at = "failed"], r)
  BY <1>0, <1>2, <1>3 DEF RowIsSet, ComRows
<1>7. QED
  BY <1>1, <1>4, <1>5, <1>6

LEMMA ComCallsKept ==
  ASSUME NEW K, NEW i \in K, NEW S, NEW im \in Nat, NEW fi \in Nat, NEW dr, NEW ch,
         ComInv(K, S, im), Com(K, i, S, im, fi, dr, ch)!Next
  PROVE  /\ x4' \in [S -> ComCalls(K)] /\ x5' \in [S -> ComRows(K)]
         /\ \A s \in S : RowIsSet(x4'[s], x5'[s])
<1> DEFINE Goal == /\ x4' \in [S -> ComCalls(K)] /\ x5' \in [S -> ComRows(K)]
                   /\ \A s \in S : RowIsSet(x4'[s], x5'[s])
<1>0. /\ x4 \in [S -> ComCalls(K)] /\ x5 \in [S -> ComRows(K)]
      /\ \A s \in S : RowIsSet(x4[s], x5[s])
  BY DEF ComInv
<1>1. ASSUME NEW s \in S, NEW c \in ComCalls(K), NEW r \in ComRows(K),
             x4' = [x4 EXCEPT ![s] = c], x5' = [x5 EXCEPT ![s] = r], RowIsSet(c, r)
      PROVE  Goal
  BY <1>0, <1>1
<1>2. ASSUME NEW s \in S, Com(K, i, S, im, fi, dr, ch)!Submit(s) PROVE Goal
  <2>1. PICK c : c = [at |-> "create", kind |-> x2.kind, model |-> x2.model, mode |-> x2.mode,
                      images |-> x3.images]
    OBVIOUS
  <2>2. x4' = [x4 EXCEPT ![s] = c] /\ x5' = x5 /\ x4[s].at = "no"
    BY <1>2, <2>1 DEF Com!Submit
  <2>3. c \in ComCalls(K)
    BY <2>1 DEF ComInv, ComCalls, ComDrafts, ComBoxes, ComSteps
  <2>4. RowIsSet(c, x5[s])
    <3>1. RowIsSet(x4[s], x5[s]) /\ x5[s].turns = 0
      BY <1>0, <2>2 DEF RowIsSet
    <3>2. QED
      BY <2>1, <2>2, <3>1 DEF RowIsSet
  <2>5. x5' = [x5 EXCEPT ![s] = x5[s]] /\ x5[s] \in ComRows(K)
    BY <1>0, <2>2
  <2>6. QED
    BY <1>1, <2>2, <2>3, <2>4, <2>5
<1>3. ASSUME NEW s \in S,
             \/ Com(K, i, S, im, fi, dr, ch)!Answered(s) \/ Com(K, i, S, im, fi, dr, ch)!Fails(s)
      PROVE  Goal
  <2>1. PICK c \in ComCalls(K) : c = x4[s]
    BY <1>0
  <2>2. PICK r \in ComRows(K) : r = x5[s] /\ RowIsSet(c, r)
    BY <1>0, <2>1
  <2>3. PICK q : q = RowAfter(r, c)
    OBVIOUS
  <2>4. PICK a : a = NextStep(c)
    OBVIOUS
  <2>5. c.at \notin {"no", "done", "failed"}
    BY <1>3, <2>1 DEF Com!Answered, Com!Fails, Com!Busy
  <2>6. /\ q \in ComRows(K) /\ a \in ComSteps
        /\ RowIsSet([c EXCEPT !.at = a], q)
        /\ RowIsSet([c EXCEPT !.at = "failed"], q) /\ RowIsSet([c EXCEPT !.at = "failed"], r)
    BY <2>2, <2>3, <2>4, <2>5, ComSendsOn
  <2>7. \A b \in ComSteps : [c EXCEPT !.at = b] \in ComCalls(K)
    BY DEF ComCalls
  <2>8. "failed" \in ComSteps
    BY DEF ComSteps
  <2>9. CASE Com(K, i, S, im, fi, dr, ch)!Answered(s)
    <3>1. x4' = [x4 EXCEPT ![s].at = a] /\ x5' = [x5 EXCEPT ![s] = q]
      BY <2>1, <2>2, <2>3, <2>4, <2>9 DEF Com!Answered, Com!Row, Com!After, Com!Default,
                                         RowAfter, NextStep
    <3>2. x4' = [x4 EXCEPT ![s] = [c EXCEPT !.at = a]]
      BY <2>1, <3>1
    <3>3. QED
      BY <1>1, <2>6, <2>7, <3>1, <3>2
  <2>10. CASE Com(K, i, S, im, fi, dr, ch)!Fails(s)
    <3>1. x4' = [x4 EXCEPT ![s].at = "failed"] /\ (x5' = x5 \/ x5' = [x5 EXCEPT ![s] = q])
      BY <2>1, <2>2, <2>3, <2>10 DEF Com!Fails, Com!Row, RowAfter
    <3>2. x4' = [x4 EXCEPT ![s] = [c EXCEPT !.at = "failed"]]
      BY <2>1, <3>1
    <3>3. x5 = [x5 EXCEPT ![s] = r]
      BY <1>0, <2>2
    <3>4. QED
      BY <1>1, <2>6, <2>7, <2>8, <3>1, <3>2, <3>3
  <2>11. QED
    BY <1>3, <2>9, <2>10
<1>4. CASE \/ Com(K, i, S, im, fi, dr, ch)!Detected \/ Com(K, i, S, im, fi, dr, ch)!Toggle
           \/ Com(K, i, S, im, fi, dr, ch)!PickAgent \/ Com(K, i, S, im, fi, dr, ch)!PickMode
           \/ Com(K, i, S, im, fi, dr, ch)!Type \/ Com(K, i, S, im, fi, dr, ch)!AddFiles
           \/ Com(K, i, S, im, fi, dr, ch)!FilesRead \/ Com(K, i, S, im, fi, dr, ch)!RemoveImage
           \/ Com(K, i, S, im, fi, dr, ch)!OpenThread
  <2>1. x4' = x4 /\ x5' = x5
    BY <1>4 DEF Com!Detected, Com!Toggle, Com!PickAgent, Com!PickMode, Com!Type, Com!AddFiles,
                Com!FilesRead, Com!RemoveImage, Com!OpenThread
  <2>2. QED
    BY <1>0, <2>1
<1>5. QED
  BY <1>2, <1>3, <1>4 DEF Com!Next

(* The page: opening a thread shows no turn of another.                     *)
LEMMA ComWinKept ==
  ASSUME NEW K, NEW i \in K, NEW S, NEW im \in Nat, NEW fi \in Nat, NEW dr, NEW ch,
         ComInv(K, S, im), Com(K, i, S, im, fi, dr, ch)!Next
  PROVE  x6' \in ComWins(S) /\ (x6'.away \/ x6'.turn \in {"nobody", x6'.open})
<1> DEFINE Goal == x6' \in ComWins(S) /\ (x6'.away \/ x6'.turn \in {"nobody", x6'.open})
<1>0. x6 \in ComWins(S) /\ (x6.away \/ x6.turn \in {"nobody", x6.open})
  BY DEF ComInv
<1>1. ASSUME NEW t \in S, x6' = [[x6 EXCEPT !.away = FALSE] EXCEPT !.open = t, !.turn = "nobody"]
      PROVE  Goal
  BY <1>0, <1>1 DEF ComWins
<1>2. ASSUME NEW b \in BOOLEAN, x6' = [x6 EXCEPT !.busy = b] PROVE Goal
  BY <1>0, <1>2 DEF ComWins
<1>3. CASE x6' = x6
  BY <1>0, <1>3
<1>4. ASSUME NEW s \in S, Com(K, i, S, im, fi, dr, ch)!Answered(s) PROVE Goal
  <2>1. CASE x4[s].at = "refresh"
    BY <1>1, <1>4, <2>1 DEF Com!Answered, Com!Opened, Com!Nobody
  <2>2. CASE x4[s].at = "send"
    <3>1. x6' = [x6 EXCEPT !.turn = s, !.busy = FALSE, !.away = @ \/ x6.open # s]
      BY <1>4, <2>2 DEF Com!Answered
    <3>2. (x6.away \/ x6.open # s) \in BOOLEAN
      OBVIOUS
    <3>3. PICK w \in BOOLEAN : w = (x6.away \/ x6.open # s)
      BY <3>2, Zenon
    <3>4. x6' = [x6 EXCEPT !.turn = s, !.busy = FALSE, !.away = w]
      BY <3>1, <3>3
    <3>5. x6' \in ComWins(S) /\ x6'.away = w /\ x6'.turn = s /\ x6'.open = x6.open
      BY <1>0, <3>4 DEF ComWins
    <3>6. QED
      BY <3>3, <3>5
  <2>3. CASE x4[s].at \notin {"refresh", "send"}
    BY <1>3, <1>4, <2>3 DEF Com!Answered
  <2>4. QED
    BY <2>1, <2>2, <2>3
<1>5. CASE Com(K, i, S, im, fi, dr, ch)!OpenThread
  BY <1>1, <1>5 DEF Com!OpenThread, Com!Opened, Com!Nobody
<1>6. CASE \E s \in S : \/ Com(K, i, S, im, fi, dr, ch)!Submit(s)
                        \/ Com(K, i, S, im, fi, dr, ch)!Fails(s)
  BY <1>2, <1>6 DEF Com!Submit, Com!Fails
<1>7. CASE \/ Com(K, i, S, im, fi, dr, ch)!Detected \/ Com(K, i, S, im, fi, dr, ch)!Toggle
           \/ Com(K, i, S, im, fi, dr, ch)!PickAgent \/ Com(K, i, S, im, fi, dr, ch)!PickMode
           \/ Com(K, i, S, im, fi, dr, ch)!Type \/ Com(K, i, S, im, fi, dr, ch)!AddFiles
           \/ Com(K, i, S, im, fi, dr, ch)!FilesRead \/ Com(K, i, S, im, fi, dr, ch)!RemoveImage
  BY <1>3, <1>7 DEF Com!Detected, Com!Toggle, Com!PickAgent, Com!PickMode, Com!Type, Com!AddFiles,
                    Com!FilesRead, Com!RemoveImage
<1>8. QED
  BY <1>4, <1>5, <1>6, <1>7 DEF Com!Next

LEMMA ComKept ==
  ASSUME NEW K, NEW i \in K, NEW S, NEW im \in Nat, NEW fi \in Nat, NEW dr, NEW ch,
         ComInv(K, S, im), Com(K, i, S, im, fi, dr, ch)!Next
  PROVE  ComInv(K, S, im)'
<1>1. /\ x1' \in [there : SUBSET K, off : SUBSET K]
      /\ x2' \in ComDrafts(K) /\ (x2'.moved \/ x2'.model \in {"default", x2'.kind})
      /\ x7' \in [drops : Nat, changes : Nat]
  BY ComDraftKept
<1>2. x3' \in ComBoxes /\ RoomIsKept(x3', im)
  BY ComBoxKept
<1>3. /\ x4' \in [S -> ComCalls(K)] /\ x5' \in [S -> ComRows(K)]
      /\ \A s \in S : RowIsSet(x4'[s], x5'[s])
  BY ComCallsKept
<1>4. x6' \in ComWins(S) /\ (x6'.away \/ x6'.turn \in {"nobody", x6'.open})
  BY ComWinKept
<1>5. QED
  BY <1>1, <1>2, <1>3, <1>4 DEF ComInv

LEMMA ComHolds ==
  ASSUME NEW K, NEW i \in K, NEW S, NEW im \in Nat, NEW fi \in Nat, NEW dr, NEW ch,
         ComInv(K, S, im)
  PROVE  Com(K, i, S, im, fi, dr, ch)!MessagesAsChosen
<1>1. Com(K, i, S, im, fi, dr, ch)!WorksAsChosen
  BY DEF ComInv, RowIsSet, Com!WorksAsChosen
<1>2. Com(K, i, S, im, fi, dr, ch)!ModelFits
  BY DEF ComInv, Com!ModelFits, Com!ModelsOf, Com!Default
<1>3. Com(K, i, S, im, fi, dr, ch)!ImagesFit
  <2>1. x3.images \in Nat
    BY DEF ComInv, ComBoxes
  <2>2. QED
    BY <2>1 DEF ComInv, RoomIsKept, Com!ImagesFit
<1>4. Com(K, i, S, im, fi, dr, ch)!TurnIsOfThread
  BY DEF ComInv, Com!TurnIsOfThread, Com!Nobody
<1>5. QED
  BY <1>1, <1>2, <1>3, <1>4 DEF Com!MessagesAsChosen

LEMMA ComInduct ==
  ASSUME NEW K, NEW i \in K, NEW S, NEW im \in Nat, NEW fi \in Nat, NEW dr, NEW ch
  PROVE  /\ Com(K, i, S, im, fi, dr, ch)!Init => ComInv(K, S, im)
         /\ ComInv(K, S, im) /\ [Com(K, i, S, im, fi, dr, ch)!Next]_(Com(K, i, S, im, fi, dr, ch)!vars)
              => ComInv(K, S, im)'
         /\ ComInv(K, S, im) => Com(K, i, S, im, fi, dr, ch)!MessagesAsChosen
<1>1. ComInv(K, S, im) /\ UNCHANGED Com(K, i, S, im, fi, dr, ch)!vars => ComInv(K, S, im)'
  BY DEF Com!vars, ComInv
<1>2. QED
  BY <1>1, ComStarts, ComKept, ComHolds

(* For any providers, Sends, images, files and choices: no agent works on a *)
(* message under another mode, provider or model than its user had chosen,  *)
(* no turn has too many images, and no turn is shown in another's thread,   *)
(* whatever fails on the way and whatever is picked or opened meanwhile.    *)
THEOREM MessagesGoAsChosen ==
  ASSUME NEW CONSTANT K, NEW CONSTANT i \in K, NEW CONSTANT S, NEW CONSTANT im \in Nat,
         NEW CONSTANT fi \in Nat, NEW CONSTANT dr, NEW CONSTANT ch
  PROVE  Com(K, i, S, im, fi, dr, ch)!Spec => []Com(K, i, S, im, fi, dr, ch)!MessagesAsChosen
<1>1. Com(K, i, S, im, fi, dr, ch)!Init => ComInv(K, S, im)
  BY ComInduct
<1>2. ComInv(K, S, im) /\ [Com(K, i, S, im, fi, dr, ch)!Next]_(Com(K, i, S, im, fi, dr, ch)!vars)
        => ComInv(K, S, im)'
  BY ComInduct
<1>3. ComInv(K, S, im) => Com(K, i, S, im, fi, dr, ch)!MessagesAsChosen
  BY ComInduct
<1>4. QED
  BY <1>1, <1>2, <1>3, PTL DEF Com!Spec

-----------------------------------------------------------------------------
(* The sessions of a CLI that is run once per turn                          *)

CliNames == {"gemini", "copilot", "antigravity", "cursor", "grok", "qwen", "opencode"}
CliModes == {"supervised", "full_access"}
BeforeItRuns == {"none", "failed", "sending"}
CliStates == BeforeItRuns \cup {"runs", "killed", "exited", "dead"}

CliRows(T, none, K) == [cli : K, mode : CliModes, saved : T \cup {none}]
CliLiveRows(T, S, none) ==
  [s : S \cup {none}, active : T \cup {none}, saved : T \cup {none}]
CliStarts(T, none, K) == [turn : T \cup {none}, row : CliRows(T, none, K)]
CliObjects(T, none) ==
  [used : BOOLEAN, mode : CliModes, native : T \cup {none}, cur : T \cup {none},
   stale : BOOLEAN, closing : T \cup {none}]
CliProcs(T, S, none) ==
  [state : CliStates, of : S \cup {none}, asks : BOOLEAN, approve : BOOLEAN, conv : T \cup {none},
   beside : BOOLEAN, dropped : BOOLEAN, after : SUBSET T, pump : {"none", "reading", "done"},
   over : BOOLEAN]

CliTyped(T, S, none, K) ==
  /\ x1 \in CliRows(T, none, K) /\ x2 \in CliLiveRows(T, S, none)
  /\ x3 \subseteq CliStarts(T, none, K) /\ x4 \in S \cup {none}
  /\ x5 \in [S -> CliObjects(T, none)] /\ x6 \in [T -> CliProcs(T, S, none)]

(* The session the orchestrator has is the one the adapter has, with the    *)
(* mode of the thread; a session object is made once.                       *)
CliLinked(T, S, none) ==
  /\ x2.s # none => x4 = x2.s
  /\ x4 # none => x5[x4].used
  /\ \A s \in S : x5[s].stale => x5[s].used
  /\ x2.s # none /\ ~x5[x2.s].stale => x5[x2.s].mode = x1.mode

(* A turn has no process before it is dispatched, and one from then on.     *)
CliRun(T, S) ==
  \A t \in T :
    /\ x6[t].state \in BeforeItRuns =>
         x6[t].pump = "none" /\ ~x6[t].over /\ ~x6[t].beside /\ x6[t].after = {}
    /\ x6[t].over => x6[t].pump = "done"
    /\ x6[t].pump # "none" =>
         /\ x6[t].of \in S /\ x5[x6[t].of].used /\ x6[t].conv \in T
         /\ x1.cli \notin {"qwen", "opencode"} /\ ~x6[t].dropped /\ ~x5[x6[t].of].stale =>
              x6[t].approve = x6[t].asks

(* A turn whose session is being started is not sent yet.                   *)
CliAwaited(T) ==
  /\ \A c \in x3 : c.turn \in T => x6[c.turn].state = "none"
  /\ \A c, d \in x3 : c.turn \in T /\ d.turn \in T => c = d

(* There is one conversation: the row, the session of the adapter and the   *)
(* process that is read name it.                                            *)
CliApart(T, S) ==
  \/ x1.cli = "copilot" \/ (\E s \in S : x5[s].stale) \/ (\E t \in T : x6[t].beside)
CliOne(T, none) ==
  /\ x2.s # none => x2.saved = x1.saved
  /\ \A t, u \in T : x6[t].pump = "reading" /\ x6[u].pump = "reading" => t = u
  /\ \A t \in T : x6[t].over =>
       /\ x1.saved = x6[t].conv
       /\ x4 # none => x5[x4].native = x6[t].conv
       /\ \A u \in T : x6[u].pump = "reading" => x6[u].conv = x6[t].conv
  /\ \A u \in T : \A t \in x6[u].after : x6[t].over /\ x6[u].conv = x6[t].conv

CliInv(T, S, none, K) ==
  /\ CliTyped(T, S, none, K) /\ CliLinked(T, S, none) /\ CliRun(T, S) /\ CliAwaited(T)
  /\ CliApart(T, S) \/ CliOne(T, none)

CliPlace(T, S, none, K) == none \notin T /\ none \notin S /\ K \subseteq CliNames

(* What most steps leave alone: what a process was started as, and what a   *)
(* session is.                                                              *)
AsStarted(q, p) ==
  /\ q.of = p.of /\ q.asks = p.asks /\ q.approve = p.approve /\ q.conv = p.conv
  /\ q.beside = p.beside /\ q.dropped = p.dropped /\ q.after = p.after
CliCalm(T, S) ==
  /\ x1'.cli = x1.cli
  /\ \A s \in S : /\ x5'[s].used = x5[s].used /\ x5'[s].stale = x5[s].stale
                  /\ x5'[s].native = x5[s].native
  /\ \A t \in T : /\ AsStarted(x6'[t], x6[t])
                  /\ x6'[t].over = x6[t].over /\ x6'[t].pump = x6[t].pump
                  /\ x6'[t].state \in BeforeItRuns => x6[t].state \in BeforeItRuns

(* The row hears of the conversation of the live session.                   *)
CliHears(none) ==
  \/ x1'.saved = x1.saved /\ x2'.saved = x2.saved
  \/ /\ x2.s # none /\ x1'.saved = x5[x2.s].native
     /\ x2'.s = none \/ x2'.saved = x1'.saved
  \/ x1'.saved = x1.saved /\ x2'.s = none

LEMMA CliCalmKeeps ==
  ASSUME NEW T, NEW S, NEW none, NEW K, CliPlace(T, S, none, K), CliInv(T, S, none, K),
         CliTyped(T, S, none, K)', CliAwaited(T)', CliCalm(T, S), CliHears(none),
         x4' = x4 \/ x4' = none,
         x2'.s # none =>
           /\ x2'.s = x2.s /\ x4' = x4
           /\ \/ x1'.mode = x1.mode /\ x5'[x2.s].mode = x5[x2.s].mode
              \/ x5'[x2.s].mode = x1'.mode
  PROVE  CliInv(T, S, none, K)'
<1>0. /\ CliTyped(T, S, none, K) /\ CliLinked(T, S, none) /\ CliRun(T, S)
      /\ CliApart(T, S) \/ CliOne(T, none)
  BY DEF CliInv
<1>1. /\ \A s \in S : x5'[s].used = x5[s].used /\ x5'[s].stale = x5[s].stale
      /\ x2.s \in S \cup {none} /\ x4 \in S \cup {none}
  BY <1>0 DEF CliCalm, CliTyped, CliLiveRows
<1>2. CliLinked(T, S, none)'
  <2>1. x2'.s # none => x4' = x2'.s
    BY <1>0 DEF CliLinked
  <2>2. x4' # none => x5'[x4'].used
    BY <1>0, <1>1 DEF CliLinked
  <2>3. \A s \in S : x5'[s].stale => x5'[s].used
    BY <1>0, <1>1 DEF CliLinked
  <2>4. x2'.s # none /\ ~x5'[x2'.s].stale => x5'[x2'.s].mode = x1'.mode
    BY <1>0, <1>1 DEF CliLinked
  <2>5. QED
    BY <2>1, <2>2, <2>3, <2>4 DEF CliLinked
<1>3. CliRun(T, S)'
  <2>1. SUFFICES ASSUME NEW t \in T
        PROVE /\ x6'[t].state \in BeforeItRuns =>
                   x6'[t].pump = "none" /\ ~x6'[t].over /\ ~x6'[t].beside /\ x6'[t].after = {}
              /\ x6'[t].over => x6'[t].pump = "done"
              /\ x6'[t].pump # "none" =>
                   /\ x6'[t].of \in S /\ x5'[x6'[t].of].used /\ x6'[t].conv \in T
                   /\ x1'.cli \notin {"qwen", "opencode"} /\ ~x6'[t].dropped /\ ~x5'[x6'[t].of].stale =>
                        x6'[t].approve = x6'[t].asks
    BY DEF CliRun
  <2>2. /\ AsStarted(x6'[t], x6[t]) /\ x1'.cli = x1.cli
        /\ x6'[t].over = x6[t].over /\ x6'[t].pump = x6[t].pump
        /\ x6'[t].state \in BeforeItRuns => x6[t].state \in BeforeItRuns
    BY <2>1 DEF CliCalm
  <2>3. /\ x6[t].state \in BeforeItRuns =>
             x6[t].pump = "none" /\ ~x6[t].over /\ ~x6[t].beside /\ x6[t].after = {}
        /\ x6[t].over => x6[t].pump = "done"
        /\ x6[t].pump # "none" =>
             /\ x6[t].of \in S /\ x5[x6[t].of].used /\ x6[t].conv \in T
             /\ x1.cli \notin {"qwen", "opencode"} /\ ~x6[t].dropped /\ ~x5[x6[t].of].stale =>
                  x6[t].approve = x6[t].asks
    BY <1>0, <2>1 DEF CliRun
  <2>4. QED
    BY <1>1, <2>2, <2>3 DEF AsStarted
<1>4. ASSUME ~CliApart(T, S)' PROVE CliOne(T, none)'
  <2>1. \A t \in T : /\ x6'[t].beside = x6[t].beside /\ x6'[t].over = x6[t].over
                     /\ x6'[t].pump = x6[t].pump /\ x6'[t].conv = x6[t].conv
                     /\ x6'[t].after = x6[t].after
    BY DEF CliCalm, AsStarted
  <2>2. /\ x1'.cli = x1.cli
        /\ \A s \in S : x5'[s].stale = x5[s].stale /\ x5'[s].native = x5[s].native
    BY DEF CliCalm
  <2>3. ~CliApart(T, S)
    BY <1>4, <2>1, <2>2 DEF CliApart
  <2>4. CliOne(T, none)
    BY <1>0, <2>3
  <2>5. x2'.s # none => x2'.saved = x1'.saved
    BY <2>4 DEF CliHears, CliOne
  <2>6. \A t, u \in T : x6'[t].pump = "reading" /\ x6'[u].pump = "reading" => t = u
    BY <2>1, <2>4 DEF CliOne
  <2>7. ASSUME NEW t \in T, x6'[t].over
        PROVE  /\ x1'.saved = x6'[t].conv
               /\ x4' # none => x5'[x4'].native = x6'[t].conv
               /\ \A u \in T : x6'[u].pump = "reading" => x6'[u].conv = x6'[t].conv
    <3>1. /\ x1.saved = x6[t].conv
          /\ x4 # none => x5[x4].native = x6[t].conv
          /\ \A u \in T : x6[u].pump = "reading" => x6[u].conv = x6[t].conv
      BY <2>1, <2>4, <2>7 DEF CliOne
    <3>2. x1'.saved = x6[t].conv
      BY <1>0, <3>1 DEF CliHears, CliLinked
    <3>3. x4' # none => x5'[x4'].native = x6[t].conv
      BY <1>1, <2>2, <3>1
    <3>4. QED
      BY <2>1, <2>7, <3>1, <3>2, <3>3
  <2>8. \A u \in T : x6'[u].after \subseteq T
    BY DEF CliTyped, CliProcs
  <2>9. \A u \in T : \A t \in x6'[u].after : x6'[t].over /\ x6'[u].conv = x6'[t].conv
    BY <2>1, <2>4, <2>8 DEF CliOne
  <2>10. QED
    BY <2>5, <2>6, <2>7, <2>9 DEF CliOne
<1>5. QED
  BY <1>2, <1>3, <1>4 DEF CliInv

(* The processes and the sessions, changed at one place *)
ProcCalm(q, p) == AsStarted(q, p) /\ q.over = p.over /\ q.pump = p.pump

OnlyState(T, S, none, y, x, t, st) ==
  /\ y \in [T -> CliProcs(T, S, none)]
  /\ \A u \in T : ProcCalm(y[u], x[u]) /\ y[u].state = IF u = t THEN st ELSE x[u].state

LEMMA CliSetsState ==
  ASSUME NEW T, NEW S, NEW none, NEW x \in [T -> CliProcs(T, S, none)], NEW t \in T,
         NEW st \in CliStates, NEW y, y = [x EXCEPT ![t].state = st]
  PROVE  OnlyState(T, S, none, y, x, t, st)
<1>1. PICK p : p = [x[t] EXCEPT !.state = st]
  OBVIOUS
<1>2. p \in CliProcs(T, S, none) /\ p.state = st
  BY <1>1 DEF CliProcs
<1>3. ProcCalm(p, x[t])
  BY <1>1 DEF CliProcs, ProcCalm, AsStarted
<1>4. y = [x EXCEPT ![t] = p]
  BY <1>1
<1>5. y \in [T -> CliProcs(T, S, none)] /\ \A u \in T : y[u] = IF u = t THEN p ELSE x[u]
  BY <1>2, <1>4
<1>6. QED
  BY <1>2, <1>3, <1>5 DEF OnlyState, ProcCalm, AsStarted

SesCalm(q, p) ==
  q.used = p.used /\ q.stale = p.stale /\ q.native = p.native

OnlyOne(S, R, y, x, s, r) ==
  y \in [S -> R] /\ \A u \in S : y[u] = IF u = s THEN r ELSE x[u]

LEMMA SetsOne ==
  ASSUME NEW S, NEW R, NEW x \in [S -> R], NEW s \in S, NEW r \in R, NEW y, y = [x EXCEPT ![s] = r]
  PROVE  OnlyOne(S, R, y, x, s, r)
BY DEF OnlyOne

(* What is quiet but for the state of processes *)
LEMMA CliQuiet ==
  ASSUME NEW T, NEW S, NEW none, NEW K, CliPlace(T, S, none, K), CliInv(T, S, none, K),
         CliTyped(T, S, none, K)', CliAwaited(T)',
         \A s \in S : SesCalm(x5'[s], x5[s]) /\ x5'[s].mode = x5[s].mode,
         \A t \in T : /\ ProcCalm(x6'[t], x6[t])
                      /\ x6'[t].state \in BeforeItRuns => x6[t].state \in BeforeItRuns,
         x1' = x1, x4' = x4, x2'.s = x2.s, x2'.saved = x2.saved
  PROVE  CliInv(T, S, none, K)'
<1>1. CliCalm(T, S)
  BY DEF CliCalm, ProcCalm, SesCalm
<1>2. CliHears(none)
  BY DEF CliHears
<1>3. x2'.s # none =>
        /\ x2'.s = x2.s /\ x4' = x4
        /\ x1'.mode = x1.mode /\ x5'[x2.s].mode = x5[x2.s].mode
  BY DEF CliInv, CliTyped, CliLiveRows
<1>4. QED
  BY <1>1, <1>2, <1>3, CliCalmKeeps

LEMMA CliAwaits ==
  ASSUME NEW T, CliAwaited(T), x3' = x3,
         \A t \in T : x6[t].state = "none" => x6'[t].state = "none"
  PROVE  CliAwaited(T)'
BY DEF CliAwaited

LEMMA CliEnsures ==
  ASSUME NEW T, NEW S, NEW none, NEW K, NEW m, CliPlace(T, S, none, K), CliInv(T, S, none, K),
         \/ CliSes(T, S, none, m, K)!Prewarm
         \/ \E t \in T : CliSes(T, S, none, m, K)!Send(t)
  PROVE  CliInv(T, S, none, K)'
<1>0. CliTyped(T, S, none, K) /\ CliAwaited(T)
  BY DEF CliInv
<1>1. PICK t \in T \cup {none} :
        /\ x3' = x3 \cup {[turn |-> t, row |-> x1]}
        /\ x1' = x1 /\ x2' = x2 /\ x4' = x4 /\ x5' = x5 /\ x6' = x6
        /\ t \in T => x6[t].state = "none" /\ ~\E c \in x3 : c.turn \in T
  BY DEF CliPlace, CliSes!Prewarm, CliSes!Send, CliSes!Fresh, CliSes!Ensure
<1>2. PICK c \in CliStarts(T, none, K) : c = [turn |-> t, row |-> x1]
  BY <1>0 DEF CliTyped, CliStarts
<1>3. x3' = x3 \cup {c} /\ c.turn = t
  BY <1>1, <1>2
<1>4. CliTyped(T, S, none, K)'
  BY <1>0, <1>1, <1>3 DEF CliTyped
<1>5. CliAwaited(T)'
  BY <1>0, <1>1, <1>3 DEF CliAwaited
<1>6. QED
  BY <1>1, <1>4, <1>5, CliQuiet DEF SesCalm, ProcCalm, AsStarted

LEMMA CliStartFails ==
  ASSUME NEW T, NEW S, NEW none, NEW K, NEW m, CliPlace(T, S, none, K), CliInv(T, S, none, K),
         NEW c \in x3, CliSes(T, S, none, m, K)!StartFails(c)
  PROVE  CliInv(T, S, none, K)'
<1>0. CliTyped(T, S, none, K) /\ CliAwaited(T) /\ c.turn \in T \cup {none}
  BY DEF CliInv, CliTyped, CliStarts
<1>1. x3' = x3 \ {c} /\ x1' = x1 /\ x2' = x2 /\ x4' = x4 /\ x5' = x5
  BY DEF CliSes!StartFails
<1>2. CASE c.turn = none
  <2>1. x6' = x6
    BY <1>2 DEF CliSes!StartFails
  <2>2. CliTyped(T, S, none, K)' /\ CliAwaited(T)'
    BY <1>0, <1>1, <2>1 DEF CliTyped, CliAwaited
  <2>3. QED
    BY <1>1, <2>1, <2>2, CliQuiet DEF SesCalm, ProcCalm, AsStarted
<1>3. CASE c.turn \in T
  <2>1. x6' = [x6 EXCEPT ![c.turn].state = "failed"]
    BY <1>3 DEF CliSes!StartFails, CliPlace
  <2>2. OnlyState(T, S, none, x6', x6, c.turn, "failed")
    <3>1. "failed" \in CliStates /\ x6 \in [T -> CliProcs(T, S, none)]
      BY <1>0 DEF CliStates, BeforeItRuns, CliTyped
    <3>2. QED
      BY <1>3, <2>1, <3>1, CliSetsState
  <2>3. x6[c.turn].state = "none"
    BY <1>0, <1>3 DEF CliAwaited
  <2>4. CliTyped(T, S, none, K)' /\ CliAwaited(T)'
    BY <1>0, <1>1, <1>3, <2>2 DEF CliTyped, CliAwaited, OnlyState
  <2>5. QED
    BY <1>1, <2>2, <2>3, <2>4, CliQuiet DEF SesCalm, BeforeItRuns, OnlyState
<1>4. QED
  BY <1>0, <1>2, <1>3

LEMMA CliSends ==
  ASSUME NEW T, NEW S, NEW none, NEW K, NEW m, CliPlace(T, S, none, K), CliInv(T, S, none, K),
         NEW t \in T,
         \/ CliSes(T, S, none, m, K)!SendNow(t) \/ CliSes(T, S, none, m, K)!Exits(t)
         \/ x6[t].state = "sending" /\ CliSes(T, S, none, m, K)!DispatchRefused(t)
  PROVE  CliInv(T, S, none, K)'
<1>0. CliTyped(T, S, none, K) /\ CliAwaited(T)
  BY DEF CliInv
<1>1. PICK st \in CliStates :
        /\ x6' = [x6 EXCEPT ![t].state = st]
        /\ st \in BeforeItRuns => x6[t].state \in BeforeItRuns
        /\ x6[t].state # "none" \/ \A c \in x3 : c.turn # t
  <2>1. CASE CliSes(T, S, none, m, K)!SendNow(t)
    BY <2>1 DEF CliSes!SendNow, CliSes!Fresh, CliStates, BeforeItRuns
  <2>2. CASE CliSes(T, S, none, m, K)!Exits(t)
    <3>1. PICK st : st = IF x6[t].state = "runs" THEN "exited" ELSE "dead"
      OBVIOUS
    <3>2. x6' = [x6 EXCEPT ![t].state = st] /\ x6[t].state # "none"
      BY <2>2, <3>1 DEF CliSes!Exits
    <3>3. QED
      BY <3>1, <3>2 DEF CliStates, BeforeItRuns
  <2>3. CASE x6[t].state = "sending" /\ CliSes(T, S, none, m, K)!DispatchRefused(t)
    BY <2>3 DEF CliSes!DispatchRefused, CliStates, BeforeItRuns
  <2>4. QED
    BY <2>1, <2>2, <2>3
<1>2. /\ x1' = x1 /\ x3' = x3 /\ x4' = x4 /\ x5' = x5
      /\ x2' = x2 \/ \E a \in T \cup {none} : x2' = [x2 EXCEPT !.active = a]
  BY DEF CliSes!SendNow, CliSes!Exits, CliSes!DispatchRefused, CliSes!Idle
<1>3. x2' \in CliLiveRows(T, S, none) /\ x2'.s = x2.s /\ x2'.saved = x2.saved
  BY <1>0, <1>2 DEF CliTyped, CliLiveRows
<1>4. OnlyState(T, S, none, x6', x6, t, st)
  <2>1. x6 \in [T -> CliProcs(T, S, none)]
    BY <1>0 DEF CliTyped
  <2>2. QED
    BY <1>1, <2>1, CliSetsState
<1>5. CliTyped(T, S, none, K)'
  BY <1>0, <1>2, <1>3, <1>4 DEF CliTyped, OnlyState
<1>6. CliAwaited(T)'
  <2>1. \A c \in x3 : c.turn \in T => x6'[c.turn].state = "none"
    BY <1>0, <1>1, <1>4 DEF CliAwaited, OnlyState
  <2>2. QED
    BY <1>0, <1>2, <2>1 DEF CliAwaited
<1>7. QED
  BY <1>1, <1>2, <1>3, <1>4, <1>5, <1>6, CliQuiet DEF SesCalm, OnlyState

LEMMA CliInterrupts ==
  ASSUME NEW T, NEW S, NEW none, NEW K, NEW m, CliPlace(T, S, none, K), CliInv(T, S, none, K),
         NEW t \in T, CliSes(T, S, none, m, K)!Interrupt(t)
  PROVE  CliInv(T, S, none, K)'
<1>0. CliTyped(T, S, none, K) /\ CliAwaited(T)
  BY DEF CliInv
<1>1. PICK s \in S : s = x4 /\ x5' = [x5 EXCEPT ![s].cur = none]
  BY <1>0 DEF CliSes!Interrupt, CliTyped
<1>2. PICK r \in CliObjects(T, none) : r = [x5[s] EXCEPT !.cur = none]
  BY <1>0 DEF CliTyped, CliObjects
<1>3. SesCalm(r, x5[s]) /\ r.mode = x5[s].mode
  BY <1>0, <1>2 DEF CliTyped, CliObjects, SesCalm
<1>4. x5' = [x5 EXCEPT ![s] = r]
  BY <1>1, <1>2
<1>5. /\ x5' \in [S -> CliObjects(T, none)]
      /\ \A u \in S : SesCalm(x5'[u], x5[u]) /\ x5'[u].mode = x5[u].mode
  <2>1. x5 \in [S -> CliObjects(T, none)]
    BY <1>0 DEF CliTyped
  <2>2. OnlyOne(S, CliObjects(T, none), x5', x5, s, r)
    BY <1>4, <2>1, SetsOne
  <2>3. QED
    BY <1>3, <2>2 DEF OnlyOne, SesCalm
<1>6. PICK st : st = IF x6[t].state = "runs" THEN "killed" ELSE x6[t].state
  OBVIOUS
<1>7. /\ x6' = [x6 EXCEPT ![t].state = st] /\ x1' = x1 /\ x2' = x2 /\ x3' = x3 /\ x4' = x4
  BY <1>6 DEF CliSes!Interrupt, CliSes!Kills
<1>8. x6[t].state \in CliStates /\ st \in CliStates
  BY <1>0, <1>6 DEF CliTyped, CliProcs, CliStates
<1>9. OnlyState(T, S, none, x6', x6, t, st)
  <2>1. x6 \in [T -> CliProcs(T, S, none)]
    BY <1>0 DEF CliTyped
  <2>2. QED
    BY <1>7, <1>8, <2>1, CliSetsState
<1>10. \A u \in T : /\ x6'[u].state \in BeforeItRuns => x6[u].state \in BeforeItRuns
                    /\ x6[u].state = "none" => x6'[u].state = "none"
  BY <1>6, <1>9 DEF BeforeItRuns, OnlyState
<1>11. CliTyped(T, S, none, K)' /\ CliAwaited(T)'
  BY <1>0, <1>5, <1>7, <1>9, <1>10, CliAwaits DEF CliTyped, OnlyState
<1>12. QED
  BY <1>5, <1>7, <1>9, <1>10, <1>11, CliQuiet DEF OnlyState

(* The row and the live session hear of a conversation that is not saved    *)
CliNews(none, ss) == x2.s # none /\ ss[x2.s].native \notin {none, x2.saved}

LEMMA CliSavesRow ==
  ASSUME NEW T, NEW S, NEW none, NEW K, NEW m, CliTyped(T, S, none, K),
         NEW ss \in [S -> CliObjects(T, none)],
         x1' = CliSes(T, S, none, m, K)!SavedRow(x1, x2, ss)
  PROVE  /\ x1' \in CliRows(T, none, K) /\ x1'.cli = x1.cli /\ x1'.mode = x1.mode
         /\ x1'.saved = IF CliNews(none, ss) THEN ss[x2.s].native ELSE x1.saved
<1>1. CASE CliNews(none, ss)
  <2>1. PICK v \in T \cup {none} : v = ss[x2.s].native
    BY <1>1 DEF CliNews, CliTyped, CliLiveRows, CliObjects
  <2>2. x1' = [x1 EXCEPT !.saved = v]
    BY <1>1, <2>1 DEF CliNews, CliSes!SavedRow, CliSes!Unsaved
  <2>3. QED
    BY <1>1, <2>1, <2>2 DEF CliTyped, CliRows
<1>2. CASE ~CliNews(none, ss)
  <2>1. x1' = x1
    BY <1>2 DEF CliNews, CliSes!SavedRow, CliSes!Unsaved
  <2>2. QED
    BY <1>2, <2>1 DEF CliTyped
<1>3. QED
  BY <1>1, <1>2

LEMMA CliSavesLive ==
  ASSUME NEW T, NEW S, NEW none, NEW K, NEW m, CliPlace(T, S, none, K), CliTyped(T, S, none, K),
         NEW ss \in [S -> CliObjects(T, none)], NEW t \in T,
         \/ x2' = CliSes(T, S, none, m, K)!SavedLive(x2, ss)
         \/ x2' = CliSes(T, S, none, m, K)!Idle(CliSes(T, S, none, m, K)!SavedLive(x2, ss), t)
  PROVE  /\ x2' \in CliLiveRows(T, S, none) /\ x2'.s = x2.s
         /\ x2'.saved = IF CliNews(none, ss) THEN ss[x2.s].native ELSE x2.saved
<1>1. PICK v : v = IF CliNews(none, ss) THEN ss[x2.s].native ELSE x2.saved
  OBVIOUS
<1>2. v \in T \cup {none}
  BY <1>1 DEF CliNews, CliTyped, CliLiveRows, CliObjects
<1>3. CliSes(T, S, none, m, K)!SavedLive(x2, ss) = [x2 EXCEPT !.saved = v]
  <2>1. CASE CliNews(none, ss)
    BY <1>1, <2>1 DEF CliNews, CliSes!SavedLive, CliSes!Unsaved
  <2>2. CASE ~CliNews(none, ss)
    <3>1. CliSes(T, S, none, m, K)!SavedLive(x2, ss) = x2 /\ v = x2.saved
      BY <1>1, <2>2 DEF CliNews, CliSes!SavedLive, CliSes!Unsaved
    <3>2. x2 = [x2 EXCEPT !.saved = x2.saved]
      BY DEF CliTyped, CliLiveRows
    <3>3. QED
      BY <3>1, <3>2
  <2>3. QED
    BY <2>1, <2>2
<1>4. PICK l : l = [x2 EXCEPT !.saved = v]
  OBVIOUS
<1>5. l \in CliLiveRows(T, S, none) /\ l.s = x2.s /\ l.saved = v
  BY <1>2, <1>4 DEF CliTyped, CliLiveRows
<1>6. x2' = l \/ x2' = [l EXCEPT !.active = none]
  BY <1>3, <1>4 DEF CliSes!Idle
<1>7. x2' \in CliLiveRows(T, S, none) /\ x2'.s = x2.s /\ x2'.saved = v
  BY <1>5, <1>6 DEF CliLiveRows
<1>8. QED
  BY <1>1, <1>7

(* stopSession leaves all but the states of processes, and forgets at most. *)
CliHalts(T, S, none) ==
  /\ x4' = x4 \/ x4' = none
  /\ x5' \in [S -> CliObjects(T, none)]
  /\ \A s \in S : SesCalm(x5'[s], x5[s]) /\ x5'[s].mode = x5[s].mode
  /\ x6' \in [T -> CliProcs(T, S, none)]
  /\ \A t \in T : /\ ProcCalm(x6'[t], x6[t])
                  /\ x6'[t].state \in BeforeItRuns => x6[t].state \in BeforeItRuns
                  /\ x6[t].state = "none" => x6'[t].state = "none"

LEMMA CliStops ==
  ASSUME NEW T, NEW S, NEW none, NEW K, NEW m, CliPlace(T, S, none, K), CliTyped(T, S, none, K),
         CliSes(T, S, none, m, K)!StopSession
  PROVE  CliHalts(T, S, none)
<1>0. x5 \in [S -> CliObjects(T, none)] /\ x6 \in [T -> CliProcs(T, S, none)] /\ x4 \in S \cup {none}
  BY DEF CliTyped
<1>1. x4' = x4 \/ x4' = none
  BY DEF CliSes!StopSession
<1>2. CASE x4 # none /\ x5[x4].cur # none
  <2>1. PICK s \in S, t \in T : s = x4 /\ t = x5[s].cur
    BY <1>0, <1>2 DEF CliObjects
  <2>2. PICK r \in CliObjects(T, none) : r = [x5[s] EXCEPT !.closing = t]
    BY <1>0 DEF CliObjects
  <2>3. SesCalm(r, x5[s]) /\ r.mode = x5[s].mode
    BY <1>0, <2>2 DEF CliObjects, SesCalm
  <2>4. x5' = [x5 EXCEPT ![s] = r]
    BY <1>2, <2>1, <2>2 DEF CliSes!StopSession, CliSes!StopsLater
  <2>5. OnlyOne(S, CliObjects(T, none), x5', x5, s, r)
    BY <1>0, <2>4, SetsOne
  <2>6. PICK st : st = IF x6[t].state = "runs" THEN "killed" ELSE x6[t].state
    OBVIOUS
  <2>7. x6' = [x6 EXCEPT ![t].state = st]
    BY <1>2, <2>1, <2>6 DEF CliSes!StopSession, CliSes!StopsLater, CliSes!Kills
  <2>8. x6[t].state \in CliStates /\ st \in CliStates
    BY <1>0, <2>6 DEF CliProcs, CliStates
  <2>9. OnlyState(T, S, none, x6', x6, t, st)
    BY <1>0, <2>7, <2>8, CliSetsState
  <2>10. \A u \in T : /\ x6'[u].state \in BeforeItRuns => x6[u].state \in BeforeItRuns
                      /\ x6[u].state = "none" => x6'[u].state = "none"
    BY <2>6, <2>9 DEF BeforeItRuns, OnlyState
  <2>11. QED
    BY <1>1, <2>3, <2>5, <2>9, <2>10 DEF CliHalts, OnlyOne, OnlyState, SesCalm
<1>3. CASE ~(x4 # none /\ x5[x4].cur # none)
  <2>1. x5' = x5 /\ x6' = x6
    BY <1>3 DEF CliSes!StopSession, CliSes!StopsLater
  <2>2. QED
    BY <1>0, <1>1, <2>1 DEF CliHalts, SesCalm, ProcCalm, AsStarted
<1>4. QED
  BY <1>2, <1>3

LEMMA CliHaltsCalm ==
  ASSUME NEW T, NEW S, NEW none, CliHalts(T, S, none), x1'.cli = x1.cli
  PROVE  CliCalm(T, S)
BY DEF CliHalts, CliCalm, SesCalm, ProcCalm

(* A session that is left: its conversation is saved, the row keeps its mode. *)
LEMMA CliLeaves ==
  ASSUME NEW T, NEW S, NEW none, NEW K, NEW m, CliPlace(T, S, none, K), CliInv(T, S, none, K),
         x3' = x3, CliHalts(T, S, none), x2' = CliSes(T, S, none, m, K)!NoLive,
         \/ x1' = CliSes(T, S, none, m, K)!SavedRow(x1, x2, x5)
         \/ \E mode \in CliModes : x1' = [x1 EXCEPT !.mode = mode]
  PROVE  CliInv(T, S, none, K)'
<1>0. CliTyped(T, S, none, K) /\ CliAwaited(T) /\ x5 \in [S -> CliObjects(T, none)]
  BY DEF CliInv, CliTyped
<1>1. x2' \in CliLiveRows(T, S, none) /\ x2'.s = none
  BY DEF CliSes!NoLive, CliLiveRows
<1>2. /\ x1' \in CliRows(T, none, K) /\ x1'.cli = x1.cli
      /\ \/ x1'.saved = x1.saved
         \/ x2.s # none /\ x1'.saved = x5[x2.s].native
  <2>1. CASE x1' = CliSes(T, S, none, m, K)!SavedRow(x1, x2, x5)
    BY <1>0, <2>1, CliSavesRow DEF CliNews
  <2>2. CASE \E mode \in CliModes : x1' = [x1 EXCEPT !.mode = mode]
    BY <1>0, <2>2 DEF CliTyped, CliRows
  <2>3. QED
    BY <2>1, <2>2
<1>3. CliTyped(T, S, none, K)'
  BY <1>0, <1>1, <1>2 DEF CliTyped, CliHalts
<1>4. CliAwaited(T)'
  BY <1>0, CliAwaits DEF CliHalts
<1>5. CliCalm(T, S)
  BY <1>2, CliHaltsCalm
<1>6. CliHears(none)
  BY <1>1, <1>2 DEF CliHears
<1>7. x4' = x4 \/ x4' = none
  BY DEF CliHalts
<1>8. QED
  BY <1>1, <1>3, <1>4, <1>5, <1>6, <1>7, CliCalmKeeps

LEMMA CliReaps ==
  ASSUME NEW T, NEW S, NEW none, NEW K, NEW m, CliPlace(T, S, none, K), CliInv(T, S, none, K),
         CliSes(T, S, none, m, K)!Reap
  PROVE  CliInv(T, S, none, K)'
<1>1. CliTyped(T, S, none, K)
  BY DEF CliInv
<1>2. CliHalts(T, S, none) /\ x3' = x3 /\ x2' = CliSes(T, S, none, m, K)!NoLive
  BY <1>1, CliStops DEF CliSes!Reap, CliSes!Hears
<1>3. x1' = CliSes(T, S, none, m, K)!SavedRow(x1, x2, x5)
  BY DEF CliSes!Reap, CliSes!Hears
<1>4. QED
  BY <1>2, <1>3, CliLeaves

LEMMA CliCloses ==
  ASSUME NEW T, NEW S, NEW none, NEW K, NEW m, CliPlace(T, S, none, K), CliInv(T, S, none, K),
         NEW s \in S, CliSes(T, S, none, m, K)!Closed(s)
  PROVE  CliInv(T, S, none, K)'
<1>0. CliTyped(T, S, none, K) /\ x5 \in [S -> CliObjects(T, none)]
  BY DEF CliInv, CliTyped
<1>1. /\ x3' = x3 /\ x4' = none /\ x6' = x6 /\ x2' = CliSes(T, S, none, m, K)!NoLive
      /\ x1' = CliSes(T, S, none, m, K)!SavedRow(x1, x2, x5)
      /\ x5' = [x5 EXCEPT ![s].closing = none]
  BY DEF CliSes!Closed, CliSes!Hears
<1>2. PICK r \in CliObjects(T, none) : r = [x5[s] EXCEPT !.closing = none]
  BY <1>0 DEF CliObjects
<1>3. SesCalm(r, x5[s]) /\ r.mode = x5[s].mode
  BY <1>0, <1>2 DEF CliObjects, SesCalm
<1>4. x5' = [x5 EXCEPT ![s] = r]
  BY <1>1, <1>2
<1>5. OnlyOne(S, CliObjects(T, none), x5', x5, s, r)
  BY <1>0, <1>4, SetsOne
<1>6. CliHalts(T, S, none)
  BY <1>0, <1>1, <1>3, <1>5 DEF CliHalts, OnlyOne, SesCalm, ProcCalm, AsStarted, CliTyped
<1>7. QED
  BY <1>1, <1>6, CliLeaves

LEMMA CliInterrupted ==
  ASSUME NEW T, NEW S, NEW none, NEW K, NEW m, CliPlace(T, S, none, K), CliInv(T, S, none, K),
         NEW t \in T, CliSes(T, S, none, m, K)!Interrupted(t)
  PROVE  CliInv(T, S, none, K)'
<1>0. CliTyped(T, S, none, K) /\ CliAwaited(T) /\ x5 \in [S -> CliObjects(T, none)]
  BY DEF CliInv, CliTyped
<1>1. /\ x3' = x3 /\ x4' = x4 /\ x5' = x5 /\ x6' = x6
      /\ x1' = CliSes(T, S, none, m, K)!SavedRow(x1, x2, x5)
      /\ x2' = CliSes(T, S, none, m, K)!Idle(CliSes(T, S, none, m, K)!SavedLive(x2, x5), t)
  BY DEF CliSes!Interrupted, CliSes!Hears
<1>2. /\ x1' \in CliRows(T, none, K) /\ x1'.cli = x1.cli /\ x1'.mode = x1.mode
      /\ x1'.saved = IF CliNews(none, x5) THEN x5[x2.s].native ELSE x1.saved
  BY <1>0, <1>1, CliSavesRow
<1>3. /\ x2' \in CliLiveRows(T, S, none) /\ x2'.s = x2.s
      /\ x2'.saved = IF CliNews(none, x5) THEN x5[x2.s].native ELSE x2.saved
  BY <1>0, <1>1, CliSavesLive
<1>4. CliTyped(T, S, none, K)' /\ CliAwaited(T)'
  BY <1>0, <1>1, <1>2, <1>3 DEF CliTyped, CliAwaited
<1>5. CliCalm(T, S)
  BY <1>1, <1>2 DEF CliCalm, AsStarted
<1>6. CliHears(none)
  BY <1>2, <1>3 DEF CliHears, CliNews
<1>7. QED
  BY <1>1, <1>2, <1>3, <1>4, <1>5, <1>6, CliCalmKeeps

LEMMA CliSetsMode ==
  ASSUME NEW T, NEW S, NEW none, NEW K, NEW m, CliPlace(T, S, none, K), CliInv(T, S, none, K),
         CliSes(T, S, none, m, K)!SetMode
  PROVE  CliInv(T, S, none, K)'
<1>0. /\ CliTyped(T, S, none, K) /\ CliLinked(T, S, none) /\ CliAwaited(T)
      /\ x5 \in [S -> CliObjects(T, none)] /\ x4 \in S \cup {none}
  BY DEF CliInv, CliTyped
<1>1. PICK mode \in CliModes : x1' = [x1 EXCEPT !.mode = mode] /\ x3' = x3
  BY DEF CliSes!SetMode, CliSes!Change, CliSes!PermissionModes, CliModes
<1>2. /\ x1' \in CliRows(T, none, K) /\ x1'.cli = x1.cli /\ x1'.mode = mode
      /\ x1'.saved = x1.saved
  BY <1>0, <1>1 DEF CliTyped, CliRows
<1>3. CASE x2.s = none /\ x2' = x2 /\ x4' = x4 /\ x5' = x5 /\ x6' = x6
  <2>1. CliTyped(T, S, none, K)' /\ CliAwaited(T)'
    BY <1>0, <1>1, <1>2, <1>3 DEF CliTyped, CliAwaited
  <2>2. CliCalm(T, S) /\ CliHears(none)
    BY <1>2, <1>3 DEF CliCalm, CliHears, AsStarted
  <2>3. QED
    BY <1>3, <2>1, <2>2, CliCalmKeeps
<1>4. CASE /\ x2.s # none /\ x2' = x2 /\ x4' = x4 /\ x6' = x6
           /\ x5' = IF x4 = none THEN x5 ELSE [x5 EXCEPT ![x4].mode = x1'.mode]
  <2>1. PICK s \in S : s = x4 /\ s = x2.s
    BY <1>0, <1>4 DEF CliLinked
  <2>2. PICK r \in CliObjects(T, none) : r = [x5[s] EXCEPT !.mode = mode]
    BY <1>0 DEF CliObjects
  <2>3. SesCalm(r, x5[s]) /\ r.mode = mode
    BY <1>0, <2>2 DEF CliObjects, SesCalm
  <2>4. x5' = [x5 EXCEPT ![s] = r]
    BY <1>2, <1>4, <2>1, <2>2 DEF CliPlace
  <2>5. OnlyOne(S, CliObjects(T, none), x5', x5, s, r)
    BY <1>0, <2>4, SetsOne
  <2>6. CliTyped(T, S, none, K)' /\ CliAwaited(T)'
    BY <1>0, <1>1, <1>2, <1>4, <2>5 DEF CliTyped, CliAwaited, OnlyOne
  <2>7. CliCalm(T, S) /\ CliHears(none)
    BY <1>2, <1>4, <2>3, <2>5 DEF CliCalm, CliHears, AsStarted, OnlyOne, SesCalm
  <2>8. x5'[x2.s].mode = x1'.mode
    BY <1>2, <2>1, <2>3, <2>5 DEF OnlyOne
  <2>9. QED
    BY <1>4, <2>6, <2>7, <2>8, CliCalmKeeps
<1>5. CASE x2' = CliSes(T, S, none, m, K)!NoLive /\ CliSes(T, S, none, m, K)!StopSession
  <2>1. CliHalts(T, S, none)
    BY <1>0, <1>5, CliStops
  <2>2. QED
    BY <1>1, <1>5, <2>1, CliLeaves
<1>6. QED
  BY <1>3, <1>4, <1>5 DEF CliSes!SetMode

LEMMA CliStarted ==
  ASSUME NEW T, NEW S, NEW none, NEW K, NEW m, CliPlace(T, S, none, K), CliInv(T, S, none, K),
         NEW c \in x3, CliSes(T, S, none, m, K)!Started(c)
  PROVE  CliInv(T, S, none, K)'
<1>0. /\ CliTyped(T, S, none, K) /\ CliLinked(T, S, none) /\ CliRun(T, S) /\ CliAwaited(T)
      /\ CliApart(T, S) \/ CliOne(T, none)
      /\ x5 \in [S -> CliObjects(T, none)] /\ x6 \in [T -> CliProcs(T, S, none)]
      /\ c \in CliStarts(T, none, K) /\ x1 \in CliRows(T, none, K)
  BY DEF CliInv, CliTyped
<1>1. c.turn \in T \cup {none} /\ c.row.saved \in T \cup {none} /\ c.row.mode \in CliModes
  BY <1>0 DEF CliStarts, CliRows
<1>2. PICK f \in T \cup {none} :
        /\ f = IF x1.cli # "copilot" THEN c.row.saved ELSE none
        /\ f = CliSes(T, S, none, m, K)!From(c.row)
  BY <1>1 DEF CliSes!From, CliSes!Resumes
<1>3. (x2.s # none \/ c.row.mode # x1.mode \/ f # CliSes(T, S, none, m, K)!From(x1)) \in BOOLEAN
  OBVIOUS
<1>4. PICK b \in BOOLEAN :
        b = (x2.s # none \/ c.row.mode # x1.mode \/ f # CliSes(T, S, none, m, K)!From(x1))
  BY <1>3, Zenon
<1>5. PICK s \in S :
        /\ ~x5[s].used /\ x3' = x3 \ {c} /\ x4' = s /\ x1' = x1
        /\ x5' = [x5 EXCEPT ![s] = [CliSes(T, S, none, m, K)!NoSession EXCEPT
             !.used = TRUE, !.mode = c.row.mode, !.native = CliSes(T, S, none, m, K)!From(c.row),
             !.stale = \/ x2.s # none \/ c.row.mode # x1.mode
                       \/ CliSes(T, S, none, m, K)!From(c.row) # CliSes(T, S, none, m, K)!From(x1)]]
        /\ x2' = [s |-> s, active |-> c.turn, saved |-> CliSes(T, S, none, m, K)!From(c.row)]
        /\ x6' = IF c.turn = none THEN x6 ELSE [x6 EXCEPT ![c.turn].state = "sending"]
  BY DEF CliSes!Started
<1>6. PICK n \in CliObjects(T, none) : n = CliSes(T, S, none, m, K)!NoSession
  BY DEF CliSes!NoSession, CliObjects, CliModes
<1>7. PICK r \in CliObjects(T, none) :
        /\ r = [n EXCEPT !.used = TRUE, !.mode = c.row.mode, !.native = f, !.stale = b]
        /\ r.used /\ r.mode = c.row.mode /\ r.native = f /\ r.stale = b
  <2>1. PICK r : r = [n EXCEPT !.used = TRUE, !.mode = c.row.mode, !.native = f, !.stale = b]
    OBVIOUS
  <2>2. /\ r \in CliObjects(T, none)
        /\ r.used /\ r.mode = c.row.mode /\ r.native = f /\ r.stale = b
    BY <1>1, <2>1 DEF CliObjects
  <2>3. QED
    BY <2>1, <2>2
<1>8. x5' = [x5 EXCEPT ![s] = r]
  <2>1. [n EXCEPT !.used = TRUE, !.mode = c.row.mode,
                  !.native = CliSes(T, S, none, m, K)!From(c.row),
                  !.stale = \/ x2.s # none \/ c.row.mode # x1.mode
                            \/ CliSes(T, S, none, m, K)!From(c.row) # CliSes(T, S, none, m, K)!From(x1)]
        = [n EXCEPT !.used = TRUE, !.mode = c.row.mode, !.native = f, !.stale = b]
    BY <1>2, <1>4, Zenon
  <2>2. QED
    BY <1>5, <1>6, <1>7, <2>1, Zenon
<1>9. OnlyOne(S, CliObjects(T, none), x5', x5, s, r)
  BY <1>0, <1>7, <1>8, SetsOne
<1>10. x2' \in CliLiveRows(T, S, none) /\ x2'.s = s /\ x2'.saved = f
  BY <1>1, <1>2, <1>5 DEF CliLiveRows
<1>11. /\ x6' \in [T -> CliProcs(T, S, none)] /\ \A t \in T : ProcCalm(x6'[t], x6[t])
       /\ \A t \in T : x6'[t].state = IF t = c.turn THEN "sending" ELSE x6[t].state
  <2>1. CASE c.turn = none
    <3>1. x6' = x6
      BY <1>5, <2>1
    <3>2. QED
      BY <1>0, <2>1, <3>1 DEF ProcCalm, AsStarted, CliPlace
  <2>2. CASE c.turn \in T
    <3>1. x6' = [x6 EXCEPT ![c.turn].state = "sending"] /\ "sending" \in CliStates
      BY <1>5, <2>2 DEF CliPlace, CliStates, BeforeItRuns
    <3>2. OnlyState(T, S, none, x6', x6, c.turn, "sending")
      BY <1>0, <2>2, <3>1, CliSetsState
    <3>3. QED
      BY <3>2 DEF OnlyState
  <2>3. QED
    BY <1>1, <2>1, <2>2
<1>12. CliTyped(T, S, none, K)'
  BY <1>0, <1>5, <1>9, <1>10, <1>11 DEF CliTyped, OnlyOne
<1>13. CliAwaited(T)'
  <2>1. \A d \in x3' : d \in x3 /\ (d.turn \in T => d.turn # c.turn)
    BY <1>0, <1>5 DEF CliAwaited
  <2>2. QED
    BY <1>0, <1>11, <2>1 DEF CliAwaited
<1>14. CliLinked(T, S, none)'
  <2>1. x4' = x2'.s /\ x5'[s].used /\ x5'[s].mode = c.row.mode /\ x5'[s].stale = b /\ x1' = x1
    BY <1>5, <1>7, <1>9, <1>10 DEF OnlyOne
  <2>2. \A u \in S : x5'[u].stale => x5'[u].used
    BY <1>0, <2>1, <1>9 DEF CliLinked, OnlyOne
  <2>3. ~b => c.row.mode = x1.mode
    BY <1>4
  <2>4. QED
    BY <1>5, <1>10, <2>1, <2>2, <2>3 DEF CliLinked
<1>15. CliRun(T, S)'
  <2>1. SUFFICES ASSUME NEW t \in T
        PROVE /\ x6'[t].state \in BeforeItRuns =>
                   x6'[t].pump = "none" /\ ~x6'[t].over /\ ~x6'[t].beside /\ x6'[t].after = {}
              /\ x6'[t].over => x6'[t].pump = "done"
              /\ x6'[t].pump # "none" =>
                   /\ x6'[t].of \in S /\ x5'[x6'[t].of].used /\ x6'[t].conv \in T
                   /\ x1'.cli \notin {"qwen", "opencode"} /\ ~x6'[t].dropped /\ ~x5'[x6'[t].of].stale =>
                        x6'[t].approve = x6'[t].asks
    BY DEF CliRun
  <2>2. /\ x6[t].state \in BeforeItRuns =>
             x6[t].pump = "none" /\ ~x6[t].over /\ ~x6[t].beside /\ x6[t].after = {}
        /\ x6[t].over => x6[t].pump = "done"
        /\ x6[t].pump # "none" =>
             /\ x6[t].of \in S /\ x5[x6[t].of].used /\ x6[t].conv \in T
             /\ x1.cli \notin {"qwen", "opencode"} /\ ~x6[t].dropped /\ ~x5[x6[t].of].stale =>
                  x6[t].approve = x6[t].asks
    BY <1>0, <2>1 DEF CliRun
  <2>3. ProcCalm(x6'[t], x6[t]) /\ x1' = x1
    BY <1>5, <1>11
  <2>4. x6'[t].state \in BeforeItRuns => x6[t].state \in BeforeItRuns
    BY <1>0, <1>11 DEF CliAwaited, BeforeItRuns
  <2>5. x6[t].pump # "none" => x5'[x6[t].of] = x5[x6[t].of]
    BY <1>5, <1>9, <2>2 DEF OnlyOne
  <2>6. QED
    BY <2>2, <2>3, <2>4, <2>5 DEF ProcCalm, AsStarted
<1>16. ASSUME ~CliApart(T, S)' PROVE CliOne(T, none)'
  <2>1. \A t \in T : /\ x6'[t].beside = x6[t].beside /\ x6'[t].over = x6[t].over
                     /\ x6'[t].pump = x6[t].pump /\ x6'[t].conv = x6[t].conv
                     /\ x6'[t].after = x6[t].after
    BY <1>11 DEF ProcCalm, AsStarted
  <2>2. ~b /\ ~CliApart(T, S) /\ x1.cli # "copilot"
    <3>1. ~b
      BY <1>7, <1>9, <1>16 DEF CliApart, OnlyOne
    <3>2. \A u \in S : ~x5[u].stale
      BY <1>0, <1>5, <1>9, <1>16 DEF CliApart, CliLinked, OnlyOne
    <3>3. QED
      BY <1>5, <1>16, <2>1, <3>1, <3>2 DEF CliApart
  <2>3. CliOne(T, none)
    BY <1>0, <2>2
  <2>4. f = x1.saved
    BY <1>2, <1>4, <2>2 DEF CliSes!From, CliSes!Resumes
  <2>5. x4' = s /\ x5'[s].native = x1.saved /\ x1' = x1 /\ x2'.saved = x1.saved
    BY <1>5, <1>7, <1>9, <1>10, <2>4 DEF OnlyOne
  <2>6. \A u \in T : x6[u].after \subseteq T
    BY <1>0 DEF CliProcs
  <2>7. QED
    BY <2>1, <2>3, <2>5, <2>6 DEF CliOne
<1>17. QED
  BY <1>12, <1>13, <1>14, <1>15, <1>16 DEF CliInv

LEMMA CliSpawns ==
  ASSUME NEW T, NEW S, NEW none, NEW K, NEW m, CliPlace(T, S, none, K), CliInv(T, S, none, K),
         NEW t \in T, x6[t].state = "sending", CliSes(T, S, none, m, K)!Spawns(t)
  PROVE  CliInv(T, S, none, K)'
<1>0. /\ CliTyped(T, S, none, K) /\ CliLinked(T, S, none) /\ CliRun(T, S) /\ CliAwaited(T)
      /\ CliApart(T, S) \/ CliOne(T, none)
      /\ x5 \in [S -> CliObjects(T, none)] /\ x6 \in [T -> CliProcs(T, S, none)]
      /\ x1 \in CliRows(T, none, K)
  BY DEF CliInv, CliTyped
<1>1. PICK s \in S : s = x4
  BY DEF CliSes!Spawns, CliSes!Refuses
<1>2. /\ x1' = x1 /\ x2' = x2 /\ x3' = x3 /\ x4' = x4
      /\ x5' = [x5 EXCEPT ![s].cur = t]
  BY <1>1 DEF CliSes!Spawns
<1>3. PICK args : args = CliSes(T, S, none, m, K)!Args(s)
  OBVIOUS
<1>4. /\ x1.cli \notin {"qwen", "opencode"} => args.approve = (x5[s].mode = "full_access")
      /\ args.approve \in BOOLEAN
      /\ x1.cli # "copilot" => args.from = x5[s].native
      /\ x1.cli = "copilot" => args.from = none
  <2>0. x1.cli \in CliNames
    BY <1>0 DEF CliRows, CliPlace
  <2>1. CASE x1.cli \in {"gemini", "antigravity", "cursor", "grok"}
    <3>1. args = [approve |-> x5[s].mode = "full_access", from |-> x5[s].native]
      BY <1>3, <2>1 DEF CliSes!Args, CliSes!GeminiArgs, CliSes!AntigravityArgs, CliSes!CursorArgs,
                        CliSes!GrokArgs, CliSes!Approves
    <3>2. QED
      BY <2>1, <3>1
  <2>2. CASE x1.cli = "copilot"
    <3>1. args = [approve |-> x5[s].mode = "full_access", from |-> none]
      BY <1>3, <2>2 DEF CliSes!Args, CliSes!CopilotArgs, CliSes!Approves
    <3>2. QED
      BY <2>2, <3>1
  <2>3. CASE x1.cli \in {"qwen", "opencode"}
    <3>1. args = [approve |-> FALSE, from |-> x5[s].native]
      BY <1>3, <2>3 DEF CliSes!Args, CliSes!QwenArgs, CliSes!OpencodeArgs
    <3>2. QED
      BY <2>3, <3>1
  <2>4. QED
    BY <2>0, <2>1, <2>2, <2>3 DEF CliNames
<1>5. PICK cv \in T : /\ cv = IF args.from = none THEN t ELSE args.from
                      /\ x1.cli # "copilot" /\ x5[s].native # none => cv = x5[s].native
  BY <1>0, <1>4 DEF CliObjects
<1>6. /\ (x1.mode = "full_access") \in BOOLEAN /\ (\E u \in T : x6[u].pump = "reading") \in BOOLEAN
      /\ (x2.s # x4) \in BOOLEAN
  OBVIOUS
<1>7. PICK asks \in BOOLEAN : asks = (x1.mode = "full_access")
  BY <1>6, Zenon
<1>8. PICK beside \in BOOLEAN : beside = (\E u \in T : x6[u].pump = "reading")
  BY <1>6, Zenon
<1>9. PICK dropped \in BOOLEAN : dropped = (x2.s # x4)
  BY <1>6, Zenon
<1>10. PICK p : p = [state |-> "runs", of |-> s, asks |-> asks, approve |-> args.approve, conv |-> cv,
                     beside |-> beside, dropped |-> dropped, after |-> {u \in T : x6[u].over},
                     pump |-> "reading", over |-> FALSE]
  OBVIOUS
<1>11. x6' = [x6 EXCEPT ![t] = p]
  <2>1. x6' = [x6 EXCEPT ![t] =
          [state |-> "runs", of |-> s, asks |-> x1.mode = "full_access", approve |-> args.approve,
           conv |-> IF args.from = none THEN t ELSE args.from,
           beside |-> \E u \in T : x6[u].pump = "reading", dropped |-> x2.s # x4,
           after |-> {u \in T : x6[u].over}, pump |-> "reading", over |-> FALSE]]
    BY <1>1, <1>3, Zenon DEF CliSes!Spawns
  <2>2. QED
    BY <1>5, <1>7, <1>8, <1>9, <1>10, <2>1, Zenon
<1>12. /\ p \in CliProcs(T, S, none)
       /\ p.state = "runs" /\ p.of = s /\ p.asks = asks /\ p.approve = args.approve /\ p.conv = cv
       /\ p.beside = beside /\ p.dropped = dropped /\ p.after = {u \in T : x6[u].over}
       /\ p.pump = "reading" /\ ~p.over
  BY <1>4, <1>10 DEF CliProcs, CliStates
<1>13. OnlyOne(T, CliProcs(T, S, none), x6', x6, t, p)
  BY <1>0, <1>11, <1>12, SetsOne
<1>14. PICK r \in CliObjects(T, none) : r = [x5[s] EXCEPT !.cur = t]
  BY <1>0 DEF CliObjects
<1>15. SesCalm(r, x5[s]) /\ r.mode = x5[s].mode
  BY <1>0, <1>14 DEF CliObjects, SesCalm
<1>16. x5' = [x5 EXCEPT ![s] = r]
  BY <1>2, <1>14
<1>17. OnlyOne(S, CliObjects(T, none), x5', x5, s, r)
  BY <1>0, <1>16, SetsOne
<1>18. \A u \in S : SesCalm(x5'[u], x5[u]) /\ x5'[u].mode = x5[u].mode
  BY <1>15, <1>17 DEF OnlyOne, SesCalm
<1>19. CliTyped(T, S, none, K)'
  BY <1>0, <1>2, <1>13, <1>17 DEF CliTyped, OnlyOne
<1>20. CliAwaited(T)'
  <2>1. \A c \in x3 : c.turn # t
    BY <1>0 DEF CliAwaited
  <2>2. QED
    BY <1>0, <1>2, <1>13, <2>1 DEF CliAwaited, OnlyOne
<1>21. x2.s \in S \cup {none}
  BY <1>0 DEF CliTyped, CliLiveRows
<1>22. CliLinked(T, S, none)'
  BY <1>0, <1>1, <1>2, <1>18, <1>21 DEF CliLinked, SesCalm
<1>23. CliRun(T, S)'
  <2>1. ASSUME NEW u \in T, u # t
        PROVE /\ x6'[u].state \in BeforeItRuns =>
                   x6'[u].pump = "none" /\ ~x6'[u].over /\ ~x6'[u].beside /\ x6'[u].after = {}
              /\ x6'[u].over => x6'[u].pump = "done"
              /\ x6'[u].pump # "none" =>
                   /\ x6'[u].of \in S /\ x5'[x6'[u].of].used /\ x6'[u].conv \in T
                   /\ x1'.cli \notin {"qwen", "opencode"} /\ ~x6'[u].dropped /\ ~x5'[x6'[u].of].stale =>
                        x6'[u].approve = x6'[u].asks
    <3>1. x6'[u] = x6[u] /\ x1' = x1
      BY <1>2, <1>13, <2>1 DEF OnlyOne
    <3>2. QED
      BY <1>0, <1>18, <3>1 DEF CliRun, SesCalm
  <2>2. x6'[t] = p
    BY <1>13 DEF OnlyOne
  <2>3. x5'[s].used
    BY <1>0, <1>1, <1>18 DEF CliLinked, SesCalm, CliPlace
  <2>4. ASSUME x1.cli \notin {"qwen", "opencode"}, ~dropped, ~x5'[s].stale
        PROVE  p.approve = p.asks
    <3>1. x2.s = s /\ x2.s # none
      BY <1>1, <1>9, <2>4 DEF CliPlace
    <3>2. x5[s].mode = x1.mode
      BY <1>0, <1>18, <2>4, <3>1 DEF CliLinked, SesCalm
    <3>3. args.approve = (x5[s].mode = "full_access")
      BY <1>4, <2>4
    <3>4. args.approve = asks
      BY <1>7, <3>2, <3>3, Zenon
    <3>5. QED
      BY <1>12, <3>4
  <2>5. /\ p.state \in BeforeItRuns => FALSE
        /\ ~p.over /\ p.of = s /\ p.conv \in T /\ p.dropped = dropped
    BY <1>12 DEF BeforeItRuns
  <2>6. QED
    BY <1>2, <2>1, <2>2, <2>3, <2>4, <2>5 DEF CliRun
<1>24. ASSUME ~CliApart(T, S)' PROVE CliOne(T, none)'
  <2>1. x1.cli # "copilot" /\ ~beside /\ ~CliApart(T, S)
    <3>1. x1.cli # "copilot" /\ ~beside
      BY <1>2, <1>12, <1>13, <1>24 DEF CliApart, OnlyOne
    <3>2. \A u \in S : ~x5[u].stale
      BY <1>18, <1>24 DEF CliApart, SesCalm
    <3>3. ~x6[t].beside
      BY <1>0 DEF CliRun, BeforeItRuns
    <3>4. \A u \in T : ~x6[u].beside
      BY <1>13, <1>24, <3>3 DEF CliApart, OnlyOne
    <3>5. QED
      BY <3>1, <3>2, <3>4 DEF CliApart
  <2>2. CliOne(T, none)
    BY <1>0, <2>1
  <2>3. \A u \in T : x6[u].pump # "reading"
    BY <1>8, <2>1
  <2>4. x6'[t] = p /\ \A u \in T : u # t => x6'[u] = x6[u]
    BY <1>13 DEF OnlyOne
  <2>5. ~x6[t].over
    BY <1>0 DEF CliRun, BeforeItRuns
  <2>6. ASSUME NEW u \in T, x6[u].over
        PROVE  x1.saved = x6[u].conv /\ x5[s].native = x6[u].conv /\ cv = x6[u].conv
    <3>1. x6[u].pump # "none" /\ x6[u].conv \in T
      BY <1>0, <2>6 DEF CliRun
    <3>2. x1.saved = x6[u].conv /\ x5[s].native = x6[u].conv
      BY <1>1, <2>2, <2>6 DEF CliOne, CliPlace
    <3>3. QED
      BY <1>5, <2>1, <3>1, <3>2 DEF CliPlace
  <2>7. \A a, b \in T : x6'[a].pump = "reading" /\ x6'[b].pump = "reading" => a = b
    BY <2>3, <2>4
  <2>8. ASSUME NEW u \in T, x6'[u].over
        PROVE  /\ x1'.saved = x6'[u].conv
               /\ x4' # none => x5'[x4'].native = x6'[u].conv
               /\ \A a \in T : x6'[a].pump = "reading" => x6'[a].conv = x6'[u].conv
    <3>1. u # t /\ x6'[u] = x6[u] /\ x6[u].over
      BY <1>12, <2>4, <2>8
    <3>2. \A a \in T : x6'[a].pump = "reading" => a = t
      BY <2>3, <2>4
    <3>3. x5'[s].native = x5[s].native
      BY <1>18 DEF SesCalm
    <3>4. QED
      BY <1>1, <1>2, <1>12, <2>4, <2>6, <3>1, <3>2, <3>3
  <2>9. ASSUME NEW u \in T, NEW a \in x6'[u].after
        PROVE  x6'[a].over /\ x6'[u].conv = x6'[a].conv
    <3>1. CASE u = t
      <4>1. a \in T /\ x6[a].over /\ a # t
        BY <1>12, <2>4, <2>5, <2>9, <3>1
      <4>2. QED
        BY <1>12, <2>4, <2>6, <3>1, <4>1
    <3>2. CASE u # t
      <4>1. x6'[u] = x6[u] /\ a \in T /\ x6[a].over /\ x6[u].conv = x6[a].conv
        BY <1>0, <2>2, <2>4, <2>9, <3>2 DEF CliOne, CliProcs
      <4>2. QED
        BY <2>4, <2>5, <4>1
    <3>3. QED
      BY <3>1, <3>2
  <2>10. x2.s # none => x2.saved = x1.saved
    BY <2>2 DEF CliOne
  <2>11. QED
    BY <1>2, <2>7, <2>8, <2>9, <2>10 DEF CliOne
<1>25. QED
  BY <1>19, <1>20, <1>22, <1>23, <1>24 DEF CliInv

LEMMA CliReads ==
  ASSUME NEW T, NEW S, NEW none, NEW K, NEW m, CliPlace(T, S, none, K), CliInv(T, S, none, K),
         NEW t \in T, CliSes(T, S, none, m, K)!PumpLine(t)
  PROVE  CliInv(T, S, none, K)'
<1>0. /\ CliTyped(T, S, none, K) /\ CliLinked(T, S, none) /\ CliRun(T, S) /\ CliAwaited(T)
      /\ CliApart(T, S) \/ CliOne(T, none)
      /\ x5 \in [S -> CliObjects(T, none)] /\ x6 \in [T -> CliProcs(T, S, none)]
  BY DEF CliInv, CliTyped
<1>1. /\ x6[t].pump = "reading" /\ x3' = x3 /\ x4' = x4 /\ x6' = x6
      /\ x5' = [x5 EXCEPT ![x6[t].of].native = x6[t].conv]
      /\ x1' = CliSes(T, S, none, m, K)!SavedRow(x1, x2, x5')
      /\ x2' = CliSes(T, S, none, m, K)!SavedLive(x2, x5')
  BY DEF CliSes!PumpLine, CliSes!Hears
<1>2. PICK s \in S, v \in T : s = x6[t].of /\ v = x6[t].conv
  BY <1>0, <1>1 DEF CliRun
<1>3. PICK r \in CliObjects(T, none) : r = [x5[s] EXCEPT !.native = v]
  BY <1>0 DEF CliObjects
<1>4. /\ r.used = x5[s].used /\ r.stale = x5[s].stale /\ r.mode = x5[s].mode /\ r.native = v
  BY <1>0, <1>3 DEF CliObjects
<1>5. x5' = [x5 EXCEPT ![s] = r]
  BY <1>1, <1>2, <1>3
<1>6. OnlyOne(S, CliObjects(T, none), x5', x5, s, r)
  BY <1>0, <1>5, SetsOne
<1>7. PICK ss \in [S -> CliObjects(T, none)] : ss = x5'
  BY <1>6 DEF OnlyOne
<1>8. /\ x1' \in CliRows(T, none, K) /\ x1'.cli = x1.cli /\ x1'.mode = x1.mode
      /\ x1'.saved = IF CliNews(none, ss) THEN ss[x2.s].native ELSE x1.saved
  <2>1. x1' = CliSes(T, S, none, m, K)!SavedRow(x1, x2, ss)
    BY <1>1, <1>7 DEF CliSes!SavedRow, CliSes!Unsaved
  <2>2. QED
    BY <1>0, <2>1, CliSavesRow
<1>9. /\ x2' \in CliLiveRows(T, S, none) /\ x2'.s = x2.s
      /\ x2'.saved = IF CliNews(none, ss) THEN ss[x2.s].native ELSE x2.saved
  <2>1. x2' = CliSes(T, S, none, m, K)!SavedLive(x2, ss)
    BY <1>1, <1>7 DEF CliSes!SavedLive, CliSes!Unsaved
  <2>2. QED
    BY <1>0, <2>1, CliSavesLive
<1>10. \A u \in S : /\ x5'[u].used = x5[u].used /\ x5'[u].stale = x5[u].stale
                    /\ x5'[u].mode = x5[u].mode
                    /\ x5'[u].native = IF u = s THEN v ELSE x5[u].native
  BY <1>4, <1>6 DEF OnlyOne
<1>11. CliTyped(T, S, none, K)' /\ CliAwaited(T)'
  BY <1>0, <1>1, <1>6, <1>8, <1>9 DEF CliTyped, CliAwaited, OnlyOne
<1>12. x2.s \in S \cup {none} /\ x4 \in S \cup {none}
  BY <1>0 DEF CliTyped, CliLiveRows
<1>13. CliLinked(T, S, none)'
  BY <1>0, <1>1, <1>8, <1>9, <1>10, <1>12 DEF CliLinked
<1>14. CliRun(T, S)'
  BY <1>0, <1>1, <1>8, <1>10 DEF CliRun
<1>15. ASSUME ~CliApart(T, S)' PROVE CliOne(T, none)'
  <2>1. CliOne(T, none)
    BY <1>0, <1>1, <1>8, <1>10, <1>15 DEF CliApart
  <2>2. x2'.s # none => x2'.saved = x1'.saved
    BY <1>8, <1>9, <2>1 DEF CliOne
  <2>3. ASSUME NEW u \in T, x6[u].over
        PROVE  x1'.saved = x6[u].conv /\ (x4 # none => x5'[x4].native = x6[u].conv)
    <3>1. /\ x1.saved = x6[u].conv /\ v = x6[u].conv
          /\ x4 # none => x5[x4].native = x6[u].conv
      BY <1>1, <1>2, <2>1, <2>3 DEF CliOne
    <3>2. x4 # none => x5'[x4].native = x6[u].conv
      BY <1>10, <1>12, <3>1
    <3>3. x2.s # none => ss[x2.s].native = x6[u].conv
      BY <1>0, <1>7, <3>2 DEF CliLinked
    <3>4. QED
      BY <1>8, <3>1, <3>2, <3>3 DEF CliNews
  <2>4. /\ \A a, b \in T : x6[a].pump = "reading" /\ x6[b].pump = "reading" => a = b
        /\ \A u \in T : \A a \in x6[u].after : x6[a].over /\ x6[u].conv = x6[a].conv
        /\ \A u \in T : x6[u].over =>
             \A a \in T : x6[a].pump = "reading" => x6[a].conv = x6[u].conv
    BY <2>1 DEF CliOne
  <2>5. x6' = x6 /\ x4' = x4
    BY <1>1
  <2>6. QED
    BY <2>2, <2>3, <2>4, <2>5 DEF CliOne
<1>16. QED
  BY <1>11, <1>13, <1>14, <1>15 DEF CliInv

(* The pump of a process is through: if it still is its session's, the turn *)
(* ends, and its conversation is the one that goes on.                      *)
LEMMA CliPumped ==
  ASSUME NEW T, NEW S, NEW none, NEW K, NEW m, CliPlace(T, S, none, K), CliInv(T, S, none, K),
         NEW t \in T, CliSes(T, S, none, m, K)!PumpEnds(t)
  PROVE  CliInv(T, S, none, K)'
<1>0. /\ CliTyped(T, S, none, K) /\ CliLinked(T, S, none) /\ CliRun(T, S) /\ CliAwaited(T)
      /\ CliApart(T, S) \/ CliOne(T, none)
      /\ x5 \in [S -> CliObjects(T, none)] /\ x6 \in [T -> CliProcs(T, S, none)]
      /\ x1 \in CliRows(T, none, K)
      /\ x2 \in CliLiveRows(T, S, none)
  BY DEF CliInv, CliTyped
<1>1. x6[t].pump = "reading" /\ x3' = x3 /\ x4' = x4
  BY DEF CliSes!PumpEnds
<1>2. PICK s \in S, v \in T : s = x6[t].of /\ v = x6[t].conv
  BY <1>0, <1>1 DEF CliRun
<1>3. (x5[s].cur = t /\ x2.s = s /\ x6[t].state = "exited" /\ x5[s].native = x6[t].conv) \in BOOLEAN
  OBVIOUS
<1>4. PICK o \in BOOLEAN :
        o = (x5[s].cur = t /\ x2.s = s /\ x6[t].state = "exited" /\ x5[s].native = x6[t].conv)
  BY <1>3, Zenon
<1>5. x6' = [x6 EXCEPT ![t].pump = "done", ![t].over = o]
  <2>1. x6' = [x6 EXCEPT ![t].pump = "done",
                 ![t].over = /\ x5[x6[t].of].cur = t /\ x2.s = x6[t].of /\ x6[t].state = "exited"
                             /\ x5[x6[t].of].native = x6[t].conv]
    BY Zenon DEF CliSes!PumpEnds
  <2>2. x6' = [x6 EXCEPT ![t].pump = "done",
                 ![t].over = /\ x5[s].cur = t /\ x2.s = s /\ x6[t].state = "exited"
                             /\ x5[s].native = x6[t].conv]
    BY <1>2, <2>1, Zenon
  <2>3. QED
    BY <1>4, <2>2, Zenon
<1>6. PICK p : p = [x6[t] EXCEPT !.pump = "done", !.over = o]
  OBVIOUS
<1>a. PICK q : q = [x6[t] EXCEPT !.pump = "done"]
  OBVIOUS
<1>b. /\ q \in CliProcs(T, S, none) /\ q.pump = "done" /\ AsStarted(q, x6[t])
      /\ q.state = x6[t].state
  BY <1>0, <1>a DEF CliProcs, AsStarted
<1>c. p = [q EXCEPT !.over = o]
  BY <1>6, <1>a
<1>7. p \in CliProcs(T, S, none)
  BY <1>b, <1>c DEF CliProcs
<1>8. p.pump = "done" /\ p.over = o /\ AsStarted(p, x6[t]) /\ p.state = x6[t].state
  <2>1. p.pump = "done" /\ p.over = o /\ AsStarted(p, q) /\ p.state = x6[t].state
    BY <1>b, <1>c DEF CliProcs, AsStarted
  <2>2. QED
    BY <1>b, <2>1 DEF AsStarted
<1>9. x6' = [x6 EXCEPT ![t] = p]
  BY <1>5, <1>6
<1>10. OnlyOne(T, CliProcs(T, S, none), x6', x6, t, p)
  BY <1>0, <1>7, <1>9, SetsOne
<1>11. /\ x5' \in [S -> CliObjects(T, none)]
       /\ \A u \in S : SesCalm(x5'[u], x5[u]) /\ x5'[u].mode = x5[u].mode
  <2>1. CASE x5[s].cur # t
    <3>1. x5' = x5
      BY <1>2, <2>1 DEF CliSes!PumpEnds
    <3>2. QED
      BY <1>0, <3>1 DEF SesCalm
  <2>2. CASE x5[s].cur = t
    <3>1. x5' = [x5 EXCEPT ![s].cur = none]
      BY <1>2, <2>2 DEF CliSes!PumpEnds
    <3>2. PICK r \in CliObjects(T, none) : r = [x5[s] EXCEPT !.cur = none]
      BY <1>0 DEF CliObjects
    <3>3. SesCalm(r, x5[s]) /\ r.mode = x5[s].mode
      BY <1>0, <3>2 DEF CliObjects, SesCalm
    <3>4. x5' = [x5 EXCEPT ![s] = r]
      BY <3>1, <3>2
    <3>5. OnlyOne(S, CliObjects(T, none), x5', x5, s, r)
      BY <1>0, <3>4, SetsOne
    <3>6. QED
      BY <3>3, <3>5 DEF OnlyOne, SesCalm
  <2>3. QED
    BY <2>1, <2>2
<1>12. /\ x1' \in CliRows(T, none, K) /\ x1'.cli = x1.cli /\ x1'.mode = x1.mode
       /\ x2' \in CliLiveRows(T, S, none) /\ x2'.s = x2.s
       /\ \/ x1'.saved = x1.saved /\ x2'.saved = x2.saved /\ (o => ~CliNews(none, x5))
          \/ /\ x2.s # none /\ x1'.saved = x5[x2.s].native /\ x2'.saved = x5[x2.s].native
  <2>1. CASE x5[s].cur # t
    <3>1. x1' = x1 /\ x2' = x2
      BY <1>2, <2>1 DEF CliSes!PumpEnds
    <3>2. ~o
      BY <1>4, <2>1
    <3>3. QED
      BY <1>0, <3>1, <3>2
  <2>2. CASE x5[s].cur = t
    <3>1. /\ x1' = CliSes(T, S, none, m, K)!SavedRow(x1, x2, x5)
          /\ x2' = CliSes(T, S, none, m, K)!Idle(CliSes(T, S, none, m, K)!SavedLive(x2, x5), t)
      BY <1>2, <2>2 DEF CliSes!PumpEnds, CliSes!Hears
    <3>2. /\ x1' \in CliRows(T, none, K) /\ x1'.cli = x1.cli /\ x1'.mode = x1.mode
          /\ x1'.saved = IF CliNews(none, x5) THEN x5[x2.s].native ELSE x1.saved
      BY <1>0, <3>1, CliSavesRow
    <3>3. /\ x2' \in CliLiveRows(T, S, none) /\ x2'.s = x2.s
          /\ x2'.saved = IF CliNews(none, x5) THEN x5[x2.s].native ELSE x2.saved
      BY <1>0, <3>1, CliSavesLive
    <3>4. QED
      BY <3>2, <3>3 DEF CliNews
  <2>3. QED
    BY <2>1, <2>2
<1>13. CliTyped(T, S, none, K)' /\ CliAwaited(T)'
  BY <1>0, <1>1, <1>8, <1>10, <1>11, <1>12 DEF CliTyped, CliAwaited, OnlyOne
<1>14. x2.s \in S \cup {none} /\ x4 \in S \cup {none}
  BY <1>0 DEF CliTyped, CliLiveRows
<1>15. CliLinked(T, S, none)'
  BY <1>0, <1>1, <1>11, <1>12, <1>14 DEF CliLinked, SesCalm
<1>16. x6[t].state \notin BeforeItRuns
  BY <1>0, <1>1 DEF CliRun
<1>17. CliRun(T, S)'
  <2>1. ASSUME NEW u \in T
        PROVE /\ x6'[u].state \in BeforeItRuns =>
                   x6'[u].pump = "none" /\ ~x6'[u].over /\ ~x6'[u].beside /\ x6'[u].after = {}
              /\ x6'[u].over => x6'[u].pump = "done"
              /\ x6'[u].pump # "none" =>
                   /\ x6'[u].of \in S /\ x5'[x6'[u].of].used /\ x6'[u].conv \in T
                   /\ x1'.cli \notin {"qwen", "opencode"} /\ ~x6'[u].dropped /\ ~x5'[x6'[u].of].stale =>
                        x6'[u].approve = x6'[u].asks
    <3>1. CASE u = t
      <4>1. x6'[u] = p
        BY <1>10, <3>1 DEF OnlyOne
      <4>2. /\ x6[t].of \in S /\ x5[x6[t].of].used /\ x6[t].conv \in T
            /\ x1.cli \notin {"qwen", "opencode"} /\ ~x6[t].dropped /\ ~x5[x6[t].of].stale =>
                 x6[t].approve = x6[t].asks
        BY <1>0, <1>1 DEF CliRun
      <4>3. QED
        BY <1>8, <1>11, <1>12, <1>16, <4>1, <4>2 DEF SesCalm, AsStarted
    <3>2. CASE u # t
      <4>1. x6'[u] = x6[u]
        BY <1>10, <3>2 DEF OnlyOne
      <4>2. QED
        BY <1>0, <1>11, <1>12, <4>1 DEF CliRun, SesCalm
    <3>3. QED
      BY <3>1, <3>2
  <2>2. QED
    BY <2>1 DEF CliRun
<1>18. ASSUME ~CliApart(T, S)' PROVE CliOne(T, none)'
  <2>1. x6'[t] = p /\ \A u \in T : u # t => x6'[u] = x6[u]
    BY <1>10 DEF OnlyOne
  <2>2. CliOne(T, none)
    <3>1. \A u \in T : x6'[u].beside = x6[u].beside
      BY <1>8, <2>1 DEF AsStarted
    <3>2. QED
      BY <1>0, <1>11, <1>12, <1>18, <3>1 DEF CliApart, SesCalm
  <2>3. ~x6[t].over /\ \A u \in T : x6[u].pump = "reading" => u = t
    BY <1>0, <1>1, <2>2 DEF CliRun, CliOne
  <2>4. x2'.s # none => x2'.saved = x1'.saved
    BY <1>12, <2>2 DEF CliOne
  <2>5. \A u \in T : x6'[u].pump # "reading"
    BY <1>8, <2>1, <2>3
  <2>6. ASSUME NEW u \in T, x6'[u].over
        PROVE  x1'.saved = x6'[u].conv /\ (x4' # none => x5'[x4'].native = x6'[u].conv)
    <3>1. CASE u = t
      <4>1. o /\ p.conv = v
        BY <1>2, <1>8, <2>1, <2>6, <3>1 DEF AsStarted
      <4>2. x2.s = s /\ x5[s].native = v
        BY <1>2, <1>4, <4>1
      <4>3. x4 = s /\ x2.saved = x1.saved
        BY <1>0, <2>2, <4>2 DEF CliLinked, CliOne, CliPlace
      <4>4. x1'.saved = v
        BY <1>12, <4>1, <4>2, <4>3 DEF CliNews, CliPlace
      <4>5. QED
        BY <1>1, <1>11, <2>1, <3>1, <4>1, <4>2, <4>3, <4>4 DEF SesCalm
    <3>2. CASE u # t
      <4>1. x6'[u] = x6[u] /\ x6[u].over
        BY <2>1, <2>6, <3>2
      <4>2. x1.saved = x6[u].conv /\ (x4 # none => x5[x4].native = x6[u].conv)
        BY <2>2, <4>1 DEF CliOne
      <4>3. x2.s # none => x5[x2.s].native = x6[u].conv
        BY <1>0, <4>2 DEF CliLinked
      <4>4. x1'.saved = x6[u].conv
        BY <1>12, <4>2, <4>3
      <4>5. QED
        BY <1>1, <1>11, <1>14, <4>1, <4>2, <4>4 DEF SesCalm
    <3>3. QED
      BY <3>1, <3>2
  <2>7. ASSUME NEW u \in T, NEW a \in x6'[u].after
        PROVE  x6'[a].over /\ x6'[u].conv = x6'[a].conv
    <3>1. x6'[u].after = x6[u].after /\ x6'[u].conv = x6[u].conv
      BY <1>8, <2>1 DEF AsStarted
    <3>2. a \in T /\ x6[a].over /\ x6[u].conv = x6[a].conv
      BY <1>0, <2>2, <2>7, <3>1 DEF CliOne, CliProcs
    <3>3. QED
      BY <2>1, <2>3, <3>1, <3>2
  <2>8. QED
    BY <2>4, <2>5, <2>6, <2>7 DEF CliOne
<1>19. QED
  BY <1>13, <1>15, <1>17, <1>18 DEF CliInv

LEMMA CliBegins ==
  ASSUME NEW T, NEW S, NEW none, NEW K, NEW m, CliPlace(T, S, none, K),
         CliSes(T, S, none, m, K)!Init
  PROVE  CliInv(T, S, none, K)
<1>1. x1 \in CliRows(T, none, K) /\ x2 \in CliLiveRows(T, S, none) /\ x2.s = none /\ x3 = {} /\ x4 = none
  BY DEF CliSes!Init, CliSes!NoLive, CliRows, CliLiveRows, CliModes
<1>2. CliSes(T, S, none, m, K)!NoSession \in CliObjects(T, none)
  BY DEF CliSes!NoSession, CliObjects, CliModes
<1>3. CliSes(T, S, none, m, K)!NoProcess \in CliProcs(T, S, none)
  BY DEF CliSes!NoProcess, CliProcs, CliStates, BeforeItRuns
<1>4. CliTyped(T, S, none, K)
  BY <1>1, <1>2, <1>3 DEF CliSes!Init, CliTyped
<1>5. CliLinked(T, S, none)
  BY <1>1 DEF CliSes!Init, CliSes!NoSession, CliLinked
<1>6. /\ \A t \in T : /\ x6[t].state = "none" /\ x6[t].pump = "none" /\ ~x6[t].over
                      /\ ~x6[t].beside /\ x6[t].after = {}
  BY DEF CliSes!Init, CliSes!NoProcess
<1>7. CliRun(T, S) /\ CliAwaited(T)
  BY <1>1, <1>6 DEF CliRun, CliAwaited
<1>8. CliOne(T, none)
  BY <1>1, <1>6 DEF CliOne
<1>9. QED
  BY <1>4, <1>5, <1>7, <1>8 DEF CliInv

LEMMA CliKept ==
  ASSUME NEW T, NEW S, NEW none, NEW K, NEW m, CliPlace(T, S, none, K), CliInv(T, S, none, K),
         CliSes(T, S, none, m, K)!Next
  PROVE  CliInv(T, S, none, K)'
<1>1. CASE CliSes(T, S, none, m, K)!Commands
  BY <1>1, CliSetsMode, CliReaps, CliEnsures, CliSends, CliInterrupts DEF CliSes!Commands
<1>2. CASE CliSes(T, S, none, m, K)!Daemon
  BY <1>2, CliStarted, CliStartFails, CliSends, CliSpawns, CliReads, CliPumped, CliInterrupted,
     CliCloses DEF CliSes!Daemon, CliSes!Dispatch
<1>3. QED
  BY <1>1, <1>2 DEF CliSes!Next

LEMMA CliHolds ==
  ASSUME NEW T, NEW S, NEW none, NEW K, NEW m, CliInv(T, S, none, K)
  PROVE  CliSes(T, S, none, m, K)!SessionsFit
<1>1. CliSes(T, S, none, m, K)!ModeIsHonoured
  BY DEF CliInv, CliRun, CliSes!ModeIsHonoured, CliSes!Spawned, CliSes!HasFlag
<1>2. CliSes(T, S, none, m, K)!ConversationIsKept
  <2>1. \A u \in T : x6[u].after \subseteq T
    BY DEF CliInv, CliTyped, CliProcs
  <2>2. QED
    BY <2>1 DEF CliInv, CliApart, CliOne, CliSes!ConversationIsKept, CliSes!Resumes
<1>3. QED
  BY <1>1, <1>2 DEF CliSes!SessionsFit

LEMMA CliInduct ==
  ASSUME NEW T, NEW S, NEW none, NEW m, NEW K, CliPlace(T, S, none, K)
  PROVE  /\ CliSes(T, S, none, m, K)!Init => CliInv(T, S, none, K)
         /\ CliInv(T, S, none, K) /\ [CliSes(T, S, none, m, K)!Next]_(CliSes(T, S, none, m, K)!vars)
              => CliInv(T, S, none, K)'
         /\ CliInv(T, S, none, K) => CliSes(T, S, none, m, K)!SessionsFit
<1>1. CliInv(T, S, none, K) /\ UNCHANGED CliSes(T, S, none, m, K)!vars => CliInv(T, S, none, K)'
  BY DEF CliSes!vars, CliInv, CliTyped, CliLinked, CliRun, CliAwaited, CliApart, CliOne
<1>2. QED
  BY <1>1, CliBegins, CliKept, CliHolds

(* For any turns, session objects and changes of the mode, and every CLI    *)
(* that is run once per turn: a process has the flags of its thread's mode, *)
(* and the turns that ended are in one conversation, over all sessions that *)
(* were started, dropped, reaped or stopped between them.                   *)
THEOREM SessionsFitTurns ==
  ASSUME NEW CONSTANT T, NEW CONSTANT S, NEW CONSTANT none, NEW CONSTANT m, NEW CONSTANT K,
         CliPlace(T, S, none, K)
  PROVE  CliSes(T, S, none, m, K)!Spec => []CliSes(T, S, none, m, K)!SessionsFit
<1>1. CliSes(T, S, none, m, K)!Init => CliInv(T, S, none, K)
  BY CliInduct
<1>2. CliInv(T, S, none, K) /\ [CliSes(T, S, none, m, K)!Next]_(CliSes(T, S, none, m, K)!vars)
        => CliInv(T, S, none, K)'
  BY CliInduct
<1>3. CliInv(T, S, none, K) => CliSes(T, S, none, m, K)!SessionsFit
  BY CliInduct
<1>4. QED
  BY <1>1, <1>2, <1>3, PTL DEF CliSes!Spec
=============================================================================
